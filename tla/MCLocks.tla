-------------------------------- MODULE MCLocks --------------------------------
(***************************************************************************)
(* Small lock files of every format, for the runs of Maintenance.          *)
(***************************************************************************)
EXTENDS LockSources

LOCAL Plain ==
    [name |-> "a", version |-> 1, source |-> 0, variant |-> 0, above |-> <<>>, descriptors |-> {},
     bare |-> FALSE, group |-> 0, scopes |-> {}, direct |-> FALSE, marker |-> "any",
     flaw |-> "none", refs |-> <<>>]

LOCAL To(name, range) ==
    [name |-> name, range |-> range, version |-> 0, source |-> 0, variant |-> 0,
     scope |-> "runtime", foreign |-> FALSE, marker |-> "any"]

LOCAL LockFile(format, rows, importers) ==
    [format |-> format, head |-> "sound", rows |-> rows, importers |-> importers]

(***************************************************************************)
(* npm: a and b at the top, b with packages of its own or without, where   *)
(* an entry may be refused.                                                *)
(***************************************************************************)
LOCAL NpmRefs ==
    {<<>>, <<To("a", {1})>>, <<To("a", {2}), To("c", {1})>>, <<[To("a", {1}) EXCEPT !.scope = "peer"]>>,
     <<To("a", {1, 2}), To("b", {1})>>, <<To("a", {})>>}

LOCAL NpmNested ==
    LET a(flaw) == [Plain EXCEPT !.above = <<"b">>, !.version = 2, !.flaw = flaw]
        c(refs) == [Plain EXCEPT !.name = "c", !.above = <<"b">>, !.refs = refs]
    IN {<<>>, <<a("version")>>, <<a("none")>>}
         \cup {<<a(f), c(r)>> : f \in {"none", "nested selection"}, r \in {<<To("a", {2})>>, <<To("b", {1})>>}}
         \cup {<<c(<<To("a", {1})>>), [a("none") EXCEPT !.above = <<"b", "c">>]>>}

LOCAL NpmLocks ==
    {LockFile("npm",
          <<[Plain EXCEPT !.flaw = f], [Plain EXCEPT !.name = "b", !.refs = r]>> \o n, <<i>>) :
        f \in {"none", "source"}, r \in NpmRefs, n \in NpmNested,
        i \in {<<>>, <<To("b", {1})>>, <<To("a", {1}), To("b", {2})>>}}

(***************************************************************************)
(* yarn: two rows of one name, and the descriptors they answer to.         *)
(***************************************************************************)
LOCAL YarnLocks ==
    LET d(range) == <<"a", range>>
        some == {{d({1})}, {d({2}), d({1, 2})}, {d({1}), d({})}, {d({})}}
        a(v, ds, f) == [Plain EXCEPT !.version = v, !.descriptors = ds, !.flaw = f]
        b(refs) == [Plain EXCEPT !.name = "b", !.descriptors = {<<"b", {1}>>}, !.refs = refs]
    IN {LockFile(format, <<a(1, x, f), a(2, y, "none"), b(r)>>, <<>>) :
          x \in some, y \in some, f \in {"none", "version"}, format \in YarnFormats,
          r \in {<<To("a", {1})>>, <<To("a", {1, 2}), To("a", {})>>,
                 <<[To("a", {2}) EXCEPT !.foreign = TRUE]>>, <<To("b", {1}), To("a", {2})>>}}

(***************************************************************************)
(* pnpm: three snapshots with links of either scope, two importers; a peer *)
(* variant; and tables that do not agree.                                  *)
(***************************************************************************)
LOCAL Chosen(name, variant, scope) ==
    [To(name, {1}) EXCEPT !.version = 1, !.variant = variant, !.scope = scope]

LOCAL Snapshot(name, variant, refs) ==
    [Plain EXCEPT !.name = name, !.variant = variant, !.refs = refs]

LOCAL InTable(name) == [Plain EXCEPT !.name = name, !.bare = TRUE]

LOCAL PnpmLinks(name) ==
    {<<>>} \cup {<<Chosen(name, 0, s)>> : s \in {"runtime", "optional"}}

LOCAL PnpmWalks ==
    {LockFile("pnpm",
          <<InTable("a"), InTable("b"), InTable("c"), Snapshot("a", 0, ab \o ac),
            Snapshot("b", 0, bc), Snapshot("c", 0, cb \o ca)>>, i) :
        ab \in PnpmLinks("b"), ac \in PnpmLinks("c"), bc \in PnpmLinks("c"),
        cb \in PnpmLinks("b"), ca \in PnpmLinks("a"),
        i \in {<<<<Chosen("a", 0, "runtime")>>, <<Chosen("c", 0, "runtime")>>>>,
               <<<<Chosen("a", 0, "runtime"), Chosen("c", 0, "optional")>>>>}}

LOCAL PnpmTables ==
    {LockFile("pnpm",
          <<[InTable("a") EXCEPT !.flaw = f], InTable("b"), Snapshot("a", 0, <<>>),
            [Snapshot("a", 1, r) EXCEPT !.flaw = g]>>, <<i>>) :
        f \in {"none", "source", "peers"}, g \in {"none", "reference"}, r \in {<<>>, <<Chosen("b", 0, "runtime")>>, <<Chosen("a", 0, "runtime")>>},
        i \in {<<Chosen("a", 1, "runtime")>>, <<[Chosen("a", 0, "runtime") EXCEPT !.range = {}]>>}}

(***************************************************************************)
(* Cargo: up to three rows of one name, and what a reference says of them. *)
(***************************************************************************)
LOCAL CargoLocks ==
    LET a(v, s, f) == [Plain EXCEPT !.version = v, !.source = s, !.flaw = f]
        ref(v, s) == [To("a", {}) EXCEPT !.version = v, !.source = s]
        more == {<<>>, <<a(2, 1, "none")>>, <<a(1, 2, "replaced")>>, <<a(1, 2, "none"), a(2, 1, "replaced")>>,
                 <<a(1, 1, "none")>>}
    IN {LockFile("cargo", <<a(1, 1, f), [Plain EXCEPT !.name = "b", !.refs = <<r>>]>> \o m, <<>>) :
          f \in {"none", "replaced"}, m \in more,
          r \in {ref(0, 0), ref(1, 0), ref(2, 0), ref(1, 1), ref(1, 2)}}

(***************************************************************************)
(* Python: two rows of one name that a marker, a group, extras or a source *)
(* may tell apart, and up to two references.                               *)
(***************************************************************************)
LOCAL PythonLocks ==
    LET first == [Plain EXCEPT !.source = 1]
        second == {[first EXCEPT !.version = 2], [first EXCEPT !.variant = 1],
                   [first EXCEPT !.source = 2], [first EXCEPT !.group = 1],
                   [first EXCEPT !.version = 2, !.marker = "not-m"]}
        some(format) == {x \in second : format # "uv" \/ x.group = 0}
        ref == {To("a", {1, 2}), [To("a", {1}) EXCEPT !.marker = "m"],
                [To("a", {2}) EXCEPT !.version = 2, !.marker = "not-m"],
                [To("a", {1, 2}) EXCEPT !.source = 2], [To("a", {1}) EXCEPT !.variant = 1]}
    IN UNION {{LockFile(format,
                 <<[first EXCEPT !.marker = m], other,
                   [Plain EXCEPT !.name = "b", !.group = g, !.refs = <<r>> \o more]>>, <<>>) :
                 m \in {"any", "m"}, other \in some(format), g \in (IF format = "uv" THEN {0} ELSE {0, 1}),
                 r \in ref, more \in {<<>>} \cup {<<q>> : q \in ref}} :
                format \in {"poetry", "pdm", "uv"}}

(***************************************************************************)
(* Formats whose rows a target, a section or configurations hold: rows of  *)
(* one name, which the tool may or may not have selected together.         *)
(***************************************************************************)
LOCAL SectionLocks ==
    LET a(v, g, scopes) == [Plain EXCEPT !.version = v, !.group = g, !.scopes = scopes]
        b(g, r) == [Plain EXCEPT !.name = "b", !.group = g, !.direct = TRUE, !.refs = r]
    IN {LockFile(format, <<a(1, 0, {"runtime"}), a(v, 0, s)>>, <<>>) :
          format \in {"gradle", "composer", "bundler"}, v \in {1, 2},
          s \in {{"runtime"}, {"compile"}, {"compile", "runtime"}}}
         \cup {LockFile("pipfile", <<a(1, 1, {}), a(v, g, {})>>, <<>>) : v \in {1, 2}, g \in {1, 2}}
         \cup {LockFile("nuget", <<a(1, 1, {}), a(v, g, {}), b(g, <<r>>)>>, <<>>) :
                 v \in {1, 2}, g \in {1, 2}, r \in {To("a", {1}), To("a", {1, 2}), To("c", {1})}}

(***************************************************************************)
(* Each flaw of each format on one row, and each head, before a row that   *)
(* depends on it.                                                          *)
(***************************************************************************)
LOCAL Flaws(format, bare) ==
    LET flaws == FlawsOf(format, bare)
    IN {"none"} \cup flaws.left \cup flaws.noted \cup flaws.refusing

LOCAL FlawLocks ==
    LET a(format, flaw) == [Plain EXCEPT !.flaw = flaw, !.bare = (format = "pnpm"),
                                         !.descriptors = IF format \in YarnFormats THEN {<<"a", {1}>>} ELSE {}]
        b(format) == [Plain EXCEPT !.name = "b", !.refs = IF format \in {"composer", "bundler", "gradle", "pipfile"}
                                                          THEN <<>> ELSE <<[To("a", {1}) EXCEPT !.version = 1]>>,
                                   !.descriptors = IF format \in YarnFormats THEN {<<"b", {1}>>} ELSE {}]
        more(format) == IF format = "pnpm" THEN <<Plain, [b(format) EXCEPT !.refs = <<>>, !.bare = TRUE]>> ELSE <<>>
        entry == [To("b", {1}) EXCEPT !.version = 1]
    IN UNION {{[LockFile(format, <<a(format, flaw), b(format)>> \o more(format),
                         IF format \in {"npm", "pnpm"} THEN <<<<entry>>>> ELSE <<>>) EXCEPT !.head = head] :
                 flaw \in Flaws(format, TRUE),
                 head \in {"sound", "refused"} \cup (IF format \in NotingFormats THEN {"noted"} ELSE {})} :
                format \in LockFormats}

MCLockFiles ==
    NpmLocks \cup YarnLocks \cup PnpmWalks \cup PnpmTables \cup CargoLocks \cup PythonLocks
      \cup SectionLocks \cup FlawLocks
=============================================================================
