----------------------------- MODULE MCManifests -----------------------------
(***************************************************************************)
(* Small manifests: two packages, two versions, up to three declarations,  *)
(* scripts of up to four statements.                                       *)
(***************************************************************************)
EXTENDS ManifestAdapters

Declared(name, range, exact, marker, table, group) ==
    [name |-> name, range |-> range, exact |-> exact, marker |-> marker, table |-> table, group |-> group]

Runtime(range, exact, marker) == Declared("p", range, exact, marker, "runtime", "")

RuntimeLines ==
    {Runtime({1, 2}, 0, m) : m \in {"any", "m"}} \cup {Runtime({v}, v, m) : v \in {1, 2}, m \in Conditions}
      \cup {Runtime({2}, 0, "any")}

OtherLines ==
    {Declared("p", {1}, 1, "m", "build", ""), Declared("p", {2}, 2, "any", "optional", "extra"),
     Declared("q", {1, 2}, 0, "not-m", "test", "")}

NoIdentity == Declared("", {}, 0, "any", "runtime", "")

ManifestOf(format, flaws, lines, script, python, markers) ==
    [format |-> format, flaws |-> flaws, lines |-> lines, script |-> script,
     lists |-> <<{Runtime({1}, 1, "any")}, {Runtime({2}, 2, "any")}>>,
     identity |-> IF format = "METADATA" THEN Declared("p", {1}, 1, "any", "runtime", "") ELSE NoIdentity,
     python |-> python, markers |-> markers, edition |-> "2021"]

TableManifests ==
    {ManifestOf("pyproject", {}, {a, b, c}, <<>>, "active", "m") :
       a \in RuntimeLines, b \in RuntimeLines, c \in RuntimeLines \cup OtherLines}
      \cup {ManifestOf("setup.cfg", {}, {a, b}, <<>>, p, m) :
              a \in RuntimeLines, b \in OtherLines, p \in {"active", "inactive", "unknown"},
              m \in {"m", "not-m", "unknown"}}

FlawedManifests ==
    {ManifestOf(f, {x}, {Runtime({1}, 1, "any")}, <<>>, "active", "m") :
       f \in {"pyproject", "setup.cfg", "METADATA"}, x \in {"group", "identity", "reference or hash"}}

StatementOf(does, as, what, name, list) ==
    [does |-> does, as |-> as, what |-> what, value |-> [name |-> name, list |-> list]]

Statements ==
    {StatementOf("import", n, w, "", 0) : n \in {"s", "x"}, w \in {"setup", "module"}}
      \cup {StatementOf("assign", n, "", "", 1) : n \in {"s", "x"}} \cup {StatementOf("assign", "x", "", "", 2)}
      \cup {StatementOf("assign", "y", "", n, 0) : n \in {"s", "x"}}
      \cup {StatementOf("call", n, w, "x", 0) : n \in {"s", "y"}, w \in {"setup", "module"}}
      \cup {StatementOf("other", "", "", "", 0)}

Scripts ==
    {ManifestOf("setup.py", {}, {}, s, "active", "m") :
       s \in UNION {[1..n -> Statements] : n \in 0..3}
               \cup {<<a, b, c, d>> : a \in Statements, b \in Statements, c \in Statements,
                                      d \in {StatementOf("call", n, w, v, l) : n \in {"s"},
                                               w \in {"setup", "module"}, v \in {"y"}, l \in {0}}
                                              \cup {StatementOf("call", "s", "setup", "x", 0)}}}

OtherManifests ==
    {ManifestOf("package.json", {}, {a, b}, <<>>, "active", "m") :
       a \in {Runtime({1}, 1, "any"), Runtime({1, 2}, 0, "any")}, b \in OtherLines}
      \cup {[ManifestOf("Cargo.toml", {}, {a, b}, <<>>, "active", "m") EXCEPT !.edition = e] :
              a \in {Declared("p", {1, 2}, 0, "any", "legacy", "")},
              b \in OtherLines \cup RuntimeLines, e \in {"2021", "2024"}}
      \cup {ManifestOf("METADATA", {}, {a}, <<>>, "unknown", "unknown") : a \in RuntimeLines}

MCManifestFiles == TableManifests \cup FlawedManifests \cup Scripts \cup OtherManifests
=============================================================================
