-------------------------- MODULE ScanCommandProofs --------------------------
(***************************************************************************)
(* The command scan, for every tree, every set of options, ignore and      *)
(* policy rules, and however often it is run, killed or refused: what it   *)
(* stores, what it says of the last report, and what it does to Jira.      *)
(***************************************************************************)
EXTENDS ScanCommand, FiniteSetTheorems, TLAPS

-----------------------------------------------------------------------------
(* The synchronisation, whoever calls it and whenever it stops.            *)

\* An entry names an issue of its own fingerprint.
MapNames(m) == \A p \in Named(m) : issues[m[p]].of = p

\* What the two loops have done so far; a call that failed may have left anything undone.
LoopsSoFar ==
    /\ sync = "close" => stale \cap Reported = {} /\ stale \subseteq Entries(map)
    /\ sync = "create" => \/ failed
                          \/ \A f \in (asked \cap Severe) \ todo : Fingerprint[f] \in Entries(map)
    /\ sync = "close" /\ ~failed => Reported \subseteq Entries(map) /\ Named(map) \ Reported \subseteq stale
    /\ sync = "save" /\ ~failed => Reported \subseteq Entries(map) /\ Named(map) \subseteq Reported
    /\ SettledMapMatches

IssuesNamed == \A k \in Keys : issues[k].status # "none" => issues[k].of \in Fingerprints

SyncInv ==
    /\ SyncTypeOK
    /\ IssuesNamed /\ MapNames(map) /\ MapNames(saved)
    /\ LoopsSoFar
    /\ OpenIssuesAccounted

-----------------------------------------------------------------------------
(* The scan and its storage.                                               *)

\* What the JSON file at each path says of the last scan that stored its findings there.
ReportKept ==
    backend = "json" => \A p \in Paths :
        /\ path[p] \in {"absent", "torn", "whole"}
        /\ path[p] = "torn" <=> cut[p]
        /\ path[p] = "absent" => stored[p] = Nothing
        /\ path[p] = "whole" => report[p] = stored[p]

\* What a scan has worked out so far, from the findings it loaded.
Tracked ==
    /\ step # "idle" => now >= 1
    /\ backend = "json" /\ step \in {"scan", "tracked"} /\ ~cut[results_path] =>
          previous = stored[results_path]
    /\ step = "tracked" =>
          /\ fresh = Present(complete) \ Present(previous)
          /\ resolved = Present(previous) \ Present(complete)
          /\ \A f \in Present(complete) \cap Present(previous) : complete[f] = previous[f]

\* How far a scan with an output has come in storing.
Written ==
    /\ step \in {"report", "filled", "record"} => backend = "json"
    /\ step \in {"filled", "record"} => path[results_path] = "whole" /\ report[results_path] = complete
    /\ step = "rows" => backend = "sql" /\ now \in recorded

StoredWhole ==
    /\ backend = "json" => /\ path[results_path] = "whole" /\ report[results_path] = complete
                           /\ record[Folder[results_path]] = now
    /\ backend = "sql" => now \in recorded /\ \A f \in Present(complete) : rows[f] = complete[f]

HistoryInv == HistoryTypeOK /\ ReportKept /\ Tracked /\ Written

-----------------------------------------------------------------------------
(* The command.                                                            *)

CommandInv ==
    /\ pc \in {"idle", "scan", "jira", "gate"}
    /\ option \in Options
    /\ given \subseteq Findings
    /\ exit \in {-1, 0, 1, 2}
    /\ pc = "scan" <=> step # "idle"
    /\ pc # "idle" => exit = -1
    /\ pc # "idle" \/ exit = 0 => results_path = ResultsPath(option.output)
    /\ sync \in Running => pc = "jira" /\ asked = Reportable
    /\ option.output # NoPath /\ (step = "returned" \/ pc \in {"jira", "gate"} \/ exit = 0) => StoredWhole
    /\ exit = 0 /\ option.mode # "cedar" => ~PolicyFailed

IInv == HistoryInv /\ SyncInv /\ CommandInv

-----------------------------------------------------------------------------
(* What the steps of the synchronisation do to the issues.                 *)

IssueRecords == [of : Fingerprints \cup {None}, status : {"none", "open", "done"},
                 comments : 0..MaxComments]

\* An issue never changes its fingerprint, and never opens again.
IssuesKept ==
    /\ issues' \in [Keys -> IssueRecords]
    /\ \A k \in Keys : /\ issues[k].status # "none" => issues'[k].of = issues[k].of
                       /\ issues[k].of # None => issues'[k].of = issues[k].of
                       /\ issues'[k].status # "none" => issues'[k].of \in Fingerprints

LEMMA OpenedIs ==
    ASSUME SyncTypeOK, IssuesNamed, NEW p \in Fingerprints, NEW k \in Fresh, Opened(p, k)
    PROVE  /\ IssuesKept
           /\ k \in Keys /\ issues[k].of = None /\ issues'[k].of = p /\ issues'[k].status = "open"
           /\ \A j \in Keys \ {k} : issues'[j] = issues[j]
<1>1. k \in Keys /\ issues[k] = NoIssue
  BY DEF Fresh
<1>2. issues[k].of = None /\ issues[k].status = "none"
  BY <1>1 DEF NoIssue, Issue
<1>3. Issue(p, "open", 0) \in IssueRecords
  BY SyncAssumption DEF Issue, IssueRecords
<1>4. issues \in [Keys -> IssueRecords]
  BY DEF SyncTypeOK, IssueRecords
<1>5. /\ issues' \in [Keys -> IssueRecords] /\ issues'[k] = Issue(p, "open", 0)
      /\ \A j \in Keys \ {k} : issues'[j] = issues[j]
  BY <1>1, <1>3, <1>4 DEF Opened
<1>6. issues'[k].of = p /\ issues'[k].status = "open"
  BY <1>5 DEF Issue
<1>. QED  BY <1>1, <1>2, <1>5, <1>6 DEF IssuesKept, IssuesNamed

LEMMA CommentedIs ==
    ASSUME SyncTypeOK, IssuesNamed, NEW k \in Keys, issues' = Commented(k)
    PROVE  /\ IssuesKept
           /\ \A j \in Keys : issues'[j].status = issues[j].status /\ issues'[j].of = issues[j].of
<1>. DEFINE more == IF issues[k].comments < MaxComments THEN issues[k].comments + 1 ELSE issues[k].comments
<1>1. issues \in [Keys -> IssueRecords]
  BY DEF SyncTypeOK, IssueRecords
<1>2. more \in 0..MaxComments
  BY <1>1, SyncAssumption DEF IssueRecords
<1>3. issues' = [issues EXCEPT ![k] = [issues[k] EXCEPT !.comments = more]]
  BY <1>1 DEF Commented
<1>. HIDE DEF more
<1>4. /\ [issues[k] EXCEPT !.comments = more] \in IssueRecords
      /\ [issues[k] EXCEPT !.comments = more].status = issues[k].status
      /\ [issues[k] EXCEPT !.comments = more].of = issues[k].of
  BY <1>1, <1>2 DEF IssueRecords
<1>5. /\ issues' \in [Keys -> IssueRecords]
      /\ \A j \in Keys : issues'[j].status = issues[j].status /\ issues'[j].of = issues[j].of
  BY <1>1, <1>3, <1>4
<1>. QED  BY <1>5 DEF IssuesKept, IssuesNamed

LEMMA DoneIs ==
    ASSUME SyncTypeOK, IssuesNamed, NEW k \in Keys, issues[k].of \in Fingerprints, Done(k)
    PROVE  /\ IssuesKept
           /\ issues'[k].of = issues[k].of /\ issues'[k].status = "done"
           /\ \A j \in Keys \ {k} : issues'[j] = issues[j]
<1>1. issues \in [Keys -> IssueRecords]
  BY DEF SyncTypeOK, IssueRecords
<1>2. issues' = [issues EXCEPT ![k] = [issues[k] EXCEPT !.status = "done"]]
  BY DEF Done
<1>3. /\ [issues[k] EXCEPT !.status = "done"] \in IssueRecords
      /\ [issues[k] EXCEPT !.status = "done"].status = "done"
      /\ [issues[k] EXCEPT !.status = "done"].of = issues[k].of
  BY <1>1 DEF IssueRecords
<1>4. /\ issues' \in [Keys -> IssueRecords]
      /\ issues'[k].of = issues[k].of /\ issues'[k].status = "done"
      /\ \A j \in Keys \ {k} : issues'[j] = issues[j]
  BY <1>1, <1>2, <1>3
<1>. QED  BY <1>4 DEF IssuesKept, IssuesNamed

LEMMA SameIssues ==
    ASSUME SyncTypeOK, IssuesNamed, UNCHANGED issues
    PROVE  IssuesKept
BY DEF IssuesKept, IssuesNamed, SyncTypeOK, IssueRecords

\* So entries that named their issues go on doing so.
NamedAfter(m) == \A p \in Named(m) : issues'[m[p]].of = p

LEMMA NamesStay ==
    ASSUME SyncInv, IssuesKept
    PROVE  IssuesNamed' /\ NamedAfter(map) /\ NamedAfter(saved) /\ NamedAfter(NoEntries)
<1>1. ASSUME NEW m \in Maps, MapNames(m), NEW p \in Named(m)
      PROVE  issues'[m[p]].of = p
  <2>1. m[p] \in Keys /\ issues[m[p]].of = p /\ p # None
    BY <1>1, SyncAssumption DEF Named, MapNames
  <2>. QED  BY <2>1 DEF IssuesKept
<1>2. map \in Maps /\ saved \in Maps /\ MapNames(map) /\ MapNames(saved)
  BY DEF SyncInv, SyncTypeOK
<1>3. IssuesNamed'
  BY DEF IssuesKept, IssuesNamed
<1>. QED  BY <1>1, <1>2, <1>3 DEF NamedAfter, NoEntries, Named, Keys

-----------------------------------------------------------------------------
(* The first loop.                                                         *)

LEMMA SyncBeginKeeps == ASSUME SyncInv, NEW F \in SUBSET Findings, SyncBegin(F) PROVE SyncInv'
<1>1. /\ sync = "idle" /\ sync' = "create" /\ asked' = F /\ todo' = F \cap Severe
      /\ map' = (IF torn THEN NoEntries ELSE saved) /\ failed' = FALSE
      /\ UNCHANGED <<stale, closing, saved, torn, issues, lost>>
  BY DEF SyncBegin
<1>2. SyncTypeOK /\ NoEntries \in Maps
  BY DEF SyncInv, NoEntries, Maps
<1>3. SyncTypeOK'
  BY <1>1, <1>2 DEF SyncTypeOK, Running
<1>4. IssuesNamed' /\ MapNames(map)' /\ MapNames(saved)'
  BY <1>1 DEF SyncInv, IssuesNamed, MapNames, NoEntries, Named, Keys
<1>5. LoopsSoFar'
  BY <1>1 DEF LoopsSoFar, Severe, SettledMapMatches
<1>6. OpenIssuesAccounted'
  BY <1>1, <1>2 DEF SyncInv, OpenIssuesAccounted, Known, Running, NoEntries, IssuesNamed
<1>. QED  BY <1>3, <1>4, <1>5, <1>6 DEF SyncInv

LEMMA SkipExistingKeeps == ASSUME SyncInv, NEW f \in Findings, SkipExisting(f) PROVE SyncInv'
<1>1. /\ sync = "create" /\ f \in todo /\ Fingerprint[f] \in Named(map) /\ todo' = todo \ {f}
      /\ UNCHANGED <<sync, asked, stale, closing, map, saved, torn, issues, failed, lost>>
  BY DEF SkipExisting
<1>2. Fingerprint[f] \in Fingerprints
  BY FindingsAssumption
<1>3. SyncTypeOK'
  BY <1>1 DEF SyncInv, SyncTypeOK
<1>4. IssuesNamed' /\ MapNames(map)' /\ MapNames(saved)' /\ OpenIssuesAccounted'
  BY <1>1 DEF SyncInv, IssuesNamed, MapNames, Named, OpenIssuesAccounted, Known
<1>5. LoopsSoFar'
  <2>1. Fingerprint[f] \in Entries(map)
    BY <1>1, <1>2 DEF Entries, Named, Keys
  <2>. QED  BY <1>1, <2>1 DEF SyncInv, LoopsSoFar, Entries, SettledMapMatches
<1>. QED  BY <1>3, <1>4, <1>5 DEF SyncInv

LEMMA CreateIssueKeeps == ASSUME SyncInv, NEW f \in Findings, CreateIssue(f) PROVE SyncInv'
<1>. DEFINE p == Fingerprint[f]
<1>1. PICK k \in Fresh :
        /\ Opened(p, k) /\ map' = [map EXCEPT ![p] = k]
  BY DEF CreateIssue
<1>2. /\ sync = "create" /\ f \in todo /\ p \notin Named(map) /\ todo' = todo \ {f}
      /\ UNCHANGED <<sync, asked, stale, closing, saved, torn, failed, lost>>
  BY DEF CreateIssue, Creating
<1>3. p \in Fingerprints /\ p # None
  BY FindingsAssumption, SyncAssumption
<1>. HIDE DEF p
<1>4. SyncTypeOK /\ map \in Maps /\ saved \in Maps
  BY DEF SyncInv, SyncTypeOK
<1>5. /\ IssuesKept
      /\ k \in Keys /\ issues[k].of = None /\ issues'[k].of = p /\ issues'[k].status = "open"
      /\ \A j \in Keys \ {k} : issues'[j] = issues[j]
  BY <1>1, <1>3, <1>4, OpenedIs DEF SyncInv
<1>6. map' \in Maps /\ map'[p] = k /\ \A q \in Fingerprints \ {p} : map'[q] = map[q]
  <2>1. map' = [map EXCEPT ![p] = k] /\ k \in Keys
    BY <1>1, <1>5
  <2>. QED  BY <1>3, <1>4, <2>1 DEF Maps
<1>7. SyncTypeOK'
  BY <1>2, <1>4, <1>5, <1>6 DEF SyncTypeOK, IssuesKept, IssueRecords
<1>8. IssuesNamed' /\ MapNames(map)' /\ MapNames(saved)'
  BY <1>2, <1>5, <1>6, NamesStay DEF NamedAfter, MapNames, Named
<1>9. LoopsSoFar'
  <2>1. Entries(map)' = Entries(map) \cup {p}
    BY <1>3, <1>5, <1>6 DEF Entries, Keys
  <2>. QED  BY <1>2, <2>1 DEF SyncInv, LoopsSoFar, SettledMapMatches, p
<1>10. OpenIssuesAccounted'
  <2>. SUFFICES ASSUME NEW j \in Keys, issues'[j].status = "open", j \notin lost PROVE map'[issues'[j].of] = j
    BY <1>2 DEF OpenIssuesAccounted, Known, Running
  <2>1. CASE j = k
    BY <2>1, <1>5, <1>6
  <2>2. CASE j # k
    <3>1. issues'[j] = issues[j] /\ issues[j].of \in Fingerprints
      BY <2>2, <1>5 DEF SyncInv, IssuesNamed
    <3>2. map[issues[j].of] = j
      BY <1>2, <3>1 DEF SyncInv, OpenIssuesAccounted, Known, Running
    <3>3. issues[j].of # p
      BY <1>2, <1>3, <3>2 DEF Named
    <3>. QED  BY <1>6, <3>1, <3>2, <3>3
  <2>. QED  BY <2>1, <2>2
<1>. QED  BY <1>7, <1>8, <1>9, <1>10 DEF SyncInv

\* The issue of an answer without a key is lost, and the entry names none.
LEMMA CreateKeylessKeeps == ASSUME SyncInv, NEW f \in Findings, CreateKeyless(f) PROVE SyncInv'
<1>. DEFINE p == Fingerprint[f]
<1>1. PICK k \in Fresh : Opened(p, k) /\ lost' = lost \cup {k}
  BY DEF CreateKeyless
<1>2. /\ sync = "create" /\ f \in todo /\ p \notin Named(map) /\ todo' = todo \ {f}
      /\ map' = [map EXCEPT ![p] = Keyless]
      /\ UNCHANGED <<sync, asked, stale, closing, saved, torn, failed>>
  BY DEF CreateKeyless, Creating
<1>3. p \in Fingerprints
  BY FindingsAssumption
<1>. HIDE DEF p
<1>4. SyncTypeOK /\ map \in Maps /\ saved \in Maps
  BY DEF SyncInv, SyncTypeOK
<1>5. IssuesKept /\ k \in Keys /\ \A j \in Keys \ {k} : issues'[j] = issues[j]
  BY <1>1, <1>3, <1>4, OpenedIs DEF SyncInv
<1>6. map' \in Maps /\ map'[p] = Keyless /\ \A q \in Fingerprints \ {p} : map'[q] = map[q]
  BY <1>2, <1>3, <1>4 DEF Maps
<1>7. Keyless # 0 /\ Keyless \notin Keys
  BY DEF Keyless, Keys
<1>8. SyncTypeOK'
  BY <1>1, <1>2, <1>4, <1>5, <1>6 DEF SyncTypeOK, IssuesKept, IssueRecords
<1>9. IssuesNamed' /\ MapNames(map)' /\ MapNames(saved)'
  BY <1>2, <1>5, <1>6, <1>7, NamesStay DEF NamedAfter, MapNames, Named
<1>10. LoopsSoFar'
  <2>1. Entries(map)' = Entries(map) \cup {p}
    BY <1>3, <1>6, <1>7 DEF Entries
  <2>. QED  BY <1>2, <2>1 DEF SyncInv, LoopsSoFar, SettledMapMatches, p
<1>11. OpenIssuesAccounted'
  <2>. SUFFICES ASSUME NEW j \in Keys, issues'[j].status = "open", j \notin lost'
                PROVE  map'[issues'[j].of] = j
    BY <1>2 DEF OpenIssuesAccounted, Known, Running
  <2>1. j # k /\ j \notin lost /\ issues'[j] = issues[j] /\ issues[j].of \in Fingerprints
    BY <1>1, <1>5 DEF SyncInv, IssuesNamed
  <2>2. map[issues[j].of] = j
    BY <1>2, <2>1 DEF SyncInv, OpenIssuesAccounted, Known, Running
  <2>3. issues[j].of # p
    BY <1>2, <1>3, <2>2 DEF Named
  <2>. QED  BY <1>6, <2>1, <2>2, <2>3
<1>. QED  BY <1>8, <1>9, <1>10, <1>11 DEF SyncInv

LEMMA CreateFailsKeeps == ASSUME SyncInv, NEW f \in Findings, CreateFails(f) PROVE SyncInv'
<1>1. /\ sync = "create" /\ todo' = todo \ {f} /\ failed' = TRUE
      /\ UNCHANGED <<sync, asked, stale, closing, map, saved, torn>>
  BY DEF CreateFails, Creating
<1>2. /\ IssuesKept /\ lost \subseteq lost' /\ lost' \subseteq Keys
      /\ \A j \in Keys : issues'[j].status = "open" /\ j \notin lost' => issues'[j] = issues[j]
  <2>1. CASE UNCHANGED <<issues, lost>>
    BY <2>1, SameIssues DEF SyncInv, SyncTypeOK
  <2>2. ASSUME NEW k \in Fresh, Opened(Fingerprint[f], k), lost' = lost \cup {k}
        PROVE  <1>2!1 /\ <1>2!2
    <3>1. Fingerprint[f] \in Fingerprints
      BY FindingsAssumption
    <3>2. k \in Keys /\ IssuesKept /\ \A j \in Keys \ {k} : issues'[j] = issues[j]
      BY <2>2, <3>1, OpenedIs DEF SyncInv
    <3>. QED  BY <2>2, <3>2 DEF SyncInv, SyncTypeOK
  <2>. QED  BY <2>1, <2>2 DEF CreateFails
<1>3. SyncTypeOK'
  BY <1>1, <1>2 DEF SyncInv, SyncTypeOK, IssuesKept, IssueRecords
<1>4. IssuesNamed' /\ MapNames(map)' /\ MapNames(saved)'
  BY <1>1, <1>2, NamesStay DEF NamedAfter, MapNames, Named
<1>5. LoopsSoFar'
  BY <1>1 DEF LoopsSoFar, SettledMapMatches
<1>6. OpenIssuesAccounted'
  BY <1>1, <1>2 DEF SyncInv, OpenIssuesAccounted, Known
<1>. QED  BY <1>3, <1>4, <1>5, <1>6 DEF SyncInv

LEMMA BeginClosingKeeps == ASSUME SyncInv, BeginClosing PROVE SyncInv'
<1>1. /\ sync = "create" /\ todo = {} /\ sync' = "close" /\ stale' = Entries(map) \ Reported
      /\ UNCHANGED <<asked, todo, closing, map, saved, torn, issues, failed, lost>>
  BY DEF BeginClosing
<1>2. SyncTypeOK'
  BY <1>1 DEF SyncInv, SyncTypeOK, Running, Entries
<1>3. IssuesNamed' /\ MapNames(map)' /\ MapNames(saved)' /\ OpenIssuesAccounted'
  BY <1>1 DEF SyncInv, IssuesNamed, MapNames, Named, OpenIssuesAccounted, Known, Running
<1>4. Reported' = Reported /\ Entries(map)' = Entries(map) /\ Named(map)' = Named(map)
  BY <1>1 DEF Reported, Entries, Named
<1>5. ~failed => Reported \subseteq Entries(map)
  BY <1>1 DEF SyncInv, LoopsSoFar, Reported, FingerprintsOf
<1>6. Named(map) \subseteq Entries(map)
  BY DEF Named, Entries, Keys
<1>7. LoopsSoFar'
  BY <1>1, <1>4, <1>5, <1>6 DEF LoopsSoFar, SettledMapMatches
<1>. QED  BY <1>2, <1>3, <1>7 DEF SyncInv

-----------------------------------------------------------------------------
(* The second loop.                                                        *)

\* The issue of a stale entry, if it names one, is of that fingerprint.
LEMMA StaleNamed ==
    ASSUME SyncInv, NEW p, ToClose(p)
    PROVE  /\ sync = "close" /\ p \in stale /\ p \in Fingerprints /\ map[p] \in Keys
           /\ issues[map[p]].of = p /\ p \notin Reported
BY DEF ToClose, SyncInv, SyncTypeOK, LoopsSoFar, Named, MapNames

LEMMA LeaveKeylessKeeps == ASSUME SyncInv, NEW p \in Fingerprints, LeaveKeyless(p) PROVE SyncInv'
<1>1. /\ sync = "close" /\ p \in stale /\ p \notin Named(map) /\ stale' = stale \ {p}
      /\ UNCHANGED <<sync, asked, todo, closing, map, saved, torn, issues, failed, lost>>
  BY DEF LeaveKeyless
<1>2. SyncTypeOK'
  BY <1>1 DEF SyncInv, SyncTypeOK
<1>3. IssuesNamed' /\ MapNames(map)' /\ MapNames(saved)' /\ OpenIssuesAccounted'
  BY <1>1 DEF SyncInv, IssuesNamed, MapNames, Named, OpenIssuesAccounted, Known
<1>4. Entries(map)' = Entries(map) /\ Named(map)' = Named(map) /\ Reported' = Reported
  BY <1>1 DEF Entries, Named, Reported
<1>5. LoopsSoFar'
  BY <1>1, <1>4 DEF SyncInv, LoopsSoFar, SettledMapMatches
<1>. QED  BY <1>2, <1>3, <1>5 DEF SyncInv

LEMMA CommentKeeps == ASSUME SyncInv, NEW p \in Fingerprints, Comment(p) PROVE SyncInv'
<1>0. ToClose(p)
  BY DEF Comment
<1>1. /\ sync = "close" /\ p \in stale /\ closing' = p
      /\ failed' \in BOOLEAN /\ (failed => failed')
      /\ issues' = Commented(map[p]) \/ UNCHANGED issues
      /\ UNCHANGED <<sync, asked, todo, stale, map, saved, torn, lost>>
  <2>1. failed \in BOOLEAN
    BY DEF SyncInv, SyncTypeOK
  <2>a. failed' = failed \/ failed' = TRUE
    BY Zenon DEF Comment
  <2>2. failed' \in BOOLEAN /\ (failed => failed')
    <3>1. CASE failed' = failed
      BY <2>1, <3>1
    <3>2. CASE failed' = TRUE
      BY <3>2
    <3>. QED  BY <2>a, <3>1, <3>2
  <2>. QED  BY <2>2, Zenon DEF Comment, ToClose
<1>2. map[p] \in Keys
  BY <1>0, StaleNamed
<1>3. /\ IssuesKept
      /\ \A j \in Keys : issues'[j].status = issues[j].status /\ issues'[j].of = issues[j].of
  BY <1>1, <1>2, CommentedIs, SameIssues DEF SyncInv
<1>4. SyncTypeOK'
  BY <1>1, <1>3 DEF SyncInv, SyncTypeOK, IssuesKept, IssueRecords
<1>5. IssuesNamed' /\ MapNames(map)' /\ MapNames(saved)'
  BY <1>1, <1>3, NamesStay DEF NamedAfter, MapNames, Named
<1>6. LoopsSoFar'
  BY <1>1 DEF SyncInv, LoopsSoFar, Entries, Named, Reported, SettledMapMatches
<1>7. OpenIssuesAccounted'
  BY <1>1, <1>3 DEF SyncInv, OpenIssuesAccounted, Known
<1>. QED  BY <1>4, <1>5, <1>6, <1>7 DEF SyncInv

LEMMA TransitionKeeps == ASSUME SyncInv, NEW p \in Fingerprints, Transition(p) PROVE SyncInv'
<1>0. ToClose(p)
  BY DEF Transition
<1>1. /\ sync = "close" /\ p \in stale /\ Done(map[p]) /\ map' = [map EXCEPT ![p] = 0]
      /\ stale' = stale \ {p} /\ closing' = None
      /\ UNCHANGED <<sync, asked, todo, saved, torn, failed, lost>>
  BY <1>0, StaleNamed DEF Transition
<1>2. map[p] \in Keys /\ issues[map[p]].of = p /\ p \notin Reported
  BY <1>0, StaleNamed
<1>3. /\ IssuesKept /\ issues'[map[p]].status = "done"
      /\ \A j \in Keys \ {map[p]} : issues'[j] = issues[j]
  BY <1>1, <1>2, DoneIs DEF SyncInv
<1>4. map \in Maps /\ map' \in Maps /\ map'[p] = 0 /\ \A q \in Fingerprints \ {p} : map'[q] = map[q]
  BY <1>1 DEF SyncInv, SyncTypeOK, Maps
<1>5. SyncTypeOK'
  BY <1>1, <1>3, <1>4 DEF SyncInv, SyncTypeOK, IssuesKept, IssueRecords
<1>6. IssuesNamed' /\ MapNames(map)' /\ MapNames(saved)'
  BY <1>1, <1>3, <1>4, NamesStay DEF NamedAfter, MapNames, Named, Keys
<1>7. LoopsSoFar'
  <2>1. /\ Entries(map)' = Entries(map) \ {p} /\ Named(map)' = Named(map) \ {p}
        /\ Reported' = Reported
    BY <1>1, <1>4 DEF Entries, Named, Keys, Reported
  <2>. QED  BY <1>1, <1>2, <2>1 DEF SyncInv, LoopsSoFar, SettledMapMatches
<1>8. OpenIssuesAccounted'
  <2>. SUFFICES ASSUME NEW j \in Keys, issues'[j].status = "open", j \notin lost PROVE map'[issues'[j].of] = j
    BY <1>1 DEF OpenIssuesAccounted, Known, Running
  <2>1. issues'[j] = issues[j] /\ j # map[p]
    BY <1>3
  <2>2. issues[j].of \in Fingerprints /\ map[issues[j].of] = j
    BY <1>1, <2>1 DEF SyncInv, IssuesNamed, OpenIssuesAccounted, Known, Running
  <2>. QED  BY <1>4, <2>1, <2>2
<1>. QED  BY <1>5, <1>6, <1>7, <1>8 DEF SyncInv

LEMMA TransitionFailsKeeps == ASSUME SyncInv, NEW p \in Fingerprints, TransitionFails(p) PROVE SyncInv'
<1>0. ToClose(p)
  BY DEF TransitionFails
<1>1. /\ sync = "close" /\ p \in stale /\ (UNCHANGED issues \/ Done(map[p]))
      /\ stale' = stale \ {p} /\ closing' = None /\ failed' = TRUE
      /\ UNCHANGED <<sync, asked, todo, map, saved, torn, lost>>
  BY <1>0, StaleNamed DEF TransitionFails
<1>2. map[p] \in Keys /\ issues[map[p]].of = p /\ p \notin Reported
  BY <1>0, StaleNamed
<1>3. IssuesKept /\ \A j \in Keys : issues'[j].status = "open" => issues'[j] = issues[j]
  BY <1>1, <1>2, DoneIs, SameIssues DEF SyncInv
<1>4. SyncTypeOK'
  BY <1>1, <1>3 DEF SyncInv, SyncTypeOK, IssuesKept, IssueRecords
<1>5. IssuesNamed' /\ MapNames(map)' /\ MapNames(saved)'
  BY <1>1, <1>3, NamesStay DEF NamedAfter, MapNames, Named
<1>6. LoopsSoFar'
  BY <1>1 DEF SyncInv, LoopsSoFar, Entries, Named, Reported, SettledMapMatches
<1>7. OpenIssuesAccounted'
  BY <1>1, <1>3 DEF SyncInv, OpenIssuesAccounted, Known
<1>. QED  BY <1>4, <1>5, <1>6, <1>7 DEF SyncInv

-----------------------------------------------------------------------------
(* Saving, and what goes wrong.                                            *)

LEMMA OpenMapKeeps == ASSUME SyncInv, OpenMap PROVE SyncInv'
<1>1. /\ sync = "close" /\ stale = {} /\ sync' = "save" /\ torn' = TRUE
      /\ UNCHANGED <<asked, todo, stale, closing, map, saved, issues, failed, lost>>
  BY DEF OpenMap
<1>2. SyncTypeOK'
  BY <1>1 DEF SyncInv, SyncTypeOK, Running
<1>3. IssuesNamed' /\ MapNames(map)' /\ MapNames(saved)' /\ OpenIssuesAccounted'
  BY <1>1 DEF SyncInv, IssuesNamed, MapNames, Named, OpenIssuesAccounted, Known, Running
<1>4. LoopsSoFar'
  <2>1. ~failed => Reported \subseteq Entries(map) /\ Named(map) \subseteq Reported
    BY <1>1 DEF SyncInv, LoopsSoFar
  <2>. QED  BY <1>1, <2>1 DEF LoopsSoFar, Entries, Named, Reported, SettledMapMatches
<1>. QED  BY <1>2, <1>3, <1>4 DEF SyncInv

LEMMA WriteMapKeeps == ASSUME SyncInv, WriteMap PROVE SyncInv'
<1>1. /\ sync = "save" /\ sync' = "returned" /\ saved' = map /\ torn' = FALSE
      /\ UNCHANGED <<asked, todo, stale, closing, map, issues, failed, lost>>
  BY DEF WriteMap
<1>2. SyncTypeOK'
  BY <1>1 DEF SyncInv, SyncTypeOK, Running
<1>3. IssuesNamed' /\ MapNames(map)' /\ MapNames(saved)' /\ OpenIssuesAccounted'
  BY <1>1 DEF SyncInv, IssuesNamed, MapNames, Named, OpenIssuesAccounted, Known, Running
<1>4. LoopsSoFar'
  BY <1>1 DEF SyncInv, LoopsSoFar, Entries, Named, Reported, SettledMapMatches
<1>. QED  BY <1>2, <1>3, <1>4 DEF SyncInv

\* The locals of a sync that stops are gone, and with them the entries the file lacks.
LEMMA ForgettingKeeps ==
    ASSUME SyncInv, sync' \notin Running \cup {"returned"}, sync' \in {"idle", "raised"},
           Forgotten, UNCHANGED <<saved, torn, failed>>,
           lost \cup (IF sync \in Running THEN Unsaved(map) ELSE {}) \subseteq lost', lost' \subseteq Keys,
           IssuesKept,
           \A j \in Keys : issues'[j].status = "open" /\ j \notin lost' =>
               issues'[j].of = issues[j].of /\ issues[j].status = "open"
    PROVE  SyncInv'
<1>1. NoEntries \in Maps
  BY DEF NoEntries, Maps
<1>2. SyncTypeOK'
  BY <1>1 DEF SyncInv, SyncTypeOK, Forgotten, IssuesKept, IssueRecords
<1>3. IssuesNamed' /\ MapNames(map)' /\ MapNames(saved)'
  BY NamesStay DEF NamedAfter, MapNames, Named, Forgotten
<1>4. LoopsSoFar'
  BY DEF LoopsSoFar, Running, SettledMapMatches
<1>5. OpenIssuesAccounted'
  <2>. SUFFICES ASSUME NEW j \in Keys, issues'[j].status = "open", j \notin lost'
                PROVE  ~torn /\ saved[issues'[j].of] = j
    BY DEF OpenIssuesAccounted, Known, Running
  <2>1. /\ issues'[j].of = issues[j].of /\ issues[j].of \in Fingerprints /\ j \notin lost
        /\ issues[j].status = "open" /\ Known(j)
    BY DEF SyncInv, OpenIssuesAccounted, IssuesNamed
  <2>2. CASE sync \in Running
    <3>1. map[issues[j].of] = j /\ issues[j].of \in Named(map)
      BY <2>1, <2>2 DEF Known, Named
    <3>2. j \notin Unsaved(map)
      BY <2>2
    <3>. QED  BY <2>1, <3>1, <3>2 DEF Unsaved
  <2>3. CASE sync \notin Running
    BY <2>1, <2>3 DEF Known
  <2>. QED  BY <2>2, <2>3
<1>. QED  BY <1>2, <1>3, <1>4, <1>5 DEF SyncInv

LEMMA UnsavedKeys == ASSUME SyncInv PROVE Unsaved(map) \subseteq Keys
BY DEF Unsaved, Named

LEMMA SaveFailsKeeps == ASSUME SyncInv, SaveFails PROVE SyncInv'
<1>1. /\ sync' = "raised" /\ Forgotten /\ lost' = lost \cup Unsaved(map)
      /\ UNCHANGED <<saved, torn, failed, issues>>
  BY DEF SaveFails, Stopped
<1>2. lost' \subseteq Keys
  BY <1>1, UnsavedKeys DEF SyncInv, SyncTypeOK
<1>3. IssuesKept
  BY <1>1, SameIssues DEF SyncInv
<1>. QED  BY <1>1, <1>2, <1>3, ForgettingKeeps DEF Running

LEMMA CallRaisesKeeps == ASSUME SyncInv, CallRaises PROVE SyncInv'
<1>1. sync' = "raised" /\ Forgotten /\ UNCHANGED <<saved, torn, failed>>
  BY DEF CallRaises
<1>2. /\ lost \cup Unsaved(map) \subseteq lost' /\ lost' \subseteq Keys /\ IssuesKept
      /\ \A j \in Keys : issues'[j].status = "open" /\ j \notin lost' =>
             issues'[j].of = issues[j].of /\ issues[j].status = "open"
  <2>1. ASSUME NEW f \in todo, NEW k \in Fresh, Opened(Fingerprint[f], k),
               lost' = lost \cup {k} \cup Unsaved(map)
        PROVE  <1>2
    <3>1. Fingerprint[f] \in Fingerprints
      BY FindingsAssumption DEF SyncInv, SyncTypeOK
    <3>2. k \in Keys /\ IssuesKept /\ \A j \in Keys \ {k} : issues'[j] = issues[j]
      BY <2>1, <3>1, OpenedIs DEF SyncInv
    <3>. QED  BY <2>1, <3>2, UnsavedKeys DEF SyncInv, SyncTypeOK
  <2>2. ASSUME NEW p \in stale, ToClose(p), lost' = lost \cup Unsaved(map),
               issues' = Commented(map[p]) \/ UNCHANGED issues \/ Done(map[p])
        PROVE  <1>2
    <3>1. map[p] \in Keys /\ issues[map[p]].of = p /\ p \in Fingerprints
      BY <2>2, StaleNamed
    <3>2. CASE issues' = Commented(map[p]) \/ UNCHANGED issues
      <4>1. /\ IssuesKept
            /\ \A j \in Keys : issues'[j].status = issues[j].status /\ issues'[j].of = issues[j].of
        BY <3>1, <3>2, CommentedIs, SameIssues DEF SyncInv
      <4>. QED  BY <2>2, <4>1, UnsavedKeys DEF SyncInv, SyncTypeOK
    <3>3. CASE Done(map[p])
      <4>1. /\ IssuesKept /\ issues'[map[p]].status = "done"
            /\ \A j \in Keys \ {map[p]} : issues'[j] = issues[j]
        BY <3>1, <3>3, DoneIs DEF SyncInv
      <4>. QED  BY <2>2, <4>1, UnsavedKeys DEF SyncInv, SyncTypeOK
    <3>. QED  BY <2>2, <3>2, <3>3
  <2>. QED  BY <2>1, <2>2 DEF CallRaises
<1>. QED  BY <1>1, <1>2, ForgettingKeeps DEF Running

LEMMA SyncCrashKeeps == ASSUME SyncInv, SyncCrash PROVE SyncInv'
<1>1. IssuesKept
  BY SameIssues DEF SyncInv, SyncCrash
<1>2. CASE sync \in Running
  <2>1. /\ sync' = "idle" /\ Forgotten /\ lost' = lost \cup Unsaved(map)
        /\ UNCHANGED <<saved, torn, failed, issues>>
    BY <1>2 DEF SyncCrash, Stopped
  <2>2. lost' \subseteq Keys
    BY <2>1, UnsavedKeys DEF SyncInv, SyncTypeOK
  <2>. QED  BY <1>1, <1>2, <2>1, <2>2, ForgettingKeeps DEF Running
<1>3. CASE sync \notin Running
  <2>1. /\ sync' = "idle"
        /\ UNCHANGED <<asked, todo, stale, closing, map, saved, torn, failed, lost, issues>>
    BY <1>3 DEF SyncCrash
  <2>2. SyncTypeOK'
    BY <2>1 DEF SyncInv, SyncTypeOK
  <2>3. IssuesNamed' /\ MapNames(map)' /\ MapNames(saved)' /\ OpenIssuesAccounted'
    BY <1>3, <2>1 DEF SyncInv, IssuesNamed, MapNames, Named, OpenIssuesAccounted, Known, Running
  <2>. QED  BY <2>1, <2>2, <2>3 DEF SyncInv, LoopsSoFar, SettledMapMatches
<1>. QED  BY <1>2, <1>3

LEMMA SyncEndKeeps == ASSUME SyncInv, SyncEnd PROVE SyncInv'
<1>1. /\ sync \notin Running /\ sync' = "idle" /\ Forgotten
      /\ UNCHANGED <<saved, torn, issues, failed, lost>>
  BY DEF SyncEnd, Running
<1>2. IssuesKept
  BY <1>1, SameIssues DEF SyncInv
<1>. QED  BY <1>1, <1>2, ForgettingKeeps DEF Running, SyncInv, SyncTypeOK

-----------------------------------------------------------------------------

LEMMA SyncInitially == SyncInit => SyncInv
<1>. SUFFICES ASSUME SyncInit PROVE SyncInv
  OBVIOUS
<1>1. NoEntries \in Maps /\ NoIssue \in IssueRecords /\ NoIssue.status = "none"
  BY SyncAssumption DEF NoEntries, Maps, NoIssue, Issue, IssueRecords
<1>2. SyncTypeOK
  BY <1>1 DEF SyncInit, SyncTypeOK, IssueRecords
<1>3. IssuesNamed /\ MapNames(map) /\ MapNames(saved) /\ OpenIssuesAccounted
  BY <1>1 DEF SyncInit, IssuesNamed, MapNames, NoEntries, Named, Keys, OpenIssuesAccounted
<1>. QED  BY <1>2, <1>3 DEF SyncInit, SyncInv, LoopsSoFar, SettledMapMatches

LEMMA SyncNextKeeps == ASSUME SyncInv, [SyncNext]_syncVars PROVE SyncInv'
<1>1. CASE UNCHANGED syncVars
  BY <1>1 DEF syncVars, SyncInv, SyncTypeOK, IssuesNamed, MapNames, LoopsSoFar, Entries, Named, Reported,
              OpenIssuesAccounted, Known, SettledMapMatches
<1>2. CASE SyncNext
  BY <1>2, SyncBeginKeeps, SkipExistingKeeps, CreateIssueKeeps, CreateKeylessKeeps, CreateFailsKeeps,
     BeginClosingKeeps, LeaveKeylessKeeps, CommentKeeps, TransitionKeeps, TransitionFailsKeeps, OpenMapKeeps, WriteMapKeeps, SaveFailsKeeps,
     CallRaisesKeeps, SyncEndKeeps, SyncCrashKeeps DEF SyncNext, SyncStep
<1>. QED  BY <1>1, <1>2

-----------------------------------------------------------------------------
(* The scan and its storage.                                               *)

LEMMA HistoryInitially == HistoryInit => HistoryInv
<1>. SUFFICES ASSUME HistoryInit PROVE HistoryInv
  OBVIOUS
<1>1. Nothing \in Seen /\ 0 \in 0..MaxScans
  BY HistoryAssumption DEF Nothing, Seen
<1>2. HistoryTypeOK
  BY <1>1, HistoryAssumption DEF HistoryInit, HistoryTypeOK
<1>. QED  BY <1>2 DEF HistoryInit, HistoryInv, ReportKept, Tracked, Written

LEMMA ScanBeginKeeps ==
    ASSUME HistoryInv, NEW output \in Paths \cup {NoPath}, ScanBegin(output) PROVE HistoryInv'
<1>1. /\ step = "idle" /\ step' = "scan" /\ now' = now + 1 /\ now < MaxScans
      /\ results_path' = ResultsPath(output) /\ previous' = LoadPreviousFindings(results_path')
      /\ complete' = Nothing /\ fresh' = {} /\ resolved' = {}
      /\ UNCHANGED <<backend, path, report, record, rows, recorded, stored, cut>>
  BY DEF ScanBegin, files, tables
<1>2. now \in 0..MaxScans /\ now' \in 0..MaxScans /\ now' >= 1 /\ Nothing \in Seen
  BY <1>1, HistoryAssumption DEF HistoryInv, HistoryTypeOK, Nothing, Seen
<1>3. results_path' \in Paths /\ previous' \in Seen
  <2>1. results_path' \in Paths
    BY <1>1, HistoryAssumption DEF ResultsPath
  <2>. QED  BY <1>1, <1>2, <2>1 DEF HistoryInv, HistoryTypeOK, LoadPreviousFindings
<1>4. HistoryTypeOK'
  BY <1>1, <1>2, <1>3 DEF HistoryInv, HistoryTypeOK
<1>5. ReportKept' /\ Written'
  BY <1>1 DEF HistoryInv, ReportKept, Written
<1>6. backend = "json" /\ ~cut[results_path'] => previous' = stored[results_path']
  BY <1>1, <1>3 DEF HistoryInv, ReportKept, LoadPreviousFindings
<1>7. Tracked'
  BY <1>1, <1>2, <1>6 DEF Tracked
<1>. QED  BY <1>4, <1>5, <1>7 DEF HistoryInv

LEMMA TrackKeeps == ASSUME HistoryInv, NEW found \in SUBSET Findings, Track(found) PROVE HistoryInv'
<1>. DEFINE active == {f \in found : ~Suppressed(f)}
<1>1. /\ step = "scan" /\ step' = "tracked"
      /\ complete' = [f \in Findings |-> IF f \in active THEN FirstSeen(f) ELSE 0]
      /\ fresh' = active \ Present(previous) /\ resolved' = Present(previous) \ active
      /\ UNCHANGED <<backend, now, results_path, previous, path, report, record, rows, recorded, stored, cut>>
  BY DEF Track, files, tables
<1>2. active \subseteq Findings
  OBVIOUS
<1>. HIDE DEF active
<1>3. previous \in Seen /\ now \in 0..MaxScans /\ now >= 1
  BY <1>1 DEF HistoryInv, HistoryTypeOK, Tracked
<1>4. \A f \in Findings : FirstSeen(f) \in 0..MaxScans /\ FirstSeen(f) # 0
  BY <1>3 DEF FirstSeen, Seen
<1>5. complete' \in Seen /\ 0 \in 0..MaxScans
  BY <1>1, <1>4, HistoryAssumption DEF Seen
<1>6. Present(complete)' = active
  BY <1>1, <1>2, <1>4 DEF Present
<1>7. Present(previous) \subseteq Findings /\ Present(previous)' = Present(previous)
  BY <1>1 DEF Present
<1>8. HistoryTypeOK'
  BY <1>1, <1>2, <1>5, <1>7 DEF HistoryInv, HistoryTypeOK
<1>9. ReportKept' /\ Written'
  BY <1>1 DEF HistoryInv, ReportKept, Written
<1>10. \A f \in Present(complete)' \cap Present(previous) : complete'[f] = previous[f]
  BY <1>1, <1>2, <1>6 DEF Present, FirstSeen
<1>11. Tracked'
  BY <1>1, <1>3, <1>6, <1>7, <1>10 DEF HistoryInv, Tracked
<1>. QED  BY <1>8, <1>9, <1>11 DEF HistoryInv

\* Steps that write nothing, and leave the scan's work where it is.
LEMMA RestKeeps ==
    ASSUME HistoryInv, UNCHANGED <<backend, now, results_path, tracking, files, tables, stored, cut>>,
           step' \in {"idle", "returned", "raised"}, step' = "idle" \/ step # "idle"
    PROVE  HistoryInv'
<1>. USE DEF tracking, files, tables
<1>1. HistoryTypeOK'
  BY DEF HistoryInv, HistoryTypeOK
<1>2. ReportKept' /\ Written' /\ Tracked'
  BY DEF HistoryInv, ReportKept, Written, Tracked
<1>. QED  BY <1>1, <1>2 DEF HistoryInv

LEMMA JsonKeeps == ASSUME HistoryInv, OpenReport \/ FillReport \/ OpenRecord \/ FillRecord PROVE HistoryInv'
<1>. USE DEF tracking, files, tables
<1>a. Nothing \in Seen /\ 0 \in 0..MaxScans
  BY HistoryAssumption DEF Nothing, Seen
<1>1. CASE OpenReport
  <2>1. HistoryTypeOK'
    BY <1>1, <1>a DEF OpenReport, HistoryInv, HistoryTypeOK
  <2>2. /\ results_path \in Paths
        /\ path'[results_path] = "torn" /\ cut'[results_path] = TRUE
        /\ \A p \in Paths \ {results_path} :
               path'[p] = path[p] /\ cut'[p] = cut[p] /\ report'[p] = report[p]
        /\ step' = "report" /\ backend = "json"
        /\ UNCHANGED <<backend, now, results_path, previous, stored, recorded>>
    BY <1>1 DEF OpenReport, HistoryInv, HistoryTypeOK
  <2>3. ReportKept'
    BY <2>2 DEF HistoryInv, ReportKept
  <2>4. Tracked' /\ Written'
    BY <1>1, <2>2 DEF OpenReport, HistoryInv, Tracked, Written
  <2>. QED  BY <2>1, <2>3, <2>4 DEF HistoryInv
<1>2. CASE FillReport
  <2>1. HistoryTypeOK'
    BY <1>2 DEF FillReport, HistoryInv, HistoryTypeOK
  <2>2. /\ results_path \in Paths
        /\ path'[results_path] = "whole" /\ cut'[results_path] = FALSE
        /\ report'[results_path] = complete /\ stored'[results_path] = complete
        /\ \A p \in Paths \ {results_path} :
               path'[p] = path[p] /\ cut'[p] = cut[p] /\ report'[p] = report[p] /\ stored'[p] = stored[p]
        /\ step = "report" /\ step' = "filled"
        /\ UNCHANGED <<backend, now, results_path, complete, recorded>>
    BY <1>2 DEF FillReport, HistoryInv, HistoryTypeOK
  <2>3. ReportKept'
    BY <2>2 DEF HistoryInv, ReportKept
  <2>4. Tracked' /\ Written'
    BY <2>2 DEF HistoryInv, Tracked, Written
  <2>. QED  BY <2>1, <2>3, <2>4 DEF HistoryInv
<1>3. CASE OpenRecord
  <2>1. HistoryTypeOK'
    BY <1>3, <1>a DEF OpenRecord, HistoryInv, HistoryTypeOK
  <2>2. ReportKept' /\ Tracked' /\ Written'
    BY <1>3 DEF OpenRecord, HistoryInv, ReportKept, Tracked, Written
  <2>. QED  BY <2>1, <2>2 DEF HistoryInv
<1>4. CASE FillRecord
  <2>1. HistoryTypeOK'
    BY <1>4 DEF FillRecord, HistoryInv, HistoryTypeOK
  <2>2. ReportKept' /\ Tracked' /\ Written'
    BY <1>4 DEF FillRecord, HistoryInv, ReportKept, Tracked, Written
  <2>. QED  BY <2>1, <2>2 DEF HistoryInv
<1>. QED  BY <1>1, <1>2, <1>3, <1>4

LEMMA SqlKeeps == ASSUME HistoryInv, CommitRecord \/ CommitFindings PROVE HistoryInv'
<1>. USE DEF tracking, files, tables
<1>1. CASE CommitRecord
  <2>1. now \in Timestamps
    BY <1>1 DEF CommitRecord, HistoryInv, HistoryTypeOK, Tracked, Timestamps
  <2>2. HistoryTypeOK'
    BY <1>1, <2>1 DEF CommitRecord, HistoryInv, HistoryTypeOK
  <2>3. ReportKept' /\ Tracked' /\ Written'
    BY <1>1 DEF CommitRecord, HistoryInv, ReportKept, Tracked, Written
  <2>. QED  BY <2>2, <2>3 DEF HistoryInv
<1>2. CASE CommitFindings
  <2>1. rows' \in Seen
    BY <1>2 DEF CommitFindings, HistoryInv, HistoryTypeOK, Seen
  <2>2. HistoryTypeOK'
    BY <1>2, <2>1 DEF CommitFindings, HistoryInv, HistoryTypeOK
  <2>3. ReportKept' /\ Tracked' /\ Written'
    BY <1>2 DEF CommitFindings, HistoryInv, ReportKept, Tracked, Written
  <2>. QED  BY <2>2, <2>3 DEF HistoryInv
<1>. QED  BY <1>1, <1>2

LEMMA HistoryNextKeeps == ASSUME HistoryInv, [HistoryNext]_historyVars PROVE HistoryInv'
<1>1. CASE UNCHANGED historyVars
  BY <1>1 DEF historyVars, HistoryInv, HistoryTypeOK, ReportKept, Tracked, Written, Present
<1>2. CASE ScannersFail \/ StoreNothing \/ StoreFails \/ ScanEnd
  BY <1>2, RestKeeps DEF ScannersFail, StoreNothing, StoreFails, ScanEnd
<1>. QED  BY <1>1, <1>2, ScanBeginKeeps, TrackKeeps, JsonKeeps, SqlKeeps DEF HistoryNext, Store

-----------------------------------------------------------------------------
(* The command: what it does is done by the scan or by the synchronisation. *)

LEMMA ComponentSteps == Next => [HistoryNext]_historyVars /\ [SyncNext]_syncVars
<1>1. ASSUME NEW o \in Options, Start(o)
      PROVE  o.output \in Paths \cup {NoPath} /\ ScanBegin(o.output) /\ UNCHANGED syncVars
  BY <1>1, CommandAssumption DEF Start
<1>2. CASE Scan
  <2>1. HistoryNext /\ UNCHANGED syncVars
    BY <1>2 DEF Scan, HistoryNext
  <2>. QED  BY <2>1
<1>3. CASE Report
  <2>1. Reportable \in SUBSET Findings
    BY DEF Reportable, Present
  <2>2. ScanEnd /\ (SyncBegin(Reportable) \/ UNCHANGED syncVars)
    BY <1>3 DEF Report
  <2>. QED  BY <2>1, <2>2 DEF HistoryNext, SyncNext
<1>4. CASE Synchronise
  BY <1>4 DEF Synchronise, SyncNext
<1>5. CASE Synchronised
  BY <1>5 DEF Synchronised, SyncNext
<1>6. CASE Raise
  BY <1>6 DEF Raise, HistoryNext, SyncNext
<1>7. CASE Gate
  BY <1>7 DEF Gate
<1>8. CASE Kill
  BY <1>8 DEF Kill, HistoryNext, SyncNext
<1>9. (\E o \in Options : Start(o)) => HistoryNext /\ UNCHANGED syncVars
  BY <1>1 DEF HistoryNext
<1>. QED  BY <1>2, <1>3, <1>4, <1>5, <1>6, <1>7, <1>8, <1>9 DEF Next

\* What is stored stays, and what the policy says of it, while the scan stands still.
LEMMA StoredStays ==
    ASSUME UNCHANGED <<backend, now, results_path, tracking, files, tables>>
    PROVE  StoredWhole' = StoredWhole /\ Present(complete)' = Present(complete)
BY DEF StoredWhole, Present, tracking, files, tables

LEMMA StoringEnds ==
    ASSUME HistoryInv, Store, step' = "returned" PROVE StoredWhole'
<1>. USE DEF tracking, files, tables
<1>1. CASE FillRecord
  <2>1. results_path \in Paths /\ Folder[results_path] \in Folders
    BY DEF HistoryInv, HistoryTypeOK, Folders
  <2>. QED  BY <1>1, <2>1 DEF FillRecord, HistoryInv, HistoryTypeOK, Written, StoredWhole, Present
<1>2. CASE CommitFindings
  BY <1>2 DEF CommitFindings, HistoryInv, HistoryTypeOK, Written, StoredWhole, Present, Seen
<1>. QED  BY <1>1, <1>2 DEF Store, OpenReport, FillReport, OpenRecord, CommitRecord, StoreFails

\* A synchronisation that goes on has the findings it was given.
LEMMA AskedStays == SyncStep => sync \in Running /\ (sync' \in Running => asked' = asked)
BY DEF SyncStep, Running, SkipExisting, Creating, CreateIssue, CreateKeyless, CreateFails, BeginClosing,
       ToClose, LeaveKeyless, Comment, Transition, TransitionFails, OpenMap, WriteMap, SaveFails, CallRaises

LEMMA CommandKeeps == ASSUME IInv, Next PROVE CommandInv'
<1>. CommandInv /\ HistoryInv /\ SyncInv
  BY DEF IInv
<1>1. ASSUME NEW o \in Options, Start(o) PROVE CommandInv'
  <2>1. /\ pc = "idle" /\ pc' = "scan" /\ option' = o /\ given' = {} /\ exit' = -1
        /\ step' = "scan" /\ results_path' = ResultsPath(o.output) /\ sync' = sync
    BY <1>1 DEF Start, ScanBegin, syncVars
  <2>. QED  BY <2>1 DEF CommandInv, Running
<1>2. CASE Scan
  <2>1. pc = "scan" /\ UNCHANGED <<pc, option, given, exit>> /\ exit = -1
    BY <1>2 DEF Scan, CommandInv
  <2>2. step # "idle" /\ step' # "idle"
    BY <1>2 DEF Scan, Track, ScannersFail, Store, StoreNothing, OpenReport, FillReport, OpenRecord,
                FillRecord, CommitRecord, CommitFindings, StoreFails
  <2>3. option.output # NoPath /\ step' = "returned" => StoredWhole'
    <3>1. CASE Store
      BY <3>1, StoringEnds
    <3>2. CASE option.output = NoPath
      BY <3>2
    <3>3. CASE ScannersFail \/ \E found \in SUBSET Findings : Track(found)
      BY <3>3 DEF ScannersFail, Track
    <3>. QED  BY <1>2, <3>1, <3>2, <3>3 DEF Scan
  <2>4. sync' = sync /\ results_path' = results_path
    BY <1>2 DEF Scan, syncVars, Track, ScannersFail, Store, StoreNothing, OpenReport, FillReport, OpenRecord,
                FillRecord, CommitRecord, CommitFindings, StoreFails
  <2>. QED  BY <2>1, <2>2, <2>3, <2>4 DEF CommandInv, Running
<1>3. CASE Report
  <2>1. /\ pc = "scan" /\ step = "returned" /\ step' = "idle" /\ given' = Reportable
        /\ pc' \in {"jira", "gate"} /\ UNCHANGED <<option, exit>>
        /\ UNCHANGED <<backend, now, results_path, tracking, files, tables>>
    BY <1>3 DEF Report, ScanEnd
  <2>2. Reportable \subseteq Findings
    BY DEF Reportable, Present
  <2>3. Reportable' = Reportable
    BY <2>1, StoredStays DEF Reportable
  <2>4. sync' \in Running => pc' = "jira" /\ asked' = Reportable
    <3>1. CASE ShouldSync
      BY <1>3, <3>1 DEF Report, SyncBegin
    <3>2. CASE ~ShouldSync
      BY <1>3, <2>1, <3>2 DEF Report, syncVars, CommandInv
    <3>. QED  BY <3>1, <3>2
  <2>5. results_path' = results_path
    BY <2>1
  <2>. QED  BY <2>1, <2>2, <2>3, <2>4, <2>5, StoredStays DEF CommandInv
<1>4. CASE Synchronise \/ Synchronised
  <2>1. /\ pc = "jira" /\ pc' \in {"jira", "gate"} /\ UNCHANGED <<option, given, exit, historyVars>>
    BY <1>4 DEF Synchronise, Synchronised
  <2>2. UNCHANGED <<step, backend, now, results_path, tracking, files, tables>>
    BY <2>1 DEF historyVars, tracking, files, tables
  <2>3. Reportable' = Reportable
    BY <2>1, <2>2, StoredStays DEF Reportable
  <2>4. sync' \in Running => pc' = "jira" /\ asked' = Reportable
    <3>1. CASE Synchronise
      BY <2>1, <3>1, AskedStays DEF Synchronise, CommandInv
    <3>2. CASE Synchronised
      BY <3>2 DEF Synchronised, SyncEnd, Running
    <3>. QED  BY <1>4, <3>1, <3>2
  <2>. QED  BY <2>1, <2>2, <2>3, <2>4, StoredStays DEF CommandInv
<1>5. CASE Raise
  <2>1. /\ pc # "idle" /\ pc' = "idle" /\ exit' = 1 /\ UNCHANGED <<option, given>>
    BY <1>5 DEF Raise
  <2>2. step' = "idle"
    BY <1>5 DEF Raise, ScanEnd, historyVars, CommandInv
  <2>3. sync' \notin Running
    BY <1>5 DEF Raise, SyncEnd, syncVars, Running, CommandInv
  <2>. QED  BY <2>1, <2>2, <2>3 DEF CommandInv
<1>6. CASE Gate
  <2>1. /\ pc = "gate" /\ pc' = "idle" /\ UNCHANGED <<option, given>> /\ exit' \in {0, 1, 2}
        /\ exit' = 0 /\ option.mode # "cedar" => ~PolicyFailed
    BY <1>6 DEF Gate
  <2>2. UNCHANGED <<step, backend, now, results_path, tracking, files, tables>> /\ sync' = sync
    BY <1>6 DEF Gate, historyVars, tracking, files, tables, syncVars
  <2>3. PolicyFailed' = PolicyFailed
    BY <2>2, StoredStays DEF PolicyFailed
  <2>. QED  BY <2>1, <2>2, <2>3, StoredStays DEF CommandInv
<1>7. CASE Kill
  <2>1. pc # "idle" /\ pc' = "idle" /\ UNCHANGED <<option, given, exit>>
    BY <1>7 DEF Kill
  <2>2. step' = "idle"
    BY <1>7 DEF Kill, ScanEnd, historyVars, CommandInv
  <2>3. sync' \notin Running
    BY <1>7 DEF Kill, SyncCrash, syncVars, Running, CommandInv
  <2>4. exit' = -1
    BY <2>1 DEF CommandInv
  <2>. QED  BY <2>1, <2>2, <2>3, <2>4 DEF CommandInv
<1>. QED  BY <1>1, <1>2, <1>3, <1>4, <1>5, <1>6, <1>7 DEF Next

LEMMA InvInit == Init => IInv
<1>. SUFFICES ASSUME Init PROVE IInv
  OBVIOUS
<1>1. HistoryInv /\ SyncInv
  BY HistoryInitially, SyncInitially DEF Init
<1>2. CommandInv
  BY DEF Init, HistoryInit, SyncInit, Running, CommandInv
<1>. QED  BY <1>1, <1>2 DEF IInv

LEMMA InvNext == IInv /\ [Next]_vars => IInv'
<1>. SUFFICES ASSUME IInv, [Next]_vars PROVE IInv'
  OBVIOUS
<1>1. [HistoryNext]_historyVars /\ [SyncNext]_syncVars
  BY ComponentSteps DEF vars
<1>2. HistoryInv' /\ SyncInv'
  BY <1>1, HistoryNextKeeps, SyncNextKeeps DEF IInv
<1>3. CommandInv'
  <2>1. CASE UNCHANGED vars
    <3>1. /\ UNCHANGED <<pc, option, given, exit, step, sync, asked>>
          /\ UNCHANGED <<backend, now, results_path, tracking, files, tables>>
      BY <2>1 DEF vars, historyVars, syncVars, tracking, files, tables
    <3>2. PolicyFailed' = PolicyFailed /\ Reportable' = Reportable
      BY <3>1, StoredStays DEF PolicyFailed, Reportable
    <3>. QED  BY <3>1, <3>2, StoredStays DEF IInv, CommandInv
  <2>. QED  BY <2>1, CommandKeeps
<1>. QED  BY <1>2, <1>3 DEF IInv

LEMMA InvAlways == Spec => []IInv
BY InvInit, InvNext, PTL DEF Spec

-----------------------------------------------------------------------------
(* The results.                                                            *)

\* Every variable of the command, the scan and the synchronisation keeps its type.
THEOREM CommandTypeCorrect == Spec => []TypeOK
<1>1. IInv => TypeOK
  BY DEF IInv, HistoryInv, SyncInv, CommandInv, TypeOK
<1>. QED  BY InvAlways, <1>1, PTL

\* The command does to the reports what the scan does, and to Jira and its map what the
\* synchronisation does: each keeps to its own specification (cli.py runs one, then the other).
THEOREM CommandImplementsBoth == Spec => HistorySpec /\ SyncSpec
<1>1. Init => HistoryInit /\ SyncInit
  BY DEF Init
<1>2. [Next]_vars => [HistoryNext]_historyVars /\ [SyncNext]_syncVars
  BY ComponentSteps DEF vars
<1>. QED  BY <1>1, <1>2, PTL DEF Spec, HistorySpec, SyncSpec

\* With the JSON backend, what a scan calls new and resolved is the difference to the last
\* report that was written whole where it looks, and first_seen is kept (scanner.py:134-153,
\* 191-236): whatever commands wrote elsewhere, failed or were killed in between, unless one
\* was cut short in that report.
THEOREM TrendFollowsReport == Spec => []TrendSinceLastReport
<1>1. IInv => TrendSinceLastReport
  BY DEF IInv, HistoryInv, Tracked, TrendSinceLastReport, TrendSinceLastScan
<1>. QED  BY InvAlways, <1>1, PTL

\* Exit code 0 means that the findings, all of them, and their record are stored, and that no
\* failing rule of the policy matches more of them than it allows (scanner.py:257-337).
THEOREM ZeroIsStoredAndGated == Spec => []ZeroMeansStoredAndGated
<1>1. IInv => ZeroMeansStoredAndGated
  <2>0. IInv /\ exit = 0 /\ option.output # NoPath => results_path = option.output
    BY DEF IInv, CommandInv, ResultsPath
  <2>. SUFFICES ASSUME IInv, exit = 0
                PROVE  /\ option.output # NoPath => StoredWhole
                       /\ option.mode # "cedar" =>
                             \A r \in PolicyRules : r.action = "fail" =>
                                 Cardinality({f \in r.on : complete[f] # 0}) <= r.max
    BY <2>0 DEF ZeroMeansStoredAndGated, StoredWhole
  <2>1. option.output # NoPath => StoredWhole
    BY DEF IInv, CommandInv
  <2>2. ASSUME option.mode # "cedar", NEW r \in PolicyRules, r.action = "fail"
        PROVE  Cardinality({f \in r.on : complete[f] # 0}) <= r.max
    <3>1. r.on \subseteq Findings /\ r.max \in Nat
      BY CommandAssumption
    <3>2. ~ Cardinality(r.on \cap Present(complete)) > r.max
      BY <2>2 DEF IInv, CommandInv, PolicyFailed
    <3>3. r.on \cap Present(complete) = {f \in r.on : complete[f] # 0}
      BY <3>1 DEF Present
    <3>4. Cardinality(r.on \cap Present(complete)) \in Nat
      BY <3>1, FindingsAssumption, FS_Subset, FS_CardinalityType
    <3>. QED  BY <3>1, <3>2, <3>3, <3>4
  <2>. QED  BY <2>1, <2>2
<1>. QED  BY InvAlways, <1>1, PTL

\* An open issue is the one the map names for its fingerprint, or its answer or its entry was
\* lost on the way: no run creates a second one for it (jira_sync.py:354-390).
THEOREM OpenIssuesKnown == Spec => []OpenIssuesAccounted
<1>1. IInv => OpenIssuesAccounted
  BY DEF IInv, SyncInv
<1>. QED  BY InvAlways, <1>1, PTL

\* The map a synchronisation without failures saves has an entry for every fingerprint it was
\* given, and names an issue of no other; entries without a key may stay (jira_sync.py:336-390).
THEOREM SettledMapsMatch == Spec => []SettledMapMatches
<1>1. IInv => SettledMapMatches
  BY DEF IInv, SyncInv, LoopsSoFar
<1>. QED  BY InvAlways, <1>1, PTL

\* What closes an issue is the synchronisation, for a fingerprint it was not given.
LEMMA ClosingStep ==
    ASSUME SyncInv, SyncNext, NEW k \in Keys, issues[k].status = "open", issues'[k].status = "done"
    PROVE  sync = "close" /\ issues[k].of \notin Reported
<1>1. ASSUME NEW p, ToClose(p), Done(map[p]) PROVE sync = "close" /\ issues[k].of \notin Reported
  <2>1. /\ sync = "close" /\ map[p] \in Keys /\ issues[map[p]].of = p /\ p \notin Reported
        /\ p \in Fingerprints
    BY <1>1, StaleNamed
  <2>2. \A j \in Keys \ {map[p]} : issues'[j] = issues[j]
    BY <1>1, <2>1, DoneIs DEF SyncInv
  <2>. QED  BY <2>1, <2>2
<1>2. ASSUME NEW p, ToClose(p), issues' = Commented(map[p]) PROVE FALSE
  <2>1. map[p] \in Keys
    BY <1>2, StaleNamed
  <2>. QED  BY <1>2, <2>1, CommentedIs DEF SyncInv
<1>3. ASSUME NEW f \in Findings, NEW j \in Fresh, Opened(Fingerprint[f], j) PROVE FALSE
  <2>1. Fingerprint[f] \in Fingerprints
    BY FindingsAssumption
  <2>. QED  BY <1>3, <2>1, OpenedIs DEF SyncInv
<1>4. issues' # issues
  OBVIOUS
<1>5. todo \subseteq Findings
  BY DEF SyncInv, SyncTypeOK
<1>. QED  BY <1>1, <1>2, <1>3, <1>4, <1>5
          DEF SyncNext, SyncStep, SyncBegin, SkipExisting, CreateIssue, CreateKeyless, CreateFails, BeginClosing,
              LeaveKeyless, Comment, Transition, TransitionFails, OpenMap, WriteMap, SaveFails, CallRaises,
              SyncEnd, SyncCrash

\* No step closes an issue while a severe finding of its rule and file is detected, unless the
\* command hides every such finding: the baseline has it, or it is below the severity asked for
\* (cli.py:86-94, 175-180, jira_sync.py:366-384).
THEOREM ClosedWereGoneOrHidden == Spec => ClosedMeansGoneOrHidden
<1>. DEFINE Hidden(k) ==
       \A f \in Present(complete) \cap Severe :
           Fingerprint[f] = issues[k].of =>
               IF option.baseline THEN Fingerprint[f] \in FingerprintsOf(Baseline)
               ELSE Level[f] < option.level
<1>1. ASSUME IInv, Next, NEW k \in Keys, issues[k].status = "open", issues'[k].status = "done"
      PROVE  Hidden(k)
  <2>1. SyncNext
    <3>1. issues' # issues
      BY <1>1
    <3>. QED  BY <1>1, <3>1, ComponentSteps DEF syncVars
  <2>2. sync = "close" /\ issues[k].of \notin Reported
    BY <1>1, <2>1, ClosingStep DEF IInv
  <2>3. asked = Reportable /\ option \in Options
    BY <1>1, <2>2 DEF IInv, CommandInv, Running
  <2>4. ASSUME NEW f \in Present(complete) \cap Severe, Fingerprint[f] = issues[k].of
        PROVE  f \notin Reportable
    BY <2>2, <2>3, <2>4 DEF Reported, FingerprintsOf
  <2>5. \A f \in Findings : Level[f] \in 0..4
    BY FindingsAssumption
  <2>6. option.level \in 0..4
    BY <2>3, CommandAssumption
  <2>. QED  BY <2>4, <2>5, <2>6 DEF Reportable, Present
<1>2. IInv /\ [Next]_vars =>
        [\A k \in Keys : issues[k].status = "open" /\ issues'[k].status = "done" => Hidden(k)]_vars
  BY <1>1
<1>. QED  BY InvAlways, <1>2, PTL DEF Spec, ClosedMeansGoneOrHidden
=============================================================================
