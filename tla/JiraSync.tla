------------------------------- MODULE JiraSync -------------------------------
(***************************************************************************)
(* sync_findings (sourcebastion/jira_sync.py): one issue per fingerprint   *)
(* of the critical and high findings it is given, with the keys kept in a  *)
(* map that is loaded first and saved once, last. Jira is another system:  *)
(* a call may fail, take effect without an answer that arrives, answer     *)
(* something that is not a JSON object, or succeed without naming a key.   *)
(* The process may be killed between two calls.                            *)
(***************************************************************************)
EXTENDS ScanFindings

CONSTANTS
    MaxIssues,      \* bound on the issues ever created
    MaxComments,    \* bound on the comments of an issue that are counted
    None            \* no fingerprint

ASSUME SyncAssumption ==
    /\ MaxIssues \in Nat
    /\ MaxComments \in Nat
    /\ None \notin Fingerprints

Keys == 1..MaxIssues

\* The entry "", of a creation whose answer named no key.
Keyless == -1

\* 0 stands for no entry.
Maps == [Fingerprints -> Keys \cup {0, Keyless}]

\* The fingerprints a map has an entry for, and those it knows the issue of.
Entries(m) == {p \in Fingerprints : m[p] # 0}
Named(m) == {p \in Fingerprints : m[p] \in Keys}

NoEntries == [p \in Fingerprints |-> 0]

VARIABLES
    sync,      \* what sync_findings is at
    asked,     \* its findings
    todo,      \* severe findings its first loop has yet to reach
    stale,     \* fingerprints its second loop has yet to close
    closing,   \* the fingerprint whose issue it has commented on
    map,       \* JiraIssueMap._data
    saved,     \* what jira_map.json says
    torn,      \* jira_map.json was opened for writing and not written
    issues,    \* Jira's issues
    failed,    \* a call of this sync failed: result["errors"], failed comments too
    lost       \* history: keys whose map entry never reached the file, or left it with it

syncVars == <<sync, asked, todo, stale, closing, map, saved, torn, issues, failed, lost>>

Issue(of, status, comments) == [of |-> of, status |-> status, comments |-> comments]

NoIssue == Issue(None, "none", 0)

Running == {"create", "close", "save"}

SyncTypeOK ==
    /\ sync \in Running \cup {"idle", "returned", "raised"}
    /\ asked \subseteq Findings
    /\ todo \subseteq Findings
    /\ stale \subseteq Fingerprints
    /\ closing \in Fingerprints \cup {None}
    /\ map \in Maps
    /\ saved \in Maps
    /\ torn \in BOOLEAN
    /\ issues \in [Keys -> [of : Fingerprints \cup {None}, status : {"none", "open", "done"},
                            comments : 0..MaxComments]]
    /\ failed \in BOOLEAN
    /\ lost \subseteq Keys

SyncInit ==
    /\ sync = "idle"
    /\ asked = {}
    /\ todo = {}
    /\ stale = {}
    /\ closing = None
    /\ map = NoEntries
    /\ saved = NoEntries
    /\ torn = FALSE
    /\ issues = [k \in Keys |-> NoIssue]
    /\ failed = FALSE
    /\ lost = {}

Reported == FingerprintsOf(asked \cap Severe)

\* The issues a map names and the file does not.
Unsaved(m) == {m[p] : p \in {q \in Named(m) : torn \/ saved[q] # m[q]}}

\* A map that cannot be read is an empty one.
SyncBegin(F) ==
    /\ sync = "idle"
    /\ sync' = "create"
    /\ asked' = F
    /\ todo' = F \cap Severe
    /\ map' = IF torn THEN NoEntries ELSE saved
    /\ failed' = FALSE
    /\ UNCHANGED <<stale, closing, saved, torn, issues, lost>>

-----------------------------------------------------------------------------
(* Creating.                                                               *)

Fresh == {k \in Keys : issues[k] = NoIssue /\ \A j \in Keys : j < k => issues[j] # NoIssue}

Opened(p, k) == issues' = [issues EXCEPT ![k] = Issue(p, "open", 0)]

SkipExisting(f) ==
    /\ sync = "create" /\ f \in todo
    /\ Fingerprint[f] \in Named(map)
    /\ todo' = todo \ {f}
    /\ UNCHANGED <<sync, asked, stale, closing, map, saved, torn, issues, failed, lost>>

\* An empty key is as good as none: the issue is created again.
Creating(f) == sync = "create" /\ f \in todo /\ Fingerprint[f] \notin Named(map)

CreateIssue(f) ==
    /\ Creating(f)
    /\ \E k \in Fresh :
         /\ Opened(Fingerprint[f], k)
         /\ map' = [map EXCEPT ![Fingerprint[f]] = k]
    /\ todo' = todo \ {f}
    /\ UNCHANGED <<sync, asked, stale, closing, saved, torn, failed, lost>>

\* A 2xx whose body is empty or names no key counts as created.
CreateKeyless(f) ==
    /\ Creating(f)
    /\ \E k \in Fresh : Opened(Fingerprint[f], k) /\ lost' = lost \cup {k}
    /\ map' = [map EXCEPT ![Fingerprint[f]] = Keyless]
    /\ todo' = todo \ {f}
    /\ UNCHANGED <<sync, asked, stale, closing, saved, torn, failed>>

\* Refused, or the answer of a call that took effect does not arrive in time.
CreateFails(f) ==
    /\ Creating(f)
    /\ \/ UNCHANGED <<issues, lost>>
       \/ \E k \in Fresh : Opened(Fingerprint[f], k) /\ lost' = lost \cup {k}
    /\ todo' = todo \ {f}
    /\ failed' = TRUE
    /\ UNCHANGED <<sync, asked, stale, closing, map, saved, torn>>

\* Slip: only entries the file did not hold before are looked at.
BeginClosingCreated ==
    /\ sync = "create"
    /\ todo = {}
    /\ sync' = "close"
    /\ stale' = {p \in Entries(map) : map[p] # saved[p]} \ Reported
    /\ UNCHANGED <<asked, todo, closing, map, saved, torn, issues, failed, lost>>

BeginClosing ==
    /\ sync = "create"
    /\ todo = {}
    /\ sync' = "close"
    /\ stale' = Entries(map) \ Reported
    /\ UNCHANGED <<asked, todo, closing, map, saved, torn, issues, failed, lost>>

-----------------------------------------------------------------------------
(* Closing. What add_comment answers is not looked at.                     *)

Commented(k) ==
    [issues EXCEPT ![k].comments = IF @ < MaxComments THEN @ + 1 ELSE @]

Done(k) == issues' = [issues EXCEPT ![k].status = "done"]

ToClose(p) == sync = "close" /\ p \in stale \cap Named(map)

\* An entry without a key stays, and nothing is said of it.
LeaveKeyless(p) ==
    /\ sync = "close" /\ closing = None /\ p \in stale \ Named(map)
    /\ stale' = stale \ {p}
    /\ UNCHANGED <<sync, asked, todo, closing, map, saved, torn, issues, failed, lost>>

Comment(p) ==
    /\ ToClose(p) /\ closing = None
    /\ closing' = p
    /\ \/ issues' = Commented(map[p]) /\ failed' \in {failed, TRUE}
       \/ UNCHANGED issues /\ failed' = TRUE
    /\ UNCHANGED <<sync, asked, todo, stale, map, saved, torn, lost>>

Transition(p) ==
    /\ ToClose(p) /\ closing = p
    /\ Done(map[p])
    /\ map' = [map EXCEPT ![p] = 0]
    /\ stale' = stale \ {p}
    /\ closing' = None
    /\ UNCHANGED <<sync, asked, todo, saved, torn, failed, lost>>

\* Slip: the entry goes before the answer is looked at.
TransitionFailsRemoved(p) ==
    /\ ToClose(p) /\ closing = p
    /\ UNCHANGED issues \/ Done(map[p])
    /\ map' = [map EXCEPT ![p] = 0]
    /\ stale' = stale \ {p}
    /\ closing' = None
    /\ failed' = TRUE
    /\ UNCHANGED <<sync, asked, todo, saved, torn, lost>>

\* No such transition, refused, or unanswered: the entry stays.
TransitionFails(p) ==
    /\ ToClose(p) /\ closing = p
    /\ UNCHANGED issues \/ Done(map[p])
    /\ stale' = stale \ {p}
    /\ closing' = None
    /\ failed' = TRUE
    /\ UNCHANGED <<sync, asked, todo, map, saved, torn, lost>>

-----------------------------------------------------------------------------
(* Saving, and what goes wrong.                                            *)

OpenMap ==
    /\ sync = "close" /\ stale = {}
    /\ sync' = "save"
    /\ torn' = TRUE
    /\ UNCHANGED <<asked, todo, stale, closing, map, saved, issues, failed, lost>>

WriteMap ==
    /\ sync = "save"
    /\ sync' = "returned"
    /\ saved' = map
    /\ torn' = FALSE
    /\ UNCHANGED <<asked, todo, stale, closing, map, issues, failed, lost>>

\* The locals of sync_findings, the map among them, are gone.
Forgotten ==
    /\ asked' = {} /\ todo' = {} /\ stale' = {} /\ closing' = None
    /\ map' = NoEntries

Stopped ==
    /\ lost' = lost \cup Unsaved(map)
    /\ Forgotten
    /\ UNCHANGED <<saved, torn, failed>>

SaveFails ==
    /\ sync = "save" \/ (sync = "close" /\ stale = {})
    /\ sync' = "raised"
    /\ Stopped
    /\ UNCHANGED issues

\* A success whose body is not a JSON object raises out of sync_findings.
CallRaises ==
    /\ \/ \E f \in todo, k \in Fresh :
            /\ Creating(f) /\ Opened(Fingerprint[f], k)
            /\ lost' = lost \cup {k} \cup Unsaved(map)
       \/ \E p \in stale :
            /\ ToClose(p)
            /\ \/ closing = None /\ issues' = Commented(map[p])
               \/ closing = p /\ (UNCHANGED issues \/ Done(map[p]))
            /\ lost' = lost \cup Unsaved(map)
    /\ sync' = "raised"
    /\ Forgotten
    /\ UNCHANGED <<saved, torn, failed>>

\* A kill, and with sync at rest only the end of the caller.
SyncCrash ==
    /\ sync' = "idle"
    /\ IF sync \in Running THEN Stopped
       ELSE UNCHANGED <<asked, todo, stale, closing, map, saved, torn, failed, lost>>
    /\ UNCHANGED issues

SyncEnd ==
    /\ sync \in {"returned", "raised"}
    /\ sync' = "idle"
    /\ Forgotten
    /\ UNCHANGED <<saved, torn, issues, failed, lost>>

SyncStep ==
    \/ \E f \in Findings :
         SkipExisting(f) \/ CreateIssue(f) \/ CreateKeyless(f) \/ CreateFails(f)
    \/ BeginClosing
    \/ \E p \in Fingerprints :
         LeaveKeyless(p) \/ Comment(p) \/ Transition(p) \/ TransitionFails(p)
    \/ OpenMap \/ WriteMap \/ SaveFails \/ CallRaises

\* Whatever findings a caller passes, whenever it passes them.
SyncNext ==
    \/ \E F \in SUBSET Findings : SyncBegin(F)
    \/ SyncStep
    \/ SyncEnd
    \/ SyncCrash

SyncSpec == SyncInit /\ [][SyncNext]_syncVars

-----------------------------------------------------------------------------
(* Properties.                                                             *)

\* The entry for an issue, where the next lookup will look for it.
Known(k) ==
    IF sync \in Running THEN map[issues[k].of] = k ELSE ~torn /\ saved[issues[k].of] = k

\* An open issue is the one the map names for its fingerprint, so no second one
\* is created, unless its own answer was lost or named no key, or a sync ended
\* between creating it and saving the map, or while saving it (jira_sync.py:354-390).
OpenIssuesAccounted ==
    \A k \in Keys : issues[k].status = "open" /\ k \notin lost => Known(k)

\* A sync in which no call failed leaves a map with an entry for every severe
\* finding it was given, and with no issue of any other. Not that the two are the
\* same set: an answer that named no key leaves an entry without an issue, which
\* is never removed and never reported (jira_sync.py:336-390, at 372-374).
SettledMapMatches ==
    sync = "returned" /\ ~failed =>
        Reported \subseteq Entries(saved) /\ Named(saved) \subseteq Reported
=============================================================================
