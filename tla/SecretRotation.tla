----------------------------- MODULE SecretRotation -----------------------------
(***************************************************************************)
(* rotate-secrets (cli.py, secret_rotator.py): each leak gitleaks found is *)
(* rotated at its provider, the new value written to the secret store, the *)
(* source edited to read the value from the environment, and a request     *)
(* opened that reports what was done. Providers, store and code host fail, *)
(* refuse, or time out with or without effect; the command may be killed   *)
(* and run again on the same findings.                                     *)
(***************************************************************************)
EXTENDS Integers, Sequences, FiniteSets

CONSTANTS
    LeakLists,  \* findings: sequences of [rule, secret]
    Secrets,
    InIAM,      \* secrets the caller's list-access-keys shows
    MaxLeaks,   \* bound of the model: leaks in a list
    MaxRuns     \* bound of the model: runs of the command

Rules == {"aws-access-key-id", "aws-access-token", "aws-secret-access-key",
          "github-pat", "gitlab-pat"}
Modes == {"dry", "no store", "store"}

ASSUME RotationAssumption ==
    /\ LeakLists \subseteq Seq([rule : Rules, secret : Secrets])
    /\ <<>> \notin LeakLists  \* nothing found, nothing done
    /\ MaxLeaks \in Nat /\ \A l \in LeakLists : Len(l) <= MaxLeaks
    /\ InIAM \subseteq Secrets /\ MaxRuns \in Nat

VARIABLES
    leaks,     \* what the findings file lists
    mode,      \* --dry-run, --secret-store
    rotating,  \* step of the command
    at,        \* the leak it is at
    value,     \* the new key it holds for this leak, 0 for none
    revoked,   \* what the provider said of the old one
    results,   \* its rows
    modified,  \* leaks this run replaced in the source
    exposed,   \* leaks the source still holds
    inactive,  \* secrets their provider no longer accepts
    keys,      \* keys ever created: the run and the leak each was for
    store,     \* number of the key stored under each name, 0 for none
    branched,  \* the branch exists in the checkout
    runs       \* runs begun (history)

rotationVars == <<leaks, mode, rotating, at, value, revoked, results, modified, exposed,
                  inactive, keys, store, branched, runs>>
world == <<exposed, inactive, keys, store, branched>>

Row == [revoked : BOOLEAN, stored : BOOLEAN, error : BOOLEAN]
Names == Rules \X (0..MaxLeaks)

RotationTypeOK ==
    /\ mode \in Modes
    /\ rotating \in {"idle", "rotate", "create", "deactivate", "store", "replace",
                     "commit", "open", "opened"}
    /\ at \in 1..(Len(leaks) + 1)
    /\ value \in 0..Len(keys) /\ revoked \in BOOLEAN
    /\ results \in Seq(Row) /\ Len(results) <= Len(leaks)
    /\ modified \cup exposed \subseteq DOMAIN leaks
    /\ inactive \subseteq Secrets
    /\ keys \in Seq([run : 1..MaxRuns, leak : DOMAIN leaks])
    /\ store \in [Names -> 0..Len(keys)]
    /\ branched \in BOOLEAN /\ runs \in 0..MaxRuns

\* A file may have changed since the scan.
Reports == UNION {{l} \X SUBSET DOMAIN l : l \in LeakLists}

RotationInit(r) ==
    /\ leaks = r[1] /\ exposed = r[2]
    /\ mode = "dry" /\ rotating = "idle" /\ at = 1 /\ value = 0 /\ revoked = FALSE
    /\ results = <<>> /\ modified = {} /\ inactive = {} /\ keys = <<>>
    /\ store = [n \in Names |-> 0]
    /\ branched = FALSE /\ runs = 0

\* Slip: every leak of a rule gets the name of the rule.
NameOfRule(i) == <<leaks[i].rule, 0>>

\* A rule found once names its variable; more often, each is numbered in order.
Name(i) ==
    LET alike == {j \in DOMAIN leaks : leaks[j].rule = leaks[i].rule}
    IN <<leaks[i].rule, IF alike = {i} THEN 0 ELSE Cardinality({j \in alike : j <= i})>>

Start ==
    /\ rotating \in {"idle", "opened"} /\ runs < MaxRuns
    /\ mode' \in Modes
    /\ rotating' = "rotate" /\ at' = 1 /\ value' = 0 /\ revoked' = FALSE
    /\ results' = <<>> /\ modified' = {}
    /\ runs' = runs + 1
    /\ UNCHANGED <<leaks, world>>

(***************************************************************************)
(* rotate_secrets.                                                         *)
(***************************************************************************)

\* The row of this leak, and on to the next one.
Report(row) ==
    /\ results' = Append(results, row)
    /\ rotating' = "rotate" /\ at' = at + 1 /\ value' = 0 /\ revoked' = FALSE
    /\ UNCHANGED <<leaks, mode, modified, exposed, branched, runs>>

\* A row without a new value is an error unless something was revoked.
ReportRevocation(done) == Report([revoked |-> done, stored |-> FALSE, error |-> ~done])

Rotatable == rotating = "rotate" /\ at \in DOMAIN leaks

ReportOnly ==
    /\ Rotatable
    /\ mode = "dry" \/ leaks[at].rule = "aws-secret-access-key"  \* no provider takes it
    /\ Report([revoked |-> FALSE, stored |-> FALSE, error |-> mode # "dry"])
    /\ UNCHANGED <<inactive, keys, store>>

IsAws == leaks[at].rule \in {"aws-access-key-id", "aws-access-token"}

ListKeys ==
    /\ Rotatable /\ mode # "dry" /\ IsAws
    /\ \/ /\ leaks[at].secret \in InIAM \/ leaks[at].rule = "aws-access-token"
          /\ rotating' = "create"
          /\ UNCHANGED <<leaks, mode, at, value, revoked, results, modified, runs, world>>
       \* The listing failed, or does not show the key.
       \/ ReportRevocation(FALSE) /\ UNCHANGED <<inactive, keys, store>>

\* A token that is not in the listing still gets a new key beside it.
CreateKey ==
    /\ rotating = "create"
    /\ \/ /\ keys' = Append(keys, [run |-> runs, leak |-> at])
          /\ value' = Len(keys')
          /\ rotating' = IF leaks[at].secret \in InIAM THEN "deactivate" ELSE "store"
          /\ UNCHANGED <<leaks, mode, at, revoked, results, modified, exposed, inactive, store,
                         branched, runs>>
       \* Refused, or timed out with the key created.
       \/ /\ keys' \in {keys, Append(keys, [run |-> runs, leak |-> at])}
          /\ ReportRevocation(FALSE)
          /\ UNCHANGED <<inactive, store>>

Deactivated == inactive' = inactive \cup {leaks[at].secret}

Deactivate ==
    /\ rotating = "deactivate"
    /\ UNCHANGED <<keys, store>>
    /\ \/ /\ revoked' \in BOOLEAN
          /\ IF revoked' THEN Deactivated ELSE UNCHANGED inactive
          /\ rotating' = "store"
          /\ UNCHANGED <<leaks, mode, at, value, results, modified, exposed, branched, runs>>
       \* Timed out, with or without effect: the new value is dropped.
       \/ /\ Deactivated \/ UNCHANGED inactive
          /\ ReportRevocation(FALSE)

\* One call revokes. GitLab finds the token by its prefix: it may be another's,
\* none or several may match, and the delete may time out.
RevokeToken ==
    /\ Rotatable /\ mode # "dry" /\ leaks[at].rule \in {"github-pat", "gitlab-pat"}
    /\ \/ Deactivated /\ ReportRevocation(TRUE)
       \/ UNCHANGED inactive /\ ReportRevocation(FALSE)
       \/ Deactivated /\ ReportRevocation(FALSE)
       \/ leaks[at].rule = "gitlab-pat" /\ UNCHANGED inactive /\ ReportRevocation(TRUE)
    /\ UNCHANGED <<keys, store>>

Written == store' = [store EXCEPT ![Name(at)] = value]

StoreValue ==
    /\ rotating = "store"
    /\ UNCHANGED <<inactive, keys>>
    /\ \/ mode = "store" /\ Written
          /\ Report([revoked |-> revoked, stored |-> TRUE, error |-> FALSE])
       \* No store, or it refused, perhaps only the answer.
       \/ /\ IF mode = "store" THEN Written \/ UNCHANGED store ELSE UNCHANGED store
          /\ Report([revoked |-> revoked, stored |-> FALSE, error |-> mode = "store"])

\* gh and vault that time out raise, with or without effect: the command ends, the
\* rows and the new value are gone.
StoreRaises ==
    /\ rotating = "store" /\ mode = "store"
    /\ Written \/ UNCHANGED store
    /\ rotating' = "idle"
    /\ UNCHANGED <<leaks, mode, at, value, revoked, results, modified, exposed, inactive, keys,
                   branched, runs>>

(***************************************************************************)
(* create_rotation_pr.                                                     *)
(***************************************************************************)
EndRotation ==
    /\ rotating = "rotate" /\ at > Len(leaks)
    /\ rotating' = "replace" /\ at' = 1
    /\ UNCHANGED <<leaks, mode, value, revoked, results, modified, runs, world>>

\* Whatever became of the rotation, and in a dry run too.
Replace ==
    /\ rotating = "replace" /\ at \in DOMAIN leaks
    /\ at' = at + 1
    /\ modified' = modified \cup ({at} \cap exposed)
    /\ exposed' = exposed \ {at}
    /\ UNCHANGED <<leaks, mode, rotating, value, revoked, results, inactive, keys, store,
                   branched, runs>>

\* No file modified is an error; a dry run ends with a preview.
EndReplacement ==
    /\ rotating = "replace" /\ at > Len(leaks)
    /\ rotating' = IF modified = {} \/ mode = "dry" THEN "idle" ELSE "commit"
    /\ UNCHANGED <<leaks, mode, at, value, revoked, results, modified, runs, world>>

\* checkout -b, which refuses a branch that exists, add, commit and push.
Commit ==
    /\ rotating = "commit" /\ ~branched
    /\ branched' = TRUE
    /\ rotating' \in {"open", "idle"}
    /\ UNCHANGED <<leaks, mode, at, value, revoked, results, modified, exposed, inactive, keys,
                   store, runs>>

OpenRequest ==
    /\ rotating = "open"
    /\ rotating' = "opened"
    /\ UNCHANGED <<leaks, mode, at, value, revoked, results, modified, runs, world>>

\* An error or a kill: nothing is undone, and nothing is remembered.
Abandon ==
    /\ rotating \notin {"idle", "opened"}
    /\ rotating' = "idle"
    /\ UNCHANGED <<leaks, mode, at, value, revoked, results, modified, runs, world>>

RotationNext ==
    \/ Start \/ ReportOnly \/ ListKeys \/ CreateKey \/ Deactivate \/ RevokeToken
    \/ StoreValue \/ StoreRaises
    \/ EndRotation \/ Replace \/ EndReplacement \/ Commit \/ OpenRequest \/ Abandon

RotationSpec == (\E r \in Reports : RotationInit(r)) /\ [][RotationNext]_rotationVars

(***************************************************************************)
(* Properties.                                                             *)
(***************************************************************************)

\* What an opened request says was done is so, over refusals, timeouts, kills and
\* reruns: one row per leak; a secret it calls revoked is inactive, unless GitLab
\* was asked by a prefix; a value it calls stored is under the row's own name, and
\* is the key this run created for this very leak (secret_rotator.py:405-482).
ReportTruthful ==
    rotating = "opened" =>
        /\ DOMAIN results = DOMAIN leaks
        /\ \A i \in DOMAIN results :
             /\ results[i].revoked /\ leaks[i].rule # "gitlab-pat" => leaks[i].secret \in inactive
             /\ results[i].stored =>
                  /\ store[Name(i)] # 0
                  /\ keys[store[Name(i)]] = [run |-> runs, leak |-> i]
=============================================================================
