------------------------------- MODULE GoHelper -------------------------------
(***************************************************************************)
(* The trusted Go parser (inventory/go_sources.py): a helper binary whose  *)
(* digest the controller knows is opened, read, run through its descriptor *)
(* and looked at again, by its path too, while others may put another file *)
(* at the path or write into the one that is open. A file is its identity  *)
(* (inode, size, times: any change of it gives another) and its contents.  *)
(***************************************************************************)
EXTENDS Integers

CONSTANT MaxChanges   \* bound of the model: changes of the file system

ASSUME GoAssumption == MaxChanges \in Nat

VARIABLES
    helper,     \* step of the parser
    opened,     \* the open file: its inode, its identity, what it holds
    atPath,     \* the inode at the path; 0 for none
    initial,    \* the identity fstat gave after the open
    hashed,     \* the contents that were read and compared with the digest
    executed,   \* the contents that ran
    answered,   \* "none", "observation", "failed", "refused"
    changes     \* changes of the file system so far

goVars == <<helper, opened, atPath, initial, hashed, executed, answered, changes>>

Contents == {"pinned", "other"}

\* The file the path names when the parser starts.
GoInit(holds) ==
    /\ helper = "open" /\ atPath = 1
    /\ opened = [inode |-> 1, identity |-> 1, holds |-> holds]
    /\ initial = 0 /\ hashed = "none" /\ executed = "none" /\ answered = "none" /\ changes = 0

GoTypeOK ==
    /\ helper \in {"open", "hash", "recheck", "run", "decode", "close", "ended"}
    /\ opened \in [inode : 0..MaxChanges + 1, identity : Nat, holds : Contents]
    /\ atPath \in 0..MaxChanges + 1 /\ initial \in Nat
    /\ {hashed, executed} \subseteq Contents \cup {"none"}
    /\ answered \in {"none", "observation", "failed", "refused"}
    /\ changes \in 0..MaxChanges

-----------------------------------------------------------------------------
(* Everybody else.                                                         *)

Changing == changes < MaxChanges /\ changes' = changes + 1 /\ helper # "ended"

\* Another file takes the path, or none, or the first comes back; that may show in the
\* times of the file that is open. Before the open it is the one that is opened.
ReplacePath ==
    /\ Changing
    /\ atPath' \in {0, opened.inode, changes + 2}
    /\ IF helper = "open"
       THEN \E c \in Contents : opened' = [inode |-> atPath', identity |-> 1, holds |-> c]
       ELSE opened' \in {opened, [opened EXCEPT !.identity = @ + 1]}
    /\ UNCHANGED <<helper, initial, hashed, executed, answered>>

\* The bytes of the file change in place, and with them its times.
WriteInPlace ==
    /\ Changing /\ opened.inode # 0
    /\ \E c \in Contents : opened' = [opened EXCEPT !.identity = @ + 1, !.holds = c]
    /\ UNCHANGED <<helper, atPath, initial, hashed, executed, answered>>

-----------------------------------------------------------------------------
(* The parser.                                                             *)

Proceed(step) == helper' = step /\ UNCHANGED <<opened, atPath, answered, changes>>

\* Whatever the answer, it passes through the finally clause.
Answer(a) == helper' = "close" /\ answered' = a /\ UNCHANGED <<opened, atPath, changes>>

OpenHelper ==
    /\ helper = "open"
    /\ initial' = opened.identity
    /\ IF atPath = 0
       THEN helper' = "ended" /\ answered' = "failed" /\ UNCHANGED <<opened, atPath, changes>>
       ELSE Proceed("hash")
    /\ UNCHANGED <<hashed, executed>>

SameAsOpened == opened.identity = initial

\* The digest is of what was read chunk by chunk: bytes written meanwhile give another.
\* The deadline may pass, and a file that has grown is refused before it has ended.
HashHelper ==
    /\ helper = "hash"
    /\ hashed' = opened.holds
    /\ \/ opened.holds = "pinned" /\ Proceed("recheck")
       \/ Answer("failed")
       \/ ~SameAsOpened /\ Answer("refused")
    /\ UNCHANGED <<initial, executed>>

RecheckHelper ==
    /\ helper = "recheck"
    /\ \/ SameAsOpened /\ (Proceed("run") \/ Answer("failed"))
       \/ ~SameAsOpened /\ Answer("refused")
    /\ UNCHANGED <<initial, hashed, executed>>

\* The helper runs through the descriptor, whatever the path names by now.
RunHelper ==
    /\ helper = "run"
    /\ \/ executed' = opened.holds /\ Proceed("decode")
       \/ executed' = opened.holds /\ Answer("failed")
       \/ executed' = executed /\ Answer("failed")
    /\ UNCHANGED <<initial, hashed>>

\* Slip: the file is not looked at again after the run.
UnchangedUnasked == TRUE

\* The open file and the one at the path are still the file that was opened.
Unchanged == SameAsOpened /\ atPath = opened.inode

\* A helper that is no longer the one that was opened refuses the whole inventory;
\* what it says is taken only if it is of this very content, in order and in place.
DecodeAnswer ==
    /\ helper = "decode"
    /\ IF ~Unchanged THEN Answer("refused") ELSE Answer("observation") \/ Answer("failed")
    /\ UNCHANGED <<initial, hashed, executed>>

\* The checks of the whole composition run out: nothing is caught, the finally clause runs.
ChecksSpent ==
    /\ \/ helper = "open" /\ helper' = "ended" /\ answered' = "refused" /\ UNCHANGED <<opened, atPath, changes>>
       \/ helper \in {"hash", "decode"} /\ Answer("refused")
    /\ UNCHANGED <<initial, hashed, executed>>

CloseHelper ==
    /\ helper = "close"
    /\ helper' = "ended"
    /\ answered' = IF Unchanged THEN answered ELSE "refused"
    /\ UNCHANGED <<opened, atPath, initial, hashed, executed, changes>>

GoNext ==
    \/ ReplacePath \/ WriteInPlace
    \/ OpenHelper \/ HashHelper \/ RecheckHelper \/ RunHelper \/ DecodeAnswer
    \/ ChecksSpent \/ CloseHelper

GoSpec == (\E c \in Contents : GoInit(c)) /\ [][GoNext]_goVars

-----------------------------------------------------------------------------
(* Properties.                                                             *)

\* What enters the inventory as an observation of a go.mod came out of the very bytes the
\* controller trusts, though the file may have changed before, after or while it ran.
ObservedByThePinned ==
    helper = "ended" /\ answered = "observation" => executed = "pinned"
=============================================================================
