----------------------------- MODULE ToolProofs -----------------------------
(***************************************************************************)
(* What comes of the tools. For any scanners, any number of workers and    *)
(* any interrupts no output stays behind. For every call, tree and plan an *)
(* answer comes of a tool that ended, and the tree KICS gets stands on its *)
(* own. Nothing but the trusted bytes of the helper is taken for an        *)
(* observation of the Go parser, however often its file changes.           *)
(***************************************************************************)
EXTENDS ScannerPool, ScannerWrappers, GoHelper, SequenceTheorems, TLAPS
LOCAL INSTANCE SequencesExt

-----------------------------------------------------------------------------
(* The pool of scanners.                                                   *)

AllDone == \A i \in Scanners : future[i] = "done"

\* No tool runs, and none will.
Quiet == \A i \in Scanners : future[i] \notin {"queued", "running", "read"}

\* A report on disk belongs to a tool that runs, or that ended well and is accounted for,
\* or it is the one php-vuln could not write. Only an interrupted serial run gives that up.
ReportsAccounted ==
    \/ stage = "interrupted" /\ workers = 1
    \/ \A i \in disk : \/ future[i] \in {"running", "read"}
                       \/ future[i] = "done" /\ (raw => i \in ToSet(created))
                       \/ future[i] = "failed" /\ OpensReportLast(i)

\* Where the caller is tells what the tools may still do.
SerialStage ==
    /\ stage \in {"serial", "convert"} \cup Ended
    /\ stage = "serial" => /\ \A i \in Scanners : i < position => future[i] = "done"
                           /\ \A i \in Scanners : i > position => future[i] = "idle"
    /\ stage # "serial" => Quiet

PoolStage ==
    /\ stage # "serial"
    /\ stage = "submit" => position \in Scanners /\ \A i \in Scanners : i >= position => future[i] = "idle"
    /\ stage \in {"drain", "clean"} => \A i \in Scanners : future[i] # "queued"
    /\ stage \in {"clean", "convert"} \cup Ended => Quiet

Stage == IF workers = 1 THEN SerialStage ELSE PoolStage

\* The cleanup runs because of a failure or an interrupt, and is only left by another one.
Causes ==
    /\ stage \in {"cancel", "drain", "clean"} => error # 0 \/ interrupts >= 1
    /\ stage = "leaving" => error # 0 \/ interrupts > 1

\* The conversion has removed what it is past.
Conversion ==
    stage = "convert" => raw /\ AllDone /\ outputs = [i \in Scanners |-> i] /\ \A i \in disk : i >= position

PoolInv ==
    PoolTypeOK /\ ReportsAccounted /\ Stage /\ Causes /\ Conversion /\ NoOutputLeftBehind

LEMMA Numbers ==
    /\ Len(Enabled) \in Nat \ {0} /\ Scanners = 1..Len(Enabled) /\ WorkerChoices \subseteq 1..10
    /\ MaxInterrupts \in Nat
    /\ [i \in Scanners |-> i] \in Seq(Scanners)
    /\ Len([i \in Scanners |-> i]) = Len(Enabled)
<1>1. Enabled \in Seq(Known) /\ Enabled # <<>> /\ WorkerChoices \subseteq 1..10 /\ MaxInterrupts \in Nat
  BY PoolAssumption
<1>2. Len(Enabled) \in Nat \ {0} /\ Scanners = 1..Len(Enabled)
  BY <1>1 DEF Scanners
<1>. QED  BY <1>1, <1>2

LEMMA SetOfAppended ==
    ASSUME NEW S, NEW s \in Seq(S), NEW e \in S
    PROVE  Append(s, e) \in Seq(S) /\ ToSet(Append(s, e)) = ToSet(s) \cup {e}
<1>. DEFINE t == Append(s, e)
<1>1. /\ t \in Seq(S) /\ Len(s) \in Nat /\ Len(s) + 1 \in DOMAIN t /\ t[Len(s) + 1] = e
      /\ \A k \in DOMAIN s : k \in DOMAIN t /\ t[k] = s[k]
      /\ \A k \in DOMAIN t : k \in DOMAIN s \/ k = Len(s) + 1
  OBVIOUS
<1>. HIDE DEF t
<1>2. \A x : x \in ToSet(t) <=> x \in ToSet(s) \/ x = e
  BY <1>1 DEF ToSet
<1>3. ToSet(t) = ToSet(s) \cup {e}
  BY <1>2
<1>. QED  BY <1>1, <1>3 DEF t

LEMMA PoolInitially == PoolInit => PoolInv
<1>. SUFFICES ASSUME PoolInit PROVE PoolInv
  OBVIOUS
<1>1. <<>> \in Seq(Scanners) /\ <<>> \in Seq(Scanners \X BOOLEAN)
  BY EmptySeq
<1>2. /\ raw \in BOOLEAN /\ workers \in 1..10 /\ workers \in WorkerChoices
      /\ stage \in {"submit", "serial"} /\ (stage = "serial" <=> workers = 1)
      /\ position = 1 /\ position \in Scanners /\ 0 \in 0..MaxInterrupts
  BY Numbers DEF PoolInit
<1>3. PoolTypeOK
  <2>1. future \in [Scanners -> {"idle", "queued", "running", "read", "done", "failed", "cancelled"}]
    BY DEF PoolInit
  <2>2. saw \in [Scanners -> BOOLEAN] /\ deps \in BOOLEAN
    BY DEF PoolInit
  <2>3. position \in 1..Len(Enabled) + 1
    BY <1>2, Numbers
  <2>. QED  BY <1>1, <1>2, <2>1, <2>2, <2>3 DEF PoolInit, PoolTypeOK
<1>4. Stage
  <2>1. \A i \in Scanners : future[i] = "idle" /\ i >= position
    BY <1>2, Numbers DEF PoolInit
  <2>. QED  BY <1>2, <2>1, Numbers DEF Stage, SerialStage, PoolStage, Ended
<1>. QED  BY <1>2, <1>3, <1>4 DEF PoolInit, PoolInv, ReportsAccounted, Causes, Conversion, NoOutputLeftBehind, Ended

-----------------------------------------------------------------------------
(* The tools.                                                              *)

\* A tool that moves was queued, or is the one the serial loop is at; the call has not ended.
LEMMA MovingTool ==
    ASSUME PoolInv, NEW i \in Scanners, future[i] \in {"running", "read"} \/ MayRun(i)
    PROVE  /\ stage \notin {"clean", "convert"} \cup Ended
           /\ stage = "drain" => future[i] # "queued"
           /\ workers = 1 => stage = "serial" /\ position = i
           /\ workers # 1 /\ stage = "submit" => i < position
<1>. USE DEF PoolInv, Stage
<1>1. workers \in 1..10 /\ position \in Nat /\ i \in Nat
  BY Numbers DEF PoolTypeOK
<1>2. CASE workers = 1
  BY <1>1, <1>2 DEF SerialStage, MayRun, Quiet, Ended
<1>3. CASE workers # 1
  BY <1>1, <1>3 DEF PoolStage, MayRun, Quiet, Ended
<1>. QED  BY <1>2, <1>3

LEMMA StartKeeps == ASSUME PoolInv, NEW i \in Scanners, Start(i) PROVE PoolInv'
<1>1. /\ future' = [future EXCEPT ![i] = "running"] /\ disk' \subseteq disk \cup {i}
      /\ UNCHANGED <<request, stage, position, saw, deps, created, results, error, interrupts>>
  BY DEF Start
<1>2. MayRun(i) /\ PoolTypeOK /\ workers \in 1..10 /\ position \in Nat /\ i \in Nat
  BY Numbers DEF PoolInv, PoolTypeOK, Start
<1>3. /\ stage \notin {"clean", "convert"} \cup Ended /\ stage # "drain"
      /\ workers = 1 => stage = "serial" /\ position = i
      /\ workers # 1 /\ stage = "submit" => i < position
  <2>1. stage # "drain"
    BY <1>2, MovingTool DEF MayRun, PoolInv, Stage, SerialStage, Ended
  <2>. QED  BY <1>2, <2>1, MovingTool
<1>4. PoolTypeOK'
  BY <1>1, <1>2 DEF PoolTypeOK, request, results
<1>5. ReportsAccounted'
  BY <1>1, <1>2, <1>3 DEF PoolInv, ReportsAccounted, PoolTypeOK, request, Ended
<1>6. Stage'
  BY <1>1, <1>2, <1>3 DEF PoolInv, Stage, SerialStage, PoolStage, PoolTypeOK, request, Quiet
<1>7. Causes' /\ Conversion' /\ NoOutputLeftBehind'
  BY <1>1, <1>3 DEF PoolInv, Causes, Conversion, NoOutputLeftBehind
<1>. QED  BY <1>4, <1>5, <1>6, <1>7 DEF PoolInv

LEMMA ReadKeeps == ASSUME PoolInv, NEW i \in Scanners, ReadTree(i) PROVE PoolInv'
<1>1. /\ future[i] = "running" /\ future' = [future EXCEPT ![i] = "read"]
      /\ UNCHANGED <<request, stage, position, disk, created, results, error, interrupts>>
  BY DEF ReadTree
<1>2. /\ stage \notin {"clean", "convert"} \cup Ended
      /\ workers = 1 => stage = "serial" /\ position = i
      /\ workers # 1 /\ stage = "submit" => i < position
  BY <1>1, MovingTool
<1>3. PoolTypeOK /\ workers \in 1..10 /\ position \in Nat /\ i \in Nat
  BY Numbers DEF PoolInv, PoolTypeOK
<1>4. PoolTypeOK'
  <2>1. deps' \in BOOLEAN
    BY <1>3 DEF ReadTree, PoolTypeOK
  <2>2. saw' \in [Scanners -> BOOLEAN]
    BY <1>3, <2>1 DEF ReadTree, PoolTypeOK
  <2>. QED  BY <1>1, <1>3, <2>1, <2>2 DEF PoolTypeOK, request, results
<1>5. ReportsAccounted'
  BY <1>1, <1>2, <1>3 DEF PoolInv, ReportsAccounted, PoolTypeOK, request, Ended
<1>6. Stage'
  BY <1>1, <1>2, <1>3 DEF PoolInv, Stage, SerialStage, PoolStage, PoolTypeOK, request, Quiet
<1>7. Causes' /\ Conversion' /\ NoOutputLeftBehind'
  BY <1>1, <1>2 DEF PoolInv, Causes, Conversion, NoOutputLeftBehind
<1>. QED  BY <1>4, <1>5, <1>6, <1>7 DEF PoolInv

LEMMA SucceedKeeps == ASSUME PoolInv, NEW i \in Scanners, Succeed(i) PROVE PoolInv'
<1>1. /\ future[i] = "read" /\ future' = [future EXCEPT ![i] = "done"] /\ disk' = disk \cup {i}
      /\ created' = IF raw THEN Append(created, i) ELSE created
      /\ position' = IF workers > 1 THEN position ELSE position + 1
      /\ UNCHANGED <<request, stage, saw, deps, results, error, interrupts>>
  BY DEF Succeed
<1>2. /\ stage \notin {"clean", "convert"} \cup Ended
      /\ workers = 1 => stage = "serial" /\ position = i
      /\ workers # 1 /\ stage = "submit" => i < position
  BY <1>1, MovingTool
<1>3. PoolTypeOK /\ workers \in 1..10 /\ position \in Nat /\ i \in 1..Len(Enabled) /\ Len(Enabled) \in Nat
      /\ created \in Seq(Scanners)
  BY Numbers DEF PoolInv, PoolTypeOK
<1>4. created' \in Seq(Scanners) /\ ToSet(created) \subseteq ToSet(created') /\ (raw => i \in ToSet(created'))
  <2>1. CASE raw
    BY <1>1, <1>3, <2>1, SetOfAppended
  <2>2. CASE ~raw
    BY <1>1, <1>3, <2>2
  <2>. QED  BY <2>1, <2>2
<1>5. PoolTypeOK'
  <2>1. position' \in 1..Len(Enabled) + 1
    BY <1>1, <1>2, <1>3 DEF PoolTypeOK
  <2>. QED  BY <1>1, <1>3, <1>4, <2>1 DEF PoolTypeOK, request, results
<1>6. ReportsAccounted'
  BY <1>1, <1>2, <1>3, <1>4 DEF PoolInv, ReportsAccounted, PoolTypeOK, request, Ended
<1>7. Stage'
  <2>1. CASE workers = 1
    <3>1. position' = i + 1 /\ \A j \in Scanners : j \in Nat
      BY <1>1, <1>2, <1>3, <2>1, Numbers
    <3>. QED  BY <1>1, <1>2, <1>3, <2>1, <3>1 DEF PoolInv, Stage, SerialStage, PoolTypeOK, request
  <2>2. CASE workers # 1
    BY <1>1, <1>2, <1>3, <2>2 DEF PoolInv, Stage, PoolStage, PoolTypeOK, request, Quiet
  <2>. QED  BY <2>1, <2>2
<1>8. Causes' /\ Conversion' /\ NoOutputLeftBehind'
  BY <1>1, <1>2 DEF PoolInv, Causes, Conversion, NoOutputLeftBehind
<1>. QED  BY <1>5, <1>6, <1>7, <1>8 DEF PoolInv

LEMMA FailKeeps == ASSUME PoolInv, NEW i \in Scanners, Fail(i) PROVE PoolInv'
<1>1. /\ future[i] \in {"running", "read"} /\ future' = [future EXCEPT ![i] = "failed"]
      /\ disk' = disk \ {i} \/ (OpensReportLast(i) /\ disk' = disk \cup {i})
      /\ UNCHANGED <<request, stage, position, saw, deps, created, results, error, interrupts>>
  BY DEF Fail
<1>2. /\ stage \notin {"clean", "convert"} \cup Ended
      /\ workers = 1 => stage = "serial" /\ position = i
      /\ workers # 1 /\ stage = "submit" => i < position
  BY <1>1, MovingTool
<1>3. PoolTypeOK /\ workers \in 1..10 /\ position \in Nat /\ i \in Nat
  BY Numbers DEF PoolInv, PoolTypeOK
<1>4. PoolTypeOK'
  BY <1>1, <1>3 DEF PoolTypeOK, request, results
<1>5. ReportsAccounted'
  <2>1. CASE stage = "interrupted" /\ workers = 1
    BY <1>1, <2>1 DEF ReportsAccounted, request
  <2>2. CASE ~(stage = "interrupted" /\ workers = 1)
    <3>1. \A j \in disk : \/ future[j] \in {"running", "read"}
                          \/ future[j] = "done" /\ (raw => j \in ToSet(created))
                          \/ future[j] = "failed" /\ OpensReportLast(j)
      BY <2>2 DEF PoolInv, ReportsAccounted
    <3>2. future' = [future EXCEPT ![i] = "failed"] /\ DOMAIN future = Scanners
      BY <1>1, <1>3 DEF PoolTypeOK
    <3>3. raw' = raw /\ created' = created /\ OpensReportLast(i)' = OpensReportLast(i)
      BY <1>1 DEF request, OpensReportLast
    <3>4. ASSUME NEW j \in disk', j # i
          PROVE  \/ future'[j] \in {"running", "read"}
                 \/ future'[j] = "done" /\ (raw => j \in ToSet(created))
                 \/ future'[j] = "failed" /\ OpensReportLast(j)
      <4>1. j \in disk /\ future'[j] = future[j]
        BY <1>1, <3>2, <3>4
      <4>. QED  BY <3>1, <4>1
    <3>5. i \in disk' => future'[i] = "failed" /\ OpensReportLast(i)
      BY <1>1, <3>2
    <3>. QED  BY <3>3, <3>4, <3>5 DEF ReportsAccounted, OpensReportLast
  <2>. QED  BY <2>1, <2>2
<1>6. Stage'
  BY <1>1, <1>2, <1>3 DEF PoolInv, Stage, SerialStage, PoolStage, PoolTypeOK, request, Quiet
<1>7. Causes' /\ Conversion' /\ NoOutputLeftBehind'
  BY <1>1, <1>2 DEF PoolInv, Causes, Conversion, NoOutputLeftBehind
<1>. QED  BY <1>4, <1>5, <1>6, <1>7 DEF PoolInv

-----------------------------------------------------------------------------
(* The caller.                                                             *)

LEMMA SubmitKeeps == ASSUME PoolInv, SubmitNext PROVE PoolInv'
<1>1. /\ stage = "submit" /\ future' = [future EXCEPT ![position] = "queued"]
      /\ IF position = Len(Enabled) THEN stage' = "wait" /\ position' = 1 ELSE stage' = stage /\ position' = position + 1
      /\ UNCHANGED <<request, saw, deps, disk, created, results, error, interrupts>>
  BY DEF SubmitNext
<1>2. /\ PoolTypeOK /\ workers # 1 /\ position \in 1..Len(Enabled) /\ Len(Enabled) \in Nat
      /\ Scanners = 1..Len(Enabled) /\ position \in Scanners /\ future[position] = "idle"
      /\ \A i \in Scanners : i \in Nat /\ (i >= position => future[i] = "idle")
  BY <1>1, Numbers DEF PoolInv, Stage, PoolStage, SerialStage, Ended
<1>3. stage' \in {"submit", "wait"} /\ position' \in 1..Len(Enabled) + 1 /\ (stage' = "submit" => position' \in Scanners /\ position' > position)
  <2>1. CASE position = Len(Enabled)
    BY <1>1, <1>2, <2>1
  <2>2. CASE position # Len(Enabled)
    BY <1>1, <1>2, <2>2
  <2>. QED  BY <2>1, <2>2
<1>4. PoolTypeOK'
  BY <1>1, <1>2, <1>3 DEF PoolTypeOK, request, results
<1>5. ReportsAccounted'
  <2>1. future[position] = "idle" /\ \A i \in disk : i \in Scanners
    BY <1>2 DEF PoolTypeOK
  <2>2. \A i \in disk : i # position
    BY <1>1, <2>1 DEF PoolInv, ReportsAccounted
  <2>3. \A i \in disk : future'[i] = future[i]
    BY <1>1, <1>2, <2>1, <2>2 DEF PoolTypeOK
  <2>. QED  BY <1>1, <2>3 DEF PoolInv, ReportsAccounted, request, OpensReportLast
<1>6. Stage'
  BY <1>1, <1>2, <1>3 DEF PoolInv, Stage, PoolStage, PoolTypeOK, request, Ended
<1>7. Causes' /\ Conversion' /\ NoOutputLeftBehind'
  BY <1>3 DEF Causes, Conversion, NoOutputLeftBehind, Ended
<1>. QED  BY <1>4, <1>5, <1>6, <1>7 DEF PoolInv

LEMMA GatherKeeps == ASSUME PoolInv, Gather PROVE PoolInv'
<1>1. /\ stage \in {"wait", "serial"} /\ (stage = "serial" => position > Len(Enabled)) /\ (stage = "wait" => AllDone)
      /\ answer' = Findings /\ outputs' = RawOutputs /\ position' = 1
      /\ stage' = IF raw THEN "convert" ELSE "returned"
      /\ UNCHANGED <<request, tools, disk, created, error, interrupts>>
  BY DEF Gather, AllDone
<1>2. PoolTypeOK /\ Len(Enabled) \in Nat \ {0} /\ Scanners = 1..Len(Enabled) /\ position \in Nat
  BY Numbers DEF PoolInv, PoolTypeOK
<1>3. AllDone
  BY <1>1, <1>2 DEF AllDone, PoolInv, Stage, SerialStage, PoolStage
<1>4. AllDone' /\ Quiet'
  BY <1>1, <1>3 DEF AllDone, Quiet, tools
<1>5. PoolTypeOK'
  <2>1. answer' \in Seq(Scanners \X BOOLEAN)
    <3>1. \A i \in 1..Len(Enabled) : <<i, saw[i]>> \in Scanners \X BOOLEAN
      BY <1>2 DEF PoolTypeOK
    <3>2. Findings = [i \in 1..Len(Enabled) |-> <<i, saw[i]>>]
      BY <1>2 DEF Findings
    <3>. QED  BY <1>1, <1>2, <3>1, <3>2
  <2>2. outputs' \in Seq(Scanners)
    BY <1>1, Numbers, EmptySeq DEF RawOutputs
  <2>. QED  BY <1>1, <1>2, <2>1, <2>2 DEF PoolTypeOK, request, tools, Ended
<1>6. ReportsAccounted'
  BY <1>1, <1>2 DEF PoolInv, ReportsAccounted, PoolTypeOK, request, tools, Ended
<1>7. Stage'
  BY <1>1, <1>4 DEF PoolInv, Stage, SerialStage, PoolStage, request, tools, Ended, Quiet
<1>8. Causes' /\ Conversion' /\ NoOutputLeftBehind'
  <2>1. \A i \in disk' : i >= position'
    BY <1>1, <1>2 DEF PoolTypeOK
  <2>. QED  BY <1>1, <1>4, <2>1 DEF Causes, Conversion, NoOutputLeftBehind, RawOutputs, request, Ended
<1>. QED  BY <1>5, <1>6, <1>7, <1>8 DEF PoolInv

\* The steps of the caller that move nothing but itself.
LEMMA MovesKeep ==
    ASSUME PoolInv, SeeFailure \/ CancelRestEnd \/ Drain \/ Left \/ InterruptPool \/ InterruptCleanup
    PROVE  PoolInv'
<1>1. /\ UNCHANGED <<request, position, tools, disk, created, results>>
      /\ stage \in {"wait", "submit", "cancel", "drain", "clean", "leaving"}
      /\ stage' \in {"cancel", "drain", "clean", "leaving", "interrupted"}
  BY DEF SeeFailure, CancelRestEnd, Drain, Left, InterruptPool, InterruptCleanup
<1>2. /\ PoolTypeOK /\ workers # 1 /\ ReportsAccounted /\ Scanners = 1..Len(Enabled) /\ Len(Enabled) \in Nat
      /\ MaxInterrupts \in Nat
  BY <1>1, Numbers DEF PoolInv, Stage, SerialStage, Ended
<1>3. error' \in Scanners \cup {0} /\ interrupts' \in 0..MaxInterrupts /\ interrupts' >= interrupts
      /\ (error # 0 => error' # 0)
  BY <1>2 DEF SeeFailure, CancelRestEnd, Drain, Left, InterruptPool, InterruptCleanup, PoolTypeOK, Interrupted
<1>4. PoolTypeOK'
  BY <1>1, <1>2, <1>3 DEF PoolTypeOK, request, tools, results, Ended
<1>5. ReportsAccounted'
  BY <1>1, <1>2 DEF ReportsAccounted, request, tools
<1>6. Causes'
  BY <1>1, <1>2, <1>3 DEF PoolInv, Causes, PoolTypeOK, SeeFailure, CancelRestEnd, Drain, Left, InterruptPool,
       InterruptCleanup, Interrupted
<1>7. Stage' /\ (stage' = "interrupted" => stage = "leaving" /\ Quiet)
  <2>1. stage' \in {"drain", "clean"} => \A i \in Scanners : future[i] # "queued"
    <3>1. CASE CancelRestEnd
      <4>1. Waiting = {}
        BY <3>1 DEF CancelRestEnd
      <4>. QED  BY <4>1 DEF Waiting
    <3>2. CASE Drain
      BY <1>2, <3>2 DEF PoolInv, Stage, PoolStage, Drain
    <3>. QED  BY <3>1, <3>2 DEF SeeFailure, Left, InterruptPool, InterruptCleanup
  <2>2. stage' \in {"clean", "interrupted"} => Quiet
    <3>1. CASE Drain
      <4>1. stage = "drain" /\ Working = {}
        BY <3>1 DEF Drain
      <4>. QED  BY <1>2, <4>1 DEF PoolInv, Stage, PoolStage, Working, Quiet
    <3>2. CASE Left
      <4>1. Waiting = {} /\ Working = {}
        BY <3>2 DEF Left
      <4>. QED  BY <4>1 DEF Waiting, Working, Quiet
    <3>. QED  BY <1>1, <3>1, <3>2 DEF SeeFailure, CancelRestEnd, InterruptPool, InterruptCleanup
  <2>3. stage' = "interrupted" => stage = "leaving"
    BY <1>1 DEF SeeFailure, CancelRestEnd, Drain, Left, InterruptPool, InterruptCleanup
  <2>. QED  BY <1>1, <1>2, <2>1, <2>2, <2>3 DEF Stage, PoolStage, Quiet, request, tools, Ended
<1>8. Conversion' /\ NoOutputLeftBehind'
  <2>1. CASE stage' = "interrupted"
    <3>1. stage = "leaving" /\ error' = error /\ interrupts' = interrupts
      BY <1>1, <1>7, <2>1 DEF SeeFailure, CancelRestEnd, Drain, Left, InterruptPool, InterruptCleanup
    <3>. QED  BY <2>1, <3>1 DEF PoolInv, Causes, Conversion, NoOutputLeftBehind
  <2>2. CASE stage' # "interrupted"
    BY <1>1, <2>2 DEF Conversion, NoOutputLeftBehind, Ended
  <2>. QED  BY <2>1, <2>2
<1>. QED  BY <1>4, <1>5, <1>6, <1>7, <1>8 DEF PoolInv

LEMMA CancelNextKeeps == ASSUME PoolInv, CancelRest PROVE PoolInv'
<1>1. PICK i \in Waiting : future' = [future EXCEPT ![i] = "cancelled"]
  BY DEF CancelRest
<1>2. /\ stage = "cancel" /\ i \in Scanners /\ future[i] = "queued"
      /\ UNCHANGED <<request, stage, position, saw, deps, disk, created, results, error, interrupts>>
  BY <1>1 DEF CancelRest, Waiting
<1>3. PoolTypeOK /\ workers # 1
  BY <1>2 DEF PoolInv, Stage, SerialStage, Ended
<1>4. PoolTypeOK'
  BY <1>1, <1>2, <1>3 DEF PoolTypeOK, request, results
<1>5. ReportsAccounted'
  BY <1>1, <1>2, <1>3 DEF PoolInv, ReportsAccounted, PoolTypeOK, request
<1>6. Stage'
  BY <1>1, <1>2, <1>3 DEF PoolInv, Stage, PoolStage, PoolTypeOK, request, Ended
<1>7. Causes' /\ Conversion' /\ NoOutputLeftBehind'
  BY <1>2 DEF PoolInv, Causes, Conversion, NoOutputLeftBehind, Ended
<1>. QED  BY <1>4, <1>5, <1>6, <1>7 DEF PoolInv

\* Nothing runs any more: what the cleanup leaves is what php-vuln could not write.
LEMMA CleanKeeps == ASSUME PoolInv, Clean PROVE PoolInv'
<1>1. /\ stage = "clean" /\ disk' = (IF raw THEN disk \ ToSet(created) ELSE disk)
      /\ stage' = IF error = 0 THEN "interrupted" ELSE "failed"
      /\ UNCHANGED <<request, position, tools, created, results, error, interrupts>>
  BY DEF Clean
<1>2. PoolTypeOK /\ workers # 1 /\ Quiet /\ \A i \in disk : i \in Scanners
  BY <1>1 DEF PoolInv, Stage, SerialStage, PoolStage, Ended, PoolTypeOK
<1>3. \A i \in disk : \/ future[i] = "done" /\ (raw => i \in ToSet(created))
                      \/ future[i] = "failed" /\ OpensReportLast(i)
  <2>1. ReportsAccounted /\ stage # "interrupted"
    BY <1>1 DEF PoolInv
  <2>. QED  BY <1>2, <2>1 DEF ReportsAccounted, Quiet
<1>4. PoolTypeOK'
  BY <1>1, <1>2 DEF PoolTypeOK, request, tools, results, Ended
<1>5. ReportsAccounted'
  BY <1>1, <1>3 DEF ReportsAccounted, request, tools
<1>6. Stage'
  BY <1>1, <1>2 DEF Stage, PoolStage, request, tools, Quiet, Ended
<1>7. Causes' /\ Conversion'
  BY <1>1 DEF Causes, Conversion
<1>8. NoOutputLeftBehind'
  <2>1. raw => \A i \in disk' : i \in Scanners /\ OpensReportLast(i) /\ future'[i] = "failed"
    BY <1>1, <1>2, <1>3 DEF tools
  <2>. QED  BY <1>1, <2>1 DEF NoOutputLeftBehind, request
<1>. QED  BY <1>4, <1>5, <1>6, <1>7, <1>8 DEF PoolInv

LEMMA SerialFailureKeeps == ASSUME PoolInv, SerialFailure PROVE PoolInv'
<1>1. /\ stage = "serial" /\ position <= Len(Enabled) /\ future[position] = "failed" /\ error' = position
      /\ disk' = (IF raw THEN disk \ (1..position - 1) ELSE disk) /\ stage' = "failed"
      /\ UNCHANGED <<request, position, tools, created, results, interrupts>>
  BY DEF SerialFailure
<1>2. PoolTypeOK /\ workers = 1 /\ position \in Scanners /\ Scanners = 1..Len(Enabled) /\ Len(Enabled) \in Nat
  BY <1>1, Numbers DEF PoolInv, Stage, PoolStage, PoolTypeOK
<1>3. \A i \in Scanners : \/ i < position /\ future[i] = "done"
                          \/ i = position /\ future[i] = "failed"
                          \/ i > position /\ future[i] = "idle"
  BY <1>1, <1>2 DEF PoolInv, Stage, SerialStage
<1>4. PoolTypeOK'
  BY <1>1, <1>2 DEF PoolTypeOK, request, tools, results, Ended
<1>5. ReportsAccounted'
  BY <1>1, <1>2, <1>3 DEF PoolInv, ReportsAccounted, PoolTypeOK, request, tools
<1>6. Stage'
  BY <1>1, <1>2, <1>3 DEF Stage, SerialStage, request, tools, Quiet, Ended
<1>7. Causes' /\ Conversion'
  BY <1>1 DEF Causes, Conversion
<1>8. NoOutputLeftBehind'
  <2>1. raw => \A i \in disk' : i \in Scanners /\ OpensReportLast(i) /\ future'[i] = "failed"
    <3>1. ReportsAccounted /\ stage # "interrupted" /\ future' = future /\ \A i \in disk : i \in Scanners /\ i \in Nat
      BY <1>1, <1>2 DEF PoolInv, PoolTypeOK, tools
    <3>2. raw => \A i \in disk' : i \in disk /\ ~ i < position
      BY <1>1, <1>2, <3>1
    <3>3. raw => \A i \in disk' : future[i] = "failed"
      BY <1>3, <3>1, <3>2 DEF ReportsAccounted
    <3>. QED  BY <3>1, <3>2, <3>3 DEF ReportsAccounted
  <2>. QED  BY <1>1, <2>1 DEF NoOutputLeftBehind, request, OpensReportLast
<1>. QED  BY <1>4, <1>5, <1>6, <1>7, <1>8 DEF PoolInv

\* Where the conversion stands: its own step removes the output at hand.
LEMMA Converting ==
    ASSUME PoolInv, stage = "convert"
    PROVE  /\ PoolTypeOK /\ raw /\ Quiet /\ AllDone /\ outputs # <<>> /\ Len(outputs) = Len(Enabled)
           /\ Scanners = 1..Len(Enabled) /\ Len(Enabled) \in Nat /\ position \in Nat
           /\ ToSet(outputs) = Scanners
           /\ \A i \in Scanners : outputs[i] = i
           /\ \A i \in disk : i \in Scanners /\ i >= position
           /\ \A i \in disk : i \in ToSet(created)
<1>1. PoolTypeOK /\ raw /\ AllDone /\ outputs = [i \in Scanners |-> i] /\ \A i \in disk : i >= position
  BY DEF PoolInv, Conversion
<1>2. Quiet
  BY DEF PoolInv, Stage, SerialStage, PoolStage
<1>3. /\ Scanners = 1..Len(Enabled) /\ Len(Enabled) \in Nat \ {0} /\ position \in Nat
      /\ Len(outputs) = Len(Enabled)
  BY <1>1, Numbers DEF PoolTypeOK
<1>4. outputs # <<>> /\ ToSet(outputs) = Scanners /\ \A i \in Scanners : outputs[i] = i
  BY <1>1, <1>3 DEF ToSet
<1>5. \A i \in disk : i \in Scanners /\ i \in ToSet(created)
  <2>1. ReportsAccounted /\ \A i \in disk : i \in Scanners
    BY <1>1 DEF PoolInv, PoolTypeOK
  <2>. QED  BY <1>1, <2>1 DEF ReportsAccounted, AllDone
<1>. QED  BY <1>1, <1>2, <1>3, <1>4, <1>5

LEMMA ConversionKeeps ==
    ASSUME PoolInv, Convert \/ ConvertFails \/ Converted \/ InterruptConversion
    PROVE  PoolInv'
<1>1. /\ stage = "convert" /\ UNCHANGED <<request, tools, created, results>> /\ disk' \subseteq disk
      /\ stage' \in {"convert", "failed", "returned", "interrupted"}
  BY DEF Convert, ConvertFails, Converted, InterruptConversion
<1>2. /\ PoolTypeOK /\ raw /\ Quiet /\ AllDone /\ outputs # <<>> /\ Len(outputs) = Len(Enabled)
      /\ Scanners = 1..Len(Enabled) /\ Len(Enabled) \in Nat /\ position \in Nat
      /\ ToSet(outputs) = Scanners
      /\ \A i \in Scanners : outputs[i] = i
      /\ \A i \in disk : i \in Scanners /\ i >= position
      /\ \A i \in disk : i \in ToSet(created)
  BY <1>1, Converting
<1>3. ReportsAccounted /\ Stage /\ MaxInterrupts \in Nat
  BY Numbers DEF PoolInv
<1>4. position' \in 1..Len(Enabled) + 1 /\ error' \in Scanners \cup {0} /\ interrupts' \in 0..MaxInterrupts
  <2>1. position \in 1..Len(Enabled) + 1 /\ error \in Scanners \cup {0} /\ interrupts \in 0..MaxInterrupts
    BY <1>2 DEF PoolTypeOK
  <2>2. position <= Len(outputs) => outputs[position] = position /\ position \in Scanners
    BY <1>2, <2>1
  <2>. QED  BY <1>2, <1>3, <2>1, <2>2 DEF Convert, ConvertFails, Converted, InterruptConversion, Interrupted
<1>5. PoolTypeOK'
  BY <1>1, <1>2, <1>4 DEF PoolTypeOK, request, tools, results, Ended
<1>6. ReportsAccounted'
  BY <1>1, <1>2 DEF ReportsAccounted, AllDone, request, tools
<1>7. Stage'
  BY <1>1, <1>2, <1>3 DEF Stage, SerialStage, PoolStage, Quiet, request, tools, Ended
<1>8. Causes'
  BY <1>1 DEF Causes
<1>9. Conversion'
  <2>. SUFFICES ASSUME stage' = "convert" PROVE Conversion'
    BY DEF Conversion
  <2>1. Convert
    BY DEF ConvertFails, Converted, InterruptConversion, Convert
  <2>2. disk' = disk \ {position} /\ position' = position + 1
    <3>1. position \in Scanners
      BY <1>2, <2>1 DEF Convert, PoolTypeOK
    <3>. QED  BY <1>2, <2>1, <3>1 DEF Convert
  <2>3. \A i \in disk' : i >= position'
    BY <1>2, <2>2
  <2>. QED  BY <1>1, <1>2, <2>3 DEF Conversion, PoolInv, AllDone, request, tools, results
<1>10. NoOutputLeftBehind'
  <2>1. CASE ConvertFails
    <3>1. disk' = {}
      BY <1>2, <2>1 DEF ConvertFails, PoolTypeOK
    <3>. QED  BY <3>1 DEF NoOutputLeftBehind
  <2>2. CASE Converted
    <3>1. disk' = {}
      BY <1>2, <2>2 DEF Converted
    <3>. QED  BY <3>1 DEF NoOutputLeftBehind
  <2>3. CASE Convert
    BY <2>3 DEF Convert, NoOutputLeftBehind, Ended
  <2>4. CASE InterruptConversion
    BY <1>1, <1>2, <2>4 DEF InterruptConversion, NoOutputLeftBehind, results
  <2>. QED  BY <2>1, <2>2, <2>3, <2>4
<1>. QED  BY <1>5, <1>6, <1>7, <1>8, <1>9, <1>10 DEF PoolInv

LEMMA InterruptSerialKeeps == ASSUME PoolInv, InterruptSerial PROVE PoolInv'
<1>1. /\ stage = "serial" /\ position <= Len(Enabled) /\ future' = [future EXCEPT ![position] = "cancelled"]
      /\ future[position] \notin {"failed"} /\ disk' \subseteq disk \cup {position} /\ stage' = "interrupted"
      /\ interrupts < MaxInterrupts /\ interrupts' = interrupts + 1
      /\ UNCHANGED <<request, position, saw, deps, created, results, error>>
  BY DEF InterruptSerial, Interrupted
<1>2. PoolTypeOK /\ workers = 1 /\ position \in Scanners /\ \A i \in Scanners : i \in Nat
  BY <1>1, Numbers DEF PoolInv, Stage, PoolStage, PoolTypeOK
<1>3. \A i \in Scanners : future'[i] \in {"done", "cancelled", "idle"}
  <2>1. \A i \in Scanners : \/ i < position /\ future[i] = "done"
                            \/ i = position
                            \/ i > position /\ future[i] = "idle"
    BY <1>1, <1>2 DEF PoolInv, Stage, SerialStage, PoolTypeOK
  <2>. QED  BY <1>1, <1>2, <2>1 DEF PoolTypeOK
<1>4. PoolTypeOK'
  <2>1. interrupts' \in 0..MaxInterrupts
    BY <1>1, <1>2, Numbers DEF PoolTypeOK
  <2>. QED  BY <1>1, <1>2, <2>1 DEF PoolTypeOK, request, results, Ended
<1>5. ReportsAccounted' /\ Stage' /\ Causes' /\ Conversion' /\ NoOutputLeftBehind'
  BY <1>1, <1>2, <1>3 DEF ReportsAccounted, Stage, SerialStage, Causes, Conversion, NoOutputLeftBehind,
       Quiet, request, Ended
<1>. QED  BY <1>4, <1>5 DEF PoolInv

LEMMA PoolStays == ASSUME PoolInv, UNCHANGED poolVars PROVE PoolInv'
<1>1. UNCHANGED <<raw, workers, stage, position, future, saw, deps, disk, created, outputs, answer, error, interrupts>>
  BY DEF poolVars
<1>. QED  BY <1>1 DEF PoolInv, PoolTypeOK, ReportsAccounted, OpensReportLast, Stage, SerialStage, PoolStage, Quiet,
       Causes, Conversion, AllDone, NoOutputLeftBehind

LEMMA PoolStep == ASSUME PoolInv, [PoolNext]_poolVars PROVE PoolInv'
<1>1. CASE Tools
  <2>1. PICK i \in Scanners : Start(i) \/ ReadTree(i) \/ Succeed(i) \/ Fail(i)
    BY <1>1 DEF Tools
  <2>. QED  BY <2>1, StartKeeps, ReadKeeps, SucceedKeeps, FailKeeps
<1>2. CASE Caller
  BY <1>2, SubmitKeeps, GatherKeeps, MovesKeep, CancelNextKeeps, CleanKeeps, SerialFailureKeeps,
     ConversionKeeps DEF Caller
<1>3. CASE Interrupts
  BY <1>3, MovesKeep, ConversionKeeps, InterruptSerialKeeps DEF Interrupts
<1>4. CASE UNCHANGED poolVars
  BY <1>4, PoolStays
<1>. QED  BY <1>1, <1>2, <1>3, <1>4 DEF PoolNext

LEMMA PoolAlways == PoolSpec => []PoolInv
BY PoolInitially, PoolStep, PTL DEF PoolSpec

\* The state of a call of the scanner manager is always of its type.
THEOREM PoolTypeCorrect == PoolSpec => []PoolTypeOK
<1>1. PoolInv => PoolTypeOK
  BY DEF PoolInv
<1>. QED  BY <1>1, PoolAlways, PTL

\* For any scanners, workers and interrupts, a call that wants raw outputs leaves no
\* temporary report behind, except where it is interrupted outside every handler and
\* for the report php-vuln could not write.
THEOREM NothingLeftBehind == PoolSpec => []NoOutputLeftBehind
<1>1. PoolInv => NoOutputLeftBehind
  BY DEF PoolInv
<1>. QED  BY <1>1, PoolAlways, PTL

-----------------------------------------------------------------------------
(* The calls of the wrappers.                                              *)

CallOK ==
    /\ call.tool \in {"gitleaks", "semgrep", "kics", "grype", "grype-image", "php-vuln"}
    /\ call.planned \in Seq(Locations)
    /\ \A f \in call.repository : f.path \in Locations /\ \A ref \in f.refs : ref.to \in Locations

-----------------------------------------------------------------------------
(* An answer means a scan.                                                 *)

\* What is told of a tool that got to its end, and of one that did not.
EndedWell(r) ==
    /\ r.finished
    /\ call.tool = "semgrep" => r.exit \in {0, 1} /\ r.report = "whole"
    /\ call.tool # "semgrep" => r.errors = {}

EndedBadly(r) ==
    /\ call.tool # "php-vuln"
    /\ call.tool = "semgrep" /\ r.report = "whole" => r.exit \in {0, 1} /\ r.errors \ {"warn"} # {}
    /\ call.tool # "semgrep" => r.report # "whole" /\ ~(r.report = "empty" /\ r.exit = 0)

Reported == EndedWell(run) \/ EndedBadly(run)

Scanned == run.finished /\ (call.entry = "paths" => run.errors = {})

AnswerInv ==
    /\ CallOK
    /\ phase = "read" => Reported
    /\ phase = "rescope" => Scanned
    /\ phase # "ended" => outcome = ""
    /\ AnswerMeansScanned

LEMMA ToolsEnd ==
    /\ \A r \in Finished(staged) : EndedWell(r)
    /\ call.tool # "php-vuln" => \A r \in Died : EndedBadly(r)
<1>1. ASSUME NEW r \in Finished(staged) PROVE EndedWell(r)
  BY DEF Finished, EndedWell
<1>2. ASSUME call.tool # "php-vuln", NEW r \in Died PROVE EndedBadly(r)
  <2>a. \A E, R, X : r \in Deaths(E, R, X) => r.exit \in E /\ r.report \in R /\ r.errors \in X
    BY DEF Deaths
  <2>b. \/ r \in Deaths({1, 2}, {"missing", "empty", "garbled", "shapeless"}, {{}})
        \/ call.tool = "kics" /\ r \in Deaths({0}, {"missing"}, {{}})
        \/ /\ call.tool = "semgrep"
           /\ r \in Deaths({0, 1}, {"whole"}, {{"fatal"}, {"warn", "fatal"}, {"unheard of"}})
    BY <1>2 DEF Died
  <2>1. \/ r.exit # 0 /\ r.report # "whole"
        \/ call.tool = "kics" /\ r.exit = 0 /\ r.report = "missing"
        \/ /\ call.tool = "semgrep" /\ r.exit \in {0, 1} /\ r.report = "whole"
           /\ r.errors \in {{"fatal"}, {"warn", "fatal"}, {"unheard of"}}
    <3>1. CASE r \in Deaths({1, 2}, {"missing", "empty", "garbled", "shapeless"}, {{}})
      <4>1. /\ r.exit \in {1, 2}
            /\ r.report \in {"missing", "empty", "garbled", "shapeless"}
        BY <2>a, <3>1
      <4>2. r.exit # 0
        BY <4>1
      <4>3. r.report # "whole"
        BY <4>1
      <4>. QED  BY <4>2, <4>3
    <3>2. CASE call.tool = "kics" /\ r \in Deaths({0}, {"missing"}, {{}})
      <4>1. r.exit \in {0} /\ r.report \in {"missing"}
        BY <2>a, <3>2
      <4>. QED  BY <3>2, <4>1
    <3>3. CASE /\ call.tool = "semgrep"
               /\ r \in Deaths({0, 1}, {"whole"}, {{"fatal"}, {"warn", "fatal"}, {"unheard of"}})
      <4>1. /\ r.exit \in {0, 1} /\ r.report \in {"whole"}
            /\ r.errors \in {{"fatal"}, {"warn", "fatal"}, {"unheard of"}}
        BY <2>a, <3>3
      <4>. QED  BY <3>3, <4>1
    <3>. QED  BY <2>b, <3>1, <3>2, <3>3
  <2>2. CASE r.report = "whole"
    <3>1. r.exit \in {0, 1} /\ r.errors \in {{"fatal"}, {"warn", "fatal"}, {"unheard of"}}
      BY <2>1, <2>2
    <3>2. "fatal" \in r.errors \ {"warn"} \/ "unheard of" \in r.errors \ {"warn"}
      BY <3>1
    <3>3. r.errors \ {"warn"} # {}
      BY <3>2
    <3>4. call.tool = "semgrep"
      BY <2>1, <2>2
    <3>. QED  BY <1>2, <2>2, <3>1, <3>3, <3>4 DEF EndedBadly
  <2>3. CASE r.report # "whole"
    <3>1. ~(r.report = "empty" /\ r.exit = 0)
      BY <2>1, <2>3
    <3>. QED  BY <1>2, <2>3, <3>1 DEF EndedBadly
  <2>. QED  BY <2>2, <2>3
<1>. QED  BY <1>1, <1>2

\* The heart of it: however the tool ended, a report is accepted only if it ended well.
LEMMA AcceptedMeansScanned ==
    ASSUME CallOK, Reported, Answers = "answered"
    PROVE  Scanned
<1>1. CASE call.tool = "semgrep"
  <2>1. CASE run.report = "whole"
    <3>1. run.exit \in {0, 1}
      BY <1>1, <2>1 DEF Reported, EndedWell, EndedBadly
    <3>2. Forgiven
      BY <1>1, <2>1, <3>1 DEF Answers, SemgrepAnswers, WholeReport
    <3>3. run.errors \ {"warn"} = {} /\ (call.entry = "paths" => run.errors = {})
      BY <3>2 DEF Forgiven
    <3>. QED  BY <1>1, <2>1, <3>3 DEF Reported, EndedWell, EndedBadly, Scanned
  <2>2. CASE run.report # "whole"
    BY <1>1, <2>2 DEF Answers, SemgrepAnswers, Judged, WholeReport
  <2>. QED  BY <2>1, <2>2
<1>2. CASE call.tool # "semgrep" /\ EndedWell(run)
  BY <1>2 DEF EndedWell, Scanned
<1>3. CASE call.tool # "semgrep" /\ EndedBadly(run)
  <2>1. ~WholeReport /\ ~EmptyIsClean
    BY <1>3 DEF EndedBadly, WholeReport, EmptyIsClean
  <2>. QED  BY <1>3, <2>1 DEF EndedBadly, CallOK, Answers, Judged, GitleaksAnswers, KicsAnswers,
                            GrypeAnswers, ImageAnswers
<1>. QED  BY <1>1, <1>2, <1>3 DEF Reported

\* The ends of a call that are no answer.
LEMMA FailureIsNoAnswer ==
    ASSUME AnswerInv, NEW code, code # "answered", FailWith(code) PROVE AnswerInv'
BY DEF AnswerInv, FailWith, CallOK, AnswerMeansScanned

\* The steps that only lead on to one that has nothing to say yet.
LEMMA EarlyStep ==
    ASSUME AnswerInv, phase # "ended", phase' \notin {"read", "rescope", "ended"},
           call' = call, outcome' = outcome
    PROVE  AnswerInv'
BY DEF AnswerInv, CallOK, AnswerMeansScanned

LEMMA AnswerStep == AnswerInv /\ [WrapperNext]_wrapperVars => AnswerInv'
<1>. SUFFICES ASSUME AnswerInv, [WrapperNext]_wrapperVars PROVE AnswerInv'
  OBVIOUS
<1>1. CASE UNCHANGED wrapperVars
  BY <1>1 DEF wrapperVars, AnswerInv, CallOK, Reported, EndedWell, EndedBadly, Scanned,
              AnswerMeansScanned, Scoped, InUnits
<1>2. CASE ScopeSources
  BY <1>2, FailureIsNoAnswer, EarlyStep DEF ScopeSources
<1>3. CASE ScopeUnit
  BY <1>3, FailureIsNoAnswer, EarlyStep DEF ScopeUnit
<1>4. CASE UnitsScoped
  BY <1>4, EarlyStep DEF UnitsScoped, GoOn
<1>5. CASE CheckLinks
  BY <1>5, FailureIsNoAnswer, EarlyStep DEF CheckLinks, GoOn
<1>6. CASE Probe
  BY <1>6, FailureIsNoAnswer, EarlyStep DEF Probe
<1>7. CASE Prepare
  BY <1>7, FailureIsNoAnswer, EarlyStep DEF Prepare, PrepareGrype, GoOn
<1>8. CASE RunTool
  <2>1. CASE PhpReportFails
    BY <1>8, <2>1 DEF PhpReportFails, AnswerInv, CallOK, AnswerMeansScanned
  <2>2. CASE /\ \E r \in Finished(staged) \cup IF call.tool = "php-vuln" THEN {} ELSE Died : run' = r
             /\ phase' = "read" /\ UNCHANGED <<call, planAt, staged, found, outcome>>
    <3>1. Reported'
      BY <2>2, ToolsEnd DEF Reported, EndedWell, EndedBadly
    <3>. QED  BY <1>8, <2>2, <3>1 DEF RunTool, AnswerInv, CallOK, AnswerMeansScanned
  <2>. QED  BY <1>8, <2>1, <2>2, FailureIsNoAnswer DEF RunTool
<1>9. CASE ReadReport
  <2>1. CASE Answers = "answered"
    <3>1. Scanned
      BY <1>9, <2>1, AcceptedMeansScanned DEF ReadReport, AnswerInv
    <3>. QED  BY <1>9, <2>1, <3>1 DEF ReadReport, AnswerInv, CallOK, Scanned, AnswerMeansScanned
  <2>2. CASE Answers # "answered"
    BY <1>9, <2>2, FailureIsNoAnswer DEF ReadReport
  <2>. QED  BY <2>1, <2>2
<1>10. CASE Rescope
  <2>1. CASE \E code : code # "answered" /\ FailWith(code)
    BY <2>1, FailureIsNoAnswer
  <2>2. CASE ~ \E code : code # "answered" /\ FailWith(code)
    <3>1. /\ phase = "rescope" /\ phase' = "ended"
          /\ ~ (Scoped /\ \E m \in found : ~m.inside)
          /\ ~ (call.entry = "units" /\ \E m \in found : ~InUnits(m.path, call.planned))
          /\ UNCHANGED <<call, run, found>>
      BY <1>10, <2>2 DEF Rescope
    <3>. QED  BY <3>1 DEF AnswerInv, CallOK, Scanned, AnswerMeansScanned, Scoped, InUnits
  <2>. QED  BY <2>1, <2>2
<1>. QED  BY <1>1, <1>2, <1>3, <1>4, <1>5, <1>6, <1>7, <1>8, <1>9, <1>10 DEF WrapperNext

LEMMA AnswerInitially == (\E c \in Calls : WrapperInit(c)) => AnswerInv
BY CallsAssumption DEF WrapperInit, AnswerInv, CallOK, AnswerMeansScanned

\* No exit code, report or error list of a tool that did not get to its end is ever
\* taken for an answer, for any of the six wrappers (external_scanners.py:548-1082).
THEOREM AnswersAreScans == WrapperSpec => []AnswerMeansScanned
<1>1. AnswerInv => AnswerMeansScanned
  BY DEF AnswerInv
<1>. QED  BY <1>1, AnswerInitially, AnswerStep, PTL DEF WrapperSpec

-----------------------------------------------------------------------------
(* The scoped tree is whole.                                               *)

LEMMA PrefixByElement ==
    ASSUME NEW s \in Locations, NEW t \in Locations
    PROVE  IsPrefix(s, t) <=> Len(s) <= Len(t) /\ \A i \in 1..Len(s) : s[i] = t[i]
<1>. USE DEF Locations
<1>1. SubSeq(s, 1, Len(s)) = s
  OBVIOUS
<1>2. ASSUME Len(s) <= Len(t)
      PROVE  /\ SubSeq(t, 1, Len(s)) \in Seq(STRING) /\ Len(SubSeq(t, 1, Len(s))) = Len(s)
             /\ \A i \in 1..Len(s) : SubSeq(t, 1, Len(s))[i] = t[i]
  BY <1>2
<1>3. ASSUME Len(s) <= Len(t), \A i \in 1..Len(s) : s[i] = t[i]
      PROVE  s = SubSeq(t, 1, Len(s))
  BY <1>2, <1>3, SeqEqual
<1>. QED  BY <1>1, <1>2, <1>3 DEF IsPrefix

LEMMA PrefixTransitive ==
    ASSUME NEW s \in Locations, NEW t \in Locations, NEW u \in Locations,
           IsPrefix(s, t), IsPrefix(t, u)
    PROVE  IsPrefix(s, u)
<1>1. /\ Len(s) <= Len(t) /\ \A i \in 1..Len(s) : s[i] = t[i]
      /\ Len(t) <= Len(u) /\ \A i \in 1..Len(t) : t[i] = u[i]
  BY PrefixByElement
<1>2. Len(s) \in Nat /\ Len(t) \in Nat /\ Len(u) \in Nat
  BY DEF Locations
<1>3. Len(s) <= Len(u) /\ \A i \in 1..Len(s) : s[i] = u[i]
  BY <1>1, <1>2
<1>. QED  BY <1>3, PrefixByElement

\* What Below keeps of a tree.
IsBelow(f, path) == IsPrefix(path, f.path) /\ ".git" \notin ToSet(f.path)

\* The units copied so far are there with everything below them, and nothing else is.
Copied(units) ==
    \A f : f \in staged <=> f \in call.repository /\ \E k \in units : IsBelow(f, call.planned[k])

Complete(ref) ==
    ref.to # Remote =>
      /\ ref.to \notin {Computed, Outside}
      /\ \E f \in call.repository : IsBelow(f, ref.to)
      /\ \A f \in call.repository : IsBelow(f, ref.to) => f \in staged

ScopeInv ==
    /\ CallOK
    /\ call.entry = "units" =>
         /\ phase = "scope" => planAt \in Nat \ {0} /\ planAt <= Len(call.planned) + 1 /\ Copied(1..planAt - 1)
         /\ phase = "links" => Copied(1..Len(call.planned))
         /\ phase \notin {"scope", "links", "ended"} =>
              \A f \in staged : \A ref \in f.refs : Complete(ref)

\* A reference that resolves lies in a unit, and a unit was copied with all it holds.
LEMMA ResolvedIsComplete ==
    ASSUME CallOK, Copied(1..Len(call.planned)), NEW f \in staged, NEW ref \in f.refs, Resolves(ref)
    PROVE  Complete(ref)
<1>. SUFFICES ASSUME ref.to # Remote PROVE Complete(ref)
  BY DEF Complete
<1>1. /\ ref.to \notin {Computed, Outside}
      /\ IsDirectory(ref.to) \/ IsFile(ref.to)
      /\ InUnits(ref.to, call.planned)
  BY DEF Resolves
<1>2. /\ f \in call.repository /\ f.path \in Locations /\ ref.to \in Locations
      /\ ".git" \notin ToSet(f.path)
  BY DEF Copied, CallOK, IsBelow
<1>3. \E g \in call.repository : IsBelow(g, ref.to)
  <2>1. CASE ref.to = <<>>
    <3>1. <<>> \in Locations /\ Len(<<>>) = 0 /\ Len(f.path) \in Nat
      BY <1>2 DEF Locations
    <3>2. IsPrefix(<<>>, f.path)
      BY <1>2, <3>1, PrefixByElement
    <3>. QED  BY <1>2, <2>1, <3>2 DEF IsBelow
  <2>2. CASE ref.to # <<>> /\ IsDirectory(ref.to)
    BY <2>2 DEF IsDirectory, IsStrictPrefix, Copied, IsBelow
  <2>3. CASE IsFile(ref.to)
    <3>1. PICK g \in staged : g.path = ref.to
      BY <2>3 DEF IsFile
    <3>2. IsPrefix(ref.to, ref.to)
      <4>1. Len(ref.to) \in Nat
        BY <1>2 DEF Locations
      <4>. QED  BY <1>2, <4>1, PrefixByElement
    <3>. QED  BY <3>1, <3>2 DEF Copied, IsBelow
  <2>. QED  BY <1>1, <2>1, <2>2, <2>3
<1>4. ASSUME NEW g \in call.repository, IsBelow(g, ref.to) PROVE g \in staged
  <2>1. PICK k \in 1..Len(call.planned) : IsPrefix(call.planned[k], ref.to)
    BY <1>1 DEF InUnits, ToSet, CallOK
  <2>2. call.planned[k] \in Locations /\ g.path \in Locations
    BY <1>4, <2>1 DEF CallOK
  <2>3. IsPrefix(call.planned[k], g.path)
    BY <1>2, <1>4, <2>1, <2>2, PrefixTransitive DEF IsBelow
  <2>. QED  BY <1>4, <2>3 DEF Copied, IsBelow
<1>. QED  BY <1>1, <1>3, <1>4 DEF Complete

\* After the links were checked, nothing changes the tree.
LEMMA LaterStep ==
    ASSUME ScopeInv, phase \notin {"scope", "links"}, phase' \notin {"scope", "links"},
           phase # "ended", call' = call, staged' = staged
    PROVE  ScopeInv'
BY DEF ScopeInv, CallOK, Copied, Complete

LEMMA EndStep ==
    ASSUME ScopeInv, phase' = "ended", call' = call PROVE ScopeInv'
BY DEF ScopeInv, CallOK

LEMMA ScopeStep == ScopeInv /\ [WrapperNext]_wrapperVars => ScopeInv'
<1>. SUFFICES ASSUME ScopeInv, [WrapperNext]_wrapperVars PROVE ScopeInv'
  OBVIOUS
<1>1. CASE UNCHANGED wrapperVars
  BY <1>1 DEF wrapperVars, ScopeInv, CallOK, Copied, Complete
<1>2. CASE \E code : FailWith(code)
  BY <1>2, EndStep DEF FailWith
<1>3. CASE ScopeSources /\ ~ \E code : FailWith(code)
  BY <1>3 DEF ScopeSources, ScopeInv, CallOK
<1>4. CASE ScopeUnit /\ ~ \E code : FailWith(code)
  <2>1. /\ phase = "scope" /\ call.entry = "units" /\ planAt <= Len(call.planned)
        /\ staged' = staged \cup Below(call.repository, call.planned[planAt])
        /\ planAt' = planAt + 1 /\ call' = call /\ phase' = phase
    BY <1>4 DEF ScopeUnit
  <2>2. planAt \in Nat \ {0} /\ Len(call.planned) \in Nat /\ Copied(1..planAt - 1)
    BY <2>1 DEF ScopeInv, CallOK
  <2>3. \A k : k \in 1..planAt' - 1 <=> k \in 1..planAt - 1 \/ k = planAt
    BY <2>1, <2>2
  <2>4. Copied(1..planAt - 1)'
    BY <2>1, <2>2, <2>3 DEF Copied, Below, IsBelow
  <2>. QED  BY <2>1, <2>2, <2>4 DEF ScopeInv, CallOK
<1>5. CASE UnitsScoped
  <2>1. /\ phase = "scope" /\ call.entry = "units" /\ planAt > Len(call.planned)
        /\ phase' = "links" /\ UNCHANGED <<call, staged, planAt>>
    BY <1>5 DEF UnitsScoped, GoOn
  <2>2. Len(call.planned) \in Nat /\ planAt - 1 = Len(call.planned)
    BY <2>1 DEF ScopeInv, CallOK
  <2>3. Copied(1..Len(call.planned))
    BY <2>1, <2>2 DEF ScopeInv
  <2>. QED  BY <2>1, <2>3 DEF ScopeInv, CallOK, Copied
<1>6. CASE CheckLinks /\ ~ \E code : FailWith(code)
  <2>1. /\ phase = "links" /\ phase' = "probe" /\ UNCHANGED <<call, staged>>
        /\ \A f \in staged : \A ref \in f.refs : Resolves(ref)
    BY <1>6 DEF CheckLinks, GoOn
  <2>2. call.entry = "units" => \A f \in staged : \A ref \in f.refs : Complete(ref)
    BY <2>1, ResolvedIsComplete DEF ScopeInv
  <2>. QED  BY <2>1, <2>2 DEF ScopeInv, CallOK, Complete
<1>7. CASE Probe /\ ~ \E code : FailWith(code)
  BY <1>7, LaterStep DEF Probe
<1>8. CASE Prepare /\ ~ \E code : FailWith(code)
  BY <1>8, LaterStep DEF Prepare, PrepareGrype, GoOn
<1>9. CASE RunTool /\ ~ \E code : FailWith(code)
  BY <1>9, LaterStep, EndStep DEF RunTool, PhpReportFails
<1>10. CASE ReadReport /\ ~ \E code : FailWith(code)
  BY <1>10, LaterStep DEF ReadReport
<1>11. CASE Rescope /\ ~ \E code : FailWith(code)
  BY <1>11, EndStep DEF Rescope
<1>. QED  BY <1>1, <1>2, <1>3, <1>4, <1>5, <1>6, <1>7, <1>8, <1>9, <1>10, <1>11 DEF WrapperNext

LEMMA ScopeInitially == (\E c \in Calls : WrapperInit(c)) => ScopeInv
<1>. SUFFICES ASSUME NEW c \in Calls, WrapperInit(c) PROVE ScopeInv
  OBVIOUS
<1>1. CallOK
  BY CallsAssumption DEF WrapperInit, CallOK
<1>2. CASE call.entry = "units"
  <2>1. phase = "scope" /\ planAt = 1 /\ staged = {}
    BY <1>2 DEF WrapperInit
  <2>2. Len(call.planned) \in Nat
    BY <1>1 DEF CallOK
  <2>3. 1..planAt - 1 = {}
    BY <2>1
  <2>4. Copied(1..planAt - 1)
    BY <2>1, <2>3 DEF Copied
  <2>. QED  BY <1>1, <2>1, <2>2, <2>4 DEF ScopeInv
<1>3. CASE call.entry # "units"
  BY <1>1, <1>3 DEF ScopeInv
<1>. QED  BY <1>2, <1>3

\* No file KICS gets refers to a part of the repository it does not get, or gets only in
\* part: a link that leaves the units refuses the scan (external_scanners.py:88-262).
THEOREM ScopesAreWhole == WrapperSpec => []ScopeIsWhole
<1>1. ScopeInv => ScopeIsWhole
  <2>. SUFFICES ASSUME ScopeInv, call.entry = "units", phase \notin {"scope", "links", "ended"},
                       NEW f \in staged, NEW ref \in f.refs, ref.to # Remote
                PROVE  /\ ref.to \notin {Computed, Outside}
                       /\ Below(call.repository, ref.to) # {}
                       /\ Below(call.repository, ref.to) \subseteq staged
    BY DEF ScopeIsWhole
  <2>1. Complete(ref)
    BY DEF ScopeInv
  <2>. QED  BY <2>1 DEF Complete, Below, IsBelow
<1>. QED  BY <1>1, ScopeInitially, ScopeStep, PTL DEF WrapperSpec

-----------------------------------------------------------------------------
(* The helper the Go parser runs.                                          *)

\* Once the digest was right, a file that still is the one that was opened holds what it
\* then held: every change after the open gives it an identity above the first one.
Pinned ==
    /\ helper \notin {"open", "ended"} => initial <= opened.identity
    /\ helper \in {"recheck", "run", "decode"} /\ SameAsOpened => opened.holds = "pinned"
    /\ helper = "decode" /\ SameAsOpened => executed = "pinned"
    /\ helper \notin {"close", "ended"} => answered = "none"
    /\ answered = "observation" => executed = "pinned"

GoInv == GoTypeOK /\ Pinned

LEMMA GoInitially == (\E c \in Contents : GoInit(c)) => GoInv
BY GoAssumption DEF GoInit, GoInv, GoTypeOK, Pinned, Contents

\* What others do.
LEMMA OthersKeep ==
    ASSUME GoInv, ReplacePath \/ WriteInPlace PROVE GoInv'
<1>. MaxChanges \in Nat
  BY GoAssumption
<1>. USE DEF GoInv, GoTypeOK, Changing
<1>1. /\ changes < MaxChanges /\ changes' = changes + 1
      /\ helper' = helper /\ executed' = executed /\ answered' = answered
      /\ initial' = initial /\ hashed' = hashed
  BY Zenon DEF ReplacePath, WriteInPlace
<1>a. changes' \in 0..MaxChanges /\ changes + 2 \in 0..MaxChanges + 1
  BY <1>1
<1>2. /\ opened' \in [inode : 0..MaxChanges + 1, identity : Nat, holds : Contents]
      /\ atPath' \in 0..MaxChanges + 1
  <2>1. CASE WriteInPlace
    <3>1. PICK c \in Contents :
            opened' = [opened EXCEPT !.identity = opened.identity + 1, !.holds = c]
      BY <2>1 DEF WriteInPlace
    <3>2. opened' = [inode |-> opened.inode, identity |-> opened.identity + 1, holds |-> c]
      BY <3>1
    <3>3. atPath' = atPath
      BY <2>1 DEF WriteInPlace
    <3>4. opened.inode \in 0..MaxChanges + 1 /\ opened.identity + 1 \in Nat
      OBVIOUS
    <3>. QED  BY <3>2, <3>3, <3>4
  <2>2. CASE ReplacePath
    <3>1. atPath' \in 0..MaxChanges + 1
      BY <2>2, <1>1, <1>a DEF ReplacePath
    <3>2. CASE helper = "open"
      BY <2>2, <3>1, <3>2 DEF ReplacePath
    <3>3. CASE helper # "open"
      BY <2>2, <3>1, <3>3 DEF ReplacePath
    <3>. QED  BY <3>1, <3>2, <3>3
  <2>. QED  BY <2>1, <2>2
<1>3. helper # "open" => \/ opened' = opened
                         \/ opened'.identity = opened.identity + 1
  BY DEF ReplacePath, WriteInPlace
<1>4. Pinned'
  BY <1>1, <1>2, <1>3 DEF Pinned, SameAsOpened
<1>. QED  BY <1>1, <1>a, <1>2, <1>4

\* What the parser does.
LEMMA ParserKeeps ==
    ASSUME GoInv,
           \/ OpenHelper \/ HashHelper \/ RecheckHelper \/ RunHelper
           \/ DecodeAnswer \/ ChecksSpent \/ CloseHelper
    PROVE  GoInv'
<1>. MaxChanges \in Nat
  BY GoAssumption
<1>. USE DEF GoInv, GoTypeOK, Pinned, Proceed, Answer, SameAsOpened, Contents
<1>1. CASE OpenHelper
  BY <1>1 DEF OpenHelper
<1>2. CASE HashHelper
  BY <1>2 DEF HashHelper
<1>3. CASE RecheckHelper
  BY <1>3 DEF RecheckHelper
<1>4. CASE RunHelper
  BY <1>4 DEF RunHelper
<1>5. CASE DecodeAnswer
  BY <1>5 DEF DecodeAnswer, Unchanged
<1>6. CASE ChecksSpent
  BY <1>6 DEF ChecksSpent
<1>7. CASE CloseHelper
  BY <1>7 DEF CloseHelper, Unchanged
<1>. QED  BY <1>1, <1>2, <1>3, <1>4, <1>5, <1>6, <1>7

LEMMA GoStep == GoInv /\ [GoNext]_goVars => GoInv'
<1>. SUFFICES ASSUME GoInv, [GoNext]_goVars PROVE GoInv'
  OBVIOUS
<1>1. CASE UNCHANGED goVars
  BY <1>1 DEF goVars, GoInv, GoTypeOK, Pinned, SameAsOpened
<1>2. CASE GoNext
  BY <1>2, OthersKeep, ParserKeeps DEF GoNext
<1>. QED  BY <1>1, <1>2

\* Every state of the parser has the type the model gives it.
THEOREM GoTypeCorrect == GoSpec => []GoTypeOK
<1>1. GoInv => GoTypeOK
  BY DEF GoInv
<1>. QED  BY <1>1, GoInitially, GoStep, PTL DEF GoSpec

\* A helper whose file changed between the digest, the run and the answer never gives an
\* observation: what it would say is not what the trusted parser says (go_sources.py:184).
THEOREM OnlyThePinned == GoSpec => []ObservedByThePinned
<1>1. GoInv => ObservedByThePinned
  BY DEF GoInv, Pinned, ObservedByThePinned
<1>. QED  BY <1>1, GoInitially, GoStep, PTL DEF GoSpec
=============================================================================
