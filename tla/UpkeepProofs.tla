---------------------------- MODULE UpkeepProofs ----------------------------
(***************************************************************************)
(* Proofs about what works behind the requests: the circuit of a provider, *)
(* backups and the write gate, restores and the retention of backups,      *)
(* shadow evaluation, calibration windows and the deletion of an account,  *)
(* each for every value of its constants, and that together they hold in   *)
(* MCUpkeep.                                                               *)
(***************************************************************************)
EXTENDS MCUpkeep, FiniteSetTheorems, WellFoundedInduction, TLAPS

-----------------------------------------------------------------------------
(* The circuit *)

\* The two parts of a state, in their types
CircuitType == [failures : 0..Threshold, open : BOOLEAN,
                age : 0..(OpenTicks + Stall), owner : Calls \cup {NoCall}]
CallType == [pc : Active \cup {"idle", "starting", "cleanup"}, age : 0..Stall, probe : BOOLEAN]

LEMMA RegistryTyped ==
    ASSUME TypeOK, NEW c \in Calls,
           circuit' = circuit \/ Acquire(c) \/ Success(c) \/ Failure(c) \/ Release(c)
    PROVE  circuit' \in CircuitType
<1> USE CircuitAssumption DEF TypeOK, CircuitType
<1>1. CASE circuit' = circuit BY <1>1
<1>2. CASE Acquire(c) BY <1>2 DEF Acquire
<1>3. CASE Success(c) BY <1>3 DEF Success, Closed
<1>4. CASE Failure(c)
  <2>1. AtMost(circuit.failures + 1, Threshold) \in 0..Threshold BY DEF AtMost
  <2>2. call[c].age \in 0..(OpenTicks + Stall) BY DEF TypeOK
  <2> QED BY <1>4, <2>1, <2>2 DEF Failure
<1>5. CASE Release(c) BY <1>5 DEF Release
<1> QED BY <1>1, <1>2, <1>3, <1>4, <1>5

LEMMA CallTyped ==
    ASSUME TypeOK, NEW c \in Calls, CallStep(c)
    PROVE  call' \in [Calls -> CallType]
<1> USE CircuitAssumption DEF TypeOK, CallType, Active, CircuitType
<1>1. CASE Return(c) BY <1>1 DEF Return, Idle
<1>2. CASE \E pc \in Active \cup {"idle", "starting", "cleanup"} : Goto(c, pc)
  <2>1. PICK pc \in Active \cup {"idle", "starting", "cleanup"} : Goto(c, pc) BY <1>2
  <2>2. call[c] \in CallType /\ 0 \in 0..Stall OBVIOUS
  <2>3. [call[c] EXCEPT !.pc = pc, !.age = 0] \in CallType BY <2>1, <2>2
  <2>4. call' = [call EXCEPT ![c] = [call[c] EXCEPT !.pc = pc, !.age = 0]] BY <2>1 DEF Goto
  <2> QED BY <2>3, <2>4
<1>3. CASE Allowed(c) BY <1>3 DEF Allowed
<1> QED BY <1>1, <1>2, <1>3 DEF CallStep, Start, Refused, HandOff, HandOffFails, Outcome,
           Report, ReportFails, Cleanup

LEMMA TypeStep == TypeOK /\ [Next]_vars => TypeOK'
<1> SUFFICES ASSUME TypeOK, [Next]_vars PROVE TypeOK' OBVIOUS
<1>1. ASSUME NEW c \in Calls, CallStep(c) PROVE TypeOK'
  <2>1. circuit' = circuit \/ Acquire(c) \/ Success(c) \/ Failure(c) \/ Release(c)
    BY <1>1 DEF CallStep, Start, Refused, Allowed, HandOff, HandOffFails, Outcome, Report,
       ReportFails, Cleanup
  <2> QED BY <1>1, <2>1, RegistryTyped, CallTyped DEF TypeOK, CircuitType, CallType
<1>2. CASE Tick
  <2>1. circuit' \in CircuitType
    BY <1>2, CircuitAssumption DEF Tick, TypeOK, CircuitType, AtMost
  <2>2. call' \in [Calls -> CallType]
    BY <1>2, CircuitAssumption DEF Tick, TypeOK, CallType
  <2> QED BY <2>1, <2>2 DEF TypeOK, CircuitType, CallType
<1>3. CASE UNCHANGED vars BY <1>3 DEF vars, TypeOK
<1> QED BY <1>1, <1>2, <1>3 DEF Next

\* Failures saturate, ages stay bounded, whatever the calls do
THEOREM TypeCorrect == Spec => []TypeOK
<1>1. Init => TypeOK BY CircuitAssumption DEF Init, TypeOK, Closed, Idle, Active
<1> QED BY <1>1, TypeStep, PTL DEF Spec

-----------------------------------------------------------------------------
(* The probe and its owner *)

\* A call that is not under way has no probe of its own
NoProbeYet == \A c \in Calls : call[c].pc \in {"idle", "starting"} => ~call[c].probe

ProbeInv == TypeOK /\ NoProbeYet /\ ProbeExclusive

LEMMA ProbeStep == ProbeInv /\ [Next]_vars => ProbeInv'
<1> SUFFICES ASSUME ProbeInv, [Next]_vars PROVE ProbeInv' OBVIOUS
<1> USE CircuitAssumption DEF ProbeInv, NoProbeYet, ProbeExclusive, Active
<1>1. TypeOK' BY TypeStep
<1>2. ASSUME NEW c \in Calls, CallStep(c) PROVE NoProbeYet' /\ ProbeExclusive'
  <2> USE DEF TypeOK
  <2>1. CASE Start(c) BY <2>1 DEF Start, Goto
  <2>2. CASE Refused(c) BY <2>2 DEF Refused, Return, Idle
  <2>3. CASE Allowed(c) BY <2>3 DEF Allowed, Acquire, Rejects
  <2>4. CASE HandOff(c) BY <2>4 DEF HandOff, Goto
  <2>5. CASE HandOffFails(c) BY <2>5 DEF HandOffFails, Release, Return, Idle
  <2>6. CASE Outcome(c) BY <2>6 DEF Outcome, Goto
  <2>7. CASE Report(c)
    <3>1. CASE Success(c)
      BY <2>7, <3>1 DEF Report, Success, ProbeOfAnother, Closed, Return, Idle, Goto
    <3>2. CASE Failure(c)
      BY <2>7, <3>2 DEF Report, Failure, ProbeOfAnother, Return, Idle, Goto
    <3> QED BY <2>7, <3>1, <3>2 DEF Report
  <2>8. CASE ReportFails(c) BY <2>8 DEF ReportFails, Goto
  <2>9. CASE Cleanup(c) BY <2>9 DEF Cleanup, Release, Return, Idle
  <2> QED BY <1>2, <2>1, <2>2, <2>3, <2>4, <2>5, <2>6, <2>7, <2>8, <2>9 DEF CallStep
<1>3. CASE Tick
  <2>1. /\ circuit'.owner = circuit.owner /\ circuit'.open = circuit.open
        /\ \A c \in Calls : call'[c].pc = call[c].pc /\ call'[c].probe = call[c].probe
    BY <1>3 DEF Tick, TypeOK
  <2> QED BY <1>1, <2>1
<1>4. CASE UNCHANGED vars BY <1>1, <1>4 DEF vars
<1> QED BY <1>1, <1>2, <1>3, <1>4 DEF Next

LEMMA ProbeAlways == Spec => []ProbeInv
<1>1. Init => ProbeInv
  BY CircuitAssumption DEF Init, ProbeInv, TypeOK, NoProbeYet, ProbeExclusive, Closed, Idle, Active
<1> QED BY <1>1, ProbeStep, PTL DEF Spec

\* At most one call probes, and no call that is gone holds the probe, for any
\* number of calls and any interleaving with exceptions
THEOREM OneProbe == Spec => []ProbeExclusive
BY ProbeAlways, PTL DEF ProbeInv

\* While a probe is under way only its own call changes the circuit
THEOREM OwnProbe == Spec => ProbeDecides
<1>1. ProbeInv /\ [Next]_vars => [ByItsProbe]_vars
  <2> SUFFICES ASSUME ProbeInv, Next PROVE ByItsProbe OBVIOUS
  <2> USE DEF ByItsProbe, ProbeInv, TypeOK, ProbeExclusive, Active
  <2>1. CASE Tick BY <2>1 DEF Tick
  <2>2. ASSUME NEW c \in Calls, CallStep(c), circuit.owner # NoCall, circuit' # circuit
        PROVE  call'[circuit.owner] # call[circuit.owner]
    <3>1. CASE Allowed(c) BY <2>2, <3>1 DEF Allowed, Rejects, Acquire
    <3>2. CASE HandOffFails(c) BY <2>2, <3>2 DEF HandOffFails, Release, Return, Idle
    <3>3. CASE Report(c)
      <4>1. ~ProbeOfAnother(c) /\ call[c].pc \in {"succeeding", "failing"}
        BY <2>2, <3>3 DEF Report, Success, Failure
      <4>2. call'[c].pc \in {"idle", "cleanup"} BY <3>3 DEF Report, Return, Idle, Goto
      <4> QED BY <2>2, <4>1, <4>2 DEF ProbeOfAnother
    <3>4. CASE Cleanup(c) BY <2>2, <3>4 DEF Cleanup, Release, Return, Idle
    <3> QED BY <2>2, <3>1, <3>2, <3>3, <3>4 DEF CallStep, Start, Refused, HandOff, Outcome,
               ReportFails
  <2>3. ASSUME NEW c \in Calls, CallStep(c) PROVE ByItsProbe
    BY <2>2, <2>3
  <2> QED BY <2>1, <2>3 DEF Next
<1> QED BY <1>1, ProbeAlways, PTL DEF Spec, ProbeDecides

-----------------------------------------------------------------------------
(* Backups *)

\* The rows of the tables, in their types
SetRow == [status : {"none", "creating", "complete", "failed"},
           done : SUBSET Kinds, artifact : BOOLEAN, window : 0..Windows, cleanup : BOOLEAN]
ProcRow == [pc : BackupPcs, window : 0..Windows, set : BackupSets \cup {NoSet},
            todo : SUBSET Kinds]
LeftRow == [losses : 0..BackupLosses, manual : 0..ManualBackups, faults : 0..BackupFaults]
GateRow == [state : {"open", "closing", "closed"}, set : BackupSets \cup {NoSet}]
WriteRow == [busy : BOOLEAN, behind : BackupSets \cup {NoSet}]

\* The stages of an execution behind its gate, all stages before the end of the
\* set, and the stages of the creation of a set
Behind     == {"drain", "close", "list", "copying"}
Deciding   == Behind \cup {"gate"}
Scheduling == {"claimed", "create", "created"}

\* A process at rest remembers nothing; who executes a set holds the lease, unless
\* an execution of that set has outlived it
Placed ==
    \A p \in BackupProcs :
        /\ bproc[p].pc = "idle" => bproc[p] = IdleProc
        /\ Executing(p) => bproc[p].set \in BackupSets
        /\ Executing(p) /\ bproc[p].set \notin overrun => execLease = p

\* The gate names a set exactly while it is not open; once it has closed for a set
\* of which no execution outlived its lease, no process sees it open; and a write
\* is let in behind the other closed gates only
GateMeans ==
    /\ wgate.state = "open" <=> wgate.set = NoSet
    /\ wgate.state = "closed" /\ wgate.set \notin overrun => \A a \in ApiWriters : ~apiOpen[a]
    /\ \A a \in ApiWriters : write[a].behind \in overrun \cup {NoSet}

\* An execution under its lease works on a set in the making behind its own gate,
\* which is closed once no process sees it open, until the set is complete or
\* failed; what it has left to copy is what the set lacks
Held(p) ==
    /\ bproc[p].pc \in Deciding => bset[bproc[p].set].status = "creating"
    /\ bproc[p].pc \in Behind => wgate.set = bproc[p].set
    /\ bproc[p].pc = "close" => \A a \in ApiWriters : ~apiOpen[a]
    /\ bproc[p].pc \in {"list", "copying"} => wgate.state = "closed"
    /\ bproc[p].pc = "copying" => bproc[p].todo = Kinds \ bset[bproc[p].set].done
    /\ bproc[p].pc = "failed" => bset[bproc[p].set].status = "failed"
GateHeld == \A p \in BackupProcs : bproc[p].set \notin overrun => Held(p)

\* A window belongs to the one process that claimed it, and has no set before
\* that process inserts it
Claimed ==
    /\ \A p \in BackupProcs : bproc[p].pc \in Scheduling /\ bproc[p].window # 0 =>
          /\ occ[bproc[p].window] = "claimed"
          /\ \A q \in BackupProcs : q # p /\ bproc[q].pc \in Scheduling =>
                bproc[q].window # bproc[p].window
    /\ \A p \in BackupProcs, b \in BackupSets :
          bproc[p].pc \in {"claimed", "create"} /\ bproc[p].window # 0 =>
              bset[b].window # bproc[p].window

BackupInv ==
    BackupTypeOK /\ Placed /\ GateMeans /\ GateHeld /\ Claimed /\ WindowOnce /\ SetsAreWhole
LEMMA BackupBegins == BackupInit => BackupInv
<1> SUFFICES ASSUME BackupInit PROVE BackupInv OBVIOUS
<1> USE BackupAssumption DEF BackupInit, IdleProc, NoSet
<1>1. BackupTypeOK
  <2>1. IdleProc \in ProcRow BY DEF ProcRow, BackupPcs
  <2>2. [status |-> "none", done |-> {}, artifact |-> FALSE, window |-> 0, cleanup |-> FALSE] \in SetRow
    BY DEF SetRow
  <2>3. bproc \in [BackupProcs -> ProcRow] BY <2>1
  <2>4. bset \in [BackupSets -> SetRow] BY <2>2
  <2>5. bleft \in LeftRow BY DEF LeftRow
  <2>6. occ \in [1..Windows -> Outcomes] BY DEF Outcomes
  <2>7. due \in 0..Windows /\ lastWindow \in 0..Windows OBVIOUS
  <2>8. manifest \in [StoredObjects -> BackupSets \cup {NoSet}] OBVIOUS
  <2>9. wgate \in GateRow BY DEF GateRow
  <2>10. execLease \in BackupProcs \cup {NoProc} /\ apiOpen \in [ApiWriters -> BOOLEAN] OBVIOUS
  <2>11. write \in [ApiWriters -> WriteRow] BY DEF NoWrite, WriteRow
  <2>12. overrun \subseteq BackupSets OBVIOUS
  <2> HIDE DEF BackupInit
  <2> QED BY <2>3, <2>4, <2>5, <2>6, <2>7, <2>8, <2>9, <2>10, <2>11, <2>12
      DEF BackupTypeOK, ProcRow, SetRow, LeftRow, GateRow, WriteRow
<1>2. \A p \in BackupProcs : bproc[p] = IdleProc OBVIOUS
<1>3. \A b \in BackupSets : /\ bset[b].status = "none" /\ bset[b].window = 0
                            /\ bset[b].cleanup = FALSE
  OBVIOUS
<1>4. Placed /\ GateHeld /\ Claimed
  BY <1>2, <1>3 DEF Placed, GateHeld, Held, Claimed, Executing, ExecutingPcs, Deciding, Behind, Scheduling
<1>5. GateMeans BY DEF GateMeans, NoWrite
<1>6. WindowOnce /\ SetsAreWhole BY <1>3 DEF WindowOnce, SetsAreWhole
<1> QED BY <1>1, <1>4, <1>5, <1>6 DEF BackupInv

\* The type of a step: the set or the process a step writes stays a row
LEMMA BackupTypeStep == BackupTypeOK /\ Placed /\ [BackupNext]_backupVars => BackupTypeOK'
<1> SUFFICES ASSUME BackupTypeOK, Placed, [BackupNext]_backupVars PROVE BackupTypeOK' OBVIOUS
<1> USE BackupAssumption DEF BackupTypeOK, NoSet, scheduleVars, apiVars
<1>0. /\ bproc \in [BackupProcs -> ProcRow] /\ bset \in [BackupSets -> SetRow]
      /\ IdleProc \in ProcRow /\ bleft \in LeftRow
  BY DEF ProcRow, SetRow, LeftRow, IdleProc, BackupPcs
<1>1. CASE WindowDue BY <1>1 DEF WindowDue
<1>2. ASSUME NEW p \in BackupProcs, NEW pc \in BackupPcs, Step(p, pc)
      PROVE  bproc' \in [BackupProcs -> ProcRow]
  BY <1>0, <1>2 DEF Step, ProcRow
<1>3. ASSUME NEW p \in BackupProcs, Rest(p) PROVE bproc' \in [BackupProcs -> ProcRow]
  BY <1>0, <1>3 DEF Rest
<1>4. ASSUME NEW p \in BackupProcs, ScheduleStep(p) PROVE BackupTypeOK'
  <2>1. bproc' \in [BackupProcs -> ProcRow]
    <3>1. CASE ClaimLatestWindow(p)
      <4>1. [IdleProc EXCEPT !.pc = "claimed", !.window = due] \in ProcRow
        BY <1>0 DEF ProcRow, BackupPcs
      <4> QED BY <1>0, <3>1, <4>1 DEF ClaimLatestWindow
    <3> QED BY <1>2, <1>3, <1>4, <3>1
        DEF ScheduleStep, CheckCreate, CreateBackupSet, FinishCreate, BackupPcs
  <2>2. occ' \in [1..Windows -> Outcomes] /\ lastWindow' \in 0..Windows
    <3>1. ASSUME NEW n \in 0..Windows, NEW outcome \in Outcomes, FinalizeOccurrence(n, outcome)
          PROVE  occ' \in [1..Windows -> Outcomes] /\ lastWindow' \in 0..Windows
      BY <3>1, SMTT(30) DEF FinalizeOccurrence
    <3>2. ASSUME NEW n \in 0..Windows, ReleaseClaim(n)
          PROVE  occ' \in [1..Windows -> Outcomes]
      BY <3>2 DEF ReleaseClaim, Outcomes
    <3>3. MissedClaims(due) \in [1..Windows -> Outcomes] BY DEF MissedClaims, Outcomes
    <3>4. CASE ClaimLatestWindow(p)
      BY <3>3, <3>4 DEF ClaimLatestWindow, Outcomes
    <3>5. CASE CheckCreate(p)
      BY <1>0, <3>1, <3>2, <3>5 DEF CheckCreate, Outcomes, ProcRow
    <3>6. CASE FinishCreate(p) BY <1>0, <3>1, <3>6 DEF FinishCreate, Outcomes, ProcRow
    <3> QED BY <1>4, <3>4, <3>5, <3>6 DEF ScheduleStep, CreateBackupSet
  <2>3. bset' \in [BackupSets -> SetRow]
    <3>1. ASSUME NEW b \in BackupSets, NEW n \in 0..Windows,
                 bset' = [bset EXCEPT ![b].status = "creating", ![b].window = n]
          PROVE  bset' \in [BackupSets -> SetRow]
      <4>0. bset[b] \in SetRow BY <1>0
      <4>1. [bset[b] EXCEPT !.status = "creating", !.window = n] \in SetRow BY <4>0 DEF SetRow
      <4>2. bset' = [bset EXCEPT ![b] = [bset[b] EXCEPT !.status = "creating", !.window = n]]
        BY <3>1
      <4> QED BY <1>0, <4>1, <4>2
    <3>2. CASE CreateBackupSet(p) BY <1>0, <3>1, <3>2 DEF CreateBackupSet, ProcRow
    <3> QED BY <1>0, <1>4, <3>2 DEF ScheduleStep, ClaimLatestWindow, CheckCreate, FinishCreate
  <2>4. UNCHANGED <<due, manifest, wgate, execLease, overrun, apiOpen, write, bleft>>
    BY <1>4 DEF ScheduleStep, ClaimLatestWindow, CheckCreate, CreateBackupSet, FinishCreate
  <2> QED BY <2>1, <2>2, <2>3, <2>4 DEF ProcRow, SetRow
<1>5. ASSUME NEW p \in BackupProcs, ExecuteStep(p) PROVE BackupTypeOK'
  <2> DEFINE b == bproc[p].set
  <2>0. b \in BackupSets
    BY <1>5 DEF Placed, Executing, ExecutingPcs, ExecuteStep, TakeGate, AwaitWriteDrain, CloseGate,
       ListComponents, CompleteComponent, RecordManifestObjects, ManifestConflict, FailComponent,
       EnsureCleanupTarget, ReleaseGate
  <2>1. bset[b] \in SetRow /\ bproc[p] \in ProcRow BY <1>0, <2>0
  <2>2. \A kinds : FirstKind(kinds) \in Kinds BY DEF FirstKind, Kinds
  <2>3. FailedKind(p) \in Kinds BY <2>2 DEF FailedKind, Copying, Kinds
  <2>4. bproc' \in [BackupProcs -> ProcRow]
    <3>1. ASSUME NEW pc \in BackupPcs, NEW kinds \in SUBSET Kinds,
                 bproc' = [bproc EXCEPT ![p].pc = pc, ![p].todo = kinds]
          PROVE  bproc' \in [BackupProcs -> ProcRow]
      <4>1. [bproc[p] EXCEPT !.pc = pc, !.todo = kinds] \in ProcRow BY <2>1 DEF ProcRow
      <4>2. bproc' = [bproc EXCEPT ![p] = [bproc[p] EXCEPT !.pc = pc, !.todo = kinds]] BY <3>1
      <4> QED BY <1>0, <4>1, <4>2
    <3>2. CASE ListComponents(p)
      <4>1. Kinds \ bset[b].done \in SUBSET Kinds OBVIOUS
      <4> QED BY <3>1, <3>2, <4>1 DEF ListComponents, BackupPcs, ExecutingPcs
    <3>3. CASE NextComponent(p)
      <4>1. bproc[p].todo \ {Copying(p)} \in SUBSET Kinds BY <2>1 DEF ProcRow
      <4> QED BY <3>1, <3>3, <4>1 DEF NextComponent, BackupPcs, ExecutingPcs
    <3> QED BY <1>2, <1>3, <1>5, <3>2, <3>3
        DEF ExecuteStep, TakeGate, AwaitWriteDrain, CloseGate, CompleteComponent,
            RecordManifestObjects, FailComponent, EnsureCleanupTarget, ReleaseGate, BackupPcs,
            ExecutingPcs
  <2>5. bset' \in [BackupSets -> SetRow]
    <3>1. ASSUME NEW x \in SetRow, bset' = [bset EXCEPT ![b] = x]
          PROVE  bset' \in [BackupSets -> SetRow]
      BY <1>0, <3>1
    <3>2. \A k \in Kinds : Succeeded(bset[b], k) \in SetRow BY <2>1 DEF Succeeded, SetRow
    <3>3. CASE CompleteComponent(p)
      <4>1. bset' = [bset EXCEPT ![b] = Succeeded(bset[b], Copying(p))]
        BY <3>3 DEF CompleteComponent
      <4> HIDE DEF b
      <4> QED BY <2>2, <3>1, <3>2, <4>1 DEF Copying
    <3>4. CASE RecordManifestObjects(p)
      <4>1. bset' = [bset EXCEPT ![b] = Succeeded(bset[b], "object_manifest")]
        BY <3>4 DEF RecordManifestObjects
      <4>2. "object_manifest" \in Kinds BY DEF Kinds
      <4> HIDE DEF b
      <4> QED BY <3>1, <3>2, <4>1, <4>2
    <3>5. CASE FailComponent(p)
      <4>1. bset' = [bset EXCEPT ![b] = [bset[b] EXCEPT !.status = "failed",
                                                        !.done = @ \ {FailedKind(p)}]]
        BY <3>5 DEF FailComponent
      <4>2. [bset[b] EXCEPT !.status = "failed", !.done = @ \ {FailedKind(p)}] \in SetRow
        BY <2>1, <2>3 DEF SetRow
      <4> HIDE DEF b
      <4> QED BY <3>1, <4>1, <4>2
    <3>6. CASE EnsureCleanupTarget(p)
      <4>1. bset' = [bset EXCEPT ![b] = [bset[b] EXCEPT !.cleanup = @ \/ bset[b].artifact]]
        BY <3>6 DEF EnsureCleanupTarget
      <4>2. (bset[b].cleanup \/ bset[b].artifact) \in BOOLEAN BY Zenon
      <4>3. [bset[b] EXCEPT !.cleanup = @ \/ bset[b].artifact] \in SetRow
        BY <2>1, <4>2 DEF SetRow
      <4> HIDE DEF b
      <4> QED BY <3>1, <4>1, <4>3
    <3> QED BY <1>0, <1>5, <3>3, <3>4, <3>5, <3>6
        DEF ExecuteStep, TakeGate, AwaitWriteDrain, CloseGate, ListComponents, ReleaseGate
  <2>6. wgate' \in GateRow
    BY <1>5, <2>0 DEF GateRow, ExecuteStep, TakeGate, AwaitWriteDrain, CloseGate, ListComponents,
       CompleteComponent, RecordManifestObjects, FailComponent, EnsureCleanupTarget, ReleaseGate, GateOpen
  <2>7. manifest' \in [StoredObjects -> BackupSets \cup {NoSet}]
    BY <1>5, <2>0 DEF ExecuteStep, TakeGate, AwaitWriteDrain, CloseGate, ListComponents,
       CompleteComponent, RecordManifestObjects, FailComponent, EnsureCleanupTarget, ReleaseGate
  <2>8. bleft' \in LeftRow
    <3>1. CASE UNCHANGED bleft BY <1>0, <3>1
    <3>2. CASE bleft.faults > 0 /\ bleft' = [bleft EXCEPT !.faults = @ - 1]
      <4>1. bleft.faults - 1 \in 0..BackupFaults BY SMTT(30), <3>2
      <4> QED BY <1>0, <3>2, <4>1 DEF LeftRow
    <3> QED BY <1>5, <3>1, <3>2 DEF ExecuteStep, TakeGate, AwaitWriteDrain, CloseGate, ListComponents,
        CompleteComponent, RecordManifestObjects, FailComponent, EnsureCleanupTarget, ReleaseGate
  <2>9. UNCHANGED <<due, occ, lastWindow, execLease, overrun, apiOpen, write>>
    BY <1>5 DEF ExecuteStep, TakeGate, AwaitWriteDrain, CloseGate, ListComponents, CompleteComponent,
       RecordManifestObjects, FailComponent, EnsureCleanupTarget, ReleaseGate
  <2> HIDE DEF b
  <2> QED BY <2>4, <2>5, <2>6, <2>7, <2>8, <2>9 DEF ProcRow, SetRow, LeftRow, GateRow
<1>6. ASSUME NEW p \in BackupProcs,
             \/ RecoverStaleGate(p) \/ CreateBackup(p) \/ BackupCrash(p)
             \/ LeaseEnds(p) \/ LeaseLapses(p)
      PROVE  BackupTypeOK'
  <2>1. CASE RecoverStaleGate(p) BY <2>1 DEF RecoverStaleGate, GateOpen
  <2>2. CASE CreateBackup(p)
    <3>1. bproc' \in [BackupProcs -> ProcRow] BY <1>2, <2>2 DEF CreateBackup, BackupPcs
    <3>2. bleft.manual - 1 \in 0..ManualBackups BY <2>2, SMTT(30) DEF CreateBackup
    <3>3. bleft' \in LeftRow BY <1>0, <2>2, <3>2 DEF CreateBackup, LeftRow
    <3> QED BY <2>2, <3>1, <3>3 DEF CreateBackup, ProcRow, LeftRow
  <2>3. ASSUME bleft.losses > 0, bleft' = [bleft EXCEPT !.losses = @ - 1]
        PROVE  bleft' \in LeftRow
    <3>1. bleft.losses - 1 \in 0..BackupLosses BY <2>3, SMTT(30)
    <3> QED BY <1>0, <2>3, <3>1 DEF LeftRow
  <2>4. CASE BackupCrash(p)
    <3>1. bproc' \in [BackupProcs -> ProcRow] BY <1>3, <2>4 DEF BackupCrash
    <3> QED BY <2>3, <2>4, <3>1 DEF BackupCrash, ProcRow, LeftRow
  <2>5. CASE LeaseEnds(p) BY <2>5 DEF LeaseEnds
  <2>6. CASE LeaseLapses(p)
    <3>1. bproc[p].set \in BackupSets BY <2>6 DEF LeaseLapses, Placed
    <3> QED BY <2>3, <2>6, <3>1 DEF LeaseLapses, LeftRow
  <2> QED BY <1>6, <2>1, <2>2, <2>4, <2>5, <2>6
<1>7. ASSUME NEW p \in BackupProcs, NEW b \in BackupSets, ExecuteBackup(p, b) PROVE BackupTypeOK'
  <2>1. [IdleProc EXCEPT !.pc = "gate", !.set = b] \in ProcRow
    BY <1>0 DEF ProcRow, BackupPcs, ExecutingPcs
  <2>2. bproc' \in [BackupProcs -> ProcRow] BY <1>0, <1>7, <2>1 DEF ExecuteBackup
  <2> QED BY <1>7, <2>2 DEF ExecuteBackup, ProcRow
<1>8. ASSUME NEW a \in ApiWriters, ReadGate(a) \/ AdmitWrite(a) \/ AdmitBlindly(a) \/ EndWrite(a)
      PROVE  BackupTypeOK'
  <2>1. write' \in [ApiWriters -> WriteRow]
    <3>0. write \in [ApiWriters -> WriteRow] /\ write[a] \in WriteRow BY DEF WriteRow
    <3>1. CASE AdmitBlindly(a)
      <4>1. [write[a] EXCEPT !.busy = TRUE] \in WriteRow BY <3>0 DEF WriteRow
      <4> QED BY <3>0, <3>1, <4>1 DEF AdmitBlindly
    <3>2. CASE AdmitWrite(a)
      <4>1. [busy |-> TRUE, behind |-> IF wgate.state = "closed" THEN wgate.set ELSE NoSet] \in WriteRow
        BY DEF WriteRow
      <4> QED BY <3>0, <3>2, <4>1 DEF AdmitWrite
    <3>3. CASE EndWrite(a)
      <4>1. NoWrite \in WriteRow BY DEF NoWrite, WriteRow
      <4> QED BY <3>0, <3>3, <4>1 DEF EndWrite
    <3> QED BY <1>8, <3>0, <3>1, <3>2, <3>3 DEF ReadGate
  <2>2. apiOpen' \in [ApiWriters -> BOOLEAN]
    BY <1>8 DEF ReadGate, AdmitWrite, AdmitBlindly, EndWrite
  <2>3. UNCHANGED <<due, occ, lastWindow, bset, manifest, wgate, bproc, execLease, overrun, bleft>>
    BY <1>8 DEF ReadGate, AdmitWrite, AdmitBlindly, EndWrite
  <2> QED BY <2>1, <2>2, <2>3 DEF WriteRow
<1>9. CASE UNCHANGED backupVars BY <1>9 DEF backupVars
<1> QED BY <1>1, <1>4, <1>5, <1>6, <1>7, <1>8, <1>9 DEF BackupNext

LEMMA PlacedStep == BackupInv /\ [BackupNext]_backupVars => Placed'
<1> SUFFICES ASSUME BackupInv, [BackupNext]_backupVars PROVE Placed' OBVIOUS
<1> USE DEF Placed, Executing, ExecutingPcs, IdleProc
<1>0. /\ Placed /\ NoProc \notin BackupProcs /\ execLease \in BackupProcs \cup {NoProc}
      /\ bproc \in [BackupProcs -> ProcRow]
  BY BackupAssumption DEF BackupInv, BackupTypeOK, ProcRow
<1>1. ASSUME UNCHANGED <<bproc, execLease, overrun>> PROVE Placed' BY <1>0, <1>1
<1>2. ASSUME NEW p \in BackupProcs, Rest(p), UNCHANGED <<execLease, overrun>> PROVE Placed'
  BY <1>0, <1>2 DEF Rest
<1>3. ASSUME NEW p \in BackupProcs, NEW pc \in Scheduling, Step(p, pc), UNCHANGED <<execLease, overrun>>
      PROVE  Placed'
  BY <1>0, <1>3 DEF Step, ProcRow, Scheduling
<1>4. ASSUME NEW p \in BackupProcs, Executing(p), UNCHANGED <<execLease, overrun>>,
             bproc' = [bproc EXCEPT ![p] = bproc'[p]],
             bproc'[p].pc \in ExecutingPcs, bproc'[p].set = bproc[p].set
      PROVE  Placed'
  BY <1>0, <1>4
<1>5. ASSUME NEW p \in BackupProcs, ScheduleStep(p) PROVE Placed'
  <2>1. CASE ClaimLatestWindow(p) BY <1>0, <2>1 DEF ClaimLatestWindow
  <2> QED BY <1>2, <1>3, <1>5, <2>1
      DEF ScheduleStep, CheckCreate, CreateBackupSet, FinishCreate, Scheduling
<1>6. ASSUME NEW p \in BackupProcs, ExecuteStep(p) PROVE Placed'
  <2>1. Executing(p) /\ UNCHANGED <<execLease, overrun>>
    BY <1>6 DEF ExecuteStep, TakeGate, AwaitWriteDrain, CloseGate, ListComponents, CompleteComponent,
       RecordManifestObjects, FailComponent, EnsureCleanupTarget, ReleaseGate
  <2>2. bproc[p] \in ProcRow BY <1>0
  <2>3. ASSUME NEW pc \in ExecutingPcs, Step(p, pc) PROVE Placed'
    BY <1>0, <1>4, <2>1, <2>2, <2>3 DEF Step, ProcRow
  <2>4. CASE ListComponents(p) \/ NextComponent(p)
    <3>1. PICK pc \in ExecutingPcs, kinds \in SUBSET Kinds :
             bproc' = [bproc EXCEPT ![p].pc = pc, ![p].todo = kinds]
      BY <2>2, <2>4 DEF ListComponents, NextComponent, ProcRow
    <3>2. bproc'[p] = [bproc[p] EXCEPT !.pc = pc, !.todo = kinds] BY <1>0, <3>1
    <3>3. bproc'[p].pc = pc /\ bproc'[p].set = bproc[p].set BY <2>2, <3>2 DEF ProcRow
    <3>4. bproc' = [bproc EXCEPT ![p] = bproc'[p]] BY <1>0, <3>1, <3>2
    <3> QED BY <1>4, <2>1, <3>3, <3>4
  <2> QED BY <1>2, <1>6, <2>1, <2>3, <2>4
      DEF ExecuteStep, TakeGate, AwaitWriteDrain, CloseGate, CompleteComponent,
          RecordManifestObjects, FailComponent, EnsureCleanupTarget, ReleaseGate
<1>7. ASSUME NEW p \in BackupProcs, RecoverStaleGate(p) \/ CreateBackup(p) \/ BackupCrash(p)
      PROVE  Placed'
  BY <1>1, <1>2, <1>3, <1>7 DEF RecoverStaleGate, CreateBackup, BackupCrash, Scheduling
<1>8. ASSUME NEW p \in BackupProcs, LeaseEnds(p) \/ LeaseLapses(p) PROVE Placed'
  BY <1>0, <1>8 DEF LeaseEnds, LeaseLapses
<1>9. ASSUME NEW p \in BackupProcs, NEW b \in BackupSets, ExecuteBackup(p, b) PROVE Placed'
  <2>1. \A q \in BackupProcs : Executing(q) => bproc[q].set \in overrun
    BY <1>0, <1>9 DEF ExecuteBackup
  <2>2. /\ bproc'[p] = [IdleProc EXCEPT !.pc = "gate", !.set = b] /\ execLease' = p
        /\ overrun' = overrun /\ \A q \in BackupProcs : q # p => bproc'[q] = bproc[q]
    BY <1>0, <1>9 DEF ExecuteBackup
  <2>3. bproc'[p].pc = "gate" /\ bproc'[p].set \in BackupSets
    BY <2>2
  <2>4. ASSUME NEW q \in BackupProcs, q # p
        PROVE  /\ bproc'[q].pc = "idle" => bproc'[q] = IdleProc
               /\ Executing(q)' => bproc'[q].set \in BackupSets /\ bproc'[q].set \in overrun'
    BY <1>0, <2>1, <2>2, <2>4
  <2> QED BY <2>2, <2>3, <2>4
<1>10. CASE \/ WindowDue \/ UNCHANGED backupVars
            \/ \E a \in ApiWriters : ReadGate(a) \/ AdmitWrite(a) \/ AdmitBlindly(a) \/ EndWrite(a)
  BY <1>1, <1>10 DEF WindowDue, ReadGate, AdmitWrite, AdmitBlindly, EndWrite, backupVars
<1> QED BY <1>5, <1>6, <1>7, <1>8, <1>9, <1>10 DEF BackupNext

\* A gate closes under its lease once no process sees it open any more, and only an
\* open gate lets a process cache that it is open
LEMMA GateMeansStep == BackupInv /\ [BackupNext]_backupVars => GateMeans'
<1> SUFFICES ASSUME BackupInv, [BackupNext]_backupVars PROVE GateMeans' OBVIOUS
<1> USE DEF GateMeans, NoSet, GateOpen, scheduleVars, apiVars
<1>0. /\ GateMeans /\ NoSet \notin BackupSets /\ apiOpen \in [ApiWriters -> BOOLEAN]
      /\ wgate \in GateRow /\ write \in [ApiWriters -> WriteRow]
      /\ \A p \in BackupProcs : Executing(p) => bproc[p].set \in BackupSets
  BY BackupAssumption DEF BackupInv, BackupTypeOK, GateRow, WriteRow, Placed
<1>1. ASSUME UNCHANGED <<wgate, apiOpen, write>>, overrun \subseteq overrun' PROVE GateMeans'
  BY <1>0, <1>1
<1>2. ASSUME wgate' \in {wgate, GateOpen}, UNCHANGED <<apiOpen, write, overrun>> PROVE GateMeans'
  BY <1>0, <1>2
<1>3. ASSUME NEW p \in BackupProcs, TakeGate(p) PROVE GateMeans'
  <2>1. bproc[p].set \in BackupSets BY <1>0, <1>3 DEF TakeGate, Executing, ExecutingPcs
  <2> QED BY <1>0, <1>3, <2>1 DEF TakeGate
<1>4. ASSUME NEW p \in BackupProcs, CloseGate(p) PROVE GateMeans'
  <2>1. CASE wgate = [state |-> "closing", set |-> bproc[p].set]
    <3>1. wgate' = [state |-> "closed", set |-> bproc[p].set] BY <1>0, <1>4, <2>1 DEF CloseGate
    <3>2. bproc[p].set \in BackupSets BY <1>0, <1>4 DEF CloseGate, Executing, ExecutingPcs
    <3>3. bproc[p].set \notin overrun => \A a \in ApiWriters : ~apiOpen[a]
      BY <1>4 DEF CloseGate, BackupInv, GateHeld, Held
    <3> QED BY <1>0, <1>4, <3>1, <3>2, <3>3 DEF CloseGate
  <2>2. CASE wgate # [state |-> "closing", set |-> bproc[p].set] BY <1>1, <1>4, <2>2 DEF CloseGate
  <2> QED BY <2>1, <2>2
<1>5. ASSUME NEW a \in ApiWriters, ReadGate(a) \/ AdmitWrite(a) \/ AdmitBlindly(a) \/ EndWrite(a)
      PROVE  GateMeans'
  <2>0. wgate' = wgate /\ overrun' = overrun
    BY <1>5 DEF ReadGate, AdmitWrite, AdmitBlindly, EndWrite
  <2>1. CASE ReadGate(a) BY <1>0, <2>0, <2>1 DEF ReadGate
  <2>2. CASE AdmitWrite(a) BY <1>0, <2>0, <2>2 DEF AdmitWrite
  <2>3. CASE AdmitBlindly(a) BY <1>0, <2>0, <2>3 DEF AdmitBlindly, WriteRow
  <2>4. CASE EndWrite(a) BY <1>0, <2>0, <2>4 DEF EndWrite, NoWrite
  <2> QED BY <1>5, <2>1, <2>2, <2>3, <2>4
<1> QED BY <1>1, <1>2, <1>3, <1>4, <1>5
    DEF BackupNext, backupVars, WindowDue, ScheduleStep, ClaimLatestWindow, CheckCreate,
        CreateBackupSet, FinishCreate, ExecuteStep, AwaitWriteDrain, ListComponents, CompleteComponent,
        RecordManifestObjects, FailComponent, EnsureCleanupTarget, ReleaseGate, RecoverStaleGate,
        CreateBackup, BackupCrash, LeaseEnds, LeaseLapses, ExecuteBackup

\* What an execution under its lease relies on only that execution can disturb: no
\* other works on its set or has its gate, and its set is neither made again nor
\* taken for stale
LEMMA GateHeldStep == BackupInv /\ [BackupNext]_backupVars => GateHeld'
<1> SUFFICES ASSUME BackupInv, [BackupNext]_backupVars PROVE GateHeld' OBVIOUS
<1> USE DEF Held, Executing, ExecutingPcs, Deciding, Behind, NoSet, scheduleVars, apiVars
<1>0. /\ GateHeld /\ bproc \in [BackupProcs -> ProcRow] /\ bset \in [BackupSets -> SetRow]
      /\ wgate \in GateRow /\ (wgate.state = "open" => wgate.set = NoSet)
      /\ NoSet \notin BackupSets /\ NoProc \notin BackupProcs
      /\ \A p \in BackupProcs : bproc[p].pc = "idle" => bproc[p] = IdleProc
      /\ \A p \in BackupProcs : Executing(p) => bproc[p].set \in BackupSets
      /\ \A p \in BackupProcs : Executing(p) /\ bproc[p].set \notin overrun => execLease = p
      /\ IdleProc.pc = "idle"
  BY BackupAssumption DEF BackupInv, BackupTypeOK, Placed, ProcRow, SetRow, GateRow, GateMeans, IdleProc
\* A process that stands keeps what it relies on, if its set and its gate stand
<1>1. ASSUME NEW q \in BackupProcs, bproc'[q] = bproc[q], bproc[q].set \notin overrun,
             Executing(q) /\ bproc[q].pc # "release" => bset'[bproc[q].set] = bset[bproc[q].set],
             bproc[q].pc \in Behind => wgate' = wgate,
             \A a \in ApiWriters : apiOpen'[a] => apiOpen[a] \/ wgate.state = "open"
      PROVE  Held(q)'
  <2>1. Held(q) BY <1>0, <1>1 DEF GateHeld
  <2>2. bproc[q].pc \in Behind => wgate.state # "open" BY <1>0, <2>1
  <2> QED BY <1>1, <2>1, <2>2
<1>2. ASSUME UNCHANGED <<bproc, bset, wgate>>, overrun \subseteq overrun',
             \A a \in ApiWriters : apiOpen'[a] => apiOpen[a] \/ wgate.state = "open"
      PROVE  GateHeld'
  BY <1>1, <1>2 DEF GateHeld
\* A process that begins, ends or prepares a set disturbs no other
<1>3. ASSUME NEW p \in BackupProcs, ~Executing(p)', UNCHANGED <<wgate, apiOpen, overrun>>,
             \A q \in BackupProcs : q # p => bproc'[q] = bproc[q],
             \A b \in BackupSets : bset[b].status # "none" => bset'[b] = bset[b]
      PROVE  GateHeld'
  <2>1. ASSUME NEW q \in BackupProcs, bproc'[q].set \notin overrun PROVE Held(q)'
    <3>1. CASE q = p BY <1>3, <3>1
    <3>2. CASE q # p
      <4>1. bproc'[q] = bproc[q] /\ Held(q) BY <1>0, <1>3, <2>1, <3>2 DEF GateHeld
      <4>2. Executing(q) /\ bproc[q].pc # "release" => bset'[bproc[q].set] = bset[bproc[q].set]
        BY <1>0, <1>3, <4>1
      <4> QED BY <1>1, <1>3, <2>1, <4>1, <4>2
    <3> QED BY <3>1, <3>2
  <2> QED BY <1>3, <2>1 DEF GateHeld
<1>4. ASSUME NEW p \in BackupProcs, ScheduleStep(p) \/ CreateBackup(p) \/ BackupCrash(p)
      PROVE  GateHeld'
  <2>1. /\ UNCHANGED <<wgate, apiOpen, overrun>>
        /\ \A q \in BackupProcs : q # p => bproc'[q] = bproc[q]
    BY <1>0, <1>4 DEF ScheduleStep, ClaimLatestWindow, CheckCreate, CreateBackupSet, FinishCreate,
       CreateBackup, BackupCrash, Step, Rest
  <2>3. ~Executing(p)'
    <3>1. bproc[p] \in ProcRow BY <1>0
    <3>2. CASE Rest(p) BY <1>0, <3>2 DEF Rest
    <3>3. ASSUME NEW pc \in Scheduling, Step(p, pc) PROVE ~Executing(p)'
      BY <1>0, <3>1, <3>3 DEF Step, Scheduling, ProcRow
    <3>4. CASE ClaimLatestWindow(p)
      <4>1. bproc'[p] \in {bproc[p], [IdleProc EXCEPT !.pc = "claimed", !.window = due]}
        BY <1>0, <3>4 DEF ClaimLatestWindow
      <4> QED BY <3>1, <3>4, <4>1 DEF ClaimLatestWindow, IdleProc
    <3> QED BY <1>4, <3>2, <3>3, <3>4
        DEF ScheduleStep, CheckCreate, CreateBackupSet, FinishCreate, CreateBackup, BackupCrash, Scheduling
  <2>2. \A b \in BackupSets : bset[b].status # "none" => bset'[b] = bset[b]
    BY <1>0, <1>4 DEF ScheduleStep, ClaimLatestWindow, CheckCreate, CreateBackupSet, FinishCreate,
       CreateBackup, BackupCrash, SetRow
  <2> QED BY <1>3, <2>1, <2>2, <2>3
<1>5. ASSUME NEW p \in BackupProcs, ExecuteStep(p) PROVE GateHeld'
  <2>1. Executing(p) /\ bproc[p].set \in BackupSets /\ bproc[p] \in ProcRow
    BY <1>0, <1>5 DEF ExecuteStep, TakeGate, AwaitWriteDrain, CloseGate, ListComponents,
       CompleteComponent, RecordManifestObjects, FailComponent, EnsureCleanupTarget, ReleaseGate
  <2>2. /\ UNCHANGED <<apiOpen, overrun>>
        /\ \A q \in BackupProcs : q # p => bproc'[q] = bproc[q]
        /\ \A b \in BackupSets : b # bproc[p].set => bset'[b] = bset[b]
    <3>1. UNCHANGED <<apiOpen, overrun>>
      BY <1>5 DEF ExecuteStep, TakeGate, AwaitWriteDrain, CloseGate, ListComponents,
         CompleteComponent, RecordManifestObjects, FailComponent, EnsureCleanupTarget, ReleaseGate
    <3>2. \A q \in BackupProcs : q # p => bproc'[q] = bproc[q]
      BY <1>0, <1>5 DEF ExecuteStep, TakeGate, AwaitWriteDrain, CloseGate, ListComponents,
         CompleteComponent, RecordManifestObjects, FailComponent, EnsureCleanupTarget, ReleaseGate,
         Step, Rest, NextComponent
    <3>3. \A b \in BackupSets : b # bproc[p].set => bset'[b] = bset[b]
      BY <1>0, <1>5 DEF ExecuteStep, TakeGate, AwaitWriteDrain, CloseGate, ListComponents,
         CompleteComponent, RecordManifestObjects, FailComponent, EnsureCleanupTarget, ReleaseGate
    <3> QED BY <3>1, <3>2, <3>3
  <2>3. wgate.set \notin {NoSet, bproc[p].set} => wgate' = wgate
    BY <1>0, <1>5 DEF ExecuteStep, TakeGate, AwaitWriteDrain, CloseGate, ListComponents,
       CompleteComponent, RecordManifestObjects, FailComponent, EnsureCleanupTarget, ReleaseGate
  <2>4. ASSUME NEW q \in BackupProcs, q # p, bproc'[q].set \notin overrun PROVE Held(q)'
    <3>1. bproc'[q] = bproc[q] BY <2>2, <2>4
    <3>2. Executing(q) => bproc[q].set \in BackupSets /\ bproc[q].set # bproc[p].set
      BY <1>0, <2>1, <2>4, <3>1
    <3>3. Held(q) BY <1>0, <2>4, <3>1 DEF GateHeld
    <3>4. bproc[q].pc \in Behind => wgate' = wgate BY <1>0, <2>3, <3>2, <3>3
    <3> QED BY <1>1, <2>2, <2>4, <3>1, <3>2, <3>4
  <2>5. ASSUME bproc[p].set \notin overrun PROVE Held(p)'
    <3>0. Held(p) BY <1>0, <2>5 DEF GateHeld
    <3>1. ASSUME NEW pc \in BackupPcs, Step(p, pc)
          PROVE  bproc'[p].pc = pc /\ bproc'[p].set = bproc[p].set
      BY <2>1, <1>0, <3>1 DEF Step, ProcRow
    <3> USE DEF BackupPcs
    <3>2. CASE TakeGate(p)
      <4>1. bproc'[p].pc \in {"drain", "idle"} /\ (bproc'[p].pc = "drain" => bproc'[p].set = bproc[p].set)
        BY <1>0, <3>1, <3>2 DEF TakeGate, Rest
      <4>2. bproc'[p].pc = "drain" => wgate'.set = bproc[p].set
        BY <1>0, <3>2 DEF TakeGate, Rest
      <4> QED BY <3>0, <3>2, <4>1, <4>2 DEF TakeGate
    <3>3. CASE AwaitWriteDrain(p)
      BY <3>0, <3>1, <3>3 DEF AwaitWriteDrain, Settled
    <3>4. CASE CloseGate(p)
      <4>1. wgate.set = bproc[p].set /\ wgate.state \in {"closing", "closed"}
        BY <1>0, <2>1, <3>0, <3>4 DEF CloseGate, GateRow
      <4>2. wgate = [state |-> wgate.state, set |-> wgate.set] BY <1>0 DEF GateRow
      <4>3. wgate'.set = bproc[p].set /\ wgate'.state = "closed"
        BY <1>0, <3>4, <4>1, <4>2 DEF CloseGate
      <4> QED BY <3>0, <3>1, <3>4, <4>3 DEF CloseGate
    <3>5. CASE ListComponents(p)
      <4>1. bproc'[p].pc \in {"release", "copying"} /\ bproc'[p].set = bproc[p].set
        BY <1>0, <2>1, <3>5 DEF ListComponents, ProcRow
      <4>2. bproc'[p].pc = "copying" => bproc'[p].todo = Kinds \ bset[bproc[p].set].done
        BY <1>0, <2>1, <3>5 DEF ListComponents, ProcRow
      <4> QED BY <3>0, <3>5, <4>1, <4>2 DEF ListComponents
    <3>6. CASE CompleteComponent(p) \/ RecordManifestObjects(p)
      <4> DEFINE x == bset[bproc[p].set]
                 left == bproc[p].todo \ {Copying(p)}
      <4>1. /\ bproc[p].pc = "copying" /\ NextComponent(p) /\ wgate' = wgate
            /\ bset' = [bset EXCEPT ![bproc[p].set] = Succeeded(x, Copying(p))]
        BY <3>6 DEF CompleteComponent, RecordManifestObjects
      <4>2. /\ bproc'[p].pc = IF left = {} THEN "release" ELSE "copying"
            /\ bproc'[p].set = bproc[p].set /\ bproc'[p].todo = left
        BY <1>0, <2>1, <4>1 DEF NextComponent, ProcRow
      <4>3. x \in SetRow /\ bset'[bproc[p].set] = Succeeded(x, Copying(p)) BY <1>0, <2>1, <4>1
      <4>4. bproc[p].todo = Kinds \ x.done /\ x.status = "creating" BY <3>0, <4>1
      <4>5. left = Kinds \ (x.done \cup {Copying(p)}) BY <4>4
      <4>6. Copying(p) \in Kinds BY DEF Copying, FirstKind, Kinds
      <4>7. left # {} => x.done \cup {Copying(p)} # Kinds BY <4>5
      <4>8. left # {} => /\ bset'[bproc[p].set].status = "creating"
                         /\ bset'[bproc[p].set].done = x.done \cup {Copying(p)}
        BY <4>3, <4>4, <4>7 DEF Succeeded, SetRow
      <4> HIDE DEF x, left
      <4> QED BY <3>0, <4>1, <4>2, <4>5, <4>8
    <3>7. CASE FailComponent(p)
      BY <1>0, <2>1, <3>1, <3>7 DEF FailComponent, SetRow
    <3>8. CASE EnsureCleanupTarget(p) BY <3>1, <3>8 DEF EnsureCleanupTarget
    <3>9. CASE ReleaseGate(p) BY <1>0, <3>9 DEF ReleaseGate, Rest
    <3> QED BY <1>5, <3>2, <3>3, <3>4, <3>5, <3>6, <3>7, <3>8, <3>9 DEF ExecuteStep
  <2>6. bproc'[p].pc = "idle" \/ bproc'[p].set = bproc[p].set
    BY <1>0, <1>5, <2>1 DEF ExecuteStep, TakeGate, AwaitWriteDrain, CloseGate, ListComponents,
       CompleteComponent, RecordManifestObjects, FailComponent, EnsureCleanupTarget, ReleaseGate,
       Step, Rest, NextComponent, ProcRow
  <2> QED BY <2>2, <2>4, <2>5, <2>6 DEF GateHeld
<1>6. ASSUME NEW p \in BackupProcs, RecoverStaleGate(p) PROVE GateHeld'
  <2>1. \A q \in BackupProcs : bproc[q].set \notin overrun => bproc[q].pc \notin Behind
    BY <1>0, <1>6 DEF RecoverStaleGate, StaleGate, GateHeld
  <2> QED BY <1>1, <1>6, <2>1 DEF RecoverStaleGate, GateHeld
<1>7. ASSUME NEW p \in BackupProcs, NEW b \in BackupSets, ExecuteBackup(p, b) PROVE GateHeld'
  <2>1. bproc'[p].pc = "gate" /\ bproc'[p].set = b /\ bset[b].status = "creating"
    BY <1>0, <1>7 DEF ExecuteBackup, Creating, IdleProc
  <2>2. UNCHANGED <<bset, wgate, apiOpen, overrun>> /\ \A q \in BackupProcs : q # p => bproc'[q] = bproc[q]
    BY <1>0, <1>7 DEF ExecuteBackup
  <2>3. Held(p)' BY <2>1, <2>2
  <2> QED BY <1>1, <2>2, <2>3 DEF GateHeld
<1>8. CASE \/ WindowDue \/ UNCHANGED backupVars
           \/ \E p \in BackupProcs : LeaseEnds(p) \/ LeaseLapses(p)
           \/ \E a \in ApiWriters : ReadGate(a) \/ AdmitWrite(a) \/ AdmitBlindly(a) \/ EndWrite(a)
  <2>1. UNCHANGED <<bproc, bset, wgate>> /\ overrun \subseteq overrun'
    BY <1>8 DEF WindowDue, LeaseEnds, LeaseLapses, ReadGate, AdmitWrite, AdmitBlindly, EndWrite, backupVars
  <2>2. \A a \in ApiWriters : apiOpen'[a] => apiOpen[a] \/ wgate.state = "open"
    BY <1>8 DEF WindowDue, LeaseEnds, LeaseLapses, ReadGate, AdmitWrite, AdmitBlindly, EndWrite,
       backupVars, BackupInv, BackupTypeOK
  <2> QED BY <1>2, <2>1, <2>2
<1> QED BY <1>4, <1>5, <1>6, <1>7, <1>8 DEF BackupNext

\* A set is complete with all its components at once, and only a set that has
\* failed is given a cleanup target while its executions keep their lease
LEMMA WholeStep == BackupInv /\ [BackupNext]_backupVars => SetsAreWhole'
<1> SUFFICES ASSUME BackupInv, [BackupNext]_backupVars PROVE SetsAreWhole' OBVIOUS
<1> USE DEF SetsAreWhole, scheduleVars, apiVars
<1>0. /\ SetsAreWhole /\ bset \in [BackupSets -> SetRow]
      /\ \A p \in BackupProcs : bproc[p].set \notin overrun =>
            /\ bproc[p].pc \in Deciding => bset[bproc[p].set].status = "creating"
            /\ bproc[p].pc = "failed" => bset[bproc[p].set].status = "failed"
  BY DEF BackupInv, BackupTypeOK, SetRow, GateHeld, Held
<1>1. ASSUME UNCHANGED bset, overrun \subseteq overrun' PROVE SetsAreWhole' BY <1>0, <1>1
<1>2. ASSUME NEW p \in BackupProcs, CreateBackupSet(p) PROVE SetsAreWhole'
  BY <1>0, <1>2 DEF CreateBackupSet, SetRow
<1>3. ASSUME NEW p \in BackupProcs, CompleteComponent(p) \/ RecordManifestObjects(p) PROVE SetsAreWhole'
  <2> DEFINE b == bproc[p].set
  <2>1. /\ bproc[p].pc = "copying" /\ overrun' = overrun
        /\ bset' = [bset EXCEPT ![b] = Succeeded(@, Copying(p))]
    BY <1>3 DEF CompleteComponent, RecordManifestObjects
  <2>2. b \in BackupSets => bset[b] \in SetRow BY <1>0
  <2>3. Copying(p) \in Kinds BY DEF Copying, FirstKind, Kinds
  <2>4. b \in BackupSets =>
          /\ bset'[b].cleanup = bset[b].cleanup
          /\ \/ bset'[b].status = "complete" /\ bset'[b].done = Kinds
             \/ bset'[b].status = bset[b].status /\ bset'[b].done = bset[b].done \cup {Copying(p)}
    BY <1>0, <2>1, <2>2 DEF Succeeded, SetRow
  <2>5. \A c \in BackupSets : c # b => bset'[c] = bset[c] BY <1>0, <2>1
  <2>6. b \in BackupSets /\ b \notin overrun => ~bset[b].cleanup
    BY <1>0, <2>1, <2>2 DEF Deciding, Behind, SetRow
  <2>7. b \in BackupSets => (bset'[b].status = "complete" => bset'[b].done = Kinds)
    <3>1. Kinds \cup {Copying(p)} = Kinds BY <2>3
    <3>2. b \in BackupSets => (bset[b].status = "complete" => bset[b].done = Kinds) BY <1>0
    <3> QED BY <2>4, <3>1, <3>2
  <2> QED BY <1>0, <2>1, <2>4, <2>5, <2>6, <2>7
<1>4. ASSUME NEW p \in BackupProcs, FailComponent(p) PROVE SetsAreWhole'
  BY <1>0, <1>4 DEF FailComponent, SetRow
<1>5. ASSUME NEW p \in BackupProcs, EnsureCleanupTarget(p) PROVE SetsAreWhole'
  BY <1>0, <1>5 DEF EnsureCleanupTarget, SetRow
<1> QED BY <1>1, <1>2, <1>3, <1>4, <1>5
    DEF BackupNext, backupVars, WindowDue, ScheduleStep, ClaimLatestWindow, CheckCreate,
        FinishCreate, ExecuteStep, TakeGate, AwaitWriteDrain, CloseGate, ListComponents, ReleaseGate,
        RecoverStaleGate, CreateBackup, BackupCrash, LeaseEnds, LeaseLapses, ExecuteBackup, ReadGate,
        AdmitWrite, AdmitBlindly, EndWrite

\* The windows: a claim is taken on an occurrence nobody has, is given up or made
\* a set by the process that has it, and is settled once
WindowInv == Claimed /\ WindowOnce

LEMMA WindowStep == BackupInv /\ [BackupNext]_backupVars => WindowInv'
<1> SUFFICES ASSUME BackupInv, [BackupNext]_backupVars PROVE WindowInv' OBVIOUS
<1> USE DEF WindowInv, Claimed, WindowOnce, Scheduling, scheduleVars, apiVars
<1>0. /\ Claimed /\ WindowOnce
      /\ bproc \in [BackupProcs -> ProcRow] /\ bset \in [BackupSets -> SetRow]
      /\ occ \in [1..Windows -> Outcomes] /\ due \in 0..Windows /\ lastWindow \in 0..Windows
      /\ Windows \in Nat
      /\ \A p \in BackupProcs : bproc[p].pc = "idle" => bproc[p] = IdleProc
      /\ \A b \in BackupSets : bset[b].window \in 0..Windows
      /\ \A p \in BackupProcs : bproc[p].window \in 0..Windows
  BY BackupAssumption DEF BackupInv, BackupTypeOK, Placed, ProcRow, SetRow
<1>1. ASSUME UNCHANGED <<bproc, occ>>, \A b \in BackupSets : bset'[b].window = bset[b].window
      PROVE  WindowInv'
  BY <1>0, <1>1
<1>2. ASSUME NEW p \in BackupProcs, bproc' = [bproc EXCEPT ![p] = bproc'[p]],
             bproc'[p].pc \notin Scheduling \/ bproc'[p].window = 0, UNCHANGED occ,
             \A b \in BackupSets : bset'[b].window = bset[b].window
      PROVE  WindowInv'
  BY <1>0, <1>2
<1>3. ASSUME NEW p \in BackupProcs, ClaimLatestWindow(p) PROVE WindowInv'
  <2>1. due \in 1..Windows BY <1>0, <1>3 DEF ClaimLatestWindow
  <2>2. \A n \in 1..Windows : MissedClaims(due)[n] = occ[n] \/ occ[n] = "none"
    BY <1>0 DEF MissedClaims
  <2>3. MissedClaims(due) = [n \in 1..Windows |-> MissedClaims(due)[n]] BY DEF MissedClaims
  <2>4. CASE occ[due] = "none"
    <3>1. /\ occ' = [MissedClaims(due) EXCEPT ![due] = "claimed"] /\ bset' = bset
          /\ bproc' = [bproc EXCEPT ![p] = [IdleProc EXCEPT !.pc = "claimed", !.window = due]]
      BY <1>3, <2>4 DEF ClaimLatestWindow
    <3>2. \A n \in 1..Windows : n # due => occ'[n] = occ[n] \/ occ[n] = "none"
      BY <2>2, <2>3, <3>1
    <3>3. occ'[due] = "claimed" BY <2>1, <2>3, <3>1
    <3>4. /\ \A b \in BackupSets : bset[b].window # due
          /\ \A q \in BackupProcs : bproc[q].pc \in Scheduling => bproc[q].window # due
      BY <1>0, <2>1, <2>4
    <3>5. /\ bproc'[p] = [IdleProc EXCEPT !.pc = "claimed", !.window = due]
          /\ \A q \in BackupProcs : q # p => bproc'[q] = bproc[q]
      BY <1>0, <3>1
    <3>6. WindowOnce' BY <1>0, <3>1, <3>2, <3>3, <3>4
    <3>7. Claimed' BY <1>0, <2>1, <3>1, <3>2, <3>3, <3>4, <3>5
    <3> QED BY <3>6, <3>7
  <2>5. CASE occ[due] # "none"
    <3>1. occ' = MissedClaims(due) /\ bproc' = bproc /\ bset' = bset
      BY <1>3, <2>5 DEF ClaimLatestWindow
    <3> QED BY <1>0, <2>2, <3>1
  <2> QED BY <2>4, <2>5
\* Who settles a window that is his: no other process and no set depends on it
<1>4. ASSUME NEW p \in BackupProcs, Rest(p), bset' = bset,
             bproc[p].pc \in Scheduling, NEW outcome \in Outcomes,
             outcome = "executed" \/ bproc[p].pc = "claimed",
             bproc[p].window # 0 => occ' = [occ EXCEPT ![bproc[p].window] = outcome],
             bproc[p].window = 0 => occ' = occ
      PROVE  WindowInv'
  <2>1. bproc'[p].window = 0 /\ \A q \in BackupProcs : q # p => bproc'[q] = bproc[q]
    BY <1>0, <1>4 DEF Rest, IdleProc
  <2>2. CASE bproc[p].window = 0 BY <1>0, <1>2, <1>4, <2>1, <2>2 DEF Rest
  <2>3. CASE bproc[p].window # 0
    <3>1. \A n \in 1..Windows : n # bproc[p].window => occ'[n] = occ[n] BY <1>0, <1>4, <2>3
    <3>2. occ'[bproc[p].window] = outcome BY <1>0, <1>4, <2>3
    <3>3. \A q \in BackupProcs : q # p /\ bproc[q].pc \in Scheduling => bproc[q].window # bproc[p].window
      BY <1>0, <1>4, <2>3
    <3>4. Claimed'
      <4>1. ASSUME NEW q \in BackupProcs, bproc'[q].pc \in Scheduling, bproc'[q].window # 0
            PROVE  q # p /\ bproc'[q] = bproc[q] /\ occ'[bproc'[q].window] = "claimed"
        <5>1. q # p /\ bproc'[q] = bproc[q] BY <2>1, <4>1
        <5>2. bproc[q].window # bproc[p].window /\ bproc[q].window \in 1..Windows
          BY <1>0, <3>3, <4>1, <5>1
        <5> QED BY <1>0, <3>1, <4>1, <5>1, <5>2
      <4>2. ASSUME NEW q \in BackupProcs, bproc'[q].pc \in Scheduling, bproc'[q].window # 0,
                   NEW x \in BackupProcs, x # q, bproc'[x].pc \in Scheduling
            PROVE  bproc'[x].window # bproc'[q].window
        <5>1. CASE x = p BY <2>1, <4>2, <5>1
        <5>2. CASE x # p BY <1>0, <2>1, <4>1, <4>2, <5>2
        <5> QED BY <5>1, <5>2
      <4>3. ASSUME NEW q \in BackupProcs, NEW b \in BackupSets,
                   bproc'[q].pc \in {"claimed", "create"}, bproc'[q].window # 0
            PROVE  bset'[b].window # bproc'[q].window
        BY <1>0, <1>4, <4>1, <4>3
      <4> QED BY <4>1, <4>2, <4>3
    <3>5. WindowOnce'
      <4>1. ASSUME NEW b \in BackupSets, bset[b].window # 0
            PROVE  occ'[bset[b].window] \in {"claimed", "executed"}
        BY <1>0, <1>4, <2>3, <3>1, <3>2, <4>1
      <4> QED BY <1>0, <1>4, <4>1
    <3> QED BY <3>4, <3>5
  <2> QED BY <2>2, <2>3
<1>5. ASSUME NEW p \in BackupProcs, CheckCreate(p) PROVE WindowInv'
  <2>1. CASE Step(p, "create") /\ UNCHANGED <<occ, bset>>
    <3>1. bproc'[p].pc = "create" /\ bproc'[p].window = bproc[p].window
      BY <1>0, <2>1 DEF Step, ProcRow
    <3>2. \A q \in BackupProcs : q # p => bproc'[q] = bproc[q] BY <1>0, <2>1 DEF Step
    <3> QED BY <1>0, <1>5, <2>1, <3>1, <3>2 DEF CheckCreate
  <2>2. CASE ReleaseClaim(bproc[p].window) /\ Rest(p)
    BY <1>4, <1>5, <2>2 DEF CheckCreate, ReleaseClaim, Outcomes
  <2>3. CASE FinalizeOccurrence(bproc[p].window, "skipped_active_backup") /\ Rest(p)
    BY <1>4, <1>5, <2>3 DEF CheckCreate, FinalizeOccurrence, Outcomes
  <2> QED BY <1>5, <2>1, <2>2, <2>3 DEF CheckCreate
<1>6. ASSUME NEW p \in BackupProcs, FinishCreate(p) PROVE WindowInv'
  BY <1>4, <1>6 DEF FinishCreate, FinalizeOccurrence, Outcomes
<1>7. ASSUME NEW p \in BackupProcs, CreateBackupSet(p) PROVE WindowInv'
  <2>1. PICK b \in BackupSets :
           bset' = [bset EXCEPT ![b].status = "creating", ![b].window = bproc[p].window]
    BY <1>7 DEF CreateBackupSet
  <2>2. bset'[b].window = bproc[p].window /\ \A c \in BackupSets : c # b => bset'[c] = bset[c]
    BY <1>0, <2>1 DEF SetRow
  <2>3. bproc'[p].pc = "created" /\ bproc'[p].window = bproc[p].window
    BY <1>0, <1>7 DEF CreateBackupSet, Step, ProcRow
  <2>4. occ' = occ /\ \A q \in BackupProcs : q # p => bproc'[q] = bproc[q]
    BY <1>0, <1>7 DEF CreateBackupSet, Step
  <2>5. bproc[p].pc = "create" BY <1>7 DEF CreateBackupSet
  <2>6. WindowOnce' BY <1>0, <2>2, <2>4, <2>5
  <2>7. Claimed' BY <1>0, <2>2, <2>3, <2>4, <2>5
  <2> QED BY <2>6, <2>7
<1>8. ASSUME NEW p \in BackupProcs, ExecuteStep(p) PROVE WindowInv'
  <2>1. \A b \in BackupSets : bset'[b].window = bset[b].window
    <3>1. CASE CompleteComponent(p) BY <1>0, <3>1 DEF CompleteComponent, Succeeded, SetRow
    <3>2. CASE RecordManifestObjects(p) BY <1>0, <3>2 DEF RecordManifestObjects, Succeeded, SetRow
    <3>3. CASE FailComponent(p) BY <1>0, <3>3 DEF FailComponent, SetRow
    <3>4. CASE EnsureCleanupTarget(p) BY <1>0, <3>4 DEF EnsureCleanupTarget, SetRow
    <3> QED BY <1>8, <3>1, <3>2, <3>3, <3>4
        DEF ExecuteStep, TakeGate, AwaitWriteDrain, CloseGate, ListComponents, ReleaseGate
  <2>2. bproc' = [bproc EXCEPT ![p] = bproc'[p]] /\ bproc'[p].pc \notin Scheduling /\ occ' = occ
    BY <1>0, <1>8 DEF ExecuteStep, TakeGate, AwaitWriteDrain, CloseGate, ListComponents,
       CompleteComponent, RecordManifestObjects, FailComponent, EnsureCleanupTarget, ReleaseGate,
       Step, Rest, NextComponent, ProcRow, IdleProc
  <2> QED BY <1>2, <2>1, <2>2
<1>9. ASSUME NEW p \in BackupProcs,
             CreateBackup(p) \/ BackupCrash(p) \/ \E b \in BackupSets : ExecuteBackup(p, b)
      PROVE  WindowInv'
  <2>1. /\ bproc' = [bproc EXCEPT ![p] = bproc'[p]] /\ UNCHANGED <<occ, bset>>
        /\ bproc'[p].pc \notin Scheduling \/ bproc'[p].window = 0
    <3>1. CASE CreateBackup(p) BY <1>0, <3>1 DEF CreateBackup, Step, ProcRow, IdleProc
    <3>2. CASE BackupCrash(p) BY <1>0, <3>2 DEF BackupCrash, Rest, IdleProc
    <3>3. CASE \E b \in BackupSets : ExecuteBackup(p, b) BY <1>0, <3>3 DEF ExecuteBackup, IdleProc
    <3> QED BY <1>9, <3>1, <3>2, <3>3
  <2> QED BY <1>2, <2>1
<1> QED BY <1>1, <1>3, <1>5, <1>6, <1>7, <1>8, <1>9
    DEF BackupNext, backupVars, WindowDue, ScheduleStep, RecoverStaleGate, LeaseEnds, LeaseLapses,
        ReadGate, AdmitWrite, AdmitBlindly, EndWrite

LEMMA BackupStep == BackupInv /\ [BackupNext]_backupVars => BackupInv'
BY BackupTypeStep, PlacedStep, GateMeansStep, GateHeldStep, WindowStep, WholeStep
   DEF BackupInv, WindowInv

\* Under its lease an execution copies behind the gate of its set, closed once no
\* process saw it open
LEMMA InvIsSafe == BackupInv => BackupSafe
BY DEF BackupInv, BackupSafe, BackupTypeOK, Placed, GateMeans, GateHeld, Held, QuietSnapshot,
       Behind, Executing, ExecutingPcs

\* Unless its lease runs out under it, an execution copies alone behind the gate
\* closed for its set and no process that can read the gate lets a write in; a
\* window makes one backup, and a complete set is whole however many executions
\* worked on it: for any number of processes, sets, windows, writers, losses, faults
THEOREM Quiet == BackupSpec => []BackupSafe
<1>1. BackupSpec => []BackupInv BY BackupBegins, BackupStep, PTL DEF BackupSpec
<1> QED BY <1>1, InvIsSafe, PTL

-----------------------------------------------------------------------------
(* Restores *)

SessionRow == [status : {"none", "completed"} \cup ActiveStatuses,
               backup : RestoreBackups \cup {NoBackup},
               stage : 1..(LastStage + 1), failed : BOOLEAN]
KeptRow == [cleanup : {"none", "done"} \cup Unfinished, gone : BOOLEAN, purged : BOOLEAN]
TargetRow == [RebuildTargets -> {"none", "failed", "succeeded"}]
RepairRow == [Repairs -> {"none", "open", "succeeded"}]

\* Retention takes up a set only behind the newest keep_last
TakenUp ==
    \A b \in RestoreBackups :
        sweep = b \/ kept[b].cleanup # "none" \/ kept[b].gone =>
            Cardinality({c \in RestoreBackups : c > b}) >= KeepLast

\* A target ran in its stage, and the stages that a session has left behind have
\* succeeded; a session that is over has left them all, with nothing open
StagesDone ==
    \A r \in RestoreIds :
        /\ \A t \in RebuildTargets :
              /\ target[r][t] # "none" => session[r].stage >= t[1]
              /\ session[r].stage > t[1] => target[r][t] = "succeeded"
        /\ session[r].status = "completed" => NoneOpen(repair[r]) /\ session[r].stage = LastStage + 1

RetainedInv == RestoreTypeOK /\ TakenUp /\ StagesDone

LEMMA LastIs == LastStage \in Nat /\ LastStage >= 2 /\ DerivedStages = 3..LastStage
<1>1. Cardinality(DerivedStages) \in Nat BY FS_CardinalityType, RestoreAssumption
<1> QED BY <1>1, RestoreAssumption DEF LastStage

LEMMA RestoreBegins == RestoreInit => RetainedInv
<1> SUFFICES ASSUME RestoreInit PROVE RetainedInv OBVIOUS
<1> USE DEF RestoreInit
<1>1. RestoreTypeOK
  <2>1. [status |-> "none", backup |-> NoBackup, stage |-> 1, failed |-> FALSE] \in SessionRow
    BY LastIs DEF SessionRow
  <2>2. session \in [RestoreIds -> SessionRow] BY <2>1
  <2>3. kept \in [RestoreBackups -> KeptRow] BY DEF KeptRow
  <2>4. target \in [RestoreIds -> TargetRow] /\ repair \in [RestoreIds -> RepairRow]
    BY DEF TargetRow, RepairRow
  <2>5. maint \in [closed : BOOLEAN, session : RestoreIds \cup {0}] OBVIOUS
  <2>6. /\ agree \subseteq RestoreObjects /\ starter \in [RestoreOperators -> RestoreBackups \cup {NoBackup}]
        /\ raced \subseteq RestoreIds
        /\ sweep \in RestoreBackups \cup {NoBackup} /\ faults \in 0..RestoreFaults
    BY RestoreAssumption
  <2> QED BY <2>2, <2>3, <2>4, <2>5, <2>6 DEF RestoreTypeOK, SessionRow, KeptRow, TargetRow, RepairRow
<1>2. TakenUp BY RestoreAssumption DEF TakenUp, NoBackup
<1>3. StagesDone
  <2>1. \A t \in RebuildTargets : t[1] \in 3..LastStage BY LastIs DEF RebuildTargets
  <2> QED BY <2>1, LastIs DEF StagesDone
<1> QED BY <1>1, <1>2, <1>3 DEF RetainedInv

LEMMA FactsTyped ==
    ASSUME RestoreTypeOK, NEW r \in RestoreIds, NEW ok
    PROVE  /\ ValidatedFacts(r, ok) \in RepairRow
           /\ \A x \in RestoreObjects : /\ ValidatedFacts(r, ok)[x] = "none" => x \in ok
                                        /\ ValidatedFacts(r, ok)[x] = "open" =>
                                              x \notin ok /\ repair[r][x] \in {"none", "open"}
BY DEF RestoreTypeOK, RepairRow, ValidatedFacts, Repairs

\* The row of a session behind an advance: the stage follows the stage, and the
\* session is over or blocked behind the last one
LEMMA StageCompleted ==
    ASSUME RestoreTypeOK, NEW r \in RestoreIds, session[r].stage \in 1..LastStage,
           NEW validated \in BOOLEAN, NEW repairs, NEW ok, CompleteStage(r, validated, repairs, ok)
    PROVE  /\ session' \in [RestoreIds -> SessionRow]
           /\ \A q \in RestoreIds : q # r => session'[q] = session[q]
           /\ session'[r].stage = (IF validated THEN session[r].stage + 1 ELSE session[r].stage)
           /\ \/ session'[r].status \in {"running", "blocked"} /\ maint' = maint
              \/ /\ session'[r].status = "completed" /\ session'[r].stage = LastStage + 1
                 /\ ok = RestoreObjects /\ NoneOpen(repairs) /\ validated
                 /\ maint' = [closed |-> FALSE, session |-> 0]
<1> USE LastIs DEF CompleteStage, PostGate
<1>0. session[r] \in SessionRow /\ session \in [RestoreIds -> SessionRow]
  BY DEF RestoreTypeOK, SessionRow
<1>1. ASSUME NEW s \in {"completed", "blocked", "running"}, NEW n \in 1..(LastStage + 1), NEW f \in BOOLEAN,
             session' = [session EXCEPT ![r].status = s, ![r].stage = n, ![r].failed = f]
      PROVE  /\ session' \in [RestoreIds -> SessionRow]
             /\ \A q \in RestoreIds : q # r => session'[q] = session[q]
             /\ session'[r].stage = n /\ session'[r].status = s
  <2>1. [session[r] EXCEPT !.status = s, !.stage = n, !.failed = f] \in SessionRow
    BY <1>0 DEF SessionRow, ActiveStatuses
  <2>2. session' = [session EXCEPT ![r] = [session[r] EXCEPT !.status = s, !.stage = n, !.failed = f]]
    BY <1>1
  <2> QED BY <1>0, <2>1, <2>2 DEF SessionRow
<1>2. LastStage + 1 \in 1..(LastStage + 1) OBVIOUS
<1>3. CASE validated /\ session[r].stage = LastStage BY <1>1, <1>2, <1>3
<1>4. CASE ~(validated /\ session[r].stage = LastStage)
  <2>1. session' = [session EXCEPT ![r].status = "running",
                        ![r].stage = IF validated THEN session[r].stage + 1 ELSE session[r].stage,
                        ![r].failed = ~validated] /\ maint' = maint
    BY <1>4
  <2>2. (IF validated THEN session[r].stage + 1 ELSE session[r].stage) \in 1..(LastStage + 1) OBVIOUS
  <2>3. (~validated) \in BOOLEAN OBVIOUS
  <2> QED BY <1>1, <2>1, <2>2, <2>3
<1> QED BY <1>3, <1>4

LEMMA GateTyped ==
    /\ [closed |-> FALSE, session |-> 0] \in [closed : BOOLEAN, session : RestoreIds \cup {0}]
    /\ \A r \in RestoreIds :
          [closed |-> TRUE, session |-> r] \in [closed : BOOLEAN, session : RestoreIds \cup {0}]
OBVIOUS

LEMMA SpendTyped == ASSUME RestoreTypeOK, NEW n \in Nat, Spend(n) PROVE faults' \in 0..RestoreFaults
BY RestoreAssumption DEF RestoreTypeOK, Spend

LEMMA Countable ==
    /\ \A S \in SUBSET RestoreObjects : Cardinality(S) \in Nat
    /\ \A S \in SUBSET RebuildTargets : Cardinality(S) \in Nat
<1>1. IsFiniteSet(RebuildTargets) BY FS_Product, RestoreAssumption DEF RebuildTargets
<1> QED BY <1>1, FS_Subset, FS_CardinalityType, RestoreAssumption

\* What an advance does to the tables, with the other sessions left alone
LEMMA Advanced ==
    ASSUME RestoreTypeOK, NEW r \in RestoreIds, AdvanceRestore(r)
    PROVE  /\ RestoreTypeOK'
           /\ UNCHANGED <<kept, starter, raced, sweep>>
           /\ Drivable(r)
           /\ \A q \in RestoreIds : q # r =>
                 session'[q] = session[q] /\ target'[q] = target[q] /\ repair'[q] = repair[q]
<1> USE DEF RestoreTypeOK
<1>0. /\ session[r] \in SessionRow /\ session \in [RestoreIds -> SessionRow]
      /\ target \in [RestoreIds -> TargetRow] /\ repair \in [RestoreIds -> RepairRow]
  BY DEF SessionRow, TargetRow, RepairRow
<1>00. ASSUME session' \in [RestoreIds -> SessionRow], target' \in [RestoreIds -> TargetRow],
              repair' \in [RestoreIds -> RepairRow], agree' \subseteq RestoreObjects,
              maint' = maint \/ maint' = [closed |-> FALSE, session |-> 0],
              faults' \in 0..RestoreFaults, UNCHANGED <<kept, starter, raced, sweep>>
       PROVE  RestoreTypeOK'
  <2>1. maint' \in [closed : BOOLEAN, session : RestoreIds \cup {0}] BY <1>00, GateTyped
  <2>2. /\ kept' \in [RestoreBackups ->
              [cleanup : {"none", "done"} \cup Unfinished, gone : BOOLEAN, purged : BOOLEAN]]
        /\ starter' \in [RestoreOperators -> RestoreBackups \cup {NoBackup}]
        /\ sweep' \in RestoreBackups \cup {NoBackup} /\ raced' \subseteq RestoreIds
    BY <1>00
  <2>3. session' \in [RestoreIds ->
          [status : {"none", "completed"} \cup ActiveStatuses,
           backup : RestoreBackups \cup {NoBackup},
           stage : 1..(LastStage + 1), failed : BOOLEAN]]
    BY <1>00 DEF SessionRow
  <2>4. /\ target' \in [RestoreIds -> [RebuildTargets -> {"none", "failed", "succeeded"}]]
        /\ repair' \in [RestoreIds -> [Repairs -> {"none", "open", "succeeded"}]]
    BY <1>00 DEF TargetRow, RepairRow
  <2> QED BY Zenon, <1>00, <2>1, <2>2, <2>3, <2>4 DEF RestoreTypeOK
<1>1. CASE RestorePostgres(r)
  <2>1. session[r].stage \in 1..LastStage BY <1>1, LastIs DEF RestorePostgres
  <2>2. CompleteStage(r, TRUE, repair[r], agree) BY <1>1 DEF RestorePostgres
  <2>3. /\ session' \in [RestoreIds -> SessionRow]
        /\ \A q \in RestoreIds : q # r => session'[q] = session[q]
        /\ maint' = maint \/ maint' = [closed |-> FALSE, session |-> 0]
    BY <2>1, <2>2, StageCompleted
  <2> QED BY <1>0, <1>00, <1>1, <2>3 DEF RestorePostgres
<1>2. CASE RestoreObjectStore(r)
  <2>1. session[r].stage \in 1..LastStage BY <1>2, LastIs DEF RestoreObjectStore
  <2>2. PICK ok \in SUBSET RestoreObjects :
           /\ Spend(Cardinality(RestoreObjects \ ok))
           /\ agree' = ok
           /\ repair' = [repair EXCEPT ![r] = ValidatedFacts(r, ok)]
           /\ CompleteStage(r, NoneOpen(ValidatedFacts(r, ok)), ValidatedFacts(r, ok), ok)
    BY <1>2 DEF RestoreObjectStore
  <2>3. NoneOpen(ValidatedFacts(r, ok)) \in BOOLEAN BY DEF NoneOpen
  <2>4. /\ session' \in [RestoreIds -> SessionRow]
        /\ \A q \in RestoreIds : q # r => session'[q] = session[q]
        /\ maint' = maint \/ maint' = [closed |-> FALSE, session |-> 0]
    BY <2>1, <2>2, <2>3, StageCompleted
  <2>5. faults' \in 0..RestoreFaults BY <2>2, Countable, SpendTyped
  <2>6. ValidatedFacts(r, ok) \in RepairRow BY FactsTyped
  <2>7. /\ repair' \in [RestoreIds -> RepairRow]
        /\ \A q \in RestoreIds : q # r => repair'[q] = repair[q]
    BY <1>0, <2>2, <2>6
  <2> QED BY <1>0, <1>00, <1>2, <2>2, <2>4, <2>5, <2>7 DEF RestoreObjectStore
<1>3. CASE RetryFactStage(r)
  <2>1. ValidatedFacts(r, agree) \in RepairRow BY FactsTyped
  <2>2. /\ repair' \in [RestoreIds -> RepairRow]
        /\ \A q \in RestoreIds : q # r => repair'[q] = repair[q]
    BY <1>0, <1>3, <2>1 DEF RetryFactStage
  <2>3. /\ [session[r] EXCEPT !.stage = session[r].stage + 1, !.failed = FALSE] \in SessionRow
        /\ [session[r] EXCEPT !.status = "blocked"] \in SessionRow
    <3>1. session[r].stage + 1 \in 1..(LastStage + 1)
      BY <1>3, LastIs DEF RetryFactStage, FactStages
    <3> QED BY <1>0, <3>1 DEF SessionRow, ActiveStatuses
  <2>4. \/ session' = [session EXCEPT ![r] =
                         [session[r] EXCEPT !.stage = session[r].stage + 1, !.failed = FALSE]]
        \/ session' = [session EXCEPT ![r] = [session[r] EXCEPT !.status = "blocked"]]
    BY <1>3 DEF RetryFactStage
  <2>5. /\ session' \in [RestoreIds -> SessionRow]
        /\ \A q \in RestoreIds : q # r => session'[q] = session[q]
    <3>1. ASSUME NEW row \in SessionRow, session' = [session EXCEPT ![r] = row]
          PROVE  /\ session' \in [RestoreIds -> SessionRow]
                 /\ \A q \in RestoreIds : q # r => session'[q] = session[q]
      BY <1>0, <3>1
    <3> QED BY <2>3, <2>4, <3>1
  <2> QED BY <1>0, <1>00, <1>3, <2>2, <2>5 DEF RetryFactStage
<1>4. CASE RebuildStage(r)
  <2> DEFINE todo == {t \in RebuildTargets : t[1] = session[r].stage /\ target[r][t] # "succeeded"}
  <2>1. session[r].stage \in 1..LastStage BY <1>4, LastIs DEF RebuildStage
  <2>2. PICK failed \in SUBSET todo :
          LET repairs == [x \in Repairs |->
                IF x \in failed /\ repair[r][x] = "none" THEN "open" ELSE repair[r][x]] IN
          /\ Spend(Cardinality(failed))
          /\ target' = [target EXCEPT ![r] = [t \in RebuildTargets |->
                IF t \in failed THEN "failed" ELSE IF t \in todo THEN "succeeded" ELSE target[r][t]]]
          /\ repair' = [repair EXCEPT ![r] = repairs]
          /\ CompleteStage(r, failed = {}, repairs, agree)
    BY <1>4 DEF RebuildStage
  <2> DEFINE repairs == [x \in Repairs |->
                IF x \in failed /\ repair[r][x] = "none" THEN "open" ELSE repair[r][x]]
             targets == [t \in RebuildTargets |->
                IF t \in failed THEN "failed" ELSE IF t \in todo THEN "succeeded" ELSE target[r][t]]
  <2>3. repairs \in RepairRow /\ targets \in TargetRow BY <1>0 DEF RepairRow, TargetRow
  <2>4. /\ session' \in [RestoreIds -> SessionRow]
        /\ \A q \in RestoreIds : q # r => session'[q] = session[q]
        /\ maint' = maint \/ maint' = [closed |-> FALSE, session |-> 0]
    BY <2>1, <2>2, StageCompleted
  <2>5. faults' \in 0..RestoreFaults BY <2>2, Countable, SpendTyped
  <2>6. repair' = [repair EXCEPT ![r] = repairs] /\ target' = [target EXCEPT ![r] = targets]
    BY <2>2
  <2> HIDE DEF repairs, targets
  <2>7. /\ repair' \in [RestoreIds -> RepairRow] /\ target' \in [RestoreIds -> TargetRow]
        /\ \A q \in RestoreIds : q # r => repair'[q] = repair[q] /\ target'[q] = target[q]
    BY <1>0, <2>3, <2>6
  <2> QED BY <1>00, <1>4, <2>4, <2>5, <2>7 DEF RebuildStage
<1>5. Drivable(r)
  BY DEF AdvanceRestore, RestorePostgres, RestoreObjectStore, RetryFactStage, RebuildStage
<1> QED BY <1>1, <1>2, <1>3, <1>4, <1>5 DEF AdvanceRestore

\* A restore that is accepted: the first free identity becomes a session
LEMMA Accepted ==
    ASSUME RestoreTypeOK, NEW o \in RestoreOperators, AcceptRestore(o)
    PROVE  /\ starter[o] # NoBackup /\ starter' = [starter EXCEPT ![o] = NoBackup]
           /\ UNCHANGED <<kept, target, repair, agree, sweep, faults>>
           /\ \/ \E r \in RestoreIds :
                   /\ session[r].status = "none" /\ session'[r].status = "accepted"
                   /\ session'[r].stage = session[r].stage
                   /\ session' = [session EXCEPT ![r] = session'[r]] /\ session'[r] \in SessionRow
                   /\ maint' = [closed |-> TRUE, session |-> r]
                   /\ raced' = IF ActiveSessions = {} THEN raced
                               ELSE raced \cup ActiveSessions \cup {r}
              \/ UNCHANGED <<session, maint, raced>>
<1>1. ASSUME NEW r \in RestoreIds,
             session' = [session EXCEPT ![r].status = "accepted", ![r].backup = starter[o]]
      PROVE  /\ session'[r].status = "accepted" /\ session'[r].stage = session[r].stage
             /\ session' = [session EXCEPT ![r] = session'[r]] /\ session'[r] \in SessionRow
  <2>0. session[r] \in SessionRow /\ starter[o] \in RestoreBackups \cup {NoBackup}
    BY DEF RestoreTypeOK, SessionRow
  <2>1. [session[r] EXCEPT !.status = "accepted", !.backup = starter[o]] \in SessionRow
    BY <2>0 DEF SessionRow, ActiveStatuses
  <2>2. session' = [session EXCEPT ![r] =
                      [session[r] EXCEPT !.status = "accepted", !.backup = starter[o]]]
    BY <1>1
  <2>3. session'[r] = [session[r] EXCEPT !.status = "accepted", !.backup = starter[o]]
    BY <2>2 DEF RestoreTypeOK
  <2>4. session'[r].status = "accepted" /\ session'[r].stage = session[r].stage
    BY <2>0, <2>3 DEF SessionRow
  <2> QED BY <2>1, <2>2, <2>3, <2>4
<1> QED BY <1>1 DEF AcceptRestore

LEMMA RestoreTypeStep == RestoreTypeOK /\ [RestoreNext]_restoreVars => RestoreTypeOK'
<1> SUFFICES ASSUME RestoreTypeOK, [RestoreNext]_restoreVars PROVE RestoreTypeOK' OBVIOUS
<1>0. /\ session \in [RestoreIds -> SessionRow] /\ kept \in [RestoreBackups -> KeptRow]
      /\ repair \in [RestoreIds -> RepairRow]
  BY DEF RestoreTypeOK, SessionRow, KeptRow, RepairRow
<1>1. ASSUME NEW o \in RestoreOperators, AcceptRestore(o) PROVE RestoreTypeOK'
  <2>1. starter' \in [RestoreOperators -> RestoreBackups \cup {NoBackup}]
    BY <1>1, Accepted DEF RestoreTypeOK
  <2>2. session' \in [RestoreIds -> SessionRow] BY <1>0, <1>1, Accepted
  <2>3. maint' \in [closed : BOOLEAN, session : RestoreIds \cup {0}]
    <3>1. \/ maint' = maint
          \/ \E r \in RestoreIds : maint' = [closed |-> TRUE, session |-> r]
      BY <1>1, Accepted
    <3> QED BY <3>1, GateTyped DEF RestoreTypeOK
  <2>4. raced' \subseteq RestoreIds BY <1>1, Accepted DEF RestoreTypeOK, ActiveSessions
  <2> QED BY <1>1, <2>1, <2>2, <2>3, <2>4, Accepted DEF RestoreTypeOK, SessionRow
<1>2. ASSUME NEW o \in RestoreOperators, NEW b \in RestoreBackups, StartRestore(o, b)
      PROVE  RestoreTypeOK'
  BY <1>2 DEF StartRestore, RestoreTypeOK
<1>3. ASSUME NEW r \in RestoreIds, AdvanceRestore(r) PROVE RestoreTypeOK'
  BY <1>3, Advanced
<1>4. ASSUME NEW r \in RestoreIds, NEW x \in Repairs, RetryRepairTarget(r, x) PROVE RestoreTypeOK'
  <2>1. repair' \in [RestoreIds -> RepairRow] BY <1>0, <1>4, FactsTyped DEF RetryRepairTarget
  <2> QED BY <1>4, <2>1 DEF RetryRepairTarget, RestoreTypeOK, RepairRow
<1>5. ASSUME NEW x \in RestoreObjects, RepairObject(x) PROVE RestoreTypeOK'
  BY <1>5 DEF RepairObject, RestoreTypeOK
<1>6. ASSUME NEW b \in RestoreBackups, RetentionCandidate(b) \/ RetryCleanupTarget(b)
      PROVE  RestoreTypeOK'
  <2>1. [kept[b] EXCEPT !.cleanup = "pending"] \in KeptRow BY <1>0 DEF KeptRow, Unfinished
  <2>2. kept' = kept \/ kept' = [kept EXCEPT ![b] = [kept[b] EXCEPT !.cleanup = "pending"]]
    BY <1>6 DEF RetentionCandidate, RetryCleanupTarget
  <2>3. kept' \in [RestoreBackups -> KeptRow] BY <1>0, <2>1, <2>2
  <2> QED BY <1>6, <2>3 DEF RetentionCandidate, RetryCleanupTarget, RestoreTypeOK, KeptRow
<1>7. CASE ProcessCleanupTarget
  <2>1. sweep \in RestoreBackups BY <1>7 DEF ProcessCleanupTarget, RestoreTypeOK
  <2>2. faults' \in 0..RestoreFaults BY <1>7, SpendTyped DEF ProcessCleanupTarget, RestoreTypeOK
  <2>3. [cleanup |-> "done", gone |-> TRUE, purged |-> TRUE] \in KeptRow BY DEF KeptRow
  <2>4. ASSUME NEW gone \in {kept[sweep].gone, TRUE}
        PROVE  [kept[sweep] EXCEPT !.cleanup = "failed", !.gone = gone] \in KeptRow
    BY <1>0, <2>1, <2>4 DEF KeptRow, Unfinished
  <2>5. \/ kept' = [kept EXCEPT ![sweep] = [cleanup |-> "done", gone |-> TRUE, purged |-> TRUE]]
        \/ \E gone \in {kept[sweep].gone, TRUE} :
              kept' = [kept EXCEPT ![sweep] = [kept[sweep] EXCEPT !.cleanup = "failed", !.gone = gone]]
    BY <1>7 DEF ProcessCleanupTarget
  <2>6. kept' \in [RestoreBackups -> KeptRow]
    <3>1. ASSUME NEW row \in KeptRow, kept' = [kept EXCEPT ![sweep] = row]
          PROVE  kept' \in [RestoreBackups -> KeptRow]
      BY <1>0, <3>1
    <3> QED BY <2>3, <2>4, <2>5, <3>1
  <2> QED BY <1>7, <2>2, <2>6 DEF ProcessCleanupTarget, RestoreTypeOK, KeptRow
<1>8. CASE UNCHANGED restoreVars BY <1>8 DEF restoreVars, RestoreTypeOK
<1> QED BY <1>1, <1>2, <1>3, <1>4, <1>5, <1>6, <1>7, <1>8 DEF RestoreNext

LEMMA TakenUpStep ==
    ASSUME RestoreTypeOK, TakenUp, [RestoreNext]_restoreVars
    PROVE  TakenUp'
<1> DEFINE Beyond(b) == Cardinality({c \in RestoreBackups : c > b}) >= KeepLast
<1> USE DEF TakenUp
<1>1. ASSUME kept' = kept, sweep' = sweep PROVE TakenUp' BY <1>1
<1>2. ASSUME NEW b \in RestoreBackups, RetentionCandidate(b) PROVE TakenUp'
  <2>1. Beyond(b)
    <3>1. Newer(b) \subseteq {c \in RestoreBackups : c > b} BY DEF Newer, Restorable
    <3>2. IsFiniteSet({c \in RestoreBackups : c > b}) BY FS_Subset, RestoreAssumption
    <3>3. Cardinality(Newer(b)) <= Cardinality({c \in RestoreBackups : c > b})
      BY <3>1, <3>2, FS_Subset
    <3>4. IsFiniteSet(Newer(b)) BY <3>1, <3>2, FS_Subset
    <3>5. Cardinality(Newer(b)) \in Nat /\ Cardinality({c \in RestoreBackups : c > b}) \in Nat
      BY <3>2, <3>4, FS_CardinalityType
    <3> QED BY <1>2, <3>3, <3>5, RestoreAssumption DEF RetentionCandidate
  <2>2. /\ \A c \in RestoreBackups : c # b => kept'[c] = kept[c]
        /\ sweep' = b
    BY <1>2 DEF RetentionCandidate, RestoreTypeOK
  <2> HIDE DEF Beyond
  <2>3. \A c \in RestoreBackups : sweep = c \/ kept[c].cleanup # "none" \/ kept[c].gone => Beyond(c)
    BY DEF Beyond
  <2>4. \A c \in RestoreBackups : sweep' = c \/ kept'[c].cleanup # "none" \/ kept'[c].gone => Beyond(c)
    BY <2>1, <2>2, <2>3
  <2> QED BY <2>4 DEF Beyond
<1>3. ASSUME NEW b \in RestoreBackups, RetryCleanupTarget(b) PROVE TakenUp'
  BY <1>3 DEF RetryCleanupTarget, Unfinished
<1>4. CASE ProcessCleanupTarget
  <2>1. sweep \in RestoreBackups /\ sweep' = NoBackup /\ NoBackup \notin RestoreBackups
    BY <1>4, RestoreAssumption DEF ProcessCleanupTarget, RestoreTypeOK, NoBackup
  <2>2. \A c \in RestoreBackups : c # sweep => kept'[c] = kept[c]
    BY <1>4, <2>1 DEF ProcessCleanupTarget, RestoreTypeOK
  <2> QED BY <2>1, <2>2
<1>5. ASSUME NEW r \in RestoreIds, AdvanceRestore(r) PROVE TakenUp' BY <1>1, <1>5, Advanced
<1>6. ASSUME NEW o \in RestoreOperators,
             AcceptRestore(o) \/ \E b \in RestoreBackups : StartRestore(o, b)
      PROVE  TakenUp'
  BY <1>1, <1>6 DEF AcceptRestore, StartRestore
<1>7. ASSUME NEW x, RepairObject(x) \/ \E r \in RestoreIds : RetryRepairTarget(r, x) PROVE TakenUp'
  BY <1>1, <1>7 DEF RepairObject, RetryRepairTarget
<1>8. CASE UNCHANGED restoreVars BY <1>1, <1>8 DEF restoreVars
<1> QED BY <1>2, <1>3, <1>4, <1>5, <1>6, <1>7, <1>8 DEF RestoreNext

LEMMA StagesTyped ==
    ASSUME RestoreTypeOK
    PROVE  /\ \A r \in RestoreIds : session[r] \in SessionRow /\ session[r].stage \in Nat
           /\ session \in [RestoreIds -> SessionRow]
           /\ target \in [RestoreIds -> TargetRow] /\ repair \in [RestoreIds -> RepairRow]
           /\ \A t \in RebuildTargets : t[1] \in 3..LastStage /\ t[1] \in Nat /\ t[1] > 2
<1>1. session \in [RestoreIds -> SessionRow] BY DEF RestoreTypeOK, SessionRow
<1>2. target \in [RestoreIds -> TargetRow] /\ repair \in [RestoreIds -> RepairRow]
  BY DEF RestoreTypeOK, TargetRow, RepairRow
<1>3. ASSUME NEW r \in RestoreIds PROVE session[r] \in SessionRow /\ session[r].stage \in Nat
  <2>1. session[r] \in SessionRow BY <1>1
  <2>2. session[r].stage \in 1..(LastStage + 1) BY <2>1 DEF SessionRow
  <2> QED BY <2>1, <2>2, LastIs
<1>4. ASSUME NEW t \in RebuildTargets PROVE t[1] \in 3..LastStage /\ t[1] \in Nat /\ t[1] > 2
  <2>1. t[1] \in DerivedStages BY DEF RebuildTargets
  <2> QED BY <2>1, LastIs
<1> QED BY <1>1, <1>2, <1>3, <1>4

LEMMA PostgresRestored ==
    ASSUME RestoreTypeOK, NEW r \in RestoreIds, RestorePostgres(r)
    PROVE  session[r].stage = 1 /\ session'[r].stage = 2 /\ session'[r].status # "completed"
<1>1. session[r].stage = 1 /\ CompleteStage(r, TRUE, repair[r], agree) BY DEF RestorePostgres
<1>2. session[r].stage \in 1..LastStage BY <1>1, LastIs
<1>3. TRUE \in BOOLEAN OBVIOUS
<1>4. /\ session'[r].stage = session[r].stage + 1
      /\ \/ session'[r].status \in {"running", "blocked"}
         \/ session'[r].status = "completed" /\ session'[r].stage = LastStage + 1
  BY <1>1, <1>2, <1>3, StageCompleted
<1>5. session'[r].stage = 2 BY <1>1, <1>4
<1>6. LastStage + 1 # 2 BY LastIs
<1> QED BY <1>1, <1>4, <1>5, <1>6

\* What an advance makes of the targets, the stage and the end of its session
LEMMA StagesAdvance ==
    ASSUME RestoreTypeOK, StagesDone, NEW r \in RestoreIds, AdvanceRestore(r)
    PROVE  /\ \A t \in RebuildTargets :
                 /\ target'[r][t] # "none" => session'[r].stage >= t[1]
                 /\ session'[r].stage > t[1] => target'[r][t] = "succeeded"
           /\ session'[r].status = "completed" =>
                 NoneOpen(repair[r])' /\ session'[r].stage = LastStage + 1
<1>0. /\ session[r] \in SessionRow /\ session[r].stage \in Nat
      /\ session \in [RestoreIds -> SessionRow]
      /\ target \in [RestoreIds -> TargetRow] /\ repair \in [RestoreIds -> RepairRow]
      /\ \A t \in RebuildTargets : t[1] \in Nat /\ t[1] > 2
  BY StagesTyped
<1>1. ASSUME session[r].stage <= 2, target'[r] = target[r], session'[r].stage \in 1..3
      PROVE  \A t \in RebuildTargets : /\ target'[r][t] # "none" => session'[r].stage >= t[1]
                                       /\ session'[r].stage > t[1] => target'[r][t] = "succeeded"
  BY <1>0, <1>1 DEF StagesDone
<1>2. CASE RestorePostgres(r)
  <2>1. target'[r] = target[r] BY <1>2 DEF RestorePostgres
  <2> QED BY <1>1, <1>2, <2>1, PostgresRestored
<1>3. CASE RestoreObjectStore(r)
  <2>1. PICK ok \in SUBSET RestoreObjects :
           /\ repair' = [repair EXCEPT ![r] = ValidatedFacts(r, ok)]
           /\ CompleteStage(r, NoneOpen(ValidatedFacts(r, ok)), ValidatedFacts(r, ok), ok)
    BY <1>3 DEF RestoreObjectStore
  <2>2. session[r].stage = 2 /\ session[r].stage \in 1..LastStage /\ target' = target
    BY <1>3, LastIs DEF RestoreObjectStore
  <2>3. NoneOpen(ValidatedFacts(r, ok)) \in BOOLEAN BY DEF NoneOpen
  <2>4. /\ session'[r].stage \in 2..3
        /\ session'[r].status = "completed" =>
              NoneOpen(ValidatedFacts(r, ok)) /\ session'[r].stage = LastStage + 1
    BY <2>1, <2>2, <2>3, StageCompleted
  <2>5. repair'[r] = ValidatedFacts(r, ok) BY <1>0, <2>1
  <2> QED BY <1>1, <2>2, <2>4, <2>5 DEF NoneOpen
<1>4. CASE RetryFactStage(r)
  <2>1. /\ session[r].stage \in {1, 2} /\ session[r].status \in {"accepted", "running"}
        /\ target' = target
    BY <1>4 DEF RetryFactStage, FactStages, Drivable
  <2>2. session'[r].stage \in 1..3 /\ session'[r].status # "completed"
    BY <1>0, <1>4, <2>1 DEF RetryFactStage, SessionRow
  <2> QED BY <1>1, <2>1, <2>2
<1>5. CASE RebuildStage(r)
  <2> DEFINE todo == {t \in RebuildTargets : t[1] = session[r].stage /\ target[r][t] # "succeeded"}
  <2>1. /\ session[r].stage \in 3..LastStage /\ session[r].stage \in 1..LastStage
    BY <1>5, LastIs DEF RebuildStage
  <2>2. PICK failed \in SUBSET todo :
          LET repairs == [x \in Repairs |->
                IF x \in failed /\ repair[r][x] = "none" THEN "open" ELSE repair[r][x]] IN
          /\ target' = [target EXCEPT ![r] = [t \in RebuildTargets |->
                IF t \in failed THEN "failed" ELSE IF t \in todo THEN "succeeded" ELSE target[r][t]]]
          /\ repair' = [repair EXCEPT ![r] = repairs]
          /\ CompleteStage(r, failed = {}, repairs, agree)
    BY <1>5 DEF RebuildStage
  <2> DEFINE repairs == [x \in Repairs |->
                IF x \in failed /\ repair[r][x] = "none" THEN "open" ELSE repair[r][x]]
  <2>3. /\ session'[r].stage = (IF failed = {} THEN session[r].stage + 1 ELSE session[r].stage)
        /\ session'[r].status = "completed" => NoneOpen(repairs) /\ session'[r].stage = LastStage + 1
    BY <2>1, <2>2, StageCompleted
  <2>4. repair'[r] = repairs BY <1>0, <2>2
  <2>5. \A t \in RebuildTargets :
           target'[r][t] = IF t \in failed THEN "failed" ELSE IF t \in todo THEN "succeeded"
                           ELSE target[r][t]
    BY <1>0, <2>2
  <2> HIDE DEF repairs
  <2>6. ASSUME NEW t \in RebuildTargets
        PROVE  /\ target'[r][t] # "none" => session'[r].stage >= t[1]
               /\ session'[r].stage > t[1] => target'[r][t] = "succeeded"
    <3>1. /\ target[r][t] # "none" => session[r].stage >= t[1]
          /\ session[r].stage > t[1] => target[r][t] = "succeeded"
          /\ t[1] \in Nat
      BY <1>0 DEF StagesDone
    <3>2. CASE t[1] = session[r].stage BY <1>0, <2>3, <2>5, <3>2
    <3>3. CASE t[1] # session[r].stage
      <4>1. target'[r][t] = target[r][t] BY <2>5, <3>3
      <4> QED BY <1>0, <2>3, <3>1, <3>3, <4>1
    <3> QED BY <3>2, <3>3
  <2> QED BY <2>3, <2>4, <2>6 DEF NoneOpen
<1> QED BY <1>2, <1>3, <1>4, <1>5 DEF AdvanceRestore

LEMMA StagesDoneStep ==
    ASSUME RestoreTypeOK, StagesDone, [RestoreNext]_restoreVars
    PROVE  StagesDone'
<1>1. ASSUME NEW r \in RestoreIds, AdvanceRestore(r) PROVE StagesDone'
  <2>1. \A q \in RestoreIds : q # r =>
           session'[q] = session[q] /\ target'[q] = target[q] /\ repair'[q] = repair[q]
    BY <1>1, Advanced
  <2>2. /\ \A t \in RebuildTargets :
              /\ target'[r][t] # "none" => session'[r].stage >= t[1]
              /\ session'[r].stage > t[1] => target'[r][t] = "succeeded"
        /\ session'[r].status = "completed" =>
              NoneOpen(repair[r])' /\ session'[r].stage = LastStage + 1
    BY <1>1, StagesAdvance
  <2> QED BY <2>1, <2>2 DEF StagesDone, NoneOpen
<1>2. ASSUME NEW o \in RestoreOperators, AcceptRestore(o) PROVE StagesDone'
  <2>1. /\ \A q \in RestoreIds : /\ session'[q].stage = session[q].stage
                                 /\ session'[q].status = "completed" => session[q].status = "completed"
        /\ target' = target /\ repair' = repair
    BY <1>2, Accepted DEF RestoreTypeOK
  <2>2. ASSUME NEW q \in RestoreIds, NEW t \in RebuildTargets
        PROVE  /\ target'[q][t] # "none" => session'[q].stage >= t[1]
               /\ session'[q].stage > t[1] => target'[q][t] = "succeeded"
    <3>1. session'[q].stage = session[q].stage /\ target'[q][t] = target[q][t] BY <2>1
    <3> QED BY <3>1 DEF StagesDone
  <2>3. ASSUME NEW q \in RestoreIds, session'[q].status = "completed"
        PROVE  NoneOpen(repair'[q]) /\ session'[q].stage = LastStage + 1
    BY <2>1, <2>3 DEF StagesDone
  <2> QED BY <2>2, <2>3 DEF StagesDone, NoneOpen
<1>3. ASSUME NEW r \in RestoreIds, NEW x \in Repairs, RetryRepairTarget(r, x) PROVE StagesDone'
  <2>1. /\ session[r].status # "completed" /\ session' = session /\ target' = target
        /\ \A q \in RestoreIds : q # r => repair'[q] = repair[q]
    BY <1>3 DEF RetryRepairTarget, ActiveSessions, ActiveStatuses, RestoreTypeOK
  <2>2. ASSUME NEW q \in RestoreIds, session[q].status = "completed" PROVE repair'[q] = repair[q]
    BY <2>1, <2>2
  <2> QED BY <2>1, <2>2 DEF StagesDone, NoneOpen
<1>4. ASSUME UNCHANGED <<session, target, repair>> PROVE StagesDone'
  BY <1>4 DEF StagesDone, NoneOpen
<1>5. ASSUME NEW b \in RestoreBackups,
             \/ RetentionCandidate(b) \/ RetryCleanupTarget(b)
             \/ \E o \in RestoreOperators : StartRestore(o, b)
      PROVE  StagesDone'
  BY <1>4, <1>5 DEF RetentionCandidate, RetryCleanupTarget, StartRestore
<1>6. CASE ProcessCleanupTarget \/ \E x \in RestoreObjects : RepairObject(x)
  BY <1>4, <1>6 DEF ProcessCleanupTarget, RepairObject
<1>7. CASE UNCHANGED restoreVars BY <1>4, <1>7 DEF restoreVars
<1> QED BY <1>1, <1>2, <1>3, <1>5, <1>6, <1>7 DEF RestoreNext

LEMMA RetainedStep == RetainedInv /\ [RestoreNext]_restoreVars => RetainedInv'
BY RestoreTypeStep, TakenUpStep, StagesDoneStep DEF RetainedInv

-----------------------------------------------------------------------------
(* A restore and those beside it *)

\* A session that was never active beside another is the only active one, and the
\* gate is closed for it; the gate is closed for no session that is over; an
\* identity that is free has no stage behind it; and behind the fact stages of
\* such a session that is not over every object was repaired or agrees
OneRestore ==
    /\ \A q \in ActiveSessions \ raced : /\ \A r \in ActiveSessions : q = r
                                         /\ maint = [closed |-> TRUE, session |-> q]
    /\ maint.closed => maint.session \in ActiveSessions
    /\ \A r \in RestoreIds : session[r].status = "none" => session[r].stage = 1
FactsAgreed ==
    \A r \in RestoreIds \ raced : session[r].stage > 2 /\ session[r].status # "completed" =>
        \A x \in RestoreObjects : /\ repair[r][x] # "open"
                                  /\ repair[r][x] = "none" => x \in agree

SerialInv == RetainedInv /\ OneRestore /\ FactsAgreed

LEMMA SerialBegins == RestoreInit => SerialInv
<1> SUFFICES ASSUME RestoreInit PROVE SerialInv OBVIOUS
<1>1. \A r \in RestoreIds : session[r].status = "none" /\ session[r].stage = 1 BY DEF RestoreInit
<1>2. ActiveSessions = {} BY <1>1 DEF ActiveSessions, ActiveStatuses
<1>3. OneRestore BY <1>1, <1>2 DEF OneRestore, RestoreInit
<1>4. FactsAgreed BY <1>1 DEF FactsAgreed
<1> QED BY <1>3, <1>4, RestoreBegins DEF SerialInv

\* The sessions that are left alone stand, and the one that advances was active
LEMMA OneAdvances ==
    ASSUME RetainedInv, OneRestore, NEW r \in RestoreIds, AdvanceRestore(r)
    PROVE  OneRestore'
<1> USE DEF RetainedInv
<1>1. /\ RestoreTypeOK' /\ raced' = raced /\ r \in ActiveSessions
      /\ \A q \in RestoreIds : q # r => session'[q] = session[q]
  BY Advanced DEF Drivable, ActiveSessions, ActiveStatuses
<1>2. \/ session'[r].status \in {"accepted", "running", "blocked"} /\ maint' = maint
      \/ session'[r].status = "completed" /\ maint' = [closed |-> FALSE, session |-> 0]
  <2>1. CASE RestorePostgres(r)
    <3>1. session[r].stage \in 1..LastStage BY <2>1, LastIs DEF RestorePostgres
    <3> QED BY <2>1, <3>1, StageCompleted DEF RestorePostgres
  <2>2. CASE RestoreObjectStore(r)
    <3>1. session[r].stage \in 1..LastStage BY <2>2, LastIs DEF RestoreObjectStore
    <3>2. PICK ok : CompleteStage(r, NoneOpen(ValidatedFacts(r, ok)), ValidatedFacts(r, ok), ok)
      BY <2>2 DEF RestoreObjectStore
    <3>3. NoneOpen(ValidatedFacts(r, ok)) \in BOOLEAN BY DEF NoneOpen
    <3> QED BY <3>1, <3>2, <3>3, StageCompleted
  <2>3. CASE RetryFactStage(r)
    BY <2>3 DEF RetryFactStage, RestoreTypeOK, Drivable
  <2>4. CASE RebuildStage(r)
    <3>1. session[r].stage \in 1..LastStage BY <2>4, LastIs DEF RebuildStage
    <3>2. \E failed, repairs : CompleteStage(r, failed = {}, repairs, agree)
      BY <2>4 DEF RebuildStage
    <3> QED BY <3>1, <3>2, StageCompleted
  <2> QED BY <2>1, <2>2, <2>3, <2>4 DEF AdvanceRestore
<1>3. ActiveSessions' \in {ActiveSessions, ActiveSessions \ {r}} /\
      (r \in ActiveSessions' <=> session'[r].status # "completed")
  BY <1>1, <1>2 DEF ActiveSessions, ActiveStatuses
<1>4. CASE session'[r].status = "completed" /\ maint' = [closed |-> FALSE, session |-> 0]
  <2>1. ActiveSessions' \ raced' = {} BY <1>1, <1>3, <1>4 DEF OneRestore
  <2>2. \A q \in RestoreIds : session'[q].status = "none" => session'[q].stage = 1
    BY <1>1, <1>4 DEF OneRestore
  <2> QED BY <1>4, <2>1, <2>2 DEF OneRestore
<1>5. CASE session'[r].status \in {"accepted", "running", "blocked"} /\ maint' = maint
  <2>1. ActiveSessions' = ActiveSessions BY <1>1, <1>3, <1>5
  <2>2. \A q \in RestoreIds : session'[q].status = "none" => session'[q].stage = 1
    BY <1>1, <1>5 DEF OneRestore
  <2> QED BY <1>1, <1>5, <2>1, <2>2 DEF OneRestore
<1> QED BY <1>2, <1>4, <1>5

LEMMA FactsAdvance ==
    ASSUME RetainedInv, OneRestore, FactsAgreed, NEW r \in RestoreIds, AdvanceRestore(r)
    PROVE  FactsAgreed'
<1> USE DEF RetainedInv
<1>0. /\ session[r] \in SessionRow /\ session[r].stage \in Nat
      /\ session \in [RestoreIds -> SessionRow] /\ repair \in [RestoreIds -> RepairRow]
      /\ session[r].status \in {"accepted", "running"}
  BY Advanced DEF RestoreTypeOK, SessionRow, RepairRow, Drivable
<1>00. raced' = raced BY Advanced
<1>1. ASSUME NEW q \in RestoreIds \ raced, q # r, session'[q].stage > 2, session'[q].status # "completed"
      PROVE  FALSE
  <2>1. session[q].stage > 2 /\ session[q].status # "completed" BY <1>1, Advanced
  <2>2. session[q].status # "none" BY <2>1 DEF OneRestore
  <2>3. q \in ActiveSessions
    BY <2>1, <2>2 DEF ActiveSessions, ActiveStatuses, RestoreTypeOK
  <2>4. r \in ActiveSessions BY <1>0 DEF ActiveSessions, ActiveStatuses
  <2> QED BY <1>1, <2>3, <2>4 DEF OneRestore
<1>2. ASSUME r \notin raced, session'[r].stage > 2, session'[r].status # "completed",
             NEW x \in RestoreObjects
      PROVE  repair'[r][x] # "open" /\ (repair'[r][x] = "none" => x \in agree')
  <2> USE <1>2
  <2>0. x \in Repairs BY DEF Repairs
  <2>1. CASE RestorePostgres(r)
    <3>1. session'[r].stage = 2 BY <2>1, PostgresRestored
    <3> QED BY <3>1
  <2>2. CASE RestoreObjectStore(r)
    <3>1. PICK ok \in SUBSET RestoreObjects :
             /\ agree' = ok
             /\ repair' = [repair EXCEPT ![r] = ValidatedFacts(r, ok)]
             /\ CompleteStage(r, NoneOpen(ValidatedFacts(r, ok)), ValidatedFacts(r, ok), ok)
      BY <2>2 DEF RestoreObjectStore
    <3>2. session[r].stage = 2 /\ session[r].stage \in 1..LastStage
      BY <2>2, LastIs DEF RestoreObjectStore
    <3>3. NoneOpen(ValidatedFacts(r, ok)) \in BOOLEAN BY DEF NoneOpen
    <3>4. NoneOpen(ValidatedFacts(r, ok)) BY <3>1, <3>2, <3>3, StageCompleted
    <3>5. repair'[r] = ValidatedFacts(r, ok) BY <1>0, <3>1
    <3> QED BY <2>0, <3>1, <3>4, <3>5, FactsTyped DEF NoneOpen
  <2>3. CASE RetryFactStage(r)
    <3>1. /\ repair'[r] = ValidatedFacts(r, agree) /\ agree' = agree
          /\ session[r].stage \in {1, 2}
      BY <1>0, <2>3 DEF RetryFactStage, FactStages
    <3>2. CASE ~NoneOpen(ValidatedFacts(r, agree))
      <4>1. session' = [session EXCEPT ![r].status = "blocked"] BY <2>3, <3>2 DEF RetryFactStage
      <4>2. session'[r].stage = session[r].stage BY <1>0, <4>1 DEF SessionRow
      <4> QED BY <3>1, <4>2
    <3>3. CASE NoneOpen(ValidatedFacts(r, agree))
      BY <2>0, <3>1, <3>3, FactsTyped DEF NoneOpen
    <3> QED BY <3>2, <3>3
  <2>4. CASE RebuildStage(r)
    <3>1. /\ session[r].stage > 2 /\ agree' = agree BY <2>4, LastIs DEF RebuildStage
    <3>2. repair'[r][x] = repair[r][x]
      <4>1. PICK failed \in SUBSET RebuildTargets :
              repair' = [repair EXCEPT ![r] = [y \in Repairs |->
                IF y \in failed /\ repair[r][y] = "none" THEN "open" ELSE repair[r][y]]]
        BY <2>4 DEF RebuildStage
      <4>2. x \notin failed BY <4>1, RestoreAssumption DEF RebuildTargets
      <4> QED BY <1>0, <2>0, <4>1, <4>2
    <3> QED BY <1>0, <3>1, <3>2 DEF FactsAgreed
  <2> QED BY <2>1, <2>2, <2>3, <2>4 DEF AdvanceRestore
<1> QED BY <1>00, <1>1, <1>2 DEF FactsAgreed

LEMMA SerialStep ==
    ASSUME SerialInv, [RestoreNext]_restoreVars
    PROVE  SerialInv'
<1> USE DEF SerialInv
<1>0. RetainedInv' BY RetainedStep
<1>1. ASSUME NEW r \in RestoreIds, AdvanceRestore(r) PROVE SerialInv'
  BY <1>0, <1>1, OneAdvances, FactsAdvance
<1>2. ASSUME NEW o \in RestoreOperators, AcceptRestore(o) PROVE SerialInv'
  <2>1. UNCHANGED <<repair, agree>> BY <1>2, Accepted DEF RetainedInv
  <2>2. CASE UNCHANGED <<session, maint, raced>>
    BY <1>0, <2>1, <2>2 DEF OneRestore, FactsAgreed, ActiveSessions
  <2>3. ASSUME NEW r \in RestoreIds, session[r].status = "none", session'[r].status = "accepted",
               session'[r].stage = session[r].stage, session' = [session EXCEPT ![r] = session'[r]],
               maint' = [closed |-> TRUE, session |-> r],
               raced' = IF ActiveSessions = {} THEN raced ELSE raced \cup ActiveSessions \cup {r}
        PROVE  SerialInv'
    <3>1. \A q \in RestoreIds : q # r => session'[q] = session[q] BY <2>3 DEF RetainedInv, RestoreTypeOK
    <3>2. ActiveSessions' = ActiveSessions \cup {r}
      BY <2>3, <3>1 DEF ActiveSessions, ActiveStatuses
    <3>3. ActiveSessions' \ raced' \subseteq {r} /\ (r \notin raced' => ActiveSessions' = {r})
      BY <2>3, <3>2
    <3>4. session'[r].stage = 1 BY <2>3 DEF OneRestore
    <3>5. OneRestore' BY <2>3, <3>1, <3>2, <3>3, <3>4 DEF OneRestore
    <3>6. raced \subseteq raced' BY <2>3
    <3>7. FactsAgreed' BY <2>1, <3>1, <3>4, <3>6 DEF FactsAgreed
    <3> QED BY <1>0, <3>5, <3>7
  <2> QED BY <1>2, <2>2, <2>3, Accepted DEF RetainedInv
<1>3. ASSUME NEW o \in RestoreOperators, NEW b \in RestoreBackups, StartRestore(o, b) PROVE SerialInv'
  BY <1>0, <1>3 DEF StartRestore, OneRestore, FactsAgreed, ActiveSessions
<1>4. ASSUME NEW r \in RestoreIds, NEW x \in Repairs, RetryRepairTarget(r, x) PROVE SerialInv'
  <2>1. /\ repair' = [repair EXCEPT ![r] = ValidatedFacts(r, agree)]
        /\ UNCHANGED <<session, maint, raced, agree>>
    BY <1>4 DEF RetryRepairTarget
  <2>2. OneRestore' BY <2>1 DEF OneRestore, ActiveSessions
  <2>3. /\ repair'[r] = ValidatedFacts(r, agree)
        /\ \A q \in RestoreIds : q # r => repair'[q] = repair[q]
    BY <2>1 DEF RetainedInv, RestoreTypeOK
  <2>4. ASSUME r \notin raced, session[r].stage > 2 /\ session[r].status # "completed", NEW y \in RestoreObjects
        PROVE  repair'[r][y] # "open" /\ (repair'[r][y] = "none" => y \in agree)
    BY <2>3, <2>4, FactsTyped DEF FactsAgreed, RetainedInv
  <2>5. FactsAgreed' BY <2>1, <2>3, <2>4 DEF FactsAgreed
  <2> QED BY <1>0, <2>2, <2>5
<1>5. ASSUME NEW x \in RestoreObjects, RepairObject(x) PROVE SerialInv'
  BY <1>0, <1>5 DEF RepairObject, OneRestore, FactsAgreed, ActiveSessions
<1>6. ASSUME UNCHANGED <<session, repair, maint, agree, raced>> PROVE SerialInv'
  BY <1>0, <1>6 DEF OneRestore, FactsAgreed, ActiveSessions
<1>7. ASSUME NEW b \in RestoreBackups, RetentionCandidate(b) \/ RetryCleanupTarget(b) PROVE SerialInv'
  BY <1>6, <1>7 DEF RetentionCandidate, RetryCleanupTarget
<1>8. CASE ProcessCleanupTarget BY <1>6, <1>8 DEF ProcessCleanupTarget
<1>9. CASE UNCHANGED restoreVars BY <1>6, <1>9 DEF restoreVars
<1> QED BY <1>1, <1>2, <1>3, <1>4, <1>5, <1>7, <1>8, <1>9 DEF RestoreNext

LEMMA SerialIsSafe == SerialInv => RestoreSafe
<1> SUFFICES ASSUME SerialInv PROVE RestoreSafe OBVIOUS
<1> USE DEF SerialInv, RetainedInv
<1>0. \A t \in RebuildTargets : t[1] \in 3..LastStage BY LastIs DEF RebuildTargets
<1>1. ReadsStayClosed
  <2>1. ASSUME NEW r \in RestoreIds, session[r].status = "completed", NEW t \in RebuildTargets
        PROVE  target[r][t] = "succeeded"
    BY <1>0, <2>1, LastIs DEF StagesDone
  <2> QED BY <2>1 DEF ReadsStayClosed, OneRestore, StagesDone
<1>2. NewestSurvive BY DEF NewestSurvive, TakenUp
<1>3. FactsFirst
  <2>1. ASSUME NEW r \in RestoreIds, NEW t \in RebuildTargets, target[r][t] # "none"
        PROVE  session[r].stage > 2 /\ (r \notin raced => \A x \in RestoreObjects : repair[r][x] # "open")
    <3>1. session[r].stage > 2
      <4>1. session[r].stage \in Nat BY LastIs DEF RestoreTypeOK
      <4> QED BY <1>0, <2>1, <4>1 DEF StagesDone
    <3>2. CASE session[r].status = "completed" BY <3>1, <3>2 DEF StagesDone, NoneOpen, Repairs
    <3>3. CASE session[r].status # "completed" BY <3>1, <3>3 DEF FactsAgreed
    <3> QED BY <3>1, <3>2, <3>3
  <2> QED BY <2>1 DEF FactsFirst
<1> QED BY <1>1, <1>2, <1>3 DEF RestoreSafe

\* Retention never deletes any part of the newest keep_last sets, for any number
\* of sets, sessions and operators, whatever deletion fails
THEOREM NewestKept == RestoreSpec => []NewestSurvive
<1>1. RestoreSpec => []RetainedInv BY RestoreBegins, RetainedStep, PTL DEF RestoreSpec
<1>2. RetainedInv => NewestSurvive BY DEF RetainedInv, TakenUp, NewestSurvive
<1> QED BY <1>1, <1>2, PTL

\* However many operators start restores, reads stay closed until a restore is over,
\* with every stage done, and no stage of it runs ahead of the facts, unless a second
\* one was accepted beside it; and they never stay closed for one that is over: for
\* any number of sets, sessions, stages, resources and objects
THEOREM ClosedUntilDone == RestoreSpec => []RestoreSafe
<1>1. RestoreSpec => []SerialInv
  <2>1. SerialInv /\ [RestoreNext]_restoreVars => SerialInv' BY SerialStep
  <2> QED BY <2>1, SerialBegins, PTL DEF RestoreSpec
<1> QED BY <1>1, SerialIsSafe, PTL

-----------------------------------------------------------------------------
(* Shadow evaluation *)

\* a set of numbers has a least one
LEMMA Least ==
    ASSUME NEW S \in SUBSET Nat, S # {}
    PROVE  \E m \in S : \A n \in S : m <= n
<1> DEFINE T == {1..n : n \in S}
           R == StrictSubsetOrdering(Nat)
<1>1. IsWellFoundedOn(R, FiniteSubsetsOf(Nat)) BY FS_StrictSubsetOrderingWellFounded
<1>2. T \subseteq FiniteSubsetsOf(Nat)
  <2>1. \A n \in S : 1..n \in SUBSET Nat /\ IsFiniteSet(1..n) BY FS_Interval
  <2> QED BY <2>1 DEF FiniteSubsetsOf
<1>3. T # {} OBVIOUS
<1> HIDE DEF R, T
<1>4. \E x \in T : \A y \in T : <<y, x>> \notin R BY <1>1, <1>2, <1>3, WFMin
<1>5. PICK m \in S : \A n \in S : <<1..n, 1..m>> \notin R BY <1>4 DEF T
<1>6. ASSUME NEW n \in S, n < m PROVE FALSE
  <2>1. 1..n \subseteq 1..m /\ m \in 1..m /\ m \notin 1..n BY <1>6
  <2>2. 1..n \in SUBSET Nat /\ 1..m \in SUBSET Nat OBVIOUS
  <2>3. <<1..n, 1..m>> \in R BY <2>1, <2>2 DEF R, StrictSubsetOrdering
  <2> QED BY <1>5, <2>3
<1> QED BY <1>6

ShadowRow == [state : NonTerminal \cup {"none", "succeeded", "failed"}, attempt : 1..ShadowAttempts,
              fence : Nat, expired : BOOLEAN, due : BOOLEAN, key : 0..GoldenVersions,
              order : Nat, fences : Nat]
ResultRow == [of : Verdicts \cup {"none"}, attempt : 0..ShadowAttempts]
HoldRow == [at : {"idle", "judging", "failing", "callback", "suggesting"}, run : ShadowRuns \cup {0},
            attempt : 0..ShadowAttempts, fence : Nat, beat : BOOLEAN, retryable : BOOLEAN, saw : Nat]
SuggestionRow ==
    [run : ShadowRuns, key : 0..GoldenVersions, status : {"actionable", "superseded"}, n : Nat]

EvaluationTyped ==
    /\ shadow \in [ShadowRuns -> ShadowRow] /\ results \in [ShadowRuns -> ResultRow]
    /\ eworkers \in [ShadowWorkers -> HoldRow]
    /\ creators \in [EvaluationOps -> {"idle", "checked"}]
    /\ suggestions \subseteq SuggestionRow /\ IsFiniteSet(suggestions)
    /\ standard \in ShadowRuns \cup {0} /\ golden \in 0..GoldenVersions

Judges(w) == eworkers[w].at \in {"judging", "failing"}

\* What a worker has in hand is a run that was created; its fence was drawn for
\* that run; a heartbeat proves the fence and locks the row; and behind the
\* judgement the run has succeeded, close enough where a suggestion is due
Standpoint(w) ==
    LET r == eworkers[w].run IN
    /\ eworkers[w].at # "idle" => r \in ShadowRuns /\ shadow[r].state # "none"
    /\ Judges(w) => eworkers[w].fence <= shadow[r].fences
    /\ eworkers[w].beat => eworkers[w].at = "judging" /\ FenceMatches(w)
    /\ eworkers[w].at \in {"callback", "suggesting"} => shadow[r].state = "succeeded"
    /\ eworkers[w].at = "suggesting" => results[r].of = "near"

\* No two workers have drawn the same fence for a run
FencesDiffer ==
    \A v, w \in ShadowWorkers :
        v # w /\ Judges(v) /\ Judges(w) /\ eworkers[v].run = eworkers[w].run =>
            eworkers[v].fence # eworkers[w].fence

StandardIsRun == standard # 0 => shadow[standard].state = "succeeded"

EvaluationInv ==
    /\ EvaluationTyped /\ \A w \in ShadowWorkers : Standpoint(w)
    /\ FencesDiffer /\ StandardIsRun /\ ResultsAreWhole /\ SuggestionsAreGrounded

LEMMA EvaluationBegins == EvaluationInit => EvaluationInv
<1> SUFFICES ASSUME EvaluationInit PROVE EvaluationInv OBVIOUS
<1> USE EvaluationAssumption DEF EvaluationInit
<1>1. EvaluationTyped
  <2>1. NoShadow \in ShadowRow BY DEF NoShadow, ShadowRow, NoFence
  <2>2. NoHold \in HoldRow BY DEF NoHold, HoldRow, NoFence
  <2>3. NoResults \in ResultRow BY DEF NoResults, ResultRow
  <2>4. suggestions \subseteq SuggestionRow /\ IsFiniteSet(suggestions) BY FS_EmptySet
  <2>5. shadow \in [ShadowRuns -> ShadowRow] /\ results \in [ShadowRuns -> ResultRow]
        /\ eworkers \in [ShadowWorkers -> HoldRow]
    BY <2>1, <2>2, <2>3
  <2> QED BY <2>4, <2>5 DEF EvaluationTyped
<1>2. \A w \in ShadowWorkers : eworkers[w].at = "idle" /\ ~eworkers[w].beat BY DEF NoHold
<1>3. \A w \in ShadowWorkers : Standpoint(w) BY <1>2 DEF Standpoint, Judges
<1>4. FencesDiffer BY <1>2 DEF FencesDiffer, Judges
<1>5. \A r \in ShadowRuns : shadow[r].state = "none" /\ results[r].of = "none"
  BY DEF NoShadow, NoResults
<1>6. StandardIsRun /\ ResultsAreWhole /\ SuggestionsAreGrounded
  BY <1>5 DEF StandardIsRun, ResultsAreWhole, SuggestionsAreGrounded
<1> QED BY <1>1, <1>3, <1>4, <1>6 DEF EvaluationInv

-----------------------------------------------------------------------------
(* The rows a step writes *)

LEMMA RunWritten ==
    ASSUME shadow \in [ShadowRuns -> ShadowRow], NEW r \in ShadowRuns, NEW row \in ShadowRow
    PROVE  [shadow EXCEPT ![r] = row] \in [ShadowRuns -> ShadowRow]
OBVIOUS
LEMMA WorkerWritten ==
    ASSUME eworkers \in [ShadowWorkers -> HoldRow], NEW w \in ShadowWorkers, NEW row \in HoldRow
    PROVE  [eworkers EXCEPT ![w] = row] \in [ShadowWorkers -> HoldRow]
OBVIOUS

LEMMA ReleasedTyped ==
    ASSUME eworkers \in [ShadowWorkers -> HoldRow], NEW w \in ShadowWorkers, ReleaseHold(w)
    PROVE  eworkers' \in [ShadowWorkers -> HoldRow]
<1>1. NoHold \in HoldRow BY EvaluationAssumption DEF NoHold, HoldRow, NoFence
<1> QED BY <1>1, WorkerWritten DEF ReleaseHold

\* What the sweep at the start of a tick makes of a run
Swept(s) == Recovered(Requeued(s))
LEMMA SweptIs ==
    ASSUME NEW s \in ShadowRow
    PROVE  /\ Swept(s) \in ShadowRow
           /\ Swept(s).fences = s.fences /\ Swept(s).order = s.order
           /\ \/ Swept(s) = s
              \/ /\ s.state = "retry_wait" \/ (s.state = "running" /\ s.expired)
                 /\ Swept(s).state \in {"queued", "retry_wait", "failed"}
<1> USE EvaluationAssumption DEF ShadowRow, NonTerminal, NoFence
<1> DEFINE q == Requeued(s)
<1>1. /\ q \in ShadowRow /\ q.fences = s.fences /\ q.order = s.order
      /\ q = s \/ (s.state = "retry_wait" /\ q.state = "queued")
  BY DEF Requeued
<1> HIDE DEF q
<1>2. CASE q.state # "running" \/ ~q.expired BY <1>1, <1>2 DEF Recovered, Swept, q
<1>3. CASE q.state = "running" /\ q.expired
  <2>1. q = s BY <1>1, <1>3
  <2>2. CASE s.attempt >= ShadowAttempts
    <3>1. Swept(s) = [s EXCEPT !.state = "failed", !.attempt = s.attempt, !.fence = NoFence,
                               !.expired = FALSE, !.due = FALSE]
      BY <1>3, <2>1, <2>2 DEF Recovered, Swept, q
    <3>2. Swept(s) = [state |-> "failed", attempt |-> s.attempt, fence |-> NoFence, expired |-> FALSE,
                      due |-> FALSE, key |-> s.key, order |-> s.order, fences |-> s.fences]
      BY <3>1
    <3>4. Swept(s) \in ShadowRow BY <3>2
    <3>3. /\ Swept(s).fences = s.fences /\ Swept(s).order = s.order /\ Swept(s).state = "failed"
      BY <3>1
    <3> QED BY <1>3, <2>1, <3>4, <3>3
  <2>3. CASE ~(s.attempt >= ShadowAttempts)
    <3>1. Swept(s) = [s EXCEPT !.state = "retry_wait", !.attempt = s.attempt + 1, !.fence = NoFence,
                               !.expired = FALSE, !.due = FALSE]
      BY <1>3, <2>1, <2>3 DEF Recovered, Swept, q
    <3>2. s.attempt + 1 \in 1..ShadowAttempts BY <2>3
    <3>3. Swept(s) = [state |-> "retry_wait", attempt |-> s.attempt + 1, fence |-> NoFence,
                      expired |-> FALSE, due |-> FALSE, key |-> s.key, order |-> s.order,
                      fences |-> s.fences]
      BY <3>1
    <3>5. Swept(s) \in ShadowRow BY <3>2, <3>3
    <3>4. /\ Swept(s).fences = s.fences /\ Swept(s).order = s.order /\ Swept(s).state = "retry_wait"
      BY <3>1
    <3> QED BY <1>3, <2>1, <3>5, <3>4
  <2> QED BY <2>2, <2>3
<1> QED BY <1>2, <1>3

\* A tick sweeps every run, and claims one that is queued or none
LEMMA TickIs ==
    ASSUME EvaluationTyped, NEW w \in ShadowWorkers, RunOnce(w)
    PROVE  /\ eworkers[w].at = "idle"
           /\ \A r \in ShadowRuns : shadow[r].expired => ~Locked(r)
           /\ \/ /\ shadow' = [r \in ShadowRuns |-> Swept(shadow[r])]
                 /\ eworkers' = eworkers
              \/ \E r \in ShadowRuns :
                   /\ Swept(shadow[r]).state = "queued"
                   /\ shadow' = [[q \in ShadowRuns |-> Swept(shadow[q])] EXCEPT
                                     ![r] = ClaimOf(Swept(shadow[r]))]
                   /\ eworkers' = [eworkers EXCEPT ![w] =
                        [NoHold EXCEPT !.at = "judging", !.run = r,
                                       !.attempt = Swept(shadow[r]).attempt,
                                       !.fence = Swept(shadow[r]).fences + 1]]
           /\ UNCHANGED <<results, creators, suggestions, standard, golden>>
<1> DEFINE after == [r \in ShadowRuns |-> Swept(shadow[r])]
           ready == {r \in ShadowRuns : after[r].state = "queued"}
           least == CHOOSE q \in ready : \A p \in ready : q <= p
<1>1. after = [r \in ShadowRuns |-> Recovered(Requeued(shadow[r]))] BY DEF Swept
<1>2. CASE ready = {} BY <1>2 DEF RunOnce, Swept
<1>3. CASE ready # {}
  <2>1. ready \in SUBSET Nat BY EvaluationAssumption
  <2>2. \E q \in ready : \A p \in ready : q <= p
    <3> HIDE DEF ready
    <3> QED BY <1>3, <2>1, Least
  <2>3. least \in ready BY <2>2
  <2>4. /\ shadow' = [after EXCEPT ![least] = ClaimOf(after[least])]
        /\ eworkers' = [eworkers EXCEPT ![w] =
               [NoHold EXCEPT !.at = "judging", !.run = least, !.attempt = after[least].attempt,
                              !.fence = after[least].fences + 1]]
    BY <1>3 DEF RunOnce, Swept
  <2>5. least \in ShadowRuns /\ after[least].state = "queued" BY <2>3
  <2>6. \E r \in ShadowRuns :
           /\ after[r].state = "queued"
           /\ shadow' = [after EXCEPT ![r] = ClaimOf(after[r])]
           /\ eworkers' = [eworkers EXCEPT ![w] =
                [NoHold EXCEPT !.at = "judging", !.run = r, !.attempt = after[r].attempt,
                               !.fence = after[r].fences + 1]]
    <3> HIDE DEF least
    <3> QED BY <2>4, <2>5
  <2>7. \A r \in ShadowRuns : after[r] = Swept(shadow[r]) OBVIOUS
  <2>8. RunOnce(w) => /\ eworkers[w].at = "idle"
                      /\ \A r \in ShadowRuns : ~(shadow[r].expired /\ Locked(r))
                      /\ UNCHANGED <<results, creators, suggestions, standard, golden>>
    BY DEF RunOnce
  <2> QED BY <2>6, <2>7, <2>8
<1> QED BY <1>2, <1>3

LEMMA ClaimIs ==
    ASSUME NEW s \in ShadowRow
    PROVE  /\ ClaimOf(s) \in ShadowRow /\ ClaimOf(s).state = "running"
           /\ ClaimOf(s).fences = s.fences + 1 /\ ClaimOf(s).order = s.order
<1>0. ClaimOf(s) = [s EXCEPT !.state = "running", !.fence = s.fences + 1, !.fences = s.fences + 1]
  BY DEF ClaimOf
<1>1. ClaimOf(s) = [state |-> "running", attempt |-> s.attempt, fence |-> s.fences + 1,
                    expired |-> s.expired, due |-> s.due, key |-> s.key, order |-> s.order,
                    fences |-> s.fences + 1]
  BY <1>0 DEF ShadowRow
<1>2. ClaimOf(s) \in ShadowRow BY <1>1 DEF ShadowRow, NonTerminal
<1> QED BY <1>1, <1>2

LEMMA EndIs ==
    ASSUME NEW s \in ShadowRow, NEW b \in BOOLEAN, NEW n \in Nat
    PROVE  /\ AfterFailure(s, b) \in ShadowRow /\ AfterFailure(s, b).fences = s.fences
           /\ AfterFailure(s, b).state \in {"retry_wait", "failed"}
           /\ [Ended(s, "succeeded") EXCEPT !.order = n] \in ShadowRow
           /\ [Ended(s, "succeeded") EXCEPT !.order = n].state = "succeeded"
           /\ [Ended(s, "succeeded") EXCEPT !.order = n].attempt = s.attempt
           /\ [Ended(s, "succeeded") EXCEPT !.order = n].fences = s.fences
<1>3. /\ AfterFailure(s, b) \in ShadowRow /\ AfterFailure(s, b).fences = s.fences
      /\ AfterFailure(s, b).state \in {"retry_wait", "failed"}
  <2>1. CASE b /\ s.attempt < ShadowAttempts
    <3>1. AfterFailure(s, b) =
            [state |-> "retry_wait", attempt |-> s.attempt + 1, fence |-> NoFence, expired |-> FALSE,
             due |-> FALSE, key |-> s.key, order |-> s.order, fences |-> s.fences]
      BY <2>1 DEF AfterFailure, Ended, ShadowRow
    <3>2. s.attempt + 1 \in 1..ShadowAttempts BY <2>1, EvaluationAssumption DEF ShadowRow
    <3>3. AfterFailure(s, b) \in ShadowRow BY <3>1, <3>2 DEF ShadowRow, NonTerminal, NoFence
    <3> QED BY <3>1, <3>3
  <2>2. CASE ~(b /\ s.attempt < ShadowAttempts)
    <3>1. AfterFailure(s, b) =
            [state |-> "failed", attempt |-> s.attempt, fence |-> NoFence, expired |-> FALSE,
             due |-> s.due, key |-> s.key, order |-> s.order, fences |-> s.fences]
      BY <2>2 DEF AfterFailure, Ended, ShadowRow
    <3>2. AfterFailure(s, b) \in ShadowRow BY <3>1 DEF ShadowRow, NonTerminal, NoFence
    <3> QED BY <3>1, <3>2
  <2> QED BY <2>1, <2>2
<1>4. [Ended(s, "succeeded") EXCEPT !.order = n] =
        [s EXCEPT !.state = "succeeded", !.fence = NoFence, !.expired = FALSE, !.order = n]
  BY DEF Ended
<1> DEFINE row == [s EXCEPT !.state = "succeeded", !.fence = NoFence, !.expired = FALSE, !.order = n]
<1>5. row \in ShadowRow
  <2>1. [s EXCEPT !.state = "succeeded", !.fence = NoFence] \in ShadowRow
    BY DEF ShadowRow, NonTerminal, NoFence
  <2>2. \A q \in ShadowRow : [q EXCEPT !.expired = FALSE, !.order = n] \in ShadowRow
    BY DEF ShadowRow
  <2>3. row = [[s EXCEPT !.state = "succeeded", !.fence = NoFence] EXCEPT !.expired = FALSE, !.order = n]
    OBVIOUS
  <2> QED BY <2>1, <2>2, <2>3
<1>6. row.state = "succeeded" /\ row.attempt = s.attempt /\ row.fences = s.fences BY DEF ShadowRow
<1> QED BY <1>3, <1>4, <1>5, <1>6

LEMMA CompletionTyped == Completion \in Nat
<1>1. IsFiniteSet({r \in ShadowRuns : shadow[r].order # 0}) BY FS_Subset, EvaluationAssumption
<1> QED BY <1>1, FS_CardinalityType DEF Completion

LEMMA RaiseTyped ==
    ASSUME EvaluationTyped, NEW r \in ShadowRuns, NEW old, Raise(r, old)
    PROVE  /\ suggestions' \subseteq SuggestionRow /\ IsFiniteSet(suggestions')
           /\ \A s \in suggestions' : s.run = r \/ \E q \in suggestions : s.run = q.run
<1> DEFINE f(s) == IF s \in old THEN [s EXCEPT !.status = "superseded"] ELSE s
           image == {f(s) : s \in suggestions}
           new == [run |-> r, key |-> shadow[r].key, status |-> "actionable",
                   n |-> Cardinality(suggestions)]
<1>1. suggestions' = image \cup {new} BY DEF Raise
<1>2. \A s \in suggestions : f(s) \in SuggestionRow /\ f(s).run = s.run
  BY DEF EvaluationTyped, SuggestionRow
<1>3. new \in SuggestionRow
  <2>1. Cardinality(suggestions) \in Nat BY FS_CardinalityType DEF EvaluationTyped
  <2>2. shadow[r].key \in 0..GoldenVersions BY DEF EvaluationTyped, ShadowRow
  <2> QED BY <2>1, <2>2 DEF SuggestionRow
<1>4. IsFiniteSet(image)
  <2> HIDE DEF f
  <2>1. IsFiniteSet(suggestions) BY DEF EvaluationTyped
  <2>2. [s \in suggestions |-> f(s)] \in Surjection(suggestions, image) BY DEF Surjection
  <2> QED BY <2>1, <2>2, FS_Surjection
<1>5. new.run = r OBVIOUS
<1> HIDE DEF new, f
<1>6. IsFiniteSet(image \cup {new}) BY <1>4, FS_AddElement
<1> QED BY <1>1, <1>2, <1>3, <1>5, <1>6

LEMMA EvaluationTypeStep ==
    ASSUME EvaluationTyped, \A w \in ShadowWorkers : Standpoint(w), StandardIsRun,
           [EvaluationNext]_evaluationVars
    PROVE  EvaluationTyped'
<1>0. /\ \A r \in ShadowRuns : shadow[r] \in ShadowRow /\ shadow[r].key \in 0..GoldenVersions
      /\ \A w \in ShadowWorkers : /\ eworkers[w] \in HoldRow /\ eworkers[w].attempt \in 0..ShadowAttempts
                                   /\ eworkers[w].retryable \in BOOLEAN
      /\ NoHold \in HoldRow
  <2>1. NoHold \in HoldRow BY EvaluationAssumption DEF HoldRow, NoHold, NoFence
  <2>2. \A r \in ShadowRuns : shadow[r] \in ShadowRow /\ shadow[r].key \in 0..GoldenVersions
    BY DEF EvaluationTyped, ShadowRow
  <2>3. \A w \in ShadowWorkers : /\ eworkers[w] \in HoldRow /\ eworkers[w].attempt \in 0..ShadowAttempts
                                 /\ eworkers[w].retryable \in BOOLEAN
    BY DEF EvaluationTyped, HoldRow
  <2> QED BY <2>1, <2>2, <2>3
<1>1. ASSUME NEW o \in EvaluationOps, CheckNoActive(o) PROVE EvaluationTyped'
  BY <1>1 DEF CheckNoActive, EvaluationTyped
<1>2. ASSUME NEW o \in EvaluationOps, NEW r \in ShadowRuns, InsertRun(o, r) PROVE EvaluationTyped'
  <2>1. [NoShadow EXCEPT !.state = "queued", !.key = golden] \in ShadowRow
    <3>1. NoShadow \in ShadowRow BY EvaluationAssumption DEF NoShadow, NoFence, ShadowRow
    <3>2. golden \in 0..GoldenVersions BY DEF EvaluationTyped
    <3> QED BY <3>1, <3>2 DEF ShadowRow, NonTerminal
  <2> QED BY <1>2, <2>1, RunWritten DEF InsertRun, EvaluationTyped
<1>3. CASE PublishGolden BY <1>3, EvaluationAssumption DEF PublishGolden, EvaluationTyped
<1>4. ASSUME NEW r \in ShadowRuns, LeaseRunsOut(r) \/ BackoffEnds(r) PROVE EvaluationTyped'
  <2>1. [shadow[r] EXCEPT !.expired = TRUE] \in ShadowRow /\ [shadow[r] EXCEPT !.due = TRUE] \in ShadowRow
    BY <1>0 DEF ShadowRow
  <2>2. \E row \in ShadowRow : shadow' = [shadow EXCEPT ![r] = row]
    BY <1>4, <2>1 DEF LeaseRunsOut, BackoffEnds
  <2>3. shadow' \in [ShadowRuns -> ShadowRow] BY <2>2 DEF EvaluationTyped
  <2> QED BY <1>4, <2>3 DEF LeaseRunsOut, BackoffEnds, EvaluationTyped
<1>5. ASSUME NEW r \in ShadowRuns, AdoptDefault(r) PROVE EvaluationTyped'
  BY <1>5 DEF AdoptDefault, EvaluationTyped
<1>6. CASE StandardSuggestion
  <2>1. standard \in ShadowRuns BY <1>6 DEF StandardSuggestion, EvaluationTyped
  <2>2. Raise(standard, Actionable(shadow[standard].key)) BY <1>6 DEF StandardSuggestion
  <2>3. suggestions' \subseteq SuggestionRow /\ IsFiniteSet(suggestions') BY <2>1, <2>2, RaiseTyped
  <2> QED BY <1>6, <2>3 DEF StandardSuggestion, EvaluationTyped
<1>7. ASSUME NEW w \in ShadowWorkers, RunOnce(w) PROVE EvaluationTyped'
  <2> DEFINE after == [q \in ShadowRuns |-> Swept(shadow[q])]
  <2>1. after \in [ShadowRuns -> ShadowRow] BY <1>0, SweptIs
  <2>2. CASE shadow' = after /\ eworkers' = eworkers
    BY <1>7, <2>1, <2>2, TickIs DEF EvaluationTyped
  <2>3. ASSUME NEW r \in ShadowRuns, Swept(shadow[r]).state = "queued",
               shadow' = [after EXCEPT ![r] = ClaimOf(Swept(shadow[r]))],
               eworkers' = [eworkers EXCEPT ![w] =
                        [NoHold EXCEPT !.at = "judging", !.run = r,
                                       !.attempt = Swept(shadow[r]).attempt,
                                       !.fence = Swept(shadow[r]).fences + 1]]
        PROVE  EvaluationTyped'
    <3>1. Swept(shadow[r]) \in ShadowRow BY <1>0, SweptIs
    <3>2. ClaimOf(Swept(shadow[r])) \in ShadowRow BY <3>1, ClaimIs
    <3>3. shadow' \in [ShadowRuns -> ShadowRow] BY <2>1, <2>3, <3>2
    <3>4. Swept(shadow[r]).attempt \in 0..ShadowAttempts /\ Swept(shadow[r]).fences + 1 \in Nat
      BY <3>1, EvaluationAssumption DEF ShadowRow
    <3>5. [NoHold EXCEPT !.at = "judging", !.run = r, !.attempt = Swept(shadow[r]).attempt,
                         !.fence = Swept(shadow[r]).fences + 1] \in HoldRow
      BY <3>4 DEF NoHold, HoldRow
    <3>6. eworkers' \in [ShadowWorkers -> HoldRow]
      BY <2>3, <3>5, WorkerWritten DEF EvaluationTyped
    <3> QED BY <1>7, <3>3, <3>6, TickIs DEF EvaluationTyped
  <2> QED BY <1>7, <2>2, <2>3, TickIs
<1>8. ASSUME NEW w \in ShadowWorkers, Heartbeat(w) \/ LoseWorker(w) PROVE EvaluationTyped'
  <2>1. [eworkers[w] EXCEPT !.beat = TRUE] \in HoldRow BY <1>0 DEF HoldRow
  <2>2. eworkers' = [eworkers EXCEPT ![w] = [eworkers[w] EXCEPT !.beat = TRUE]] \/ ReleaseHold(w)
    BY <1>8 DEF Heartbeat, LoseWorker
  <2>3. eworkers' \in [ShadowWorkers -> HoldRow]
    BY <2>1, <2>2, WorkerWritten, ReleasedTyped DEF EvaluationTyped
  <2> QED BY <1>8, <2>3 DEF Heartbeat, LoseWorker, EvaluationTyped
<1>9. ASSUME NEW w \in ShadowWorkers, NEW v \in Verdicts, FinishSucceeded(w, v)
      PROVE  EvaluationTyped'
  <2> DEFINE r == eworkers[w].run
  <2>0. r \in ShadowRuns BY <1>9 DEF FinishSucceeded, Standpoint
  <2>1. CASE FenceMatches(w)
    <3>1. [Ended(shadow[r], "succeeded") EXCEPT !.order = Completion] \in ShadowRow
      BY <1>0, <2>0, EndIs, CompletionTyped
    <3>2. ResultsOf(w, v) \in ResultRow BY <1>0 DEF ResultsOf, ResultRow
    <3>3. [NoHold EXCEPT !.at = "callback", !.run = r] \in HoldRow BY <2>0, <1>0 DEF NoHold, HoldRow
    <3>4. /\ shadow' = [shadow EXCEPT ![r] = [Ended(shadow[r], "succeeded") EXCEPT !.order = Completion]]
          /\ results' = [results EXCEPT ![r] = ResultsOf(w, v)]
          /\ eworkers' = [eworkers EXCEPT ![w] = [NoHold EXCEPT !.at = "callback", !.run = r]]
          /\ UNCHANGED <<creators, suggestions, standard, golden>>
      BY <1>9, <2>1 DEF FinishSucceeded
    <3> HIDE DEF r
    <3>5. shadow' \in [ShadowRuns -> ShadowRow] BY <2>0, <3>1, <3>4, RunWritten DEF EvaluationTyped
    <3>6. results' \in [ShadowRuns -> ResultRow] BY <3>2, <3>4 DEF EvaluationTyped
    <3>7. eworkers' \in [ShadowWorkers -> HoldRow] BY <3>3, <3>4, WorkerWritten DEF EvaluationTyped
    <3> QED BY <3>4, <3>5, <3>6, <3>7 DEF EvaluationTyped
  <2>2. CASE ~FenceMatches(w)
    <3>1. eworkers' \in [ShadowWorkers -> HoldRow]
      BY <1>9, <2>2, ReleasedTyped DEF FinishSucceeded, EvaluationTyped
    <3> QED BY <1>9, <2>2, <3>1 DEF FinishSucceeded, EvaluationTyped
  <2> QED BY <2>1, <2>2
<1>10. ASSUME NEW w \in ShadowWorkers, NEW b \in BOOLEAN, JudgeFails(w, b) PROVE EvaluationTyped'
  <2>1. [eworkers[w] EXCEPT !.at = "failing", !.beat = FALSE, !.retryable = b] \in HoldRow
    BY <1>0 DEF HoldRow
  <2>2. eworkers' = [eworkers EXCEPT ![w] =
                       [eworkers[w] EXCEPT !.at = "failing", !.beat = FALSE, !.retryable = b]]
    BY <1>10 DEF JudgeFails
  <2>3. eworkers' \in [ShadowWorkers -> HoldRow] BY <2>1, <2>2, WorkerWritten DEF EvaluationTyped
  <2> QED BY <1>10, <2>3 DEF JudgeFails, EvaluationTyped
<1>11. ASSUME NEW w \in ShadowWorkers, HandleFailure(w) PROVE EvaluationTyped'
  <2>0. eworkers[w].run \in ShadowRuns BY <1>11 DEF HandleFailure, Standpoint
  <2>1. AfterFailure(shadow[eworkers[w].run], eworkers[w].retryable) \in ShadowRow
    BY <1>0, <2>0, EndIs
  <2>2. shadow' \in [ShadowRuns -> ShadowRow]
    BY <1>11, <2>0, <2>1, RunWritten DEF HandleFailure, EvaluationTyped
  <2>3. eworkers' \in [ShadowWorkers -> HoldRow]
    BY <1>11, ReleasedTyped DEF HandleFailure, EvaluationTyped
  <2> QED BY <1>11, <2>2, <2>3 DEF HandleFailure, EvaluationTyped
<1>12. ASSUME NEW w \in ShadowWorkers, ReadStanding(w) PROVE EvaluationTyped'
  <2>1. \A n \in Nat : [eworkers[w] EXCEPT !.at = "suggesting", !.saw = n] \in HoldRow
    BY <1>0 DEF HoldRow
  <2>2. \A key : Cardinality(Actionable(key)) \in Nat
    BY FS_Subset, FS_CardinalityType DEF Actionable, EvaluationTyped
  <2>3. \/ \E n \in Nat : eworkers' = [eworkers EXCEPT ![w] =
                                         [eworkers[w] EXCEPT !.at = "suggesting", !.saw = n]]
        \/ ReleaseHold(w)
    BY <1>12, <2>2 DEF ReadStanding
  <2>4. eworkers' \in [ShadowWorkers -> HoldRow]
    BY <2>1, <2>3, WorkerWritten, ReleasedTyped DEF EvaluationTyped
  <2> QED BY <1>12, <2>4 DEF ReadStanding, EvaluationTyped
<1>13. ASSUME NEW w \in ShadowWorkers, Suggest(w) PROVE EvaluationTyped'
  <2>1. eworkers[w].run \in ShadowRuns BY <1>13 DEF Suggest, Standpoint
  <2>2. \E old : Raise(eworkers[w].run, old) BY <1>13 DEF Suggest
  <2>3. suggestions' \subseteq SuggestionRow /\ IsFiniteSet(suggestions')
    BY <2>1, <2>2, RaiseTyped
  <2>4. eworkers' \in [ShadowWorkers -> HoldRow] BY <1>13, ReleasedTyped DEF Suggest, EvaluationTyped
  <2> QED BY <1>13, <2>3, <2>4 DEF Suggest, EvaluationTyped
<1>14. CASE UNCHANGED evaluationVars BY <1>14 DEF evaluationVars, EvaluationTyped
<1> QED BY <1>1, <1>2, <1>3, <1>4, <1>5, <1>6, <1>7, <1>8, <1>9, <1>10, <1>11, <1>12, <1>13, <1>14
    DEF EvaluationNext

-----------------------------------------------------------------------------
(* A step keeps the invariant *)

\* What a step does to a run that a worker has in hand
LEMMA StandpointKept ==
    ASSUME EvaluationTyped, NEW v \in ShadowWorkers, Standpoint(v), eworkers'[v] = eworkers[v],
           \A r \in ShadowRuns : r = eworkers[v].run =>
               /\ shadow[r].state # "none" => shadow'[r].state # "none"
               /\ shadow[r].fences <= shadow'[r].fences /\ shadow'[r].fences \in Nat
               /\ shadow[r].state = "succeeded" =>
                     shadow'[r].state = "succeeded" /\ results'[r].of = results[r].of
               /\ eworkers[v].beat => /\ shadow'[r].state = shadow[r].state
                                      /\ shadow'[r].attempt = shadow[r].attempt
                                      /\ shadow'[r].fence = shadow[r].fence
    PROVE  Standpoint(v)'
<1>1. CASE eworkers[v].run \in ShadowRuns
  <2>1. eworkers[v].fence \in Nat /\ shadow[eworkers[v].run].fences \in Nat
    BY <1>1 DEF EvaluationTyped, HoldRow, ShadowRow
  <2> QED BY <1>1, <2>1 DEF Standpoint, Judges, FenceMatches
<1>2. CASE eworkers[v].run \notin ShadowRuns
  <2>1. eworkers[v].at = "idle" /\ ~eworkers[v].beat BY <1>2 DEF Standpoint, Judges
  <2> QED BY <2>1 DEF Standpoint, Judges
<1> QED BY <1>1, <1>2

\* A step that ends no run in success and writes no result or suggestion
Inconclusive ==
    /\ \A r \in ShadowRuns :
          /\ shadow[r].state = "succeeded" <=> shadow'[r].state = "succeeded"
          /\ shadow[r].state = "succeeded" => shadow'[r].attempt = shadow[r].attempt
    /\ UNCHANGED <<results, suggestions, standard>>

LEMMA NothingConcluded ==
    ASSUME EvaluationInv, Inconclusive
    PROVE  StandardIsRun' /\ ResultsAreWhole' /\ SuggestionsAreGrounded'
<1> USE DEF EvaluationInv, Inconclusive
<1>1. StandardIsRun' BY DEF StandardIsRun, EvaluationTyped
<1>2. ResultsAreWhole' BY DEF ResultsAreWhole
<1>3. SuggestionsAreGrounded'
  <2>1. \A s \in suggestions : s.run \in ShadowRuns BY DEF EvaluationTyped, SuggestionRow
  <2> QED BY <2>1 DEF SuggestionsAreGrounded
<1> QED BY <1>1, <1>2, <1>3

\* The other workers stand, and the one that moves judges what it judged, or
\* judges no more
LEMMA FencesKept ==
    ASSUME EvaluationTyped, FencesDiffer, NEW w \in ShadowWorkers,
           \A v \in ShadowWorkers : v # w => eworkers'[v] = eworkers[v],
           \/ eworkers'[w].at \notin {"judging", "failing"}
           \/ /\ Judges(w) /\ eworkers'[w].run = eworkers[w].run
              /\ eworkers'[w].fence = eworkers[w].fence
    PROVE  FencesDiffer'
BY DEF FencesDiffer, Judges

LEMMA Released ==
    ASSUME EvaluationTyped, NEW w \in ShadowWorkers, ReleaseHold(w)
    PROVE  /\ \A v \in ShadowWorkers : v # w => eworkers'[v] = eworkers[v]
           /\ eworkers'[w].at = "idle" /\ eworkers'[w].beat = FALSE
           /\ Standpoint(w)'
<1>1. /\ \A v \in ShadowWorkers : v # w => eworkers'[v] = eworkers[v]
      /\ eworkers'[w].at = "idle" /\ eworkers'[w].beat = FALSE
  BY DEF EvaluationTyped, ReleaseHold, NoHold
<1> QED BY <1>1 DEF Standpoint, Judges

\* Runs stand and one worker moves
LEMMA WorkerMoves ==
    ASSUME EvaluationInv, NEW w \in ShadowWorkers, UNCHANGED <<shadow, results>>,
           \A v \in ShadowWorkers : v # w => eworkers'[v] = eworkers[v],
           Standpoint(w)',
           \/ eworkers'[w].at \notin {"judging", "failing"}
           \/ /\ Judges(w) /\ eworkers'[w].run = eworkers[w].run
              /\ eworkers'[w].fence = eworkers[w].fence
    PROVE  (\A v \in ShadowWorkers : Standpoint(v))' /\ FencesDiffer'
<1>1. FencesDiffer' BY FencesKept DEF EvaluationInv
<1>2. ASSUME NEW v \in ShadowWorkers, v # w PROVE Standpoint(v)'
  BY <1>2 DEF EvaluationInv, Standpoint, Judges, FenceMatches
<1> QED BY <1>1, <1>2

LEMMA TickStep ==
    ASSUME EvaluationInv, EvaluationTyped', NEW w \in ShadowWorkers, RunOnce(w)
    PROVE  EvaluationInv'
<1> USE DEF EvaluationInv
<1>0. /\ \A r \in ShadowRuns : shadow[r] \in ShadowRow /\ shadow[r].fences \in Nat
      /\ eworkers[w].at = "idle"
      /\ \A v \in ShadowWorkers, r \in ShadowRuns :
            eworkers[v].beat /\ eworkers[v].run = r => ~shadow[r].expired
  <2>1. \A r \in ShadowRuns : shadow[r] \in ShadowRow /\ shadow[r].fences \in Nat
    BY DEF EvaluationTyped, ShadowRow
  <2> QED BY <2>1, TickIs DEF Locked
<1>00. UNCHANGED <<results, suggestions, standard>> BY TickIs
<1>01. \A r \in ShadowRuns :
         /\ Swept(shadow[r]).fences = shadow[r].fences
         /\ \/ Swept(shadow[r]) = shadow[r]
            \/ /\ shadow[r].state = "retry_wait" \/ (shadow[r].state = "running" /\ shadow[r].expired)
               /\ Swept(shadow[r]).state \in {"queued", "retry_wait", "failed"}
  BY <1>0, SweptIs
<1>1. CASE shadow' = [r \in ShadowRuns |-> Swept(shadow[r])] /\ eworkers' = eworkers
  <2>1. \A r \in ShadowRuns : shadow'[r] = Swept(shadow[r]) BY <1>1
  <2>2. ASSUME NEW v \in ShadowWorkers PROVE Standpoint(v)'
    <3>1. ASSUME NEW r \in ShadowRuns, r = eworkers[v].run
          PROVE  /\ shadow[r].state # "none" => shadow'[r].state # "none"
                 /\ shadow[r].fences <= shadow'[r].fences /\ shadow'[r].fences \in Nat
                 /\ shadow[r].state = "succeeded" =>
                       shadow'[r].state = "succeeded" /\ results'[r].of = results[r].of
                 /\ eworkers[v].beat => shadow'[r] = shadow[r]
      <4>1. eworkers[v].beat => shadow[r].state = "running" /\ ~shadow[r].expired
        BY <1>0, <3>1 DEF Standpoint, FenceMatches
      <4>2. shadow[r].fences <= shadow'[r].fences /\ shadow'[r].fences \in Nat
        BY <1>0, <1>01, <2>1
      <4> QED BY <1>00, <1>01, <2>1, <4>1, <4>2
    <3> QED BY <1>1, <3>1, StandpointKept
  <2>3. Inconclusive BY <1>00, <1>01, <2>1 DEF Inconclusive
  <2> QED BY <1>1, <2>2, <2>3, NothingConcluded DEF FencesDiffer, Judges
<1>2. ASSUME NEW r \in ShadowRuns,
             Swept(shadow[r]).state = "queued",
             shadow' = [[q \in ShadowRuns |-> Swept(shadow[q])] EXCEPT
                            ![r] = ClaimOf(Swept(shadow[r]))],
             eworkers' = [eworkers EXCEPT ![w] =
                 [NoHold EXCEPT !.at = "judging", !.run = r,
                                !.attempt = Swept(shadow[r]).attempt,
                                !.fence = Swept(shadow[r]).fences + 1]]
      PROVE  EvaluationInv'
  <2>1. /\ \A q \in ShadowRuns \ {r} : shadow'[q] = Swept(shadow[q])
        /\ shadow'[r].state = "running" /\ shadow'[r].fences = shadow[r].fences + 1
    BY <1>0, <1>2, SweptIs, ClaimIs
  <2>2. shadow[r].state \in {"queued", "retry_wait"} \/ shadow[r].expired
    BY <1>0, <1>2, SweptIs
  <2>3. /\ \A v \in ShadowWorkers : v # w => eworkers'[v] = eworkers[v]
        /\ eworkers'[w].at = "judging" /\ eworkers'[w].run = r /\ ~eworkers'[w].beat
        /\ eworkers'[w].fence = shadow[r].fences + 1
    BY <1>0, <1>2, SweptIs DEF EvaluationTyped, NoHold
  <2>4. ASSUME NEW v \in ShadowWorkers PROVE Standpoint(v)'
    <3>1. CASE v = w
      <4>1. eworkers'[w].fence <= shadow'[r].fences BY <1>0, <2>1, <2>3
      <4> QED BY <2>1, <2>3, <3>1, <4>1 DEF Standpoint, Judges
    <3>2. CASE v # w
      <4>1. ASSUME NEW q \in ShadowRuns, q = eworkers[v].run
            PROVE  /\ shadow[q].state # "none" => shadow'[q].state # "none"
                   /\ shadow[q].fences <= shadow'[q].fences /\ shadow'[q].fences \in Nat
                   /\ shadow[q].state = "succeeded" =>
                         shadow'[q].state = "succeeded" /\ results'[q].of = results[q].of
                   /\ eworkers[v].beat => shadow'[q] = shadow[q]
        <5>1. eworkers[v].beat => shadow[q].state = "running" /\ ~shadow[q].expired
          BY <1>0, <4>1 DEF Standpoint, FenceMatches
        <5>2. CASE q = r
          <6>1. ~eworkers[v].beat BY <2>2, <5>1, <5>2
          <6>2. shadow[q].state # "succeeded" BY <1>0, <1>2, <5>2, SweptIs
          <6> QED BY <1>0, <2>1, <5>2, <6>1, <6>2
        <5>3. CASE q # r
          <6>1. shadow[q].fences <= shadow'[q].fences /\ shadow'[q].fences \in Nat
            BY <1>0, <1>01, <2>1, <5>3
          <6> QED BY <1>00, <1>01, <2>1, <5>1, <5>3, <6>1
        <5> QED BY <5>2, <5>3
      <4> QED BY <2>3, <3>2, <4>1, StandpointKept
    <3> QED BY <3>1, <3>2
  <2>5. FencesDiffer'
    <3>1. ASSUME NEW v \in ShadowWorkers, v # w, Judges(v), eworkers[v].run = r
          PROVE  eworkers[v].fence # shadow[r].fences + 1
      <4>1. eworkers[v].fence <= shadow[r].fences /\ eworkers[v].fence \in Nat
        BY <3>1 DEF Standpoint, EvaluationTyped, HoldRow
      <4> QED BY <1>0, <4>1
    <3> QED BY <2>3, <3>1 DEF FencesDiffer, Judges
  <2>6. Inconclusive
    <3>1. shadow[r].state # "succeeded" BY <1>0, <1>2, SweptIs
    <3> QED BY <1>00, <1>01, <2>1, <3>1 DEF Inconclusive
  <2> QED BY <2>4, <2>5, <2>6, NothingConcluded
<1> QED BY <1>1, <1>2, TickIs

LEMMA FinishStep ==
    ASSUME EvaluationInv, EvaluationTyped', NEW w \in ShadowWorkers, NEW v \in Verdicts,
           FinishSucceeded(w, v), FenceMatches(w)
    PROVE  EvaluationInv'
<1> USE DEF EvaluationInv
<1>1. PICK r \in ShadowRuns : r = eworkers[w].run
  BY DEF FinishSucceeded, Standpoint
<1>2. /\ shadow[r] \in ShadowRow /\ shadow[r].state = "running"
      /\ eworkers[w].attempt = shadow[r].attempt
  BY <1>1 DEF EvaluationTyped, FenceMatches
<1>3. /\ shadow' = [shadow EXCEPT ![r] = [Ended(shadow[r], "succeeded") EXCEPT !.order = Completion]]
      /\ results' = [results EXCEPT ![r] = ResultsOf(w, v)]
      /\ eworkers' = [eworkers EXCEPT ![w] = [NoHold EXCEPT !.at = "callback", !.run = r]]
      /\ UNCHANGED <<creators, suggestions, standard, golden>>
  BY <1>1 DEF FinishSucceeded
<1>4. /\ shadow'[r].state = "succeeded" /\ shadow'[r].attempt = shadow[r].attempt
      /\ shadow'[r].fences = shadow[r].fences
  BY <1>2, <1>3, EndIs, CompletionTyped DEF EvaluationTyped
<1>5. /\ \A q \in ShadowRuns \ {r} : shadow'[q] = shadow[q] /\ results'[q] = results[q]
      /\ results'[r].of = v /\ results'[r].attempt = shadow[r].attempt
  BY <1>2, <1>3 DEF EvaluationTyped, ResultsOf
<1>6. /\ \A u \in ShadowWorkers : u # w => eworkers'[u] = eworkers[u]
      /\ eworkers'[w].at = "callback" /\ eworkers'[w].run = r /\ ~eworkers'[w].beat
  BY <1>3 DEF EvaluationTyped, NoHold
<1>7. ASSUME NEW u \in ShadowWorkers PROVE Standpoint(u)'
  <2>1. CASE u = w BY <1>4, <1>6, <2>1 DEF Standpoint, Judges
  <2>2. CASE u # w
    <3>1. ~(eworkers[u].beat /\ eworkers[u].run = r)
      <4>1. SUFFICES ASSUME eworkers[u].beat, eworkers[u].run = r PROVE FALSE OBVIOUS
      <4>2. Judges(u) /\ FenceMatches(u) BY <4>1 DEF Standpoint, Judges
      <4>3. Judges(w) BY DEF FinishSucceeded, Judges
      <4> QED BY <1>1, <2>2, <4>1, <4>2, <4>3 DEF FencesDiffer, FenceMatches
    <3>2. ASSUME NEW q \in ShadowRuns, q = eworkers[u].run
          PROVE  /\ shadow[q].state # "none" => shadow'[q].state # "none"
                 /\ shadow[q].fences <= shadow'[q].fences /\ shadow'[q].fences \in Nat
                 /\ shadow[q].state = "succeeded" =>
                       shadow'[q].state = "succeeded" /\ results'[q].of = results[q].of
                 /\ eworkers[u].beat => shadow'[q] = shadow[q]
      <4>1. shadow[q].fences \in Nat BY DEF EvaluationTyped, ShadowRow
      <4> QED BY <1>2, <1>4, <1>5, <3>1, <3>2, <4>1
    <3> QED BY <1>6, <2>2, <3>2, StandpointKept
  <2> QED BY <2>1, <2>2
<1>8. FencesDiffer' BY <1>6, FencesKept
<1>9. StandardIsRun' BY <1>3, <1>4, <1>5 DEF StandardIsRun, EvaluationTyped
<1>10. ResultsAreWhole' BY <1>4, <1>5 DEF ResultsAreWhole, Verdicts
<1>11. SuggestionsAreGrounded'
  <2>1. \A s \in suggestions : s.run \in ShadowRuns /\ s.run # r
    BY <1>2 DEF EvaluationTyped, SuggestionRow, SuggestionsAreGrounded
  <2> QED BY <1>3, <1>5, <2>1 DEF SuggestionsAreGrounded
<1> QED BY <1>7, <1>8, <1>9, <1>10, <1>11

LEMMA FailureStep ==
    ASSUME EvaluationInv, EvaluationTyped', NEW w \in ShadowWorkers, HandleFailure(w)
    PROVE  EvaluationInv'
<1> USE DEF EvaluationInv
<1>1. PICK r \in ShadowRuns : r = eworkers[w].run
  BY DEF HandleFailure, Standpoint
<1>2. ReleaseHold(w) /\ eworkers[w].at = "failing" /\ UNCHANGED <<results, suggestions, standard>>
  BY DEF HandleFailure
<1>3. CASE ~FenceMatches(w)
  <2>1. shadow' = shadow BY <1>3 DEF HandleFailure
  <2>2. (\A v \in ShadowWorkers : Standpoint(v))' /\ FencesDiffer'
    BY <1>2, <2>1, Released, WorkerMoves
  <2>3. Inconclusive BY <1>2, <2>1 DEF Inconclusive
  <2> QED BY <2>2, <2>3, NothingConcluded
<1>4. CASE FenceMatches(w)
  <2>1. shadow[r] \in ShadowRow /\ shadow[r].state = "running" /\ eworkers[w].retryable \in BOOLEAN
    BY <1>1, <1>4 DEF EvaluationTyped, FenceMatches, HoldRow
  <2>2. shadow' = [shadow EXCEPT ![r] = AfterFailure(shadow[r], eworkers[w].retryable)]
    BY <1>1, <1>4 DEF HandleFailure
  <2>3. shadow'[r].state \in {"retry_wait", "failed"} /\ shadow'[r].fences = shadow[r].fences
    <3>1. shadow'[r] = AfterFailure(shadow[r], eworkers[w].retryable) BY <2>2 DEF EvaluationTyped
    <3>2. /\ AfterFailure(shadow[r], eworkers[w].retryable).fences = shadow[r].fences
          /\ AfterFailure(shadow[r], eworkers[w].retryable).state \in {"retry_wait", "failed"}
      <4>1. 0 \in Nat OBVIOUS
      <4> QED BY <2>1, <4>1, EndIs
    <3> QED BY <3>1, <3>2
  <2>4. \A q \in ShadowRuns \ {r} : shadow'[q] = shadow[q] BY <2>2 DEF EvaluationTyped
  <2>5. /\ \A v \in ShadowWorkers : v # w => eworkers'[v] = eworkers[v]
        /\ eworkers'[w].at = "idle" /\ Standpoint(w)'
    BY <1>2, Released
  <2>6. ASSUME NEW u \in ShadowWorkers, u # w PROVE Standpoint(u)'
    <3>1. ~(eworkers[u].beat /\ eworkers[u].run = r)
      <4>1. SUFFICES ASSUME eworkers[u].beat, eworkers[u].run = r PROVE FALSE OBVIOUS
      <4>2. Judges(u) /\ FenceMatches(u) BY <4>1 DEF Standpoint, Judges
      <4>3. Judges(w) BY <1>2 DEF Judges
      <4> QED BY <1>1, <1>4, <2>6, <4>1, <4>2, <4>3 DEF FencesDiffer, FenceMatches
    <3>2. ASSUME NEW q \in ShadowRuns, q = eworkers[u].run
          PROVE  /\ shadow[q].state # "none" => shadow'[q].state # "none"
                 /\ shadow[q].fences <= shadow'[q].fences /\ shadow'[q].fences \in Nat
                 /\ shadow[q].state = "succeeded" =>
                       shadow'[q].state = "succeeded" /\ results'[q].of = results[q].of
                 /\ eworkers[u].beat => shadow'[q] = shadow[q]
      <4>1. shadow[q].fences \in Nat BY DEF EvaluationTyped, ShadowRow
      <4> QED BY <1>2, <2>1, <2>3, <2>4, <3>1, <3>2, <4>1
    <3> QED BY <2>5, <2>6, <3>2, StandpointKept
  <2>7. FencesDiffer' BY <2>5, FencesKept
  <2>8. Inconclusive BY <1>2, <2>1, <2>3, <2>4 DEF Inconclusive
  <2> QED BY <2>5, <2>6, <2>7, <2>8, NothingConcluded
<1> QED BY <1>3, <1>4

LEMMA EvaluationStep == EvaluationInv /\ [EvaluationNext]_evaluationVars => EvaluationInv'
<1> SUFFICES ASSUME EvaluationInv, [EvaluationNext]_evaluationVars PROVE EvaluationInv' OBVIOUS
<1> USE DEF EvaluationInv
<1>0. EvaluationTyped' BY EvaluationTypeStep
<1>00. \A r \in ShadowRuns : shadow[r].fences \in Nat BY DEF EvaluationTyped, ShadowRow
<1>1. ASSUME UNCHANGED <<shadow, results, eworkers, suggestions, standard>> PROVE EvaluationInv'
  <2>1. \A v \in ShadowWorkers : Standpoint(v)'
    BY <1>1 DEF Standpoint, Judges, FenceMatches
  <2>2. FencesDiffer' BY <1>1 DEF FencesDiffer, Judges
  <2>3. Inconclusive BY <1>1 DEF Inconclusive
  <2> QED BY <1>0, <2>1, <2>2, <2>3, NothingConcluded
<1>2. ASSUME NEW o \in EvaluationOps, NEW r \in ShadowRuns, InsertRun(o, r) PROVE EvaluationInv'
  <2>1. /\ shadow[r].state = "none" /\ shadow'[r].state = "queued"
        /\ \A q \in ShadowRuns \ {r} : shadow'[q] = shadow[q]
        /\ UNCHANGED <<results, eworkers, suggestions, standard>>
    BY <1>2, EvaluationAssumption DEF InsertRun, EvaluationTyped, NoShadow
  <2>2. ASSUME NEW v \in ShadowWorkers PROVE Standpoint(v)'
    BY <2>1 DEF Standpoint, Judges, FenceMatches
  <2>3. FencesDiffer' BY <2>1 DEF FencesDiffer, Judges
  <2>4. Inconclusive BY <2>1 DEF Inconclusive
  <2> QED BY <1>0, <2>2, <2>3, <2>4, NothingConcluded
<1>3. ASSUME NEW r \in ShadowRuns, LeaseRunsOut(r) \/ BackoffEnds(r) PROVE EvaluationInv'
  <2>1. /\ \A q \in ShadowRuns : /\ shadow'[q].state = shadow[q].state
                                 /\ shadow'[q].attempt = shadow[q].attempt
                                 /\ shadow'[q].fence = shadow[q].fence
                                 /\ shadow'[q].fences = shadow[q].fences
        /\ UNCHANGED <<results, eworkers, suggestions, standard>>
    BY <1>3 DEF LeaseRunsOut, BackoffEnds, EvaluationTyped, ShadowRow
  <2>2. ASSUME NEW v \in ShadowWorkers PROVE Standpoint(v)'
    BY <1>00, <2>1, StandpointKept
  <2>3. FencesDiffer' BY <2>1 DEF FencesDiffer, Judges
  <2>4. Inconclusive BY <2>1 DEF Inconclusive
  <2> QED BY <1>0, <2>2, <2>3, <2>4, NothingConcluded
<1>4. ASSUME NEW r \in ShadowRuns, AdoptDefault(r) PROVE EvaluationInv'
  <2>1. (\A v \in ShadowWorkers : Standpoint(v))' BY <1>4 DEF AdoptDefault, Standpoint, Judges, FenceMatches
  <2>2. FencesDiffer' BY <1>4 DEF AdoptDefault, FencesDiffer, Judges
  <2>3. StandardIsRun' BY <1>4 DEF AdoptDefault, StandardIsRun
  <2>4. ResultsAreWhole' /\ SuggestionsAreGrounded'
    BY <1>4 DEF AdoptDefault, ResultsAreWhole, SuggestionsAreGrounded
  <2> QED BY <1>0, <2>1, <2>2, <2>3, <2>4
<1>5. CASE StandardSuggestion
  <2>1. /\ standard \in ShadowRuns /\ shadow[standard].state = "succeeded"
        /\ results[standard].of = "near" /\ \E old : Raise(standard, old)
        /\ UNCHANGED <<shadow, results, eworkers, standard>>
    BY <1>5 DEF StandardSuggestion, StandardIsRun, EvaluationTyped
  <2>2. \A s \in suggestions' : s.run = standard \/ \E q \in suggestions : s.run = q.run
    BY <2>1, RaiseTyped
  <2>3. SuggestionsAreGrounded' BY <2>1, <2>2 DEF SuggestionsAreGrounded
  <2>4. (\A v \in ShadowWorkers : Standpoint(v))' BY <2>1 DEF Standpoint, Judges, FenceMatches
  <2>5. FencesDiffer' /\ StandardIsRun' /\ ResultsAreWhole'
    BY <2>1 DEF FencesDiffer, Judges, StandardIsRun, ResultsAreWhole
  <2> QED BY <1>0, <2>3, <2>4, <2>5
<1>6. ASSUME NEW w \in ShadowWorkers, ReleaseHold(w), UNCHANGED <<shadow, results, suggestions, standard>>
      PROVE  EvaluationInv'
  <2>1. (\A v \in ShadowWorkers : Standpoint(v))' /\ FencesDiffer'
    BY <1>6, Released, WorkerMoves
  <2>2. Inconclusive BY <1>6 DEF Inconclusive
  <2> QED BY <1>0, <2>1, <2>2, NothingConcluded
<1>7. ASSUME NEW w \in ShadowWorkers, Heartbeat(w) PROVE EvaluationInv'
  <2>1. CASE FenceMatches(w)
    <3>1. /\ \A v \in ShadowWorkers : v # w => eworkers'[v] = eworkers[v]
          /\ eworkers'[w].at = "judging" /\ eworkers'[w].run = eworkers[w].run
          /\ eworkers'[w].attempt = eworkers[w].attempt /\ eworkers'[w].fence = eworkers[w].fence
          /\ eworkers[w].at = "judging"
          /\ UNCHANGED <<shadow, results, suggestions, standard>>
      BY <1>7, <2>1 DEF Heartbeat, EvaluationTyped, HoldRow
    <3>2. Standpoint(w)' BY <2>1, <3>1 DEF Standpoint, Judges, FenceMatches
    <3>3. (\A v \in ShadowWorkers : Standpoint(v))' /\ FencesDiffer'
      BY <3>1, <3>2, WorkerMoves DEF Judges
    <3>4. Inconclusive BY <3>1 DEF Inconclusive
    <3> QED BY <1>0, <3>3, <3>4, NothingConcluded
  <2>2. CASE ~FenceMatches(w) BY <1>6, <1>7, <2>2 DEF Heartbeat
  <2> QED BY <2>1, <2>2
<1>8. ASSUME NEW w \in ShadowWorkers, NEW b \in BOOLEAN, JudgeFails(w, b) PROVE EvaluationInv'
  <2>1. /\ \A v \in ShadowWorkers : v # w => eworkers'[v] = eworkers[v]
        /\ eworkers'[w].at = "failing" /\ eworkers'[w].run = eworkers[w].run
        /\ ~eworkers'[w].beat /\ eworkers'[w].fence = eworkers[w].fence
        /\ eworkers[w].at = "judging"
        /\ UNCHANGED <<shadow, results, suggestions, standard>>
    BY <1>8 DEF JudgeFails, EvaluationTyped, HoldRow
  <2>2. Standpoint(w)' BY <2>1 DEF Standpoint, Judges
  <2>3. (\A v \in ShadowWorkers : Standpoint(v))' /\ FencesDiffer'
    BY <2>1, <2>2, WorkerMoves DEF Judges
  <2>4. Inconclusive BY <2>1 DEF Inconclusive
  <2> QED BY <1>0, <2>3, <2>4, NothingConcluded
<1>9. ASSUME NEW w \in ShadowWorkers, NEW v \in Verdicts, FinishSucceeded(w, v)
      PROVE  EvaluationInv'
  BY <1>0, <1>6, <1>9, FinishStep DEF FinishSucceeded
<1>10. ASSUME NEW w \in ShadowWorkers, ReadStanding(w) PROVE EvaluationInv'
  <2>1. UNCHANGED <<shadow, results, suggestions, standard>> BY <1>10 DEF ReadStanding
  <2>2. CASE ReleaseHold(w) BY <1>6, <2>1, <2>2
  <2>3. CASE /\ eworkers' = [eworkers EXCEPT ![w].at = "suggesting",
                                 ![w].saw = Cardinality(Actionable(shadow[eworkers[w].run].key))]
             /\ results[eworkers[w].run].of = "near"
    <3>1. /\ \A v \in ShadowWorkers : v # w => eworkers'[v] = eworkers[v]
          /\ eworkers'[w].at = "suggesting" /\ eworkers'[w].run = eworkers[w].run
          /\ eworkers'[w].beat = eworkers[w].beat /\ eworkers[w].at = "callback"
      BY <1>10, <2>3 DEF ReadStanding, EvaluationTyped, HoldRow
    <3>2. Standpoint(w)' BY <2>1, <2>3, <3>1 DEF Standpoint, Judges
    <3>3. (\A v \in ShadowWorkers : Standpoint(v))' /\ FencesDiffer'
      BY <2>1, <3>1, <3>2, WorkerMoves
    <3>4. Inconclusive BY <2>1 DEF Inconclusive
    <3> QED BY <1>0, <3>3, <3>4, NothingConcluded
  <2> QED BY <1>10, <2>2, <2>3 DEF ReadStanding
<1>11. ASSUME NEW w \in ShadowWorkers, Suggest(w) PROVE EvaluationInv'
  <2>1. PICK r \in ShadowRuns : r = eworkers[w].run BY <1>11 DEF Suggest, Standpoint
  <2>2. /\ shadow[r].state = "succeeded" /\ results[r].of = "near" /\ \E old : Raise(r, old)
        /\ ReleaseHold(w) /\ UNCHANGED <<shadow, results, standard>>
    BY <1>11, <2>1 DEF Suggest, Standpoint
  <2>3. \A s \in suggestions' : s.run = r \/ \E q \in suggestions : s.run = q.run
    BY <2>2, RaiseTyped
  <2>4. SuggestionsAreGrounded' BY <2>2, <2>3 DEF SuggestionsAreGrounded
  <2>5. (\A v \in ShadowWorkers : Standpoint(v))' /\ FencesDiffer'
    BY <2>2, Released, WorkerMoves
  <2>6. StandardIsRun' /\ ResultsAreWhole' BY <2>2 DEF StandardIsRun, ResultsAreWhole
  <2> QED BY <1>0, <2>4, <2>5, <2>6
<1>12. ASSUME NEW w \in ShadowWorkers, LoseWorker(w) PROVE EvaluationInv'
  BY <1>6, <1>12 DEF LoseWorker
<1>13. ASSUME NEW w \in ShadowWorkers, RunOnce(w) \/ HandleFailure(w) PROVE EvaluationInv'
  BY <1>0, <1>13, TickStep, FailureStep
<1>14. ASSUME NEW o \in EvaluationOps, CheckNoActive(o) PROVE EvaluationInv'
  BY <1>1, <1>14 DEF CheckNoActive
<1>15. CASE PublishGolden \/ UNCHANGED evaluationVars
  BY <1>1, <1>15 DEF PublishGolden, evaluationVars
<1> QED BY <1>2, <1>3, <1>4, <1>5, <1>7, <1>8, <1>9, <1>10, <1>11, <1>12, <1>13, <1>14, <1>15
    DEF EvaluationNext

LEMMA EvaluationInvIsSafe == EvaluationInv => EvaluationSafe
<1> SUFFICES ASSUME EvaluationInv PROVE EvaluationSafe OBVIOUS
<1> USE DEF EvaluationInv
<1>1. EvaluationTypeOK BY DEF EvaluationTyped, EvaluationTypeOK, ShadowRow, ResultRow, HoldRow, SuggestionRow
<1>2. ASSUME NEW r \in ShadowRuns
      PROVE  LET holders == {w \in ShadowWorkers : eworkers[w].at \in {"judging", "failing"}
                                                  /\ eworkers[w].run = r /\ FenceMatches(w)} IN
             /\ Cardinality(holders) <= 1
             /\ \A w \in ShadowWorkers : eworkers[w].beat /\ eworkers[w].run = r => w \in holders
  <2> DEFINE holders == {w \in ShadowWorkers : eworkers[w].at \in {"judging", "failing"}
                                               /\ eworkers[w].run = r /\ FenceMatches(w)}
  <2>1. \A w \in ShadowWorkers : eworkers[w].beat /\ eworkers[w].run = r => w \in holders
    BY DEF Standpoint
  <2>2. \A v, w \in holders : v = w BY DEF FencesDiffer, Judges, FenceMatches
  <2> HIDE DEF holders
  <2>3. Cardinality(holders) <= 1
    <3>1. CASE holders = {} BY <3>1, FS_EmptySet
    <3>2. CASE holders # {}
      <4>1. PICK w : holders = {w} BY <2>2, <3>2
      <4> QED BY <4>1, FS_Singleton
    <3> QED BY <3>1, <3>2
  <2> QED BY <2>1, <2>3 DEF holders
<1> QED BY <1>1, <1>2 DEF EvaluationSafe, OneJudge

\* One worker judges a run, a lost worker leaves no results behind, and a
\* suggestion rests on a run that succeeded, for any number of runs, workers,
\* attempts and requests
THEOREM JudgedOnce == EvaluationSpec => []EvaluationSafe
<1>1. EvaluationSpec => []EvaluationInv BY EvaluationBegins, EvaluationStep, PTL DEF EvaluationSpec
<1> QED BY <1>1, EvaluationInvIsSafe, PTL

-----------------------------------------------------------------------------
(* Calibration windows and pairs *)

WindowRow == [status : {"none", "open", "closing", "closed"}, due : BOOLEAN, collected : Nat]
PairRow == [status : Votable \cup {"none", "voted", "expired", "deleted"},
            window : CalibrationWindows \cup {0},
            running : BOOLEAN, late : BOOLEAN, choice : AbChoices \cup {"none"}]

CalibrationTyped ==
    /\ window \in [CalibrationWindows -> WindowRow] /\ pair \in [AbPairs -> PairRow]
    /\ opening \in [CalibrationOps -> BOOLEAN]
    /\ ladder \in AbConfigs \cup {"none"} /\ default \in AbConfigs \cup {"none"}

\* A sampled pair has its window, and one that can be voted on, or was, has been
\* published: its generation will not touch it again; a pair has a choice once it
\* was voted on
PairsPublished ==
    \A p \in AbPairs : /\ pair[p].status # "none" => pair[p].window \in CalibrationWindows
                       /\ pair[p].running => pair[p].status \in {"pending", "expired"}
                       /\ pair[p].status \notin {"voted", "deleted"} => pair[p].choice = "none"

SameOpen == \A v, w \in CalibrationWindows : window[v].status = "open" /\ window[w].status = "open" => v = w

CalibrationInv ==
    /\ CalibrationTyped /\ PairsPublished /\ SameOpen
    /\ VotesCounted /\ ClosedTakesNoSample /\ DefaultIsEarned

LEMMA CalibrationBegins == CalibrationInit => CalibrationInv
<1> SUFFICES ASSUME CalibrationInit PROVE CalibrationInv OBVIOUS
<1> USE CalibrationAssumption DEF CalibrationInit
<1>1. CalibrationTyped
  <2>1. NoWindow \in WindowRow BY DEF NoWindow, WindowRow
  <2>2. NoPair \in PairRow BY DEF NoPair, PairRow
  <2> QED BY <2>1, <2>2 DEF CalibrationTyped
<1>2. /\ \A w \in CalibrationWindows : window[w].status = "none" /\ window[w].collected = 0
      /\ \A p \in AbPairs : pair[p].status = "none" /\ ~pair[p].running /\ pair[p].choice = "none"
  BY DEF NoWindow, NoPair
<1>3. \A w \in CalibrationWindows : VotesCast(w) = {} BY <1>2 DEF VotesCast
<1>4. VotesCounted BY <1>2, <1>3, FS_EmptySet DEF VotesCounted
<1>5. DefaultIsEarned BY DEF DefaultIsEarned
<1>6. PairsPublished /\ SameOpen /\ ClosedTakesNoSample
  BY <1>2 DEF PairsPublished, SameOpen, ClosedTakesNoSample, With
<1> QED BY <1>1, <1>4, <1>5, <1>6 DEF CalibrationInv

LEMMA VotedFinite ==
    /\ \A w \in CalibrationWindows : IsFiniteSet(VotesCast(w))
    /\ IsFiniteSet(Preferences)
BY FS_Subset, CalibrationAssumption DEF VotesCast, Preferences

\* A row that takes the place of another
LEMMA PairWritten ==
    ASSUME CalibrationTyped, NEW p \in AbPairs, NEW row \in PairRow
    PROVE  [pair EXCEPT ![p] = row] \in [AbPairs -> PairRow]
BY DEF CalibrationTyped
LEMMA WindowWritten ==
    ASSUME CalibrationTyped, NEW w, NEW row \in WindowRow
    PROVE  [window EXCEPT ![w] = row] \in [CalibrationWindows -> WindowRow]
BY DEF CalibrationTyped

LEMMA CalibrationTypeStep ==
    CalibrationTyped /\ PairsPublished /\ [CalibrationNext]_calibrationVars => CalibrationTyped'
<1> SUFFICES ASSUME CalibrationTyped, PairsPublished, [CalibrationNext]_calibrationVars
             PROVE  CalibrationTyped'
  OBVIOUS
<1>0. /\ \A p \in AbPairs : pair[p] \in PairRow
      /\ \A w \in CalibrationWindows : window[w] \in WindowRow
  BY DEF CalibrationTyped
<1>1. ASSUME NEW o \in CalibrationOps, NEW kind, NEW suggested, CheckOpen(o, kind, suggested)
      PROVE  CalibrationTyped'
  BY <1>1 DEF CheckOpen, CalibrationTyped
<1>2. ASSUME NEW o \in CalibrationOps, NEW w \in CalibrationWindows, OpenWindow(o, w)
      PROVE  CalibrationTyped'
  <2>1. [window[w] EXCEPT !.status = "open"] \in WindowRow BY <1>0 DEF WindowRow
  <2>2. window' \in [CalibrationWindows -> WindowRow]
    BY <1>2, <2>1, WindowWritten DEF OpenWindow, CalibrationTyped
  <2> QED BY <1>2, <2>2 DEF OpenWindow, CalibrationTyped
<1>3. ASSUME NEW w \in CalibrationWindows, CloseWindow(w) \/ DeadlinePasses(w)
      PROVE  CalibrationTyped'
  <2>1. /\ [window[w] EXCEPT !.status = "closing"] \in WindowRow
        /\ [window[w] EXCEPT !.due = TRUE] \in WindowRow
    BY <1>0 DEF WindowRow
  <2>2. \/ window' = [window EXCEPT ![w] = [window[w] EXCEPT !.status = "closing"]]
        \/ window' = [window EXCEPT ![w] = [window[w] EXCEPT !.due = TRUE]]
    BY <1>3 DEF CloseWindow, DeadlinePasses
  <2>3. window' \in [CalibrationWindows -> WindowRow]
    <3>1. ASSUME NEW row \in WindowRow, window' = [window EXCEPT ![w] = row]
          PROVE  window' \in [CalibrationWindows -> WindowRow]
      BY <3>1, WindowWritten
    <3> QED BY <2>1, <2>2, <3>1
  <2> QED BY <1>3, <2>3 DEF CloseWindow, DeadlinePasses, CalibrationTyped
<1>4. CASE CloseTick
  <2>1. PICK w : window' = [window EXCEPT ![w].status = "closed"] BY <1>4 DEF CloseTick
  <2>2. window' \in [CalibrationWindows -> WindowRow]
    <3>1. CASE w \in CalibrationWindows
      <4>1. [window[w] EXCEPT !.status = "closed"] \in WindowRow BY <1>0, <3>1 DEF WindowRow
      <4> QED BY <2>1, <4>1, WindowWritten
    <3>2. CASE w \notin CalibrationWindows BY <2>1, <3>2 DEF CalibrationTyped
    <3> QED BY <3>1, <3>2
  <2>3. \A p \in AbPairs : [pair[p] EXCEPT !.status = "expired"] \in PairRow BY <1>0 DEF PairRow
  <2>4. pair' \in [AbPairs -> PairRow] BY <1>0, <1>4, <2>3 DEF CloseTick
  <2> QED BY <1>4, <2>2, <2>4 DEF CloseTick, CalibrationTyped
<1>5. ASSUME NEW p \in AbPairs, NEW w \in CalibrationWindows, Sample(p, w) PROVE CalibrationTyped'
  <2>1. [NoPair EXCEPT !.status = "pending", !.window = w, !.running = TRUE] \in PairRow
    BY DEF NoPair, PairRow, Votable
  <2> QED BY <1>5, <2>1, PairWritten DEF Sample, CalibrationTyped
<1>6. ASSUME NEW p \in AbPairs, TtlPasses(p) \/ DiscardPair(p) \/ SweepPair(p) \/ DeletePair(p)
      PROVE  CalibrationTyped'
  <2>1. /\ [pair[p] EXCEPT !.late = TRUE] \in PairRow
        /\ [pair[p] EXCEPT !.running = FALSE, !.status = "expired"] \in PairRow
        /\ [pair[p] EXCEPT !.status = "expired"] \in PairRow
        /\ [pair[p] EXCEPT !.status = "deleted", !.running = FALSE, !.late = FALSE] \in PairRow
    BY <1>0 DEF PairRow
  <2>2. \/ pair' = [pair EXCEPT ![p] = [pair[p] EXCEPT !.late = TRUE]]
        \/ pair' = [pair EXCEPT ![p] = [pair[p] EXCEPT !.running = FALSE, !.status = "expired"]]
        \/ pair' = [pair EXCEPT ![p] = [pair[p] EXCEPT !.status = "expired"]]
        \/ pair' = [pair EXCEPT ![p] =
                       [pair[p] EXCEPT !.status = "deleted", !.running = FALSE, !.late = FALSE]]
    BY <1>6 DEF TtlPasses, DiscardPair, SweepPair, DeletePair
  <2>3. pair' \in [AbPairs -> PairRow] BY <2>1, <2>2, PairWritten
  <2> QED BY <1>6, <2>3 DEF TtlPasses, DiscardPair, SweepPair, DeletePair, CalibrationTyped
<1>7. ASSUME NEW p \in AbPairs, NEW two \in BOOLEAN, PublishPair(p, two) PROVE CalibrationTyped'
  <2>1. \A s \in {"open", "expired"} :
           [pair[p] EXCEPT !.running = FALSE, !.status = s] \in PairRow
    BY <1>0 DEF PairRow, Votable
  <2>2. \E s \in {"open", "expired"} :
           pair' = [pair EXCEPT ![p] = [pair[p] EXCEPT !.running = FALSE, !.status = s]]
    BY <1>7 DEF PublishPair
  <2>3. pair' \in [AbPairs -> PairRow] BY <2>1, <2>2, PairWritten
  <2> QED BY <1>7, <2>3 DEF PublishPair, CalibrationTyped
<1>8. ASSUME NEW p \in AbPairs, NEW c \in AbChoices, Vote(p, c) PROVE CalibrationTyped'
  <2>1. [pair[p] EXCEPT !.status = "voted", !.choice = c] \in PairRow BY <1>0 DEF PairRow
  <2>2. pair' = [pair EXCEPT ![p] = [pair[p] EXCEPT !.status = "voted", !.choice = c]]
    BY <1>8 DEF Vote
  <2>3. pair' \in [AbPairs -> PairRow] BY <2>1, <2>2, PairWritten
  <2>4. pair[p].window \in CalibrationWindows BY <1>8 DEF Vote, PairsPublished
  <2>5. [window[pair[p].window] EXCEPT !.collected = @ + 1] \in WindowRow
    BY <1>0, <2>4 DEF WindowRow
  <2>6. window' = [window EXCEPT ![pair[p].window] =
                      [window[pair[p].window] EXCEPT !.collected = @ + 1]]
    BY <1>8 DEF Vote
  <2>7. window' \in [CalibrationWindows -> WindowRow] BY <2>5, <2>6, WindowWritten
  <2>8. default' \in AbConfigs \cup {"none"} BY <1>8 DEF Vote, Adopted, CalibrationTyped
  <2> QED BY <1>8, <2>3, <2>7, <2>8 DEF Vote, CalibrationTyped
<1>9. ASSUME NEW c \in AbConfigs \cup {"none"}, RunSucceeds(c) PROVE CalibrationTyped'
  BY <1>9 DEF RunSucceeds, CalibrationTyped
<1>10. CASE UNCHANGED calibrationVars BY <1>10 DEF calibrationVars, CalibrationTyped
<1> QED BY <1>1, <1>2, <1>3, <1>4, <1>5, <1>6, <1>7, <1>8, <1>9, <1>10 DEF CalibrationNext

\* Votes stand: what any other step than a vote leaves of the votes and of the
\* counts of the windows
Standing ==
    /\ \A p \in AbPairs : /\ pair'[p].choice = pair[p].choice
                          /\ pair[p].choice # "none" => pair'[p].window = pair[p].window
    /\ \A w \in CalibrationWindows : window'[w].collected = window[w].collected
    /\ default' = default

LEMMA VotesStand ==
    ASSUME CalibrationTyped, VotesCounted, DefaultIsEarned, Standing
    PROVE  VotesCounted' /\ DefaultIsEarned'
<1>1. \A w \in CalibrationWindows : VotesCast(w)' = VotesCast(w) BY DEF Standing, VotesCast
<1>2. Preferences' = Preferences BY DEF Standing, Preferences
<1>3. VotesCounted' BY <1>1 DEF VotesCounted, Standing
<1>4. DefaultIsEarned' BY <1>2 DEF DefaultIsEarned, Standing
<1> QED BY <1>3, <1>4

LEMMA CalibrationStep == CalibrationInv /\ [CalibrationNext]_calibrationVars => CalibrationInv'
<1> SUFFICES ASSUME CalibrationInv, [CalibrationNext]_calibrationVars PROVE CalibrationInv' OBVIOUS
<1>0. CalibrationTyped' BY CalibrationTypeStep DEF CalibrationInv
<1>00. /\ \A p \in AbPairs : pair[p] \in PairRow /\ pair'[p] \in PairRow
       /\ \A w \in CalibrationWindows : window[w] \in WindowRow /\ window'[w] \in WindowRow
  BY <1>0 DEF CalibrationInv, CalibrationTyped
<1> USE DEF CalibrationInv, CalibrationTyped
<1>1. ASSUME NEW o \in CalibrationOps, NEW kind, NEW suggested, CheckOpen(o, kind, suggested)
      PROVE  CalibrationInv'
  <2>1. Standing BY <1>1 DEF CheckOpen, Standing
  <2>2. PairsPublished' /\ SameOpen' /\ ClosedTakesNoSample'
    BY <1>1 DEF CheckOpen, PairsPublished, SameOpen, ClosedTakesNoSample, With, PairsOf
  <2> QED BY <1>0, <2>1, <2>2, VotesStand
<1>2. ASSUME NEW o \in CalibrationOps, NEW w \in CalibrationWindows, OpenWindow(o, w)
      PROVE  CalibrationInv'
  <2>1. pair' = pair /\ default' = default BY <1>2 DEF OpenWindow
  <2>2. CASE SingleOpen
    <3>1. window' = [window EXCEPT ![w].status = "open"] BY <1>2, <2>2 DEF OpenWindow
    <3>2. Standing BY <2>1, <3>1 DEF Standing
    <3>3. \A v \in CalibrationWindows : v # w => window[v].status # "open"
      BY <2>2 DEF SingleOpen, With
    <3>4. SameOpen' BY <3>1, <3>3 DEF SameOpen
    <3>5. \A v \in CalibrationWindows : window'[v].status = "closed" => window[v].status = "closed"
      BY <3>1
    <3>6. ClosedTakesNoSample' BY <2>1, <3>5 DEF ClosedTakesNoSample, With, PairsOf
    <3>7. PairsPublished' BY <2>1 DEF PairsPublished
    <3> QED BY <1>0, <3>2, <3>4, <3>6, <3>7, VotesStand
  <2>3. CASE ~SingleOpen
    <3>1. window' = window BY <1>2, <2>3 DEF OpenWindow
    <3>2. Standing BY <2>1, <3>1 DEF Standing
    <3>3. PairsPublished' /\ SameOpen' /\ ClosedTakesNoSample'
      BY <2>1, <3>1 DEF PairsPublished, SameOpen, ClosedTakesNoSample, With, PairsOf
    <3> QED BY <1>0, <3>2, <3>3, VotesStand
  <2> QED BY <2>2, <2>3
<1>3. ASSUME NEW w \in CalibrationWindows, CloseWindow(w) \/ DeadlinePasses(w)
      PROVE  CalibrationInv'
  <2>1. pair' = pair /\ default' = default BY <1>3 DEF CloseWindow, DeadlinePasses
  <2>2. \A v \in CalibrationWindows :
           /\ window'[v].collected = window[v].collected
           /\ window'[v].status \in {"open", "closed"} => window'[v].status = window[v].status
    BY <1>3, <1>00 DEF CloseWindow, DeadlinePasses, WindowRow
  <2>3. Standing BY <2>1, <2>2 DEF Standing
  <2>4. PairsPublished' /\ SameOpen' BY <2>1, <2>2 DEF PairsPublished, SameOpen
  <2>5. ClosedTakesNoSample' BY <2>1, <2>2 DEF ClosedTakesNoSample, With, PairsOf
  <2> QED BY <1>0, <2>3, <2>4, <2>5, VotesStand
<1>4. CASE CloseTick
  <2>1. PICK w : /\ CanFinalize(w)
                 /\ window' = [window EXCEPT ![w].status = "closed"]
                 /\ pair' = [p \in AbPairs |-> IF window[w].due /\ p \in PairsOf(w, Votable)
                                  THEN [pair[p] EXCEPT !.status = "expired"] ELSE pair[p]]
                 /\ default' = default
    BY <1>4 DEF CloseTick
  <2>2. \A p \in AbPairs :
           /\ pair'[p].window = pair[p].window /\ pair'[p].running = pair[p].running
           /\ pair'[p].choice = pair[p].choice
           /\ pair'[p] = pair[p]
              \/ /\ pair[p].status \in Votable /\ pair'[p].status = "expired"
                 /\ pair[p].window = w
    BY <1>00, <2>1 DEF PairRow, PairsOf
  <2>3. \A v \in CalibrationWindows :
           /\ window'[v].collected = window[v].collected
           /\ v # w => window'[v] = window[v]
           /\ v = w => window'[v].status = "closed"
    BY <2>1 DEF WindowRow
  <2>4. Standing BY <2>1, <2>2, <2>3 DEF Standing, Votable
  <2>5. SameOpen' BY <2>3 DEF SameOpen
  <2>6. PairsPublished' BY <2>2 DEF PairsPublished, Votable
  <2>7. ASSUME NEW p \in AbPairs, NEW v \in CalibrationWindows, window'[v].status = "closed",
               pair'[p].status = "pending", pair'[p].window = v
        PROVE  FALSE
    <3>1. pair'[p] = pair[p] BY <2>2, <2>7
    <3>2. CASE v # w BY <2>3, <2>7, <3>1, <3>2 DEF ClosedTakesNoSample, With, PairsOf
    <3>3. CASE v = w
      <4>1. p \in PairsOf(w, Votable) BY <2>7, <3>1, <3>3 DEF PairsOf, Votable
      <4>2. pair'[p].status = "expired" BY <1>00, <2>1, <4>1 DEF CanFinalize, PairRow
      <4> QED BY <2>7, <4>2
    <3> QED BY <3>2, <3>3
  <2>8. ClosedTakesNoSample' BY <2>7 DEF ClosedTakesNoSample, With, PairsOf
  <2> QED BY <1>0, <2>4, <2>5, <2>6, <2>8, VotesStand
<1>5. ASSUME NEW p \in AbPairs, NEW w \in CalibrationWindows, Sample(p, w) PROVE CalibrationInv'
  <2>1. /\ pair[p].status = "none" /\ window[w].status = "open"
        /\ window' = window /\ default' = default
        /\ \A q \in AbPairs : q # p => pair'[q] = pair[q]
        /\ pair'[p].status = "pending" /\ pair'[p].window = w /\ pair'[p].choice = "none"
    BY <1>5, CalibrationAssumption DEF Sample, NoPair
  <2>2. Standing BY <2>1 DEF Standing, PairsPublished
  <2>3. PairsPublished' /\ SameOpen' BY <2>1 DEF PairsPublished, SameOpen
  <2>4. ClosedTakesNoSample' BY <2>1 DEF ClosedTakesNoSample, With, PairsOf
  <2> QED BY <1>0, <2>2, <2>3, <2>4, VotesStand
<1>6. ASSUME NEW p \in AbPairs,
             \/ TtlPasses(p) \/ DiscardPair(p) \/ SweepPair(p) \/ DeletePair(p)
             \/ \E two \in BOOLEAN : PublishPair(p, two)
      PROVE  CalibrationInv'
  <2>1. /\ window' = window /\ default' = default
        /\ \A q \in AbPairs : q # p => pair'[q] = pair[q]
        /\ pair'[p].window = pair[p].window /\ pair'[p].choice = pair[p].choice
        /\ pair[p].status # "none"
        /\ \/ pair'[p].status = "deleted"
           \/ pair[p].status # "voted" /\ pair'[p].status \in {"open", "expired", pair[p].status}
        /\ pair'[p].status \notin {"voted", "deleted"} => pair[p].status \notin {"voted", "deleted"}
        /\ pair'[p].running => pair'[p].status \in {"pending", "expired"}
    BY <1>6, <1>00
    DEF TtlPasses, DiscardPair, SweepPair, DeletePair, PublishPair, PairsPublished, PairRow, Votable
  <2>2. Standing BY <2>1 DEF Standing
  <2>3. PairsPublished' /\ SameOpen' BY <2>1 DEF PairsPublished, SameOpen
  <2>4. ClosedTakesNoSample' BY <2>1 DEF ClosedTakesNoSample, With, PairsOf
  <2> QED BY <1>0, <2>2, <2>3, <2>4, VotesStand
<1>8. ASSUME NEW p \in AbPairs, NEW c \in AbChoices, Vote(p, c) PROVE CalibrationInv'
  <2>0. PICK w \in CalibrationWindows : w = pair[p].window BY <1>8 DEF Vote, PairsPublished
  <2>1. /\ pair[p].status = "open" /\ ~pair[p].running /\ pair[p].choice = "none"
        /\ \A q \in AbPairs : q # p => pair'[q] = pair[q]
        /\ pair'[p].status = "voted" /\ pair'[p].window = w /\ ~pair'[p].running
        /\ pair'[p].choice = c /\ c # "none"
    BY <1>8, <1>00, <2>0 DEF Vote, PairRow, PairsPublished, AbChoices
  <2>2. /\ \A v \in CalibrationWindows : window'[v].status = window[v].status
        /\ \A v \in CalibrationWindows \ {w} : window'[v].collected = window[v].collected
        /\ window'[w].collected = window[w].collected + 1
    BY <1>8, <1>00, <2>0 DEF Vote, WindowRow
  <2>3. PairsPublished' /\ SameOpen' BY <2>1, <2>2 DEF PairsPublished, SameOpen
  <2>4. ClosedTakesNoSample' BY <2>1, <2>2 DEF ClosedTakesNoSample, With, PairsOf
  <2>5. VotesCounted'
    <3>1. \A v \in CalibrationWindows \ {w} : VotesCast(v)' = VotesCast(v)
      BY <2>1 DEF VotesCast
    <3>2. VotesCast(w)' = VotesCast(w) \cup {p} BY <2>1 DEF VotesCast
    <3>3. p \notin VotesCast(w) BY <2>1 DEF VotesCast
    <3>4. Cardinality(VotesCast(w) \cup {p}) = Cardinality(VotesCast(w)) + 1
      BY <2>1, <3>3, VotedFinite, FS_AddElement
    <3>5. window'[w].collected = Cardinality(VotesCast(w)')
      BY <2>2, <3>2, <3>4 DEF VotesCounted
    <3>6. ASSUME NEW v \in CalibrationWindows, v # w
          PROVE  window'[v].collected = Cardinality(VotesCast(v)')
      BY <2>2, <3>1, <3>6 DEF VotesCounted
    <3> QED BY <3>5, <3>6 DEF VotesCounted
  <2>6. DefaultIsEarned'
    <3>1. Preferences \subseteq Preferences' /\ EffectiveVotes(pair') \subseteq Preferences'
      BY <2>1 DEF Preferences, EffectiveVotes
    <3>2. IsFiniteSet(Preferences') BY FS_Subset, CalibrationAssumption DEF Preferences
    <3>3. /\ Cardinality(Preferences) <= Cardinality(Preferences')
          /\ Cardinality(EffectiveVotes(pair')) <= Cardinality(Preferences')
      BY <3>1, <3>2, FS_Subset
    <3>4. /\ Cardinality(Preferences) \in Nat /\ Cardinality(Preferences') \in Nat
          /\ Cardinality(EffectiveVotes(pair')) \in Nat
      BY <3>1, <3>2, VotedFinite, FS_Subset, FS_CardinalityType
    <3>5. default' = default \/ Cardinality(EffectiveVotes(pair')) >= MinVotes
      BY <1>8 DEF Vote, Adopted
    <3>6. default = "none" \/ Cardinality(Preferences) >= MinVotes BY DEF DefaultIsEarned
    <3> QED BY <3>3, <3>4, <3>5, <3>6, CalibrationAssumption DEF DefaultIsEarned
  <2> QED BY <1>0, <2>3, <2>4, <2>5, <2>6
<1>9. ASSUME NEW c \in AbConfigs \cup {"none"}, RunSucceeds(c) PROVE CalibrationInv'
  <2>1. Standing BY <1>9 DEF RunSucceeds, Standing
  <2>2. PairsPublished' /\ SameOpen' /\ ClosedTakesNoSample'
    BY <1>9 DEF RunSucceeds, PairsPublished, SameOpen, ClosedTakesNoSample, With, PairsOf
  <2> QED BY <1>0, <2>1, <2>2, VotesStand
<1>10. CASE UNCHANGED calibrationVars
  <2>1. Standing BY <1>10 DEF calibrationVars, Standing
  <2>2. PairsPublished' /\ SameOpen' /\ ClosedTakesNoSample'
    BY <1>10 DEF calibrationVars, PairsPublished, SameOpen, ClosedTakesNoSample, With, PairsOf
  <2> QED BY <1>0, <2>1, <2>2, VotesStand
<1> QED BY <1>1, <1>2, <1>3, <1>4, <1>5, <1>6, <1>8, <1>9, <1>10 DEF CalibrationNext

LEMMA CalibrationInvIsSafe == CalibrationInv => CalibrationSafe
<1> SUFFICES ASSUME CalibrationInv PROVE CalibrationSafe OBVIOUS
<1> USE DEF CalibrationInv
<1>1. OneOpenWindow
  <2>1. CASE With("open") = {} BY <2>1, FS_EmptySet DEF OneOpenWindow
  <2>2. CASE With("open") # {}
    <3>1. PICK w : With("open") = {w} BY <2>2 DEF SameOpen, With
    <3> QED BY <3>1, FS_Singleton DEF OneOpenWindow
  <2> QED BY <2>1, <2>2
<1>2. CalibrationTypeOK
  <2>1. ASSUME NEW w \in CalibrationWindows PROVE window[w].collected \in 0..Cardinality(AbPairs)
    <3>1. Cardinality(VotesCast(w)) <= Cardinality(AbPairs)
      BY FS_Subset, CalibrationAssumption DEF VotesCast
    <3>2. Cardinality(AbPairs) \in Nat BY FS_CardinalityType, CalibrationAssumption
    <3>3. Cardinality(VotesCast(w)) \in Nat BY VotedFinite, FS_CardinalityType
    <3> QED BY <3>1, <3>2, <3>3 DEF VotesCounted
  <2>2. window \in [CalibrationWindows ->
         [status : {"none", "open", "closing", "closed"}, due : BOOLEAN,
          collected : 0..Cardinality(AbPairs)]]
    BY <2>1 DEF CalibrationTyped, WindowRow
  <2> QED BY <2>2 DEF CalibrationTyped, CalibrationTypeOK, PairRow
<1> QED BY <1>1, <1>2 DEF CalibrationSafe

\* One window is open at most, every vote counts once in its window, no question
\* is sampled into a closed one, and the default is earned, for any number of
\* operators, windows and questions
THEOREM EarnedDefault == CalibrationSpec => []CalibrationSafe
<1>1. CalibrationSpec => []CalibrationInv
  BY CalibrationBegins, CalibrationStep, PTL DEF CalibrationSpec
<1> QED BY <1>1, CalibrationInvIsSafe, PTL

-----------------------------------------------------------------------------
(* The deletion of an account *)

\* An open finalisation is of a due account whose package is recorded and whose
\* documents are gone; the cleanups it completes are of objects that are gone
FinalisationInv ==
    /\ finalizing => status = "due" /\ archive.recorded /\ DocumentsGone
    /\ ~finalizing => swept = {}
    /\ swept \subseteq queue /\ swept \cap objects = {}

AccountInv == AccountsSafe /\ FinalisationInv

LEMMA AccountBegins == AccountInit => AccountInv
<1> SUFFICES ASSUME AccountInit PROVE AccountInv OBVIOUS
<1>1. docs \in [PersonalDocs -> {"active", "pending_delete", "deleted"}] BY DEF AccountInit
<1>2. archive \in
        [recorded : BOOLEAN, file : {"none", "recorded", "other", "new"}, whole : BOOLEAN]
  BY DEF AccountInit, NoArchive
<1>3. /\ status = "active" /\ avatar = NoAvatar /\ finalizing = FALSE /\ losses = 0
      /\ objects \cup uploads \cup queue \cup orphans \cup swept = {}
  BY DEF AccountInit
<1>5. AccountTypeOK
  <2>1. objects \cup uploads \cup queue \cup orphans \cup swept \subseteq Avatars BY <1>3
  <2>2. losses \in 0..ArchiveLosses
    <3>1. losses = 0 BY DEF AccountInit
    <3> QED BY <3>1, AccountAssumption
  <2>4. finalizing \in BOOLEAN BY Zenon, <1>3
  <2>3. /\ status \in {"active", "pending", "due", "deleted"}
        /\ avatar \in Avatars \cup {NoAvatar}
    BY <1>3
  <2> QED BY Zenon, <1>1, <1>2, <2>1, <2>2, <2>3, <2>4 DEF AccountTypeOK
<1>4. AvatarsAccounted /\ FinalisationInv BY DEF AccountInit, AvatarsAccounted, FinalisationInv
<1> QED BY <1>5, <1>4 DEF AccountInv, AccountsSafe

LEMMA AccountTypeStep == AccountInv /\ [AccountNext]_accountVars => AccountTypeOK'
<1> SUFFICES ASSUME AccountInv, [AccountNext]_accountVars PROVE AccountTypeOK' OBVIOUS
<1> USE AccountAssumption DEF AccountInv, AccountsSafe, AccountTypeOK, NoAvatar
<1>1. ASSUME NEW k \in Avatars,
             PutAvatar(k) \/ CommitAvatar(k) \/ DiscardUpload(k) \/ CrashUpload(k) \/ CleanObject(k)
      PROVE  AccountTypeOK'
  BY <1>1 DEF PutAvatar, CommitAvatar, DiscardUpload, CrashUpload, CleanObject, Queued
<1>2. ASSUME NEW d \in PersonalDocs, DeleteOwnDocument(d) \/ CompleteDocument(d)
      PROVE  AccountTypeOK'
  BY <1>2 DEF DeleteOwnDocument, CompleteDocument
<1>3. CASE RequestDeletion \/ RetentionElapses
  BY <1>3 DEF RequestDeletion, RetentionElapses
<1>4. AvatarStored \in BOOLEAN BY DEF AvatarStored
<1>5. CASE BuildArchive
  <2>1. archive' \in
          [recorded : BOOLEAN, file : {"none", "recorded", "other", "new"}, whole : BOOLEAN]
    <3>1. [recorded |-> TRUE, file |-> "recorded", whole |-> AvatarStored] \in
            [recorded : BOOLEAN, file : {"none", "recorded", "other", "new"}, whole : BOOLEAN]
      BY <1>4
    <3>2. [archive EXCEPT !.file = "other"] \in
            [recorded : BOOLEAN, file : {"none", "recorded", "other", "new"}, whole : BOOLEAN]
      OBVIOUS
    <3> QED BY <1>5, <3>1, <3>2 DEF BuildArchive
  <2> QED BY <1>5, <2>1 DEF BuildArchive
<1>6. CASE LoseArchive BY <1>6 DEF LoseArchive
<1>7. CASE Finalize BY <1>4, <1>7 DEF Finalize, Rebuilt
<1>8. CASE FinalizeBlocked BY <1>4, <1>8 DEF FinalizeBlocked, Rebuilt
<1>9. CASE FinalizeFails \/ Tombstone
  <2>1. CASE FinalizeFails BY <2>1 DEF FinalizeFails
  <2>2. CASE Tombstone
    <3>1. archive' \in
            [recorded : BOOLEAN, file : {"none", "recorded", "other", "new"}, whole : BOOLEAN]
      BY <2>2 DEF Tombstone
    <3> QED BY <2>2, <3>1 DEF Tombstone
  <2> QED BY <1>9, <2>1, <2>2
<1>10. CASE UNCHANGED accountVars BY <1>10 DEF accountVars
<1> QED BY <1>1, <1>2, <1>3, <1>5, <1>6, <1>7, <1>8, <1>9, <1>10 DEF AccountNext

LEMMA AccountStep == AccountInv /\ [AccountNext]_accountVars => AccountInv'
<1> SUFFICES ASSUME AccountInv, [AccountNext]_accountVars PROVE AccountInv' OBVIOUS
<1>1. AccountTypeOK' BY AccountTypeStep
<1>2. AvatarsAccounted' /\ FinalisationInv'
  <2> USE AccountAssumption DEF AccountInv, AccountsSafe, AccountTypeOK, NoAvatar,
          AvatarsAccounted, FinalisationInv, DocumentsGone
  <2>1. ASSUME NEW k \in Avatars, PutAvatar(k) \/ CommitAvatar(k)
        PROVE  AvatarsAccounted' /\ FinalisationInv'
    BY <2>1 DEF PutAvatar, CommitAvatar, Queued, UserLocked
  <2>2. ASSUME NEW k \in Avatars, DiscardUpload(k) \/ CrashUpload(k) \/ CleanObject(k)
        PROVE  AvatarsAccounted' /\ FinalisationInv'
    <3>1. CASE DiscardUpload(k) BY <3>1 DEF DiscardUpload
    <3>2. CASE CrashUpload(k) BY <3>2 DEF CrashUpload
    <3>3. CASE CleanObject(k) BY <3>3 DEF CleanObject
    <3> QED BY <2>2, <3>1, <3>2, <3>3
  <2>3. ASSUME NEW d \in PersonalDocs, DeleteOwnDocument(d) \/ CompleteDocument(d)
        PROVE  AvatarsAccounted' /\ FinalisationInv'
    BY <2>3 DEF DeleteOwnDocument, CompleteDocument
  <2>4. CASE RequestDeletion \/ RetentionElapses \/ BuildArchive \/ LoseArchive
    BY <2>4 DEF RequestDeletion, RetentionElapses, BuildArchive, LoseArchive
  <2>5. CASE Finalize BY <2>5 DEF Finalize, Rebuilt
  <2>6. CASE FinalizeBlocked BY <2>6 DEF FinalizeBlocked, Rebuilt
  <2>7. CASE FinalizeFails BY <2>7 DEF FinalizeFails
  <2>8. CASE Tombstone BY <2>8 DEF Tombstone
  <2>9. CASE UNCHANGED accountVars BY <2>9 DEF accountVars
  <2> QED BY <2>1, <2>2, <2>3, <2>4, <2>5, <2>6, <2>7, <2>8, <2>9 DEF AccountNext
<1> QED BY <1>1, <1>2 DEF AccountInv, AccountsSafe

\* An avatar in the store is known to a row or belongs to an upload, however
\* many uploads crash and finalisations fail, for any avatars and documents
THEOREM NoStrayAvatar == AccountSpec => []AccountsSafe
<1>1. AccountSpec => []AccountInv BY AccountBegins, AccountStep, PTL DEF AccountSpec
<1> QED BY <1>1, PTL DEF AccountInv

LEMMA TombstoneStep ==
    ASSUME AccountInv, [AccountNext]_accountVars, status # "deleted", status' = "deleted"
    PROVE  /\ status = "due"
           /\ archive'.recorded /\ archive'.file = "recorded"
           /\ DocumentsGone
           /\ objects' \subseteq uploads \cup orphans \cup queue'
<1> USE DEF AccountInv, AccountsSafe, AccountTypeOK
<1>1. Tombstone
  BY DEF AccountNext, accountVars, PutAvatar, CommitAvatar, DiscardUpload, CrashUpload, CleanObject,
     DeleteOwnDocument, CompleteDocument, RequestDeletion, RetentionElapses, BuildArchive,
     LoseArchive, Finalize, FinalizeBlocked, FinalizeFails
<1>2. /\ status = "due" /\ archive.recorded /\ DocumentsGone
      /\ archive'.recorded /\ archive'.file = "recorded"
  BY <1>1 DEF Tombstone, FinalisationInv, Verified
<1>3. objects' \subseteq uploads \cup orphans \cup queue'
  BY <1>1 DEF Tombstone, FinalisationInv, AvatarsAccounted
<1> QED BY <1>2, <1>3

\* The account becomes a tombstone last: due, with its package on disk as it was
\* recorded, without documents, and without an avatar that nothing refers to
THEOREM LastOfAll == AccountSpec => TombstoneIsLast
<1>1. AccountSpec => []AccountInv BY AccountBegins, AccountStep, PTL DEF AccountSpec
<1>2. AccountInv /\ [AccountNext]_accountVars =>
        [status # "deleted" /\ status' = "deleted" =>
            /\ status = "due"
            /\ archive'.recorded /\ archive'.file = "recorded"
            /\ DocumentsGone
            /\ objects' \subseteq uploads \cup orphans \cup queue']_accountVars
  BY TombstoneStep
<1> QED BY <1>1, <1>2, PTL DEF AccountSpec, TombstoneIsLast

-----------------------------------------------------------------------------
(* Side by side *)

\* A step of the whole is a step of the part that moves, or leaves it alone
LEMMA PartSteps ==
    [UpkeepNext]_allVars =>
        /\ [Next]_vars /\ [BackupNext]_backupVars /\ [RestoreNext]_restoreVars
        /\ [EvaluationNext]_evaluationVars /\ [CalibrationNext]_calibrationVars
        /\ [AccountNext]_accountVars
BY DEF UpkeepNext, allVars, vars, backupVars, restoreVars, evaluationVars, calibrationVars,
   accountVars

\* What the run checks of the circuit and the backups, for every instance: they
\* keep their promises whatever part moves
THEOREM Upkeep == UpkeepSpec => [](ProbeExclusive /\ BackupSafe) /\ ProbeDecides
<1>1. UpkeepSpec => Spec /\ BackupInit /\ [][BackupNext]_backupVars
  BY PartSteps, PTL DEF UpkeepSpec, UpkeepInit, Spec
<1>2. BackupInit /\ [][BackupNext]_backupVars => []BackupSafe
  BY BackupBegins, BackupStep, InvIsSafe, PTL
<1> QED BY <1>1, <1>2, OneProbe, OwnProbe, PTL

\* What the run checks of the other parts, for every instance: reads stay closed until
\* a restore beside which no other was accepted is over and retention keeps the newest
\* sets; one worker judges a run; one calibration window is open and the default is
\* earned; every avatar object has a row that knows it
THEOREM Kept == UpkeepSpec => []UpkeepKept
<1> DEFINE Inv == SerialInv /\ EvaluationInv /\ CalibrationInv /\ AccountInv
<1>1. UpkeepInit => Inv
  BY SerialBegins, EvaluationBegins, CalibrationBegins, AccountBegins DEF UpkeepInit
<1>2. Inv /\ [UpkeepNext]_allVars => Inv'
  BY PartSteps, SerialStep, EvaluationStep, CalibrationStep, AccountStep
<1>3. Inv => UpkeepKept
  BY SerialIsSafe, EvaluationInvIsSafe, CalibrationInvIsSafe DEF AccountInv, UpkeepKept
<1> HIDE DEF Inv
<1> QED BY <1>1, <1>2, <1>3, PTL DEF UpkeepSpec

\* An account becomes a tombstone last of all, whatever part moves
THEOREM Tombstones == UpkeepSpec => TombstoneIsLast
<1>1. UpkeepInit => AccountInv BY AccountBegins DEF UpkeepInit
<1>2. AccountInv /\ [UpkeepNext]_allVars => AccountInv' BY PartSteps, AccountStep
<1>3. UpkeepSpec => []AccountInv /\ [][AccountNext]_accountVars
  BY <1>1, <1>2, PartSteps, PTL DEF UpkeepSpec
<1>4. AccountInv /\ [AccountNext]_accountVars =>
        [status # "deleted" /\ status' = "deleted" =>
            /\ status = "due"
            /\ archive'.recorded /\ archive'.file = "recorded"
            /\ DocumentsGone
            /\ objects' \subseteq uploads \cup orphans \cup queue']_accountVars
  BY TombstoneStep
<1> QED BY <1>3, <1>4, PTL DEF TombstoneIsLast

=============================================================================
