------------------------------- MODULE Backup -------------------------------
(***************************************************************************)
(* Backups: the schedule windows, the creation of a backup set, its        *)
(* execution under the write gate and the recovery of an execution that    *)
(* died (src/app/backup/worker.py, ops_service.py, service.py,             *)
(* write_gate.py).  A process is a resident worker or an API process that  *)
(* serves the manual command; every step below is one database             *)
(* transaction or one provider call.  Retention and restore are in         *)
(* Restore.tla.                                                            *)
(***************************************************************************)
EXTENDS Naturals, FiniteSets, FiniteSetsExt

CONSTANTS BackupProcs,       \* processes that schedule, create and execute
          BackupSets,        \* identities of backup sets, numbers
          Windows,           \* bound: scheduled instants that fall due
          ApiWriters,        \* API processes that admit business writes
          BackupLosses,      \* bound: processes that die or outlive their lease
          ManualBackups,     \* bound: manual create commands
          BackupFaults,      \* bound: provider failures and drain timeouts
          StoredObjects      \* business objects the instance holds

NoProc == "none"

ASSUME BackupAssumption ==
  /\ BackupSets \subseteq Nat \ {0} /\ NoProc \notin BackupProcs
  /\ Windows \in Nat /\ BackupLosses \in Nat /\ ManualBackups \in Nat
  /\ BackupFaults \in Nat

VARIABLES due,       \* windows that have fallen due
          occ,       \* the occurrence row of each window
          lastWindow,\* backup_policy.last_scheduled_for_utc
          bset,      \* backup_sets with their components
          manifest,  \* backup_objects: the set that recorded each key
          wgate,     \* backup_write_gate
          bproc,     \* what each process is doing
          execLease, \* holder of the lease on backup.execute
          overrun,   \* history: sets an execution of which outlived its lease
          apiOpen,   \* each API process's cached view: the gate is open
          write,     \* each API process's write in flight: let in behind a closed gate?
          bleft      \* losses, manual commands and faults left

scheduleVars == <<due, occ, lastWindow>>
apiVars      == <<apiOpen, write>>
backupVars   == <<scheduleVars, bset, manifest, wgate, bproc, execLease, overrun,
                  apiVars, bleft>>

NoSet == 0
Kinds == {"postgres_snapshot", "object_store_snapshot", "object_manifest"}
ExecutingPcs == {"gate", "drain", "close", "list", "copying", "failed", "release"}
BackupPcs == {"idle", "claimed", "create", "created"} \cup ExecutingPcs
Outcomes == {"none", "claimed", "executed", "skipped_missed",
             "skipped_active_backup"}

BackupTypeOK ==
  /\ due \in 0..Windows
  /\ occ \in [1..Windows -> Outcomes]
  /\ lastWindow \in 0..Windows
  /\ bset \in [BackupSets ->
       [status : {"none", "creating", "complete", "failed"},
        done : SUBSET Kinds, artifact : BOOLEAN, window : 0..Windows, cleanup : BOOLEAN]]
  /\ manifest \in [StoredObjects -> BackupSets \cup {NoSet}]
  /\ wgate \in [state : {"open", "closing", "closed"}, set : BackupSets \cup {NoSet}]
  /\ bproc \in [BackupProcs ->
       [pc : BackupPcs, window : 0..Windows, set : BackupSets \cup {NoSet},
        todo : SUBSET Kinds]]
  /\ execLease \in BackupProcs \cup {NoProc}
  /\ overrun \subseteq BackupSets
  /\ apiOpen \in [ApiWriters -> BOOLEAN]
  /\ write \in [ApiWriters -> [busy : BOOLEAN, behind : BackupSets \cup {NoSet}]]
  /\ bleft \in [losses : 0..BackupLosses, manual : 0..ManualBackups,
               faults : 0..BackupFaults]

IdleProc == [pc |-> "idle", window |-> 0, set |-> NoSet, todo |-> {}]
NoWrite == [busy |-> FALSE, behind |-> NoSet]

BackupInit ==
  /\ due = 0
  /\ occ = [n \in 1..Windows |-> "none"]
  /\ lastWindow = 0
  /\ bset = [b \in BackupSets |->
       [status |-> "none", done |-> {}, artifact |-> FALSE, window |-> 0, cleanup |-> FALSE]]
  /\ manifest = [o \in StoredObjects |-> NoSet]
  /\ wgate = [state |-> "open", set |-> NoSet]
  /\ bproc = [p \in BackupProcs |-> IdleProc]
  /\ execLease = NoProc
  /\ overrun = {}
  /\ apiOpen = [a \in ApiWriters |-> TRUE]
  /\ write = [a \in ApiWriters |-> NoWrite]
  /\ bleft = [losses |-> BackupLosses, manual |-> ManualBackups, faults |-> BackupFaults]

Step(p, pc) == bproc' = [bproc EXCEPT ![p].pc = pc]
Rest(p) == bproc' = [bproc EXCEPT ![p] = IdleProc]

-----------------------------------------------------------------------------
(* Schedule. *)

\* A scheduled instant passes.
WindowDue ==
  /\ due < Windows
  /\ due' = due + 1
  /\ UNCHANGED <<occ, lastWindow, bset, manifest, wgate, bproc, execLease, overrun,
                 apiVars, bleft>>

MissedClaims(n) ==
  [m \in 1..Windows |->
     IF m \in (lastWindow + 1)..(n - 1) /\ occ[m] = "none"
     THEN "skipped_missed" ELSE occ[m]]

\* A tick records every due window but the last one as missed and claims the
\* last one: the unique scheduled_for_utc leaves it to one process.  While a
\* restore keeps the reads closed (Restore.tla) it does nothing.
ClaimLatestWindow(p) ==
  /\ bproc[p].pc = "idle" /\ lastWindow < due
  /\ LET missed == MissedClaims(due) IN
     IF occ[due] = "none"
     THEN /\ occ' = [missed EXCEPT ![due] = "claimed"]
          /\ bproc' = [bproc EXCEPT ![p] = [IdleProc EXCEPT !.pc = "claimed", !.window = due]]
     ELSE /\ occ' = missed
          /\ UNCHANGED bproc
  /\ UNCHANGED <<due, lastWindow, bset, manifest, wgate, execLease, overrun, apiVars, bleft>>

\* The guarded manual command of an operator.
CreateBackup(p) ==
  /\ bproc[p].pc = "idle" /\ bleft.manual > 0
  /\ bleft' = [bleft EXCEPT !.manual = @ - 1]
  /\ Step(p, "claimed")
  /\ UNCHANGED <<scheduleVars, bset, manifest, wgate, execLease, overrun, apiVars>>

FinalizeOccurrence(n, outcome) ==
  IF n = 0 THEN UNCHANGED <<occ, lastWindow>>
  ELSE occ' = [occ EXCEPT ![n] = outcome] /\ lastWindow' = n

ReleaseClaim(n) ==
  occ' = IF n = 0 THEN occ ELSE [occ EXCEPT ![n] = "none"]

Creating == {b \in BackupSets : bset[b].status = "creating"}

\* _execute_create_backup, its checks: a restore, a backup in progress, a gate
\* the process sees shut.  A restore may be active at any time, and the gate is
\* seen through the process's own reader, stale or blind.  Nothing keeps what the
\* checks saw until the insert.
CheckCreate(p) ==
  /\ bproc[p].pc = "claimed"
  /\ \/ ReleaseClaim(bproc[p].window) /\ Rest(p) /\ UNCHANGED lastWindow
     \/ FinalizeOccurrence(bproc[p].window, "skipped_active_backup") /\ Rest(p)
     \/ Creating = {} /\ Step(p, "create") /\ UNCHANGED <<occ, lastWindow>>
  /\ UNCHANGED <<due, bset, manifest, wgate, execLease, overrun, apiVars, bleft>>

CreateBackupSet(p) ==
  /\ bproc[p].pc = "create"
  /\ \E b \in BackupSets :
       /\ bset[b].status = "none"
       /\ \A c \in BackupSets : bset[c].status = "none" => b <= c
       /\ bset' = [bset EXCEPT ![b].status = "creating",
                               ![b].window = bproc[p].window]
  /\ Step(p, "created")
  /\ UNCHANGED <<scheduleVars, manifest, wgate, execLease, overrun, apiVars, bleft>>

FinishCreate(p) ==
  /\ bproc[p].pc = "created"
  /\ FinalizeOccurrence(bproc[p].window, "executed")
  /\ Rest(p)
  /\ UNCHANGED <<due, bset, manifest, wgate, execLease, overrun, apiVars, bleft>>

-----------------------------------------------------------------------------
(* Execution. *)

\* _execute_task goes through the sets in the order they were created, and the
\* lease, which nobody gives back, keeps the younger ones out of that tick.
ExecuteBackup(p, b) ==
  /\ bproc[p].pc = "idle" /\ execLease = NoProc
  /\ b \in Creating /\ \A c \in Creating : b <= c
  /\ execLease' = p
  /\ bproc' = [bproc EXCEPT ![p] = [IdleProc EXCEPT !.pc = "gate", !.set = b]]
  /\ UNCHANGED <<scheduleVars, bset, manifest, wgate, overrun, apiVars, bleft>>

\* _execute_backup takes the open gate by a guarded update, adopts this set's
\* own, or leaves the gate of another set alone.
TakeGate(p) ==
  LET b == bproc[p].set IN
  /\ bproc[p].pc = "gate"
  /\ CASE wgate.state = "open" ->
            wgate' = [state |-> "closing", set |-> b] /\ Step(p, "drain")
       [] wgate.state # "open" /\ wgate.set = b -> UNCHANGED wgate /\ Step(p, "drain")
       [] OTHER -> UNCHANGED wgate /\ Rest(p)
  /\ UNCHANGED <<scheduleVars, bset, manifest, execLease, overrun, apiVars, bleft>>

\* Mutant: the settle delay is left out and only the worker's own counter waits.
MutantSettled(b) == TRUE

\* What the settle delay stands for: since the gate began to close for this set,
\* every view that was read as open has expired.  The writes in flight are those
\* of other processes, which the counter of the worker's own does not see.
Settled(b) == wgate.set = b => \A a \in ApiWriters : ~apiOpen[a]

\* _await_write_drain.
AwaitWriteDrain(p) ==
  /\ bproc[p].pc = "drain" /\ Settled(bproc[p].set)
  /\ Step(p, "close")
  /\ UNCHANGED <<scheduleVars, bset, manifest, wgate, execLease, overrun, apiVars,
                 bleft>>

CloseGate(p) ==
  /\ bproc[p].pc = "close"
  /\ wgate' = IF wgate = [state |-> "closing", set |-> bproc[p].set]
              THEN [wgate EXCEPT !.state = "closed"] ELSE wgate
  /\ Step(p, "list")
  /\ UNCHANGED <<scheduleVars, bset, manifest, execLease, overrun, apiVars, bleft>>

\* _run_snapshot_sequence lists the components that succeeded, once; the others
\* are copied in their order.
ListComponents(p) ==
  LET left == Kinds \ bset[bproc[p].set].done IN
  /\ bproc[p].pc = "list"
  /\ bproc' = [bproc EXCEPT ![p].pc = IF left = {} THEN "release" ELSE "copying",
                            ![p].todo = left]
  /\ UNCHANGED <<scheduleVars, bset, manifest, wgate, execLease, overrun, apiVars,
                 bleft>>

FirstKind(kinds) ==
  CASE "postgres_snapshot" \in kinds -> "postgres_snapshot"
    [] "object_store_snapshot" \in kinds -> "object_store_snapshot"
    [] OTHER -> "object_manifest"

Copying(p) == FirstKind(bproc[p].todo)

\* A component succeeds, and the set with its last one, whatever its status was.
Succeeded(set, kind) ==
  [set EXCEPT !.done = @ \cup {kind}, !.artifact = TRUE,
              !.status = IF set.done \cup {kind} = Kinds THEN "complete" ELSE @]

NextComponent(p) ==
  LET left == bproc[p].todo \ {Copying(p)} IN
  bproc' = [bproc EXCEPT ![p].pc = IF left = {} THEN "release" ELSE "copying",
                         ![p].todo = left]

\* complete_snapshot_component, after the provider's copy.
CompleteComponent(p) ==
  /\ bproc[p].pc = "copying" /\ Copying(p) # "object_manifest"
  /\ bset' = [bset EXCEPT ![bproc[p].set] = Succeeded(@, Copying(p))]
  /\ NextComponent(p)
  /\ UNCHANGED <<scheduleVars, manifest, wgate, execLease, overrun, apiVars, bleft>>

\* The primary key of backup_objects is the object key alone.
KeysFree == \A o \in StoredObjects : manifest[o] = NoSet

\* record_manifest_objects inserts a row for every object the instance holds.
RecordManifestObjects(p) ==
  /\ bproc[p].pc = "copying" /\ Copying(p) = "object_manifest"
  /\ KeysFree
  /\ manifest' = [o \in StoredObjects |-> bproc[p].set]
  /\ bset' = [bset EXCEPT ![bproc[p].set] = Succeeded(@, "object_manifest")]
  /\ NextComponent(p)
  /\ UNCHANGED <<scheduleVars, wgate, execLease, overrun, apiVars, bleft>>

ManifestConflict(p) ==
  bproc[p].pc = "copying" /\ Copying(p) = "object_manifest" /\ ~KeysFree

\* The component a failure is charged to: a drain that times out charges the
\* first one, an adopted set's too.
FailedKind(p) ==
  CASE bproc[p].pc = "drain" -> "postgres_snapshot"
    [] bproc[p].pc = "copying" -> Copying(p)
    [] OTHER -> IF bset[bproc[p].set].done = Kinds THEN "postgres_snapshot"
                ELSE FirstKind(Kinds \ bset[bproc[p].set].done)

\* The drain times out, a provider call fails or the manifest rows conflict:
\* fail_component, which asks neither for the status of the set nor for the lease.
FailComponent(p) ==
  LET b == bproc[p].set IN
  /\ bproc[p].pc \in {"drain", "close", "list", "copying"}
  /\ \/ ManifestConflict(p) /\ UNCHANGED bleft
     \/ bleft.faults > 0 /\ bleft' = [bleft EXCEPT !.faults = @ - 1]
  /\ bset' = [bset EXCEPT ![b].status = "failed", ![b].done = @ \ {FailedKind(p)}]
  /\ Step(p, "failed")
  /\ UNCHANGED <<scheduleVars, manifest, wgate, execLease, overrun, apiVars>>

\* A component that left an artifact leaves a cleanup target.
EnsureCleanupTarget(p) ==
  /\ bproc[p].pc = "failed"
  /\ bset' = [bset EXCEPT ![bproc[p].set].cleanup = @ \/ bset[bproc[p].set].artifact]
  /\ Step(p, "release")
  /\ UNCHANGED <<scheduleVars, manifest, wgate, execLease, overrun, apiVars, bleft>>

GateOpen == [state |-> "open", set |-> NoSet]

\* _release_gate, in the finally of _execute_backup, whoever closed the gate.
ReleaseGate(p) ==
  /\ bproc[p].pc = "release"
  /\ wgate' = IF wgate.set = bproc[p].set THEN GateOpen ELSE wgate
  /\ Rest(p)
  /\ UNCHANGED <<scheduleVars, bset, manifest, execLease, overrun, apiVars, bleft>>

\* Mutant: only a gate whose set is gone counts as stale.
MutantStaleGate == wgate.state # "open" /\ bset[wgate.set].status = "none"

StaleGate ==
  /\ wgate.state # "open"
  /\ bset[wgate.set].status # "creating"

\* _recover_stale_gate, first thing of every run_once.
RecoverStaleGate(p) ==
  /\ bproc[p].pc = "idle" /\ StaleGate
  /\ wgate' = GateOpen
  /\ UNCHANGED <<scheduleVars, bset, manifest, bproc, execLease, overrun, apiVars,
                 bleft>>

-----------------------------------------------------------------------------
(* The processes around. *)

Executing(p) == bproc[p].pc \in ExecutingPcs

\* The lease is neither given back nor renewed: it runs out, after the execution
\* or the process that held it...
LeaseEnds(p) ==
  /\ execLease = p /\ ~Executing(p)
  /\ execLease' = NoProc
  /\ UNCHANGED <<scheduleVars, bset, manifest, wgate, bproc, overrun, apiVars, bleft>>

\* ... or under it: fenced_transaction looks at the lease before and after the
\* whole execution, and what the execution does meanwhile it does all the same.
LeaseLapses(p) ==
  /\ execLease = p /\ Executing(p) /\ bleft.losses > 0
  /\ bleft' = [bleft EXCEPT !.losses = @ - 1]
  /\ execLease' = NoProc
  /\ overrun' = overrun \cup {bproc[p].set}
  /\ UNCHANGED <<scheduleVars, bset, manifest, wgate, bproc, apiVars>>

\* A process dies, and leaves its gate and its lease behind.
BackupCrash(p) ==
  /\ bleft.losses > 0 /\ bproc[p].pc # "idle"
  /\ bleft' = [bleft EXCEPT !.losses = @ - 1]
  /\ Rest(p)
  /\ UNCHANGED <<scheduleVars, bset, manifest, wgate, execLease, overrun, apiVars>>

\* BackupWriteGateReader.state: the cached view has expired and the row is read.
ReadGate(a) ==
  /\ apiOpen[a] # (wgate.state = "open")
  /\ apiOpen' = [apiOpen EXCEPT ![a] = (wgate.state = "open")]
  /\ UNCHANGED <<scheduleVars, bset, manifest, wgate, bproc, execLease, overrun, write,
                 bleft>>

\* _reject_writes_during_backup lets a write in on the cached view, too late if
\* the gate is closed by now...
AdmitWrite(a) ==
  /\ ~write[a].busy /\ apiOpen[a]
  /\ write' = [write EXCEPT ![a] =
       [busy |-> TRUE, behind |-> IF wgate.state = "closed" THEN wgate.set ELSE NoSet]]
  /\ UNCHANGED <<scheduleVars, bset, manifest, wgate, bproc, execLease, overrun, apiOpen,
                 bleft>>

\* ... or at any time, because the row cannot be read, or could not be a moment
\* ago: the reader then says open, and keeps saying so until that view expires.
AdmitBlindly(a) ==
  /\ ~write[a].busy
  /\ write' = [write EXCEPT ![a].busy = TRUE]
  /\ UNCHANGED <<scheduleVars, bset, manifest, wgate, bproc, execLease, overrun, apiOpen,
                 bleft>>

EndWrite(a) ==
  /\ write[a].busy
  /\ write' = [write EXCEPT ![a] = NoWrite]
  /\ UNCHANGED <<scheduleVars, bset, manifest, wgate, bproc, execLease, overrun, apiOpen,
                 bleft>>

ScheduleStep(p) ==
  \/ ClaimLatestWindow(p) \/ CheckCreate(p)
  \/ CreateBackupSet(p) \/ FinishCreate(p)

ExecuteStep(p) ==
  \/ TakeGate(p) \/ AwaitWriteDrain(p) \/ CloseGate(p) \/ ListComponents(p)
  \/ CompleteComponent(p) \/ RecordManifestObjects(p)
  \/ FailComponent(p) \/ EnsureCleanupTarget(p) \/ ReleaseGate(p)

BackupNext ==
  \/ WindowDue
  \/ \E p \in BackupProcs :
       \/ ScheduleStep(p) \/ ExecuteStep(p) \/ RecoverStaleGate(p)
       \/ CreateBackup(p) \/ BackupCrash(p) \/ LeaseEnds(p) \/ LeaseLapses(p)
       \/ \E b \in BackupSets : ExecuteBackup(p, b)
  \/ \E a \in ApiWriters :
       ReadGate(a) \/ AdmitWrite(a) \/ AdmitBlindly(a) \/ EndWrite(a)

\* A process that lives carries on with what it began, and run_once runs every
\* task of every tick, the oldest set first, whatever the other tasks did: a task
\* that can run again and again does run.  A lease nobody executes under runs out,
\* cached views expire.
BackupFairness ==
  /\ \A p \in BackupProcs :
       /\ WF_backupVars(bproc[p].pc # "idle" /\ (ScheduleStep(p) \/ ExecuteStep(p)))
       /\ WF_backupVars(LeaseEnds(p))
  /\ \A b \in BackupSets : SF_backupVars(\E p \in BackupProcs : ExecuteBackup(p, b))
  /\ SF_backupVars(\E p \in BackupProcs : RecoverStaleGate(p))
  /\ \A a \in ApiWriters : WF_backupVars(ReadGate(a))

BackupSpec == BackupInit /\ [][BackupNext]_backupVars /\ BackupFairness

-----------------------------------------------------------------------------
(* As long as no execution of a set outlives its lease, one process at a    *)
(* time copies it, behind the gate closed for that set, and no write is let *)
(* in behind that gate, unless its process could not read the gate          *)
(* (_await_write_drain, _execute_backup, BackupWriteGateReader).            *)
QuietSnapshot ==
  /\ \A p \in BackupProcs :
       bproc[p].pc = "copying" /\ bproc[p].set \notin overrun =>
         /\ wgate = [state |-> "closed", set |-> bproc[p].set]
         /\ execLease = p
  /\ \A a \in ApiWriters : write[a].behind \in overrun \cup {NoSet}

(* A window starts at most one backup, and a window recorded as skipped     *)
(* started none (the unique occurrence and its released claim).             *)
WindowOnce ==
  /\ \A b, c \in BackupSets :
       b # c /\ bset[b].window # 0 => bset[b].window # bset[c].window
  /\ \A b \in BackupSets :
       bset[b].window # 0 => occ[bset[b].window] \in {"claimed", "executed"}

(* A complete set has all three components, however many executions worked  *)
(* on it; and only a set that failed is left to the retention sweep, unless *)
(* an execution of it outlived its lease.                                   *)
SetsAreWhole ==
  \A b \in BackupSets :
    /\ bset[b].status = "complete" => bset[b].done = Kinds
    /\ bset[b].cleanup /\ b \notin overrun => bset[b].status = "failed"

BackupSafe == BackupTypeOK /\ QuietSnapshot /\ WindowOnce /\ SetsAreWhole

(* A backup fails only when a provider call fails or the drain times out:  *)
(* the daily backups of docs/deployment.md succeed one after the other.    *)
BackupsSucceed ==
  \A b \in BackupSets : bset[b].status = "failed" => bleft.faults < BackupFaults

(* Whatever dies, writes are let in again and every set is decided: the     *)
(* gate of a dead execution is adopted or recovered.                        *)
WritesResume ==
  /\ []<>(wgate.state = "open")
  /\ \A b \in BackupSets : []<>(bset[b].status # "creating")
=============================================================================
