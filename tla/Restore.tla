------------------------------ MODULE Restore -------------------------------
(***************************************************************************)
(* Restore sessions, their stages, rebuild targets and repair targets, the *)
(* maintenance gate, and the retention of complete backup sets             *)
(* (src/app/backup/service.py, ops_service.py, worker.py, adapters.py).    *)
(* An advance of a session is one transaction; a stage that raises leaves  *)
(* nothing behind in the orchestration tables.                             *)
(***************************************************************************)
EXTENDS Naturals, FiniteSets

CONSTANTS RestoreBackups,  \* complete backup sets, numbered as they completed
          RestoreIds,      \* identities of restore sessions, numbers
          RestoreOperators,\* operators that start restores at the same time
          DerivedStages,   \* derived stages that have resources, numbers from 3
          RebuildResources,\* resources of a derived stage
          RestoreObjects,  \* business objects of the manifest
          KeepLast,        \* backup_policy.keep_last
          RestoreFaults    \* bound: lost objects, failed rebuilds, failed deletes

ASSUME RestoreAssumption ==
  /\ RestoreBackups \subseteq Nat \ {0} /\ IsFiniteSet(RestoreBackups)
  /\ RestoreIds \subseteq Nat \ {0}
  /\ IsFiniteSet(DerivedStages) /\ DerivedStages = 3..(Cardinality(DerivedStages) + 2)
  /\ IsFiniteSet(RebuildResources) /\ IsFiniteSet(RestoreObjects)
  /\ RestoreObjects \cap (DerivedStages \X RebuildResources) = {}
  /\ KeepLast \in Nat /\ RestoreFaults \in Nat

VARIABLES kept,     \* what retention did to each backup set
          session,  \* restore_sessions with the position of their stage
          target,   \* restore_targets
          repair,   \* repair_targets
          maint,    \* maintenance_gate
          agree,    \* objects whose content agrees with the manifest
          starter,  \* each operator's start_restore in flight
          raced,    \* history: sessions that were active beside another one
          sweep,    \* the backup set the retention sweep is about to delete
          faults    \* faults left

restoreVars == <<kept, session, target, repair, maint, agree, starter, raced, sweep, faults>>

NoBackup == 0
FactStages == 1..2
LastStage == Cardinality(DerivedStages) + 2
RebuildTargets == DerivedStages \X RebuildResources
Repairs == RestoreObjects \cup RebuildTargets
Unfinished == {"pending", "deleting", "failed"}
ActiveStatuses == {"accepted", "running", "blocked"}

RestoreTypeOK ==
  /\ kept \in [RestoreBackups ->
       [cleanup : {"none", "done"} \cup Unfinished, gone : BOOLEAN, purged : BOOLEAN]]
  /\ session \in [RestoreIds ->
       [status : {"none", "completed"} \cup ActiveStatuses,
        backup : RestoreBackups \cup {NoBackup},
        stage : 1..(LastStage + 1), failed : BOOLEAN]]
  /\ target \in [RestoreIds -> [RebuildTargets -> {"none", "failed", "succeeded"}]]
  /\ repair \in [RestoreIds -> [Repairs -> {"none", "open", "succeeded"}]]
  /\ maint \in [closed : BOOLEAN, session : RestoreIds \cup {0}]
  /\ agree \subseteq RestoreObjects
  /\ starter \in [RestoreOperators -> RestoreBackups \cup {NoBackup}]
  /\ raced \subseteq RestoreIds
  /\ sweep \in RestoreBackups \cup {NoBackup}
  /\ faults \in 0..RestoreFaults

RestoreInit ==
  /\ kept = [b \in RestoreBackups |->
       [cleanup |-> "none", gone |-> FALSE, purged |-> FALSE]]
  /\ session = [r \in RestoreIds |->
       [status |-> "none", backup |-> NoBackup, stage |-> 1, failed |-> FALSE]]
  /\ target = [r \in RestoreIds |-> [t \in RebuildTargets |-> "none"]]
  /\ repair = [r \in RestoreIds |-> [x \in Repairs |-> "none"]]
  /\ maint = [closed |-> FALSE, session |-> 0]
  /\ agree = RestoreObjects
  /\ starter = [o \in RestoreOperators |-> NoBackup]
  /\ raced = {}
  /\ sweep = NoBackup
  /\ faults = RestoreFaults

Spend(n) == n <= faults /\ faults' = faults - n

ActiveSessions == {r \in RestoreIds : session[r].status \in ActiveStatuses}

\* uq_restore_sessions_active is unique on the status column: it holds one
\* session of each active status, not one session.
StatusFree(r, s) == \A q \in RestoreIds \ {r} : session[q].status # s

-----------------------------------------------------------------------------
(* Starting a restore. *)

\* The checks of the command and of start_restore: the set is complete (purged
\* or not) and no session is active.
StartRestore(o, b) ==
  /\ starter[o] = NoBackup /\ ActiveSessions = {}
  /\ starter' = [starter EXCEPT ![o] = b]
  /\ UNCHANGED <<kept, session, target, repair, maint, agree, raced, sweep, faults>>

\* The insert of the session and its stages, and the closing of the gate.
AcceptRestore(o) ==
  /\ starter[o] # NoBackup
  /\ starter' = [starter EXCEPT ![o] = NoBackup]
  /\ \/ \E r \in RestoreIds :
          /\ session[r].status = "none"
          /\ \A q \in RestoreIds : session[q].status = "none" => r <= q
          /\ StatusFree(r, "accepted")
          /\ session' = [session EXCEPT ![r].status = "accepted",
                                        ![r].backup = starter[o]]
          /\ maint' = [closed |-> TRUE, session |-> r]
          /\ raced' = IF ActiveSessions = {} THEN raced ELSE raced \cup ActiveSessions \cup {r}
     \/ /\ \E r \in RestoreIds : session[r].status = "accepted"
        /\ UNCHANGED <<session, maint, raced>>
  /\ UNCHANGED <<kept, target, repair, agree, sweep, faults>>

-----------------------------------------------------------------------------
(* Advancing a restore. *)

\* _validate_facts over the objects that agree: every other object opens a
\* repair target once, an object that agrees resolves its own.
ValidatedFacts(r, ok) ==
  [x \in Repairs |->
     CASE x \in RestoreObjects \ ok -> IF repair[r][x] = "none" THEN "open" ELSE repair[r][x]
       [] x \in ok /\ repair[r][x] # "none" -> "succeeded"
       [] OTHER -> repair[r][x]]

NoneOpen(repairs) == \A x \in Repairs : repairs[x] # "open"

\* The worker drives accepted and running sessions only, a stage at a time.
Drivable(r) == session[r].status \in {"accepted", "running"}

\* _run_post_gate: findings block the session, otherwise the gate reopens.
PostGate(r, repairs, ok) ==
  IF ok = RestoreObjects /\ NoneOpen(repairs)
  THEN /\ session' = [session EXCEPT ![r].status = "completed",
                        ![r].stage = LastStage + 1, ![r].failed = FALSE]
       /\ maint' = [closed |-> FALSE, session |-> 0]
  ELSE /\ StatusFree(r, "blocked")
       /\ session' = [session EXCEPT ![r].status = "blocked",
                        ![r].stage = LastStage + 1, ![r].failed = FALSE]
       /\ UNCHANGED maint

\* _complete_stage, with the post gate behind the last stage.
CompleteStage(r, validated, repairs, ok) ==
  IF validated /\ session[r].stage = LastStage
  THEN PostGate(r, repairs, ok)
  ELSE /\ session' = [session EXCEPT ![r].status = "running",
                        ![r].stage = IF validated THEN @ + 1 ELSE @,
                        ![r].failed = ~validated]
       /\ UNCHANGED maint

\* Reading a deleted artifact raises and the advance is rolled back.
ArtifactHere(r) == ~kept[session[r].backup].gone

RestorePostgres(r) ==
  /\ Drivable(r) /\ session[r].stage = 1 /\ StatusFree(r, "running")
  /\ ArtifactHere(r)
  /\ CompleteStage(r, TRUE, repair[r], agree)
  /\ UNCHANGED <<kept, target, repair, agree, starter, raced, sweep, faults>>

\* The objects are copied back and compared with the manifest; some may be
\* missing or differ.
RestoreObjectStore(r) ==
  /\ Drivable(r) /\ session[r].stage = 2 /\ ~session[r].failed
  /\ ArtifactHere(r)
  /\ \E ok \in SUBSET RestoreObjects :
       LET repairs == ValidatedFacts(r, ok) IN
       /\ Spend(Cardinality(RestoreObjects \ ok))
       /\ agree' = ok
       /\ repair' = [repair EXCEPT ![r] = repairs]
       /\ CompleteStage(r, NoneOpen(repairs), repairs, ok)
  /\ UNCHANGED <<kept, target, starter, raced, sweep>>

\* A fact stage that failed is never run again: its facts are, and what is
\* still open blocks the session.
RetryFactStage(r) ==
  LET repairs == ValidatedFacts(r, agree) IN
  /\ Drivable(r) /\ session[r].stage \in FactStages /\ session[r].failed
  /\ repair' = [repair EXCEPT ![r] = repairs]
  /\ IF NoneOpen(repairs)
     THEN session' = [session EXCEPT ![r].stage = @ + 1, ![r].failed = FALSE]
     ELSE StatusFree(r, "blocked") /\ session' = [session EXCEPT ![r].status = "blocked"]
  /\ UNCHANGED <<kept, target, maint, agree, starter, raced, sweep, faults>>

\* _execute_targets: the targets of the stage that did not succeed run, and a
\* failure opens a repair target that a later success leaves as it is.
RebuildStage(r) ==
  LET stage == session[r].stage
      todo == {t \in RebuildTargets : t[1] = stage /\ target[r][t] # "succeeded"} IN
  /\ Drivable(r) /\ stage \in DerivedStages
  /\ \E failed \in SUBSET todo :
       LET repairs == [x \in Repairs |->
             IF x \in failed /\ repair[r][x] = "none" THEN "open" ELSE repair[r][x]] IN
       /\ Spend(Cardinality(failed))
       /\ target' = [target EXCEPT ![r] = [t \in RebuildTargets |->
             IF t \in failed THEN "failed" ELSE IF t \in todo THEN "succeeded" ELSE @[t]]]
       /\ repair' = [repair EXCEPT ![r] = repairs]
       /\ CompleteStage(r, failed = {}, repairs, agree)
  /\ UNCHANGED <<kept, agree, starter, raced, sweep>>

\* The operator puts an object back.
RepairObject(x) ==
  /\ x \in RestoreObjects \ agree
  /\ agree' = agree \cup {x}
  /\ UNCHANGED <<kept, session, target, repair, maint, starter, raced, sweep, faults>>

\* retry_repair_target compares the facts again; the session stays as it is.
RetryRepairTarget(r, x) ==
  /\ r \in ActiveSessions /\ repair[r][x] = "open"
  /\ repair' = [repair EXCEPT ![r] = ValidatedFacts(r, agree)]
  /\ UNCHANGED <<kept, session, target, maint, agree, starter, raced, sweep, faults>>

-----------------------------------------------------------------------------
(* Retention of complete sets. *)

Restorable == {b \in RestoreBackups : ~kept[b].purged}
Newer(b) == {c \in Restorable : c > b}

\* _reference_protection.
ReferenceProtection(b) ==
  \/ \E r \in ActiveSessions : session[r].backup = b
  \/ \E r \in RestoreIds : session[r].backup = b /\ ~NoneOpen(repair[r])

\* The sweep picks an expired set beyond keep_last that nothing refers to and
\* that no cleanup target is waiting for.
RetentionCandidate(b) ==
  /\ sweep = NoBackup
  /\ b \in Restorable /\ Cardinality(Newer(b)) >= KeepLast
  /\ ~ReferenceProtection(b)
  /\ kept[b].cleanup \notin Unfinished
  /\ sweep' = b
  /\ kept' = [kept EXCEPT ![b].cleanup = "pending"]
  /\ UNCHANGED <<session, target, repair, maint, agree, starter, raced, faults>>

\* _due_cleanup_targets: an unfinished target is taken up again as it stands.
RetryCleanupTarget(b) ==
  /\ sweep = NoBackup /\ kept[b].cleanup \in Unfinished
  /\ sweep' = b
  /\ UNCHANGED <<kept, session, target, repair, maint, agree, starter, raced, faults>>

\* _process_cleanup_target: the provider deletes, then the set is marked; a
\* delete that fails leaves the target to a later sweep.
ProcessCleanupTarget ==
  /\ sweep # NoBackup
  /\ sweep' = NoBackup
  /\ \/ /\ kept' = [kept EXCEPT ![sweep] =
              [cleanup |-> "done", gone |-> TRUE, purged |-> TRUE]]
        /\ UNCHANGED faults
     \/ /\ Spend(1)
        /\ \E gone \in {kept[sweep].gone, TRUE} :
             kept' = [kept EXCEPT ![sweep].cleanup = "failed", ![sweep].gone = gone]
  /\ UNCHANGED <<session, target, repair, maint, agree, starter, raced>>

AdvanceRestore(r) ==
  \/ RestorePostgres(r) \/ RestoreObjectStore(r) \/ RetryFactStage(r)
  \/ RebuildStage(r)

RestoreNext ==
  \/ \E o \in RestoreOperators :
       AcceptRestore(o) \/ \E b \in RestoreBackups : StartRestore(o, b)
  \/ \E r \in RestoreIds :
       AdvanceRestore(r) \/ \E x \in Repairs : RetryRepairTarget(r, x)
  \/ \E x \in RestoreObjects : RepairObject(x)
  \/ \E b \in RestoreBackups : RetentionCandidate(b) \/ RetryCleanupTarget(b)
  \/ ProcessCleanupTarget

\* The worker advances what it can drive; the operator puts the objects back
\* and retries what is open.
RestoreFairness ==
  /\ \A r \in RestoreIds : WF_restoreVars(AdvanceRestore(r))
  /\ \A x \in RestoreObjects : WF_restoreVars(RepairObject(x))
  /\ \A r \in RestoreIds, x \in Repairs : WF_restoreVars(RetryRepairTarget(r, x))

RestoreSpec == RestoreInit /\ [][RestoreNext]_restoreVars /\ RestoreFairness

-----------------------------------------------------------------------------
(* Reads stay closed, for its sake, as long as a restore is not over,       *)
(* blocked ones included, unless a second one was accepted beside it; they  *)
(* never stay closed for a session that is over; and a restore completes    *)
(* with every stage done and nothing left to repair (start_restore,         *)
(* _run_post_gate, _complete_stage).                                        *)
ReadsStayClosed ==
  /\ \A r \in ActiveSessions \ raced : maint = [closed |-> TRUE, session |-> r]
  /\ maint.closed => maint.session \in ActiveSessions
  /\ \A r \in RestoreIds :
       session[r].status = "completed" =>
         /\ NoneOpen(repair[r])
         /\ \A t \in RebuildTargets : target[r][t] = "succeeded"

(* Retention never deletes any part of the newest keep_last sets, whatever  *)
(* deletion failed and was taken up again.                                  *)
NewestSurvive ==
  \A b \in RestoreBackups :
    kept[b].gone => Cardinality({c \in RestoreBackups : c > b}) >= KeepLast

(* A session does not run a stage before the facts under it agree: a        *)
(* derived target exists only behind two fact stages, and without an open   *)
(* repair of an object, unless another session moved the objects meanwhile. *)
FactsFirst ==
  \A r \in RestoreIds :
    (\E t \in RebuildTargets : target[r][t] # "none") =>
      /\ session[r].stage > 2
      /\ r \notin raced => \A x \in RestoreObjects : repair[r][x] # "open"

RestoreSafe == RestoreTypeOK /\ ReadsStayClosed /\ NewestSurvive /\ FactsFirst

(* A restore that is blocked resumes once the operator has repaired every   *)
(* object and nothing of it is open any more.                               *)
Repaired(r) == agree = RestoreObjects /\ NoneOpen(repair[r])
RestoreResumes ==
  \A r \in RestoreIds :
    (session[r].status = "blocked" /\ Repaired(r)) ~> (session[r].status = "completed")
=============================================================================
