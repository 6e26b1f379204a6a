------------------------------ MODULE MCUpkeep ------------------------------
(* What works behind the requests, for TLC: the circuit of a provider         *)
(* (Circuit), backups and the write gate (Backup), restores (Restore), shadow *)
(* evaluation (Evaluation) and its calibration windows (Calibration), the     *)
(* deletion of an account (Accounts) and the builds of the public graph       *)
(* (GraphBuild), checked side by side.  A behaviour moves one part, the       *)
(* others stand; each part has the fairness its own module states.            *)
EXTENDS Circuit, Backup, Restore, Evaluation, Calibration, Accounts

VARIABLES part,
    src, acks, run, gop, creator, comp, facts, activeB, profile, gw, cleanup, gfaults

Parts == {"circuit", "backup", "restore", "evaluation", "calibration", "deletion", "graph"}

Builds == {"b1", "b2"}
GraphWorkers == {"w1", "w2"}
Building == INSTANCE GraphBuild WITH
    Creators <- {"c1"}, MaxSource <- 1, GraphFaults <- 1, Gated <- TRUE

graphVars == <<src, acks, run, gop, creator, comp, facts, activeB, profile, gw, cleanup, gfaults>>
allVars   == <<part, vars, backupVars, restoreVars, evaluationVars, calibrationVars, accountVars,
               graphVars>>

UpkeepInit ==
    /\ part \in Parts
    /\ Init /\ BackupInit /\ RestoreInit /\ EvaluationInit
    /\ CalibrationInit /\ AccountInit /\ Building!GraphInit
    /\ part # "deletion" => \A d \in PersonalDocs : docs[d] = "active"

\* A part moves and the variables of every other part stand
UpkeepNext ==
    /\ UNCHANGED part
    /\ IF part = "circuit"     THEN Next ELSE UNCHANGED vars
    /\ IF part = "backup"      THEN BackupNext ELSE UNCHANGED backupVars
    /\ IF part = "restore"     THEN RestoreNext ELSE UNCHANGED restoreVars
    /\ IF part = "evaluation"  THEN EvaluationNext ELSE UNCHANGED evaluationVars
    /\ IF part = "calibration" THEN CalibrationNext ELSE UNCHANGED calibrationVars
    /\ IF part = "deletion"    THEN AccountNext ELSE UNCHANGED accountVars
    /\ IF part = "graph"       THEN Building!GraphNext ELSE UNCHANGED graphVars

-----------------------------------------------------------------------------
(* Fairness: that of each module while its part moves *)

CircuitFairness ==
    /\ WF_vars(part = "circuit" /\ Tick)
    /\ \A c \in Calls : WF_vars(part = "circuit" /\ CallStep(c))

BackingUpFairness ==
    /\ \A p \in BackupProcs :
          WF_backupVars(part = "backup" /\ bproc[p].pc # "idle" /\ (ScheduleStep(p) \/ ExecuteStep(p)))
    /\ SF_backupVars(part = "backup" /\ \E p \in BackupProcs : RecoverStaleGate(p))
    /\ \A p \in BackupProcs : WF_backupVars(part = "backup" /\ LeaseEnds(p))
    /\ \A a \in ApiWriters : WF_backupVars(part = "backup" /\ ReadGate(a))

DeletionFairness ==
    /\ WF_accountVars(part = "deletion" /\ RetentionElapses)
    /\ \A d \in PersonalDocs : WF_accountVars(part = "deletion" /\ CompleteDocument(d))
    /\ WF_accountVars(part = "deletion" /\ BuildArchive /\ archive'.recorded)
    /\ WF_accountVars(part = "deletion" /\ FinalizeBlocked)
    /\ WF_accountVars(part = "deletion" /\ (FinalizeFails \/ Tombstone))
    /\ \A k \in Avatars :
          /\ WF_accountVars(part = "deletion" /\ CleanObject(k) /\ k \notin queue')
          /\ WF_accountVars(part = "deletion" /\ (CommitAvatar(k) \/ DiscardUpload(k)))

\* The strong fairness of Backup for each of its sets, and of Accounts for the
\* attempt that finds its ports well and for the final one: one conjunct serves
\* two parts, because only one of them moves
Retried(b) ==
    \/ /\ part = "backup" /\ UNCHANGED accountVars
       /\ \E p \in BackupProcs : ExecuteBackup(p, b)
    \/ /\ part = "deletion" /\ UNCHANGED backupVars
       /\ IF b = 1 THEN Finalize /\ avatar \notin objects' ELSE Tombstone
RetryFairness == \A b \in BackupSets : SF_<<backupVars, accountVars>>(Retried(b))

ShadowFairness ==
    /\ \A r \in ShadowRuns : /\ WF_evaluationVars(part = "evaluation" /\ LeaseRunsOut(r))
                             /\ WF_evaluationVars(part = "evaluation" /\ BackoffEnds(r))
    /\ \A w \in ShadowWorkers :
          /\ WF_evaluationVars(part = "evaluation" /\ RunOnce(w))
          /\ WF_evaluationVars(part = "evaluation" /\ HandleFailure(w))
          /\ WF_evaluationVars(/\ part = "evaluation"
                           /\ \/ ReadStanding(w) \/ Suggest(w) \/ LoseWorker(w)
                              \/ \E v \in Verdicts : FinishSucceeded(w, v))

WindowFairness ==
    /\ WF_calibrationVars(part = "calibration" /\ CloseTick)
    /\ \A w \in CalibrationWindows : WF_calibrationVars(part = "calibration" /\ DeadlinePasses(w))

BuildFairness ==
    /\ \A w \in GraphWorkers : WF_graphVars(part = "graph" /\ Building!BuildStep(w))
    /\ \A b \in Builds : WF_graphVars(part = "graph" /\ Building!Requeue(b))

UpkeepSpec ==
    /\ UpkeepInit /\ [][UpkeepNext]_allVars
    /\ CircuitFairness /\ BackingUpFairness /\ ShadowFairness /\ WindowFairness
    /\ DeletionFairness /\ RetryFairness /\ BuildFairness

-----------------------------------------------------------------------------
(* Properties of the parts, stated in their modules *)

\* Reads stay closed until a restore is over and retention keeps the newest set;
\* one worker judges a run and a suggestion rests on a run that succeeded; one
\* calibration window is open, every vote counts once, and the default is earned;
\* every avatar object has a row that knows it
UpkeepKept == RestoreSafe /\ EvaluationSafe /\ CalibrationSafe /\ AccountsSafe

\* A queued run ends, a window an operator closed does close, an account without
\* documents becomes a tombstone and its queued objects go, and an accepted build
\* of the graph ends; an open circuit is probed again or
\* closes, and writes are let in again after every backup
UpkeepEnds ==
    /\ NeverLocked /\ WritesResume
    /\ ShadowRunsEnd /\ WindowsClose /\ DeletionEnds
    /\ Building!BuildsEnd

=============================================================================
