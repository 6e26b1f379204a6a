------------------------------ MODULE Evaluation ------------------------------
(***************************************************************************)
(* Shadow evaluation of one space (app.evaluation): an operator or a new   *)
(* golden set queues a run, workers of maintenance ticks claim, replay and *)
(* judge it under a lease and a fencing token, and a run whose best two    *)
(* configurations are close raises a suggestion to open a calibration      *)
(* window.  A worker judges all samples in one transaction: its results    *)
(* and the end of the run commit together or not at all.                   *)
(***************************************************************************)
EXTENDS Integers, FiniteSets

CONSTANTS
    ShadowRuns,         \* bound: runs, numbered in the order they are created
    ShadowWorkers,      \* ticks of ragqs-evaluation-maintenance under way
    EvaluationOps,      \* requests that create a run
    ShadowAttempts,     \* max_attempts of the policy
    GoldenVersions      \* bound: golden sets published

ASSUME EvaluationAssumption ==
    /\ ShadowRuns \subseteq Nat \ {0} /\ IsFiniteSet(ShadowRuns)
    /\ ShadowAttempts \in Nat \ {0} /\ GoldenVersions \in Nat

VARIABLES
    shadow,     \* shadow_evaluation_run
    results,    \* shadow_evaluation_result of a run: how its best two compare
    eworkers,   \* the workers: run in hand, its attempt and fencing token
    creators,   \* create_shadow_run after has_active_run_for_space
    suggestions,\* calibration_window_suggestion: source run and status
    standard,   \* source run of evaluation_active_default, or 0
    golden      \* latest golden set version

evaluationVars == <<shadow, results, eworkers, creators, suggestions, standard, golden>>

NonTerminal == {"queued", "running", "retry_wait"}
Verdicts == {"near", "far"}
NoFence == 0
NoShadow == [state |-> "none", attempt |-> 1, fence |-> NoFence, expired |-> FALSE,
             due |-> TRUE, key |-> 0, order |-> 0, fences |-> 0]
NoHold == [at |-> "idle", run |-> 0, attempt |-> 0, fence |-> NoFence, beat |-> FALSE,
           retryable |-> FALSE, saw |-> 0]

-----------------------------------------------------------------------------
(* Creation *)

ActiveRun == \E r \in ShadowRuns : shadow[r].state \in NonTerminal

\* create_shadow_run looks for an active run ...
CheckNoActive(o) ==
    /\ creators[o] = "idle"
    /\ ~ActiveRun
    /\ creators' = [creators EXCEPT ![o] = "checked"]
    /\ UNCHANGED <<shadow, results, eworkers, suggestions, standard, golden>>

\* ... and inserts its own, frozen with the golden set of the day
InsertRun(o, r) ==
    /\ creators[o] = "checked"
    /\ \A q \in ShadowRuns : (shadow[q].state = "none") <=> (q >= r)
    /\ shadow' = [shadow EXCEPT ![r] = [NoShadow EXCEPT !.state = "queued", !.key = golden]]
    /\ creators' = [creators EXCEPT ![o] = "idle"]
    /\ UNCHANGED <<results, eworkers, suggestions, standard, golden>>

\* publish_golden_set; the run it asks for is a request like any other
PublishGolden ==
    /\ golden < GoldenVersions
    /\ golden' = golden + 1
    /\ UNCHANGED <<shadow, results, eworkers, creators, suggestions, standard>>

-----------------------------------------------------------------------------
(* ShadowEvaluationWorker *)

\* a row that a worker's transaction has sent a heartbeat to is locked by it
Locked(r) == \E w \in ShadowWorkers : eworkers[w].run = r /\ eworkers[w].beat

LeaseRunsOut(r) ==
    /\ shadow[r].state = "running" /\ ~shadow[r].expired
    /\ shadow' = [shadow EXCEPT ![r].expired = TRUE]
    /\ UNCHANGED <<results, eworkers, creators, suggestions, standard, golden>>

BackoffEnds(r) ==
    /\ shadow[r].state = "retry_wait" /\ ~shadow[r].due
    /\ shadow' = [shadow EXCEPT ![r].due = TRUE]
    /\ UNCHANGED <<results, eworkers, creators, suggestions, standard, golden>>

\* requeue_retry_wait
Requeued(s) == IF s.state = "retry_wait" /\ s.due THEN [s EXCEPT !.state = "queued"] ELSE s

\* recover_expired, _force_failed
Recovered(s) ==
    IF s.state # "running" \/ ~s.expired THEN s
    ELSE [s EXCEPT !.state = IF s.attempt >= ShadowAttempts THEN "failed" ELSE "retry_wait",
                   !.attempt = IF s.attempt >= ShadowAttempts THEN @ ELSE @ + 1,
                   !.fence = NoFence, !.expired = FALSE, !.due = FALSE]

\* claim_next: a new fencing token, and no new attempt
ClaimOf(s) == [s EXCEPT !.state = "running", !.fence = s.fences + 1, !.fences = @ + 1]

\* the transaction of run_once: it waits for a row that a worker has locked
RunOnce(w) ==
    LET swept == [r \in ShadowRuns |-> Recovered(Requeued(shadow[r]))]
        ready == {r \in ShadowRuns : swept[r].state = "queued"} IN
    /\ eworkers[w].at = "idle"
    /\ \A r \in ShadowRuns : ~(shadow[r].expired /\ Locked(r))
    /\ IF ready = {}
       THEN /\ swept # shadow
            /\ shadow' = swept
            /\ UNCHANGED eworkers
       ELSE LET r == CHOOSE q \in ready : \A p \in ready : q <= p IN
            /\ shadow' = [swept EXCEPT ![r] = ClaimOf(swept[r])]
            /\ eworkers' = [eworkers EXCEPT ![w] =
                   [NoHold EXCEPT !.at = "judging", !.run = r, !.attempt = swept[r].attempt,
                                  !.fence = swept[r].fences + 1]]
    /\ UNCHANGED <<results, creators, suggestions, standard, golden>>

MutantFenceMatches(w) == shadow[eworkers[w].run].state = "running"    \* no token, no attempt
\* fence_matches, and the WHERE of every write of a worker
FenceMatches(w) ==
    LET h == eworkers[w] IN
    /\ shadow[h.run].state = "running"
    /\ shadow[h.run].attempt = h.attempt
    /\ shadow[h.run].fence = h.fence

ReleaseHold(w) == eworkers' = [eworkers EXCEPT ![w] = NoHold]
Ended(s, state) == [s EXCEPT !.state = state, !.fence = NoFence, !.expired = FALSE]
\* completed_at_utc, as a place in the order of completions
Completion == Cardinality({r \in ShadowRuns : shadow[r].order # 0}) + 1

\* heartbeat between two samples: it proves the fence, and extends no lease
Heartbeat(w) ==
    /\ eworkers[w].at = "judging" /\ ~eworkers[w].beat
    /\ IF FenceMatches(w) THEN eworkers' = [eworkers EXCEPT ![w].beat = TRUE] ELSE ReleaseHold(w)
    /\ UNCHANGED <<shadow, results, creators, suggestions, standard, golden>>

\* insert_result, sample by sample
ResultsOf(w, v) == [of |-> v, attempt |-> eworkers[w].attempt]

\* _finish_succeeded, with the results of every sample; a lost fence undoes them
FinishSucceeded(w, v) ==
    /\ eworkers[w].at = "judging"
    /\ IF FenceMatches(w)
       THEN LET r == eworkers[w].run IN
            /\ shadow' = [shadow EXCEPT ![r] = [Ended(shadow[r], "succeeded") EXCEPT !.order = Completion]]
            /\ results' = [results EXCEPT ![r] = ResultsOf(w, v)]
            /\ eworkers' = [eworkers EXCEPT ![w] = [NoHold EXCEPT !.at = "callback", !.run = r]]
       ELSE ReleaseHold(w) /\ UNCHANGED <<shadow, results>>
    /\ UNCHANGED <<creators, suggestions, standard, golden>>

\* _JudgeFailure undoes the transaction, and with it the heartbeat's lock ...
JudgeFails(w, retryable) ==
    /\ eworkers[w].at = "judging"
    /\ eworkers' = [eworkers EXCEPT ![w].at = "failing", ![w].beat = FALSE, ![w].retryable = retryable]
    /\ UNCHANGED <<shadow, results, creators, suggestions, standard, golden>>

AfterFailure(s, retryable) ==
    IF retryable /\ s.attempt < ShadowAttempts
    THEN [Ended(s, "retry_wait") EXCEPT !.attempt = s.attempt + 1, !.due = FALSE]
    ELSE Ended(s, "failed")

\* ... before _handle_judge_failure retries or fails the run in a second one;
\* _finish_failed is the same step for a run past its deadline
HandleFailure(w) ==
    /\ eworkers[w].at = "failing"
    /\ IF ~FenceMatches(w) THEN UNCHANGED shadow
       ELSE LET r == eworkers[w].run IN
            shadow' = [shadow EXCEPT ![r] = AfterFailure(shadow[r], eworkers[w].retryable)]
    /\ ReleaseHold(w)
    /\ UNCHANGED <<results, creators, suggestions, standard, golden>>

\* any other error of a replay, and a crash at any point: the run stays running
LoseWorker(w) ==
    /\ eworkers[w].at # "idle"
    /\ ReleaseHold(w)
    /\ UNCHANGED <<shadow, results, creators, suggestions, standard, golden>>

-----------------------------------------------------------------------------
(* Suggestions *)

Actionable(key) == {s \in suggestions : s.status = "actionable" /\ s.key = key}
\* latest_succeeded_run of a comparator key
Latest(key) ==
    LET done == {r \in ShadowRuns : shadow[r].state = "succeeded" /\ shadow[r].key = key} IN
    {r \in done : \A q \in done : shadow[q].order <= shadow[r].order}

\* compute_suggestion, called when the run has committed, reads ...
ReadStanding(w) ==
    LET r == eworkers[w].run  key == shadow[r].key IN
    /\ eworkers[w].at = "callback"
    /\ IF /\ r \in Latest(key)
          /\ results[r].of = "near"
          /\ ~\E s \in Actionable(key) : s.run = r
       THEN eworkers' = [eworkers EXCEPT ![w].at = "suggesting",
                                         ![w].saw = Cardinality(Actionable(key))]
       ELSE ReleaseHold(w)
    /\ UNCHANGED <<shadow, results, creators, suggestions, standard, golden>>

\* supersede_actionable_suggestions when there was one, create, publish
Raise(r, superseded) ==
    suggestions' = {IF s \in superseded THEN [s EXCEPT !.status = "superseded"] ELSE s :
                    s \in suggestions}
                   \cup {[run |-> r, key |-> shadow[r].key, status |-> "actionable",
                          n |-> Cardinality(suggestions)]}

\* ... and writes
Suggest(w) ==
    LET r == eworkers[w].run IN
    /\ eworkers[w].at = "suggesting"
    /\ Raise(r, IF eworkers[w].saw = 0 THEN {} ELSE Actionable(shadow[r].key))
    /\ ReleaseHold(w)
    /\ UNCHANGED <<shadow, results, creators, standard, golden>>

\* maybe_adopt_active_default of a vote: the run that succeeded last
AdoptDefault(r) ==
    /\ shadow[r].state = "succeeded" /\ standard # r
    /\ \A q \in ShadowRuns : shadow[q].order <= shadow[r].order
    /\ standard' = r
    /\ UNCHANGED <<shadow, results, eworkers, creators, suggestions, golden>>

\* _compute_standard_leaderboard_suggestions, when a window is about to open
StandardSuggestion ==
    /\ standard # 0
    /\ results[standard].of = "near"
    /\ ~\E s \in Actionable(shadow[standard].key) : s.run = standard
    /\ Cardinality({s \in suggestions : s.run = standard}) < 2      \* bound
    /\ Raise(standard, Actionable(shadow[standard].key))
    /\ UNCHANGED <<shadow, results, eworkers, creators, standard, golden>>

-----------------------------------------------------------------------------
NoResults == [of |-> "none", attempt |-> 0]
EvaluationInit ==
    /\ shadow = [r \in ShadowRuns |-> NoShadow]
    /\ results = [r \in ShadowRuns |-> NoResults]
    /\ eworkers = [w \in ShadowWorkers |-> NoHold]
    /\ creators = [o \in EvaluationOps |-> "idle"]
    /\ suggestions = {}
    /\ standard = 0
    /\ golden = 0

EvaluationNext ==
    \/ \E o \in EvaluationOps : CheckNoActive(o) \/ \E r \in ShadowRuns : InsertRun(o, r)
    \/ PublishGolden \/ StandardSuggestion
    \/ \E r \in ShadowRuns : LeaseRunsOut(r) \/ BackoffEnds(r) \/ AdoptDefault(r)
    \/ \E w \in ShadowWorkers :
        \/ RunOnce(w) \/ Heartbeat(w) \/ HandleFailure(w) \/ LoseWorker(w)
        \/ ReadStanding(w) \/ Suggest(w)
        \/ \E v \in Verdicts : FinishSucceeded(w, v)
        \/ \E b \in BOOLEAN : JudgeFails(w, b)

\* A CronJob starts a tick every few minutes and a tick ends; leases and
\* backoffs are times that pass.  Nothing says that a judge ever succeeds.
EvaluationFairness ==
    /\ \A r \in ShadowRuns : WF_evaluationVars(LeaseRunsOut(r)) /\ WF_evaluationVars(BackoffEnds(r))
    /\ \A w \in ShadowWorkers :
        /\ WF_evaluationVars(RunOnce(w)) /\ WF_evaluationVars(HandleFailure(w))
        /\ WF_evaluationVars(\/ ReadStanding(w) \/ Suggest(w) \/ LoseWorker(w)
                             \/ \E v \in Verdicts : FinishSucceeded(w, v))

EvaluationSpec == EvaluationInit /\ [][EvaluationNext]_evaluationVars /\ EvaluationFairness

-----------------------------------------------------------------------------
EvaluationTypeOK ==
    /\ shadow \in [ShadowRuns ->
         [state : NonTerminal \cup {"none", "succeeded", "failed"}, attempt : 1..ShadowAttempts,
          fence : Nat, expired : BOOLEAN, due : BOOLEAN, key : 0..GoldenVersions,
          order : Nat, fences : Nat]]
    /\ results \in [ShadowRuns -> [of : Verdicts \cup {"none"}, attempt : 0..ShadowAttempts]]
    /\ eworkers \in [ShadowWorkers ->
         [at : {"idle", "judging", "failing", "callback", "suggesting"}, run : ShadowRuns \cup {0},
          attempt : 0..ShadowAttempts, fence : Nat, beat : BOOLEAN, retryable : BOOLEAN, saw : Nat]]
    /\ creators \in [EvaluationOps -> {"idle", "checked"}]
    /\ suggestions \subseteq
         [run : ShadowRuns, key : 0..GoldenVersions, status : {"actionable", "superseded"}, n : Nat]
    /\ standard \in ShadowRuns \cup {0} /\ golden \in 0..GoldenVersions

\* The results of a run are there exactly when it succeeded, and are those of
\* its last attempt: a worker whose lease was recovered leaves nothing behind.
ResultsAreWhole ==
    \A r \in ShadowRuns :
        /\ (results[r].of # "none") <=> (shadow[r].state = "succeeded")
        /\ shadow[r].state = "succeeded" => results[r].attempt = shadow[r].attempt

\* One worker at most holds the fence of a running run, and a row is locked
\* only by that worker.
OneJudge ==
    \A r \in ShadowRuns :
        LET holders == {w \in ShadowWorkers : eworkers[w].at \in {"judging", "failing"}
                                              /\ eworkers[w].run = r /\ FenceMatches(w)} IN
        /\ Cardinality(holders) <= 1
        /\ \A w \in ShadowWorkers : eworkers[w].beat /\ eworkers[w].run = r => w \in holders

\* A suggestion rests on a run that succeeded with its best two close.
SuggestionsAreGrounded ==
    \A s \in suggestions : shadow[s.run].state = "succeeded" /\ results[s.run].of = "near"

EvaluationSafe == EvaluationTypeOK /\ ResultsAreWhole /\ OneJudge /\ SuggestionsAreGrounded

\* A queued run succeeds or fails, whatever its workers die of
\* (docs/operations.md: one tick advances queued shadow runs).
ShadowRunsEnd ==
    \A r \in ShadowRuns : []<>(shadow[r].state \notin NonTerminal)

\* Only the latest complete success with the same comparator key may drive a
\* suggestion (the comment of compute_suggestion).
LatestDrives == [][\A s \in suggestions' :
    (s.status = "actionable" /\ s \notin suggestions) => s.run \in Latest(s.key)']_evaluationVars
=============================================================================
