------------------------------- MODULE Budget -------------------------------
(***************************************************************************)
(* The resource budget of one generation: the persistent meter and its     *)
(* reservations (BudgetMeterService), the in-memory meter that every       *)
(* execution builds for itself (chat.budget.BudgetMeter) and the chat      *)
(* worker that passes both gates before each retrieval and provider call.  *)
(* Several executions of the generation may be running at once: the        *)
(* current one and those that lost their lease without noticing.  The      *)
(* persistent meter does not look at the fence.                            *)
(*                                                                         *)
(* Tokens are small numbers; the price estimator is linear, so a cost is   *)
(* BudgetPrice times a number of tokens.  A retrieval reserves no tokens.  *)
(* Every BudgetMeterService method runs under the lock of the meter's row  *)
(* and is one action.                                                      *)
(***************************************************************************)
EXTENDS Integers, FiniteSets

CONSTANTS
    BudgetEfforts,      \* number of effort levels: 1 quick, 2 think, 3 deep
    BudgetMaxRag,       \* max_rag_calls per effort
    BudgetMaxTokens,    \* max_total_tokens per effort
    BudgetMaxCost,      \* max_estimated_cost_amount per effort
    BudgetMaxRounds,    \* max_rag_rounds per effort
    BudgetPrice,        \* cost of a token
    BudgetEstimates,    \* _estimated_provider_tokens: what a call may be estimated at
    BudgetActual,       \* what a call may turn out to use
    BudgetExecutions    \* bound: executions of the generation

ASSUME BudgetAssumption ==
    /\ BudgetEfforts \in Nat \ {0} /\ BudgetExecutions \in Nat \ {0}
    /\ BudgetMaxRag    \in [1..BudgetEfforts -> Nat \ {0}]
    /\ BudgetMaxTokens \in [1..BudgetEfforts -> Nat \ {0}]
    /\ BudgetMaxCost   \in [1..BudgetEfforts -> Nat \ {0}]
    /\ BudgetMaxRounds \in [1..BudgetEfforts -> Nat \ {0}]
    /\ BudgetPrice \in Nat /\ BudgetEstimates \subseteq Nat \ {0} /\ BudgetActual \subseteq Nat

VARIABLES
    bgen,       \* the generation: effort, status, late (deadline passed), started executions
    bmeter,     \* its generation_budget_meter row
    bresv,      \* its generation_budget_reservation rows, by reservation_id
    bexec       \* the executions: pc, effort, rounds used, calls made, in-memory meter

budgetVars == <<bgen, bmeter, bresv, bexec>>

Executions == 1..BudgetExecutions
Efforts    == 1..BudgetEfforts

\* rag:{generation}:{round_index} and rag:{generation}:rewrite-{rounds} are
\* shared by the executions; provider:{generation}:{execution}:{purpose}:0:s0
\* by the drafts of one execution
RoundId(index)     == <<0, 1, index>>
RewriteId(rounds)  == <<0, 2, rounds>>
PlanId(e)          == <<1, 1, e>>
AnswerId(e)        == <<1, 2, e>>
IsRag(id)          == id[1] = 0

Cost(tokens) == BudgetPrice * tokens

NoMeter == [effort |-> 0, status |-> "none", rag |-> 0, used |-> 0, reserved |-> 0,
            settledCost |-> 0, reservedCost |-> 0, upgrades |-> 0]
NewExec == [pc |-> "new", effort |-> 1, index |-> 0, rounds |-> 0, upgraded |-> FALSE,
            estimate |-> 0, consumed |-> 0, holding |-> 0, costHeld |-> 0,
            maxTokens |-> 0, maxCost |-> 0]

-----------------------------------------------------------------------------
(* BudgetMeterService *)

\* ensure_meter_in_transaction: the first caller's effort stays
EnsureMeter(effort) ==
    bmeter' = IF bmeter = NoMeter
              THEN [NoMeter EXCEPT !.effort = effort, !.status = "active"] ELSE bmeter

\* reserve: the gates a new reservation has to pass
BudgetFits(tokens, isRag) ==
    /\ isRag => bmeter.rag < BudgetMaxRag[bmeter.effort]
    /\ tokens <= BudgetMaxTokens[bmeter.effort] - bmeter.used - bmeter.reserved
    /\ Cost(tokens) <= BudgetMaxCost[bmeter.effort] - bmeter.settledCost - bmeter.reservedCost

\* The same reservation again, whatever became of it; with another estimate
\* it is a conflict (409)
Replays(id, tokens)   == id \in DOMAIN bresv /\ bresv[id].tokens = tokens
Conflicts(id, tokens) == id \in DOMAIN bresv /\ bresv[id].tokens # tokens
MutantAdmits(id, tokens) ==             \* the status of the meter is not looked at
    \/ Replays(id, tokens)
    \/ id \notin DOMAIN bresv /\ ~bgen.late /\ BudgetFits(tokens, IsRag(id))
Admits(id, tokens) ==
    \/ Replays(id, tokens)
    \/ /\ id \notin DOMAIN bresv
       /\ bmeter.status = "active" /\ ~bgen.late /\ BudgetFits(tokens, IsRag(id))

Reserve(id, tokens) ==
    IF id \in DOMAIN bresv THEN UNCHANGED <<bmeter, bresv>>
    ELSE /\ bresv' = [i \in DOMAIN bresv \cup {id} |-> IF i = id
                      THEN [status |-> "reserved", tokens |-> tokens, actual |-> 0] ELSE bresv[i]]
         /\ bmeter' = [bmeter EXCEPT !.rag = @ + (IF IsRag(id) THEN 1 ELSE 0),
                                     !.reserved = @ + tokens,
                                     !.reservedCost = @ + Cost(tokens)]

\* A refusal raises inside the transaction: _mark_exhausted is rolled back
Refuse == UNCHANGED <<bmeter, bresv>>

GiveBack(meter, id) ==
    [meter EXCEPT !.reserved = @ - bresv[id].tokens, !.reservedCost = @ - Cost(bresv[id].tokens)]

\* Settle what is reserved; the replay of a settled reservation changes nothing
Settle(id, actual) ==
    IF bresv[id].status = "settled" THEN UNCHANGED <<bmeter, bresv>>
    ELSE LET used == bmeter.used + actual
             cost == bmeter.settledCost + Cost(actual)
             over == \/ used > BudgetMaxTokens[bmeter.effort]
                     \/ cost > BudgetMaxCost[bmeter.effort]
                     \/ Cost(actual) > Cost(bresv[id].tokens)
         IN  /\ bresv[id].status = "reserved"
             /\ bresv' = [bresv EXCEPT ![id].status = "settled", ![id].actual = actual]
             /\ bmeter' = [GiveBack(bmeter, id) EXCEPT
                              !.used = used, !.settledCost = cost,
                              !.status = IF over THEN "exhausted" ELSE @]

\* mark_unknown: fails closed, for a provider's definite error too
MarkUnknown(id) ==
    IF bresv[id].status # "reserved" THEN UNCHANGED <<bmeter, bresv>>
    ELSE /\ bresv' = [bresv EXCEPT ![id].status = "released"]
         /\ bmeter' = [GiveBack(bmeter, id) EXCEPT !.status = "exhausted"]

\* upgrade: once, to the next level, when the next step fits its limits
CanUpgrade(estimate) ==
    /\ bmeter.upgrades = 0 /\ bmeter.status = "active"
    /\ bmeter.effort < BudgetEfforts
    /\ ~bgen.late
    /\ LET next == bmeter.effort + 1
       IN  /\ bmeter.rag < BudgetMaxRag[next]
           /\ bmeter.used + bmeter.reserved + estimate <= BudgetMaxTokens[next]
           /\ bmeter.settledCost + bmeter.reservedCost + Cost(estimate)
                <= BudgetMaxCost[next]
UpgradeMeter == bmeter' = [bmeter EXCEPT !.effort = @ + 1, !.upgrades = 1]

-----------------------------------------------------------------------------
(* chat.budget.BudgetMeter: the in-memory gate of one execution *)

LogicalGate(x, estimate) ==
    /\ ~bgen.late
    /\ x.consumed + x.holding + estimate <= x.maxTokens
    /\ x.costHeld + Cost(estimate) <= x.maxCost

LogicalReserve(x, estimate) ==
    [x EXCEPT !.holding = @ + estimate, !.costHeld = @ + Cost(estimate), !.estimate = estimate]
LogicalReconcile(x, actual) ==
    [x EXCEPT !.holding = @ - x.estimate, !.costHeld = @ - Cost(x.estimate),
              !.consumed = @ + actual]

\* GenerationBudget: rounds of the tier, counted apart from the RAG calls
CanStartRound(x) == x.rounds < BudgetMaxRounds[x.effort]

\* The policy an execution builds from the meter's row
Policy(x, effort) ==
    [x EXCEPT !.effort = effort, !.maxTokens = BudgetMaxTokens[effort],
              !.maxCost = BudgetMaxCost[bmeter'.effort]]

-----------------------------------------------------------------------------
(* The chat worker *)

At(e, pc) == bexec[e].pc = pc
BudgetGoto(e, x, pc) == bexec' = [bexec EXCEPT ![e] = [x EXCEPT !.pc = pc]]

\* Only the current execution may change the generation
Owns(e) == e = bgen.started /\ bgen.status = "running"
Finish(e, status, cause) ==
    bgen' = IF Owns(e) THEN [bgen EXCEPT !.status = status, !.cause = cause] ELSE bgen
BudgetFails(e, cause) == BudgetGoto(e, bexec[e], "gone") /\ Finish(e, "failed", cause)

\* _persist_checkpoint: the next execution inherits it
BudgetCheckpoint(e, index, rounds) ==
    bgen' = IF Owns(e) THEN [bgen EXCEPT !.index = index, !.rounds = rounds] ELSE bgen

\* A claim, the first one or the recovery of an expired lease: the effort is
\* the generation's, rounds and index those of the checkpoint, the in-memory
\* meter starts empty.  The deepest tier begins with a plan.
BudgetClaim(e) ==
    /\ bgen.status = "running"
    /\ e = bgen.started + 1
    /\ bgen' = [bgen EXCEPT !.started = e]
    /\ EnsureMeter(bgen.effort)
    /\ BudgetGoto(e, Policy([NewExec EXCEPT !.index = bgen.index, !.rounds = bgen.rounds], bgen.effort),
            IF bgen.effort = BudgetEfforts THEN "plan" ELSE "round")
    /\ UNCHANGED bresv

\* The retrieval of a round is reserved, replayed, or refused; a round after
\* the first needs one left
BeginRound(e) ==
    /\ At(e, "round")
    /\ bexec[e].index = 0 \/ CanStartRound(bexec[e])
    /\ LET id == RoundId(bexec[e].index)
       IN  IF Admits(id, 0) THEN Reserve(id, 0) /\ BudgetGoto(e, bexec[e], "searching") /\ UNCHANGED bgen
           ELSE Refuse /\ BudgetFails(e, "budget")

\* The search returns, or raises with the reservation left behind.  When the
\* tier's rounds are used up record_rag_round raises a ValueError, which run_once
\* does not handle: the execution is left to its lease.  When hits were filtered
\* out of sight the next round follows.
EndRound(e) ==
    /\ At(e, "searching")
    /\ LET x == bexec[e]
           counted == [x EXCEPT !.rounds = @ + 1]
       IN  \/ /\ Settle(RoundId(x.index), 0)
              /\ IF ~CanStartRound(x) THEN BudgetGoto(e, x, "raised") /\ UNCHANGED bgen
                 ELSE \/ BudgetGoto(e, counted, "answer") /\ BudgetCheckpoint(e, x.index, x.rounds + 1)
                      \/ BudgetGoto(e, [counted EXCEPT !.index = @ + 1], "round") /\ UNCHANGED bgen
           \/ BudgetFails(e, "search") /\ UNCHANGED <<bmeter, bresv>>

\* _provider_call, up to the dispatch.  The persistent reservation stays when
\* the in-memory gate refuses; a plan that cannot be made is done without.
BeginCall(e, estimate) ==
    /\ At(e, "plan") \/ At(e, "answer")
    /\ LET x    == bexec[e]
           plan == x.pc = "plan"
           id   == IF plan THEN PlanId(e) ELSE AnswerId(e)
           Without(cause) == IF plan THEN BudgetGoto(e, x, "round") /\ UNCHANGED bgen ELSE BudgetFails(e, cause)
       IN  IF ~Admits(id, estimate)
           THEN Refuse /\ Without(IF Conflicts(id, estimate) THEN "conflict" ELSE "budget")
           ELSE /\ Reserve(id, estimate)
                /\ IF LogicalGate(x, estimate)
                   THEN /\ BudgetGoto(e, LogicalReserve(x, estimate), IF plan THEN "planning" ELSE "calling")
                        /\ UNCHANGED bgen
                   ELSE Without("budget")

InCall(e)   == At(e, "planning") \/ At(e, "calling")
CallOf(e)   == IF At(e, "planning") THEN PlanId(e) ELSE AnswerId(e)

\* The provider answers: a plan leads to the first round, a draft is published
\* or rejected by the self-evaluation
Answered(e, actual) ==
    /\ InCall(e)
    /\ Settle(CallOf(e), actual)
    /\ LET x == LogicalReconcile(bexec[e], actual)
       IN  IF At(e, "planning") THEN BudgetGoto(e, x, "round") /\ UNCHANGED bgen
           ELSE \/ BudgetGoto(e, x, "gone") /\ Finish(e, "completed", "none")
                \/ bexec[e].effort > 1 /\ BudgetGoto(e, x, "again") /\ UNCHANGED bgen

\* The provider raises: the meter is marked unknown even when the error is
\* definite.  A failed plan is done without, an unknown result leaves the
\* generation to reconciliation.
Raised(e) ==
    /\ InCall(e)
    /\ MarkUnknown(CallOf(e))
    /\ LET x == LogicalReconcile(bexec[e], 0)
       IN  \/ BudgetGoto(e, x, "gone") /\ Finish(e, "reconciling", "none")
           \/ At(e, "planning") /\ BudgetGoto(e, x, "round") /\ UNCHANGED bgen
           \/ At(e, "calling") /\ BudgetGoto(e, x, "gone") /\ Finish(e, "failed", "provider")

\* A rejected draft: another round while the tier has one and the in-memory
\* meter has tokens for it, else the draft is published
Publishes(e) == BudgetGoto(e, bexec[e], "gone") /\ Finish(e, "completed", "none")
TryAgain(e, estimate) ==
    /\ At(e, "again")
    /\ CanStartRound(bexec[e])
    /\ LET x  == bexec[e]
           id == RewriteId(x.rounds)
       IN  IF bgen.late \/ x.consumed + x.holding + estimate > x.maxTokens
           THEN Publishes(e) /\ UNCHANGED <<bmeter, bresv>>
           ELSE IF Admits(id, 0) THEN Reserve(id, 0) /\ BudgetGoto(e, x, "rewriting") /\ UNCHANGED bgen
           ELSE Refuse /\ BudgetFails(e, "budget")

\* The rewritten query is searched; a draft for which the gate is closed by
\* now leaves the earlier one to be published
Rewritten(e, estimate) ==
    /\ At(e, "rewriting")
    /\ LET x == [bexec[e] EXCEPT !.rounds = @ + 1]
       IN  \/ /\ Settle(RewriteId(bexec[e].rounds), 0)
              /\ IF LogicalGate(x, estimate)
                 THEN BudgetGoto(e, x, "answer") /\ BudgetCheckpoint(e, x.rounds, x.rounds)
                 ELSE Publishes(e)
           \/ BudgetFails(e, "search") /\ UNCHANGED <<bmeter, bresv>>

\* _try_upgrade_effort when the rounds are used up: first the meter ...
Upgrade(e, estimate) ==
    /\ At(e, "again") \/ (At(e, "round") /\ bexec[e].index > 0)
    /\ ~CanStartRound(bexec[e])
    /\ LET x == bexec[e]
       IN  IF x.effort < BudgetEfforts /\ CanUpgrade(estimate) /\ bmeter.effort = x.effort
           THEN /\ UpgradeMeter
                /\ BudgetGoto(e, x, IF x.pc = "again" THEN "upgrading" ELSE "upgradingRound")
                /\ UNCHANGED bgen
           ELSE /\ UNCHANGED bmeter
                /\ IF x.pc = "again" THEN Publishes(e) ELSE BudgetGoto(e, x, "answer") /\ UNCHANGED bgen
    /\ UNCHANGED bresv

\* ... then, under the fence, the generation
PersistUpgrade(e) ==
    /\ At(e, "upgrading") \/ At(e, "upgradingRound")
    /\ UNCHANGED <<bmeter, bresv>>
    /\ IF Owns(e)
       THEN /\ bgen' = [bgen EXCEPT !.effort = bexec[e].effort + 1]
            /\ BudgetGoto(e, Policy([bexec[e] EXCEPT !.upgraded = TRUE], bexec[e].effort + 1),
                    IF At(e, "upgrading") THEN "again" ELSE "round")
       ELSE UNCHANGED bgen /\ BudgetGoto(e, bexec[e], "gone")

\* The worker process dies
BudgetCrash(e) ==
    /\ bexec[e].pc \notin {"new", "gone", "raised"}
    /\ BudgetGoto(e, bexec[e], "gone")
    /\ UNCHANGED <<bgen, bmeter, bresv>>

\* The lease of the last execution expires (_terminalize_unrecoverable)
RecoveryExhausted ==
    /\ bgen.status = "running" /\ bgen.started = BudgetExecutions
    /\ bgen' = [bgen EXCEPT !.status = "failed", !.cause = "recovery"]
    /\ UNCHANGED <<bmeter, bresv, bexec>>

\* Reconciliation: the call was not sent and the execution is queued again, or
\* its outcome ends the generation
BudgetReconcile ==
    /\ bgen.status = "reconciling"
    /\ \/ bgen' = [bgen EXCEPT !.status = "running"]
       \/ \E s \in {"completed", "failed"} : bgen' = [bgen EXCEPT !.status = s]
    /\ UNCHANGED <<bmeter, bresv, bexec>>

\* The wall clock of the meter runs out
Late ==
    /\ bmeter # NoMeter /\ ~bgen.late
    /\ bgen' = [bgen EXCEPT !.late = TRUE]
    /\ UNCHANGED <<bmeter, bresv, bexec>>

BudgetInit ==
    /\ \E effort \in Efforts :
          bgen = [effort |-> effort, status |-> "running", cause |-> "none", late |-> FALSE,
                  started |-> 0, index |-> 0, rounds |-> 0]
    /\ bmeter = NoMeter
    /\ bresv = << >>
    /\ bexec = [e \in Executions |-> NewExec]

BudgetStep(e) ==
    \/ BudgetClaim(e) \/ BeginRound(e) \/ EndRound(e) \/ Raised(e) \/ PersistUpgrade(e) \/ BudgetCrash(e)
    \/ \E actual \in BudgetActual : Answered(e, actual)
    \/ \E estimate \in BudgetEstimates :
          BeginCall(e, estimate) \/ TryAgain(e, estimate) \/ Rewritten(e, estimate)
            \/ Upgrade(e, estimate)

BudgetNext == BudgetReconcile \/ RecoveryExhausted \/ Late \/ \E e \in Executions : BudgetStep(e)
BudgetSpec == BudgetInit /\ [][BudgetNext]_budgetVars

-----------------------------------------------------------------------------
(* Properties *)

Rows(status) == {id \in DOMAIN bresv : bresv[id].status = status}
\* one pair for each token of these reservations: their number is a sum
Units(ids, amount) == UNION {{id} \X (1..amount[id]) : id \in ids}
Tokens == [id \in DOMAIN bresv |-> bresv[id].tokens]
Actual == [id \in DOMAIN bresv |-> bresv[id].actual]

BudgetTypeOK ==
    /\ bgen \in [effort : Efforts, late : BOOLEAN, started : 0..BudgetExecutions,
                 status : {"running", "reconciling", "completed", "failed"},
                 cause : {"none", "budget", "conflict", "recovery", "search", "provider"},
                 index : Nat, rounds : Nat]
    /\ bmeter # NoMeter => bmeter.effort \in Efforts /\ bmeter.status \in {"active", "exhausted"}
    /\ \A id \in DOMAIN bresv :
          bresv[id] \in [status : {"reserved", "settled", "released"}, tokens : Nat, actual : Nat]
    /\ \A e \in Executions : bexec[e].holding >= 0 /\ bexec[e].costHeld >= 0

\* The meter is the sum of its reservations, whatever executions crash, are
\* replayed or overlap (budget.py: reserve, settle, mark_unknown); what is
\* committed exceeds a limit only when some call came back dearer than its
\* estimate, and then the meter is exhausted.
BudgetBooks ==
    /\ bmeter.rag = Cardinality({id \in DOMAIN bresv : IsRag(id)})
    /\ bmeter.reserved = Cardinality(Units(Rows("reserved"), Tokens))
    /\ bmeter.reservedCost = Cost(bmeter.reserved)
    /\ bmeter.used = Cardinality(Units(Rows("settled"), Actual))
    /\ bmeter.settledCost = Cost(bmeter.used)
BudgetWithin ==
    bmeter.status = "active" =>
        /\ bmeter.rag <= BudgetMaxRag[bmeter.effort]
        /\ bmeter.settledCost + bmeter.reservedCost <= BudgetMaxCost[bmeter.effort]
        /\ \A id \in Rows("settled") : Cost(bresv[id].actual) <= Cost(bresv[id].tokens)

\* An upgrade reaches the meter before the generation, never the other way
\* round, whichever execution makes it and wherever it dies (_try_upgrade_effort).
BudgetUpgradeOrder ==
    bmeter # NoMeter =>
        /\ bgen.effort \in {bmeter.effort - bmeter.upgrades, bmeter.effort}
        /\ \A e \in Executions : bexec[e].pc \notin {"new", "gone", "raised"} => bexec[e].effort <= bgen.effort

BudgetSafe == BudgetTypeOK /\ BudgetBooks /\ BudgetWithin /\ BudgetUpgradeOrder

\* After a call came back unknown, or dearer than estimated, nothing new is
\* reserved for this generation by any execution (mark_unknown, settle).
BudgetStaysClosed ==
    [][bmeter.status = "exhausted" => /\ bmeter'.status = "exhausted"
                                      /\ DOMAIN bresv' = DOMAIN bresv]_budgetVars

\* worker.py:1492: think and deep run again while the tier has rounds and the
\* budget gates are open, so a second draft is not refused for the identity of
\* its reservation.
BudgetSecondDraft == bgen.cause # "conflict"

\* operations.md:197: recovery goes on in the same generation and budget; an
\* execution does not die because the round it repeats was counted before.
BudgetRecoveredRound == \A e \in Executions : bexec[e].pc # "raised"

=============================================================================
