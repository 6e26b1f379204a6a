---------------------------- MODULE ProviderCall ----------------------------
(***************************************************************************)
(* The ledger rows of one logical provider call: the wrapper that prepares,*)
(* dispatches, sends, retries and settles its physical requests            *)
(* (provider_integration.py around platform/provider.py), the ledger's     *)
(* state machine (ledger.py) and the reconciliation ticks that settle what *)
(* a crashed or unanswered wrapper left behind (reconcile.py).             *)
(*                                                                         *)
(* A ledger method is one transaction and one action: each locks the row   *)
(* before it reads or writes it.  Between two actions of the wrapper or of *)
(* a tick anything else may commit.  Clocks are abstracted to the passing  *)
(* of a request's own deadline.                                            *)
(***************************************************************************)
EXTENDS Integers

CONSTANTS
    MaxAttempts,    \* provider.py: synchronous_attempts, asynchronous_attempts
    Reconcilers,    \* maintenance ticks that may run at the same time
    Amounts         \* amounts a provider may state without a measurement

ASSUME CallAssumption == MaxAttempts \in Nat \ {0}

VARIABLES
    call,       \* status of the provider_call row of each physical request
    usage,      \* result of its provider_usage event
    amount,     \* amount of its amount_only reconciliation row
    overdue,    \* has the request's persisted deadline passed?
    wire,       \* what happened to the request on the network
    wrapper,    \* the process inside run_provider_call_with_usage
    tick        \* each process inside reconcile_unknown_calls

ledger == <<call, usage, amount>>
vars   == <<call, usage, amount, overdue, wire, wrapper, tick>>

Requests == 1..MaxAttempts
Results  == {"succeeded", "failed"}

-----------------------------------------------------------------------------
(* The ledger *)

\* mark_not_sent_in_transaction: from a billed row it raises and writes nothing
NotSent(n) ==
    IF call[n] \in {"prepared", "dispatching", "unknown"}
    THEN /\ call' = [call EXCEPT ![n] = "not_sent"]
         /\ amount' = [amount EXCEPT ![n] = "none"]
         /\ UNCHANGED usage
    ELSE UNCHANGED ledger

\* mark_unknown_in_transaction: from a settled row it raises or does nothing
Unknown(n) ==
    /\ call' = [call EXCEPT ![n] = IF @ = "dispatching" THEN "unknown" ELSE @]
    /\ UNCHANGED <<usage, amount>>

\* complete_provider_call_in_transaction refuses other states and other facts
Accepts(n, result) ==
    /\ call[n] \in {"dispatching", "unknown", "completed"}
    /\ usage[n] \in {"none", result}

MutantComplete(n, result) ==    \* keeps the amount the measurement replaces
    /\ call' = [call EXCEPT ![n] = "completed"]
    /\ usage' = [usage EXCEPT ![n] = result]
    /\ UNCHANGED amount
Complete(n, result) ==
    /\ call' = [call EXCEPT ![n] = "completed"]
    /\ usage' = [usage EXCEPT ![n] = result]
    /\ amount' = [amount EXCEPT ![n] = "none"]

\* record_reconciliation_amount_only: another amount is a conflict
RecordAmount(n, a) ==
    /\ amount' = [amount EXCEPT ![n] = IF @ = "none" THEN a ELSE @]
    /\ UNCHANGED <<call, usage>>

-----------------------------------------------------------------------------
(* The wrapper *)

Goto(pc) == wrapper' = [wrapper EXCEPT !.pc = pc]

\* prepare: the callback may fail before or after its transaction commits
Prepare ==
    /\ wrapper.pc = "start"
    /\ wrapper.n < MaxAttempts
    /\ \E pc \in {"prepared", "not_prepared"} :
          /\ wrapper' = [wrapper EXCEPT !.pc = pc, !.n = @ + 1]
          /\ \/ call' = [call EXCEPT ![wrapper.n + 1] = "prepared"]
             \/ pc = "not_prepared" /\ UNCHANGED call
    /\ UNCHANGED <<usage, amount, overdue, wire, tick>>

\* mark_not_sent_if_prepared
ForgetPrepared ==
    /\ wrapper.pc = "not_prepared"
    /\ Goto("done")
    /\ IF call[wrapper.n] = "prepared" THEN NotSent(wrapper.n) ELSE UNCHANGED ledger
    /\ UNCHANGED <<overdue, wire, tick>>

\* The clock says it is too late, before or inside mark_dispatching
DispatchTooLate ==
    /\ wrapper.pc = "prepared"
    /\ overdue[wrapper.n]
    /\ NotSent(wrapper.n)
    /\ Goto("done")
    /\ UNCHANGED <<overdue, wire, tick>>

\* mark_dispatching: it too may fail before or after its commit
Dispatch ==
    /\ wrapper.pc = "prepared"
    /\ \E pc \in {"dispatched", "abandoned"} :
          /\ Goto(pc)
          /\ \/ /\ call[wrapper.n] = "prepared" /\ ~overdue[wrapper.n]
                /\ call' = [call EXCEPT ![wrapper.n] = "dispatching"]
             \/ pc = "abandoned" /\ UNCHANGED call
    /\ UNCHANGED <<usage, amount, overdue, wire, tick>>

\* The last check of the clock, which may itself fail or be cancelled
Send ==
    /\ wrapper.pc = "dispatched"
    /\ \/ /\ ~overdue[wrapper.n]
          /\ wire' = [wire EXCEPT ![wrapper.n] = "flying"]
          /\ Goto("sending")
       \/ Goto("abandoned") /\ UNCHANGED wire
    /\ UNCHANGED <<ledger, overdue, tick>>

\* The transport raises ProviderFailure(sent=False)
NotReached ==
    /\ wrapper.pc = "sending"
    /\ wire[wrapper.n] = "flying"
    /\ wire' = [wire EXCEPT ![wrapper.n] = "unsent"]
    /\ Goto("refused")
    /\ UNCHANGED <<ledger, overdue, tick>>

MarkNotSent ==
    /\ wrapper.pc \in {"abandoned", "refused"}
    /\ NotSent(wrapper.n)
    /\ Goto(IF wrapper.pc = "refused" THEN "failed" ELSE "done")
    /\ UNCHANGED <<overdue, wire, tick>>

\* A response arrives; one that cannot be parsed counts as failed
Answer ==
    /\ wrapper.pc = "sending"
    /\ wire[wrapper.n] \in Results
    /\ \E got \in {wire[wrapper.n], "failed"} :
          wrapper' = [wrapper EXCEPT !.pc = "answered", !.got = got]
    /\ UNCHANGED <<ledger, overdue, wire, tick>>

\* Timeout, lost connection, cancellation or any other exception after sending
NoAnswer ==
    /\ wrapper.pc = "sending"
    /\ Goto("unanswered")
    /\ UNCHANGED <<ledger, overdue, wire, tick>>

\* finalize_usage: complete, and go on unless the commit seems to have failed
FinalizeUsage ==
    /\ wrapper.pc = "answered"
    /\ Accepts(wrapper.n, wrapper.got)
    /\ Complete(wrapper.n, wrapper.got)
    /\ \E pc \in {IF wrapper.got = "succeeded" THEN "done" ELSE "failed", "uncertain"} : Goto(pc)
    /\ UNCHANGED <<overdue, wire, tick>>

\* The measurement, the ownership or the completion callback raises
FinalizeFails ==
    /\ wrapper.pc = "answered"
    /\ Goto("uncertain")
    /\ UNCHANGED <<ledger, overdue, wire, tick>>

\* mark_unknown, or mark_unknown_if_unfinished after an uncertain completion
MarkUnknown ==
    /\ wrapper.pc \in {"unanswered", "uncertain"}
    /\ Unknown(wrapper.n)
    /\ Goto(IF wrapper.pc = "unanswered" /\ call[wrapper.n] \in {"dispatching", "unknown"}
            THEN "failed" ELSE "done")
    /\ UNCHANGED <<overdue, wire, tick>>

\* call_with_policy sleeps and starts over with a new physical request
Retry ==
    /\ wrapper.pc = "failed"
    /\ ~overdue[wrapper.n]
    /\ Goto("start")
    /\ UNCHANGED <<ledger, overdue, wire, tick>>

\* A final failure, the attempts used up, or the call's deadline passed
Finish ==
    /\ wrapper.pc \in {"start", "failed"}
    /\ Goto("done")
    /\ UNCHANGED <<ledger, overdue, wire, tick>>

\* The process dies, or the write that should settle the request fails
Crash ==
    /\ wrapper.pc \notin {"done", "lost"}
    /\ Goto("lost")
    /\ UNCHANGED <<ledger, overdue, wire, tick>>

-----------------------------------------------------------------------------
(* Time and the provider *)

DeadlinePasses(n) ==
    /\ n <= wrapper.n
    /\ ~overdue[n]
    /\ overdue' = [overdue EXCEPT ![n] = TRUE]
    /\ UNCHANGED <<ledger, wire, wrapper, tick>>

\* The deadline is handed to the transport: no request is served after it
Serve(n) ==
    /\ wire[n] = "flying"
    /\ ~overdue[n]
    /\ \E result \in Results : wire' = [wire EXCEPT ![n] = result]
    /\ UNCHANGED <<ledger, overdue, wrapper, tick>>

-----------------------------------------------------------------------------
(* A reconciliation tick *)

Idle == [pc |-> "idle"]

MutantStale(n) == call[n] = "dispatching"   \* ignores the persisted deadline
Stale(n) == call[n] = "dispatching" /\ overdue[n]

\* _select_candidates
Scan(r, n) ==
    /\ tick[r].pc = "idle"
    /\ call[n] = "unknown" \/ Stale(n)
    /\ tick' = [tick EXCEPT ![r] = [pc |-> "found", n |-> n, seen |-> call[n]]]
    /\ UNCHANGED <<ledger, overdue, wire, wrapper>>

\* _advance_state
Advance(r) ==
    /\ tick[r].pc = "found"
    /\ LET n == tick[r].n
           ask == tick[r].seen = "unknown" \/ Stale(n) \/ call[n] = "unknown"
       IN  /\ tick' = [tick EXCEPT ![r] = IF ask THEN [pc |-> "asking", n |-> n] ELSE Idle]
           /\ IF tick[r].seen = "dispatching" /\ Stale(n)
              THEN Unknown(n) ELSE UNCHANGED ledger
    /\ UNCHANGED <<overdue, wire, wrapper>>

\* What a truthful provider may answer about a request; it may also not know
Answers(n) ==
    {[kind |-> "still_unknown"]}
    \cup (IF wire[n] \in Results
          THEN {[kind |-> "usage", result |-> wire[n]]}
               \cup {[kind |-> "amount", amount |-> a] : a \in Amounts}
          ELSE {})
    \cup (IF wire[n] = "unsent" \/ (overdue[n] /\ wire[n] = "flying")
          THEN {[kind |-> "not_sent"]} ELSE {})

\* port.confirm, outside any transaction; it may raise
Confirm(r) ==
    /\ tick[r].pc = "asking"
    /\ \/ \E d \in Answers(tick[r].n) :
             tick' = [tick EXCEPT ![r] = [pc |-> "told", n |-> tick[r].n, decision |-> d]]
       \/ tick' = [tick EXCEPT ![r] = Idle]
    /\ UNCHANGED <<ledger, overdue, wire, wrapper>>

\* The second transaction: the row must still be unknown
StillOpen(n) == call[n] = "unknown"

Settle(n, d) ==
    CASE d.kind = "usage"    -> IF Accepts(n, d.result) THEN Complete(n, d.result)
                                ELSE UNCHANGED ledger
      [] d.kind = "not_sent" -> NotSent(n)
      [] d.kind = "amount"   -> RecordAmount(n, d.amount)
      [] OTHER               -> UNCHANGED ledger

ApplyDecision(r) ==
    /\ tick[r].pc = "told"
    /\ IF StillOpen(tick[r].n) THEN Settle(tick[r].n, tick[r].decision) ELSE UNCHANGED ledger
    /\ tick' = [tick EXCEPT ![r] = Idle]
    /\ UNCHANGED <<overdue, wire, wrapper>>

\* The maintenance process dies
Abort(r) ==
    /\ tick[r].pc # "idle"
    /\ tick' = [tick EXCEPT ![r] = Idle]
    /\ UNCHANGED <<ledger, overdue, wire, wrapper>>

-----------------------------------------------------------------------------

Init ==
    /\ call = [n \in Requests |-> "none"]
    /\ usage = [n \in Requests |-> "none"]
    /\ amount = [n \in Requests |-> "none"]
    /\ overdue = [n \in Requests |-> FALSE]
    /\ wire = [n \in Requests |-> "unsent"]
    /\ wrapper = [pc |-> "start", n |-> 0, got |-> "none"]
    /\ tick = [r \in Reconcilers |-> Idle]

WrapperStep ==
    \/ Prepare \/ ForgetPrepared \/ DispatchTooLate \/ Dispatch \/ Send
    \/ NotReached \/ MarkNotSent \/ Answer \/ NoAnswer
    \/ FinalizeUsage \/ FinalizeFails \/ MarkUnknown \/ Retry \/ Finish

TickStep(r) ==
    \/ \E n \in Requests : Scan(r, n)
    \/ Advance(r) \/ Confirm(r) \/ ApplyDecision(r)

Next ==
    \/ WrapperStep \/ Crash
    \/ \E n \in Requests : DeadlinePasses(n) \/ Serve(n)
    \/ \E r \in Reconcilers : TickStep(r) \/ Abort(r)

Spec == Init /\ [][Next]_vars

(* Deadlines pass, and whatever becomes of one maintenance process some     *)
(* tick keeps being run: it takes the candidates it lists least recently    *)
(* tried first, so none is passed over for ever.                            *)
Fairness ==
    /\ \A n \in Requests :
          /\ WF_vars(DeadlinePasses(n))
          /\ SF_vars(\E r \in Reconcilers : Scan(r, n))
          /\ SF_vars(\E r \in Reconcilers : Advance(r) /\ tick[r].n = n)
    /\ WF_vars(\E r \in Reconcilers : Confirm(r) \/ ApplyDecision(r))

FairSpec == Spec /\ Fairness

-----------------------------------------------------------------------------
(* Properties *)

Statuses  == {"none", "prepared", "dispatching", "completed", "not_sent", "unknown"}
Decisions ==
    [kind : {"still_unknown", "not_sent"}] \cup [kind : {"usage"}, result : Results]
    \cup [kind : {"amount"}, amount : Amounts]

\* Every row stays inside its columns and no call sends more often than its
\* policy allows (RetryPolicy, provider_call_table)
TypeOK ==
    /\ call \in [Requests -> Statuses]
    /\ usage \in [Requests -> Results \cup {"none"}]
    /\ amount \in [Requests -> Amounts \cup {"none"}]
    /\ overdue \in [Requests -> BOOLEAN]
    /\ wire \in [Requests -> Results \cup {"unsent", "flying"}]
    /\ wrapper \in [pc : {"start", "prepared", "not_prepared", "dispatched", "abandoned",
                          "sending", "refused", "answered", "unanswered", "uncertain",
                          "failed", "done", "lost"},
                    n : 0..MaxAttempts, got : Results \cup {"none"}]
    /\ wrapper.pc \notin {"start", "done", "lost"} => wrapper.n > 0
    /\ tick \in [Reconcilers ->
                    {Idle} \cup [pc : {"found"}, n : Requests, seen : {"dispatching", "unknown"}]
                    \cup [pc : {"asking"}, n : Requests]
                    \cup [pc : {"told"}, n : Requests, decision : Decisions]]

\* A usage event stands beside a completed row and only there, and a bare
\* amount only beside an unknown one, whoever settled the row and in whatever
\* order (complete_provider_call_in_transaction, mark_not_sent_in_transaction,
\* record_reconciliation_amount_only)
LedgerAgrees ==
    \A n \in Requests :
        /\ (usage[n] # "none") <=> (call[n] = "completed")
        /\ amount[n] # "none" => call[n] = "unknown"

\* A settled row is never reopened and a usage event never rewritten, although
\* wrapper and ticks settle the same rows from what they read before
SettledForGood(n) ==
    call[n] \in {"completed", "not_sent"} => call'[n] = call[n] /\ usage'[n] = usage[n]
SettledIsFinal == [][\A n \in Requests : SettledForGood(n)]_vars

\* A wrapper that returns has settled every request it prepared, on each of its
\* error paths (run_provider_call_with_usage)
NothingLeftOpen ==
    wrapper.pc = "done" => \A n \in Requests : call[n] \notin {"prepared", "dispatching"}

\* Both of them: the books agree and nothing of a call that returned is open
BooksKept == LedgerAgrees /\ NothingLeftOpen

\* Requests are billed only if served and written off only if never served,
\* for good: the rows implement CallAccount
Verdict(n) ==
    IF call[n] = "completed" THEN "billed"
    ELSE IF call[n] = "not_sent" THEN "written_off" ELSE "open"
Account == INSTANCE CallAccount WITH
    served  <- {n \in Requests : wire[n] \in Results},
    account <- [n \in Requests |-> Verdict(n)]
AccountKept == Account!Spec

\* A dispatched request does not stay so: a crashed sender's row is taken over
\* by a tick (list of candidates of _select_candidates)
DispatchingEnds ==
    \A n \in Requests : []<>(call[n] # "dispatching")

=============================================================================
