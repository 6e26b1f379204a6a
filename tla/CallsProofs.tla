----------------------------- MODULE CallsProofs -----------------------------
(***************************************************************************)
(* Proofs about the work done with providers and backends: the ledger of   *)
(* the calls (ProviderCall), for any number of attempts, reconciliation    *)
(* ticks and amounts; the retrieval requests (Retrieval), for any          *)
(* requests, documents and versions; the publication in two backends       *)
(* (IndexStaging), for any chunks and attempts; and that MCCalls keeps     *)
(* what each of them promises.                                             *)
(***************************************************************************)
EXTENDS MCCalls, TLAPS

-----------------------------------------------------------------------------
(* Type correctness *)

\* What a tick can do to the rows, whichever of its steps it takes
Writes(n) ==
    \/ UNCHANGED ledger
    \/ Stale(n) /\ Unknown(n)
    \/ /\ call[n] = "unknown"
       /\ \/ \E result \in Results : Accepts(n, result) /\ Complete(n, result)
          \/ NotSent(n)
          \/ \E a \in Amounts : RecordAmount(n, a)

LEMMA WritesTyped ==
    ASSUME TypeOK, NEW n \in Requests, Writes(n)
    PROVE  /\ call' \in [Requests -> Statuses]
           /\ usage' \in [Requests -> Results \cup {"none"}]
           /\ amount' \in [Requests -> Amounts \cup {"none"}]
  BY DEF TypeOK, Writes, ledger, Unknown, Accepts, Complete, NotSent, RecordAmount, Statuses, Results

\* A tick's decision is settled by one write to the row it is about
LEMMA SettleWrites ==
    ASSUME NEW n \in Requests, call[n] = "unknown",
           NEW d \in Decisions, Settle(n, d)
    PROVE  Writes(n)
<1>1. CASE d.kind = "usage"
  BY <1>1 DEF Settle, Writes, Decisions
<1>2. CASE d.kind = "not_sent"
  BY <1>2 DEF Settle, Writes
<1>3. CASE d.kind = "amount"
  BY <1>3 DEF Settle, Writes, Decisions
<1>4. CASE d.kind = "still_unknown"
  BY <1>4 DEF Settle, Writes
<1> QED BY <1>1, <1>2, <1>3, <1>4 DEF Decisions

\* The rows change through one write, and the tick ends with a typed state
LEMMA TickEffect ==
    ASSUME TypeOK, NEW r \in Reconcilers, TickStep(r) \/ Abort(r)
    PROVE  /\ \E n \in Requests : tick[r].pc # "idle" => n = tick[r].n /\ Writes(n)
           /\ tick[r].pc = "idle" => UNCHANGED ledger
           /\ UNCHANGED <<overdue, wire, wrapper>>
<1>0. UNCHANGED <<overdue, wire, wrapper>>
  BY DEF TickStep, Scan, Advance, Confirm, ApplyDecision, Abort
<1>1. ASSUME NEW n \in Requests, Scan(r, n) PROVE UNCHANGED ledger /\ tick[r].pc = "idle"
  BY <1>1 DEF Scan
<1>2. CASE Advance(r)
  <2>1. tick[r].n \in Requests /\ tick[r].pc # "idle" BY <1>2 DEF Advance, TypeOK, Idle
  <2>2. Writes(tick[r].n) BY <1>2 DEF Advance, Writes
  <2> QED BY <1>0, <2>1, <2>2
<1>3. CASE Confirm(r) \/ Abort(r)
  <2>1. UNCHANGED ledger /\ tick[r].pc # "idle" BY <1>3 DEF Confirm, Abort
  <2>2. tick[r].n \in Requests BY <2>1 DEF TypeOK, Idle
  <2> QED BY <1>0, <2>1, <2>2 DEF Writes
<1>4. CASE ApplyDecision(r)
  <2>1. /\ tick[r].n \in Requests /\ tick[r].pc # "idle"
        /\ tick[r].decision \in Decisions
    BY <1>4 DEF ApplyDecision, TypeOK, Idle
  <2>2. Writes(tick[r].n)
    BY <1>4, <2>1, SettleWrites DEF ApplyDecision, StillOpen, Writes
  <2> QED BY <1>0, <2>1, <2>2
<1> QED BY <1>0, <1>1, <1>2, <1>3, <1>4, CallAssumption DEF TickStep, Requests

LEMMA TickTyped ==
    ASSUME TypeOK, NEW r \in Reconcilers, TickStep(r) \/ Abort(r)
    PROVE  TypeOK'
<1>1. /\ call' \in [Requests -> Statuses]
      /\ usage' \in [Requests -> Results \cup {"none"}]
      /\ amount' \in [Requests -> Amounts \cup {"none"}]
  BY TickEffect, WritesTyped DEF TypeOK, ledger
<1>2. /\ overdue' = overdue /\ wire' = wire /\ wrapper' = wrapper
  BY TickEffect
<1>3. tick' \in [Reconcilers ->
                    {Idle} \cup [pc : {"found"}, n : Requests, seen : {"dispatching", "unknown"}]
                    \cup [pc : {"asking"}, n : Requests]
                    \cup [pc : {"told"}, n : Requests, decision : Decisions]]
  <2>1. ASSUME NEW n \in Requests, Scan(r, n)
        PROVE  tick' = [tick EXCEPT ![r] = [pc |-> "found", n |-> n, seen |-> call[n]]]
               /\ call[n] \in {"dispatching", "unknown"}
    BY <2>1 DEF Scan, Stale
  <2>2. CASE Advance(r)
    <3>1. tick[r].n \in Requests BY <2>2 DEF Advance, TypeOK, Idle
    <3> QED BY <2>2, <3>1 DEF Advance, TypeOK
  <2>3. CASE Confirm(r)
    <3>1. tick[r].n \in Requests BY <2>3 DEF Confirm, TypeOK, Idle
    <3>2. Answers(tick[r].n) \subseteq Decisions BY <3>1 DEF Answers, Decisions, TypeOK
    <3> QED BY <2>3, <3>1, <3>2 DEF Confirm, TypeOK
  <2>4. CASE ApplyDecision(r) \/ Abort(r) BY <2>4 DEF ApplyDecision, Abort, TypeOK
  <2> QED BY <2>1, <2>2, <2>3, <2>4 DEF TickStep, TypeOK
<1> QED BY <1>1, <1>2, <1>3 DEF TypeOK

LEMMA WrapperTyped == ASSUME TypeOK, WrapperStep PROVE TypeOK'
<1> USE CallAssumption DEF TypeOK, Requests, Results, Statuses, Goto, ledger
<1>1. CASE Prepare
  <2>1. /\ call' \in [Requests -> Statuses]
        /\ UNCHANGED <<usage, amount, overdue, wire, tick>>
    BY <1>1 DEF Prepare
  <2>2. PICK pc \in {"prepared", "not_prepared"} :
            wrapper' = [wrapper EXCEPT !.pc = pc, !.n = @ + 1]
    BY <1>1 DEF Prepare
  <2>3. wrapper.n + 1 \in 0..MaxAttempts /\ wrapper.n + 1 > 0 BY <1>1 DEF Prepare
  <2> QED BY <2>1, <2>2, <2>3
<1>2. CASE ForgetPrepared BY <1>2, ZenonT(40) DEF ForgetPrepared, NotSent
<1>3. CASE DispatchTooLate
  <2>1. NotSent(wrapper.n) /\ Goto("done") /\ UNCHANGED <<overdue, wire, tick>>
    BY <1>3 DEF DispatchTooLate
  <2>2. /\ call' \in [Requests -> Statuses]
        /\ usage' \in [Requests -> Results \cup {"none"}]
        /\ amount' \in [Requests -> Amounts \cup {"none"}]
    BY <2>1, ZenonT(40) DEF NotSent
  <2> QED BY <2>1, <2>2
<1>4. CASE Dispatch BY <1>4, ZenonT(40) DEF Dispatch
<1>5. CASE Send BY <1>5, ZenonT(40) DEF Send
<1>6. CASE NotReached BY <1>6 DEF NotReached
<1>7. CASE MarkNotSent BY <1>7, ZenonT(40) DEF MarkNotSent, NotSent
<1>8. CASE Answer BY <1>8, ZenonT(40) DEF Answer
<1>9. CASE NoAnswer BY <1>9 DEF NoAnswer
<1>10. CASE FinalizeUsage BY <1>10, ZenonT(40) DEF FinalizeUsage, Accepts, Complete
<1>11. CASE FinalizeFails BY <1>11 DEF FinalizeFails
<1>12. CASE MarkUnknown BY <1>12 DEF MarkUnknown, Unknown
<1>13. CASE Retry BY <1>13 DEF Retry
<1>14. CASE Finish BY <1>14 DEF Finish
<1> QED BY <1>1, <1>2, <1>3, <1>4, <1>5, <1>6, <1>7, <1>8, <1>9, <1>10, <1>11, <1>12,
           <1>13, <1>14 DEF WrapperStep

LEMMA TypeStep == TypeOK /\ [Next]_vars => TypeOK'
<1> SUFFICES ASSUME TypeOK, [Next]_vars PROVE TypeOK' OBVIOUS
<1>1. CASE WrapperStep BY <1>1, WrapperTyped
<1>2. CASE Crash BY <1>2 DEF Crash, Goto, TypeOK, ledger
<1>3. ASSUME NEW n \in Requests, DeadlinePasses(n) \/ Serve(n) PROVE TypeOK'
  <2>1. CASE DeadlinePasses(n) BY <2>1 DEF DeadlinePasses, TypeOK, ledger
  <2>2. CASE Serve(n)
    <3>1. wire' \in [Requests -> Results \cup {"unsent", "flying"}] BY <2>2 DEF Serve, TypeOK
    <3> QED BY <2>2, <3>1 DEF Serve, TypeOK, ledger
  <2> QED BY <1>3, <2>1, <2>2
<1>4. ASSUME NEW r \in Reconcilers, TickStep(r) \/ Abort(r) PROVE TypeOK' BY <1>4, TickTyped
<1>5. CASE UNCHANGED vars BY <1>5 DEF vars, TypeOK
<1> QED BY <1>1, <1>2, <1>3, <1>4, <1>5 DEF Next

\* Rows, wrapper and ticks stay in their types and attempts in their bound
THEOREM TypeCorrect == Spec => []TypeOK
<1>1. Init => TypeOK BY CallAssumption DEF Init, TypeOK, Idle, Requests, Results, Statuses
<1> QED BY <1>1, TypeStep, PTL DEF Spec

-----------------------------------------------------------------------------
(* Where the wrapper is, what its requests can be *)

Closed(n) == call[n] \notin {"prepared", "dispatching"}

\* Requests after the current one do not exist, those before it are closed
PastAndFuture ==
    \A n \in Requests : /\ n > wrapper.n => call[n] = "none" /\ wire[n] = "unsent"
                        /\ n < wrapper.n => Closed(n)

\* The state of the current request follows the wrapper
InHand ==
    wrapper.n > 0 =>
        LET n == wrapper.n IN
        /\ wrapper.pc \in {"start", "failed", "done"} => Closed(n)
        /\ wrapper.pc \in {"prepared", "not_prepared"} => call[n] \in {"none", "prepared"}
        /\ wrapper.pc \in {"dispatched", "sending", "answered", "unanswered", "uncertain"}
              => call[n] \notin {"none", "prepared"}
        /\ wrapper.pc \in {"prepared", "not_prepared", "dispatched", "abandoned", "refused"}
              => wire[n] = "unsent"
        /\ wrapper.pc = "answered" => wire[n] \in Results /\ wrapper.got \in Results

\* The wrapper may still send request n
MaySend(n) ==
    /\ ~overdue[n]
    /\ n > wrapper.n \/ (n = wrapper.n /\ wrapper.pc \in {"prepared", "dispatched"})

\* No step can serve request n any more
NeverServed(n) ==
    /\ ~MaySend(n)
    /\ wire[n] = "unsent" \/ (wire[n] = "flying" /\ overdue[n])

\* A row the wrapper no longer controls is about a request it cannot send
OutOfHand ==
    \A n \in Requests :
        /\ call[n] \in {"completed", "not_sent", "unknown"} => ~MaySend(n)
        /\ call[n] = "completed" => wire[n] \in Results
        /\ call[n] = "not_sent" => NeverServed(n)

\* What a tick has found and been told stays true until it acts on it
TickSound ==
    \A r \in Reconcilers :
        /\ tick[r].pc # "idle" => ~MaySend(tick[r].n)
        /\ tick[r].pc = "told" =>
             /\ tick[r].decision.kind = "usage" => wire[tick[r].n] \in Results
             /\ tick[r].decision.kind = "not_sent" => NeverServed(tick[r].n)

CallInv == TypeOK /\ PastAndFuture /\ InHand /\ LedgerAgrees /\ OutOfHand /\ TickSound

-----------------------------------------------------------------------------
(* The network: who may still send, and what was never served, is stable *)

LEMMA Stable ==
    ASSUME CallInv, [Next]_vars, NEW n \in Requests
    PROVE  /\ MaySend(n)' => MaySend(n)
           /\ NeverServed(n) => NeverServed(n)'
           /\ wire[n] \in Results => wire'[n] = wire[n]
<1> USE CallAssumption DEF CallInv, TypeOK, Requests, Results, MaySend, NeverServed, Goto
<1>1. CASE WrapperStep
  <2>1. CASE Prepare
    <3>1. /\ wrapper'.n = wrapper.n + 1 /\ wrapper'.pc \in {"prepared", "not_prepared"}
          /\ overdue' = overdue /\ wire' = wire
      BY <2>1 DEF Prepare
    <3> QED BY <3>1
  <2>2. CASE Send BY <2>2 DEF Send, InHand
  <2>3. CASE NotReached BY <2>3 DEF NotReached
  <2>4. CASE ForgetPrepared BY <2>4 DEF ForgetPrepared
  <2>5. CASE DispatchTooLate BY <2>5 DEF DispatchTooLate
  <2>6. CASE Dispatch BY <2>6 DEF Dispatch
  <2>7. CASE MarkNotSent BY <2>7 DEF MarkNotSent
  <2>8. CASE Answer \/ NoAnswer BY <2>8, ZenonT(40) DEF Answer, NoAnswer
  <2>9. CASE FinalizeUsage \/ FinalizeFails BY <2>9 DEF FinalizeUsage, FinalizeFails
  <2>10. CASE MarkUnknown BY <2>10 DEF MarkUnknown
  <2>11. CASE Retry \/ Finish BY <2>11 DEF Retry, Finish
  <2> QED BY <1>1, <2>1, <2>2, <2>3, <2>4, <2>5, <2>6, <2>7, <2>8, <2>9, <2>10, <2>11
          DEF WrapperStep
<1>2. CASE Crash BY <1>2 DEF Crash
<1>3. ASSUME NEW m \in Requests, DeadlinePasses(m)
      PROVE  /\ MaySend(n)' => MaySend(n)
             /\ NeverServed(n) => NeverServed(n)'
             /\ wire[n] \in Results => wire'[n] = wire[n]
  BY <1>3 DEF DeadlinePasses
<1>4. ASSUME NEW m \in Requests, Serve(m)
      PROVE  /\ MaySend(n)' => MaySend(n)
             /\ NeverServed(n) => NeverServed(n)'
             /\ wire[n] \in Results => wire'[n] = wire[n]
  BY <1>4 DEF Serve
<1>5. ASSUME NEW r \in Reconcilers, TickStep(r) \/ Abort(r)
      PROVE  UNCHANGED <<overdue, wire, wrapper>>
  BY <1>5, TickEffect
<1>6. CASE UNCHANGED vars BY <1>6 DEF vars
<1> QED BY <1>1, <1>2, <1>3, <1>4, <1>5, <1>6 DEF Next

-----------------------------------------------------------------------------
(* A tick keeps the invariant *)

\* It decides only what the provider told it, and that is still true
LEMMA TickVerdict ==
    ASSUME CallInv, NEW r \in Reconcilers, TickStep(r) \/ Abort(r), NEW n \in Requests
    PROVE  /\ call'[n] = "completed" /\ call[n] # "completed" => wire[n] \in Results
           /\ call'[n] = "not_sent" /\ call[n] # "not_sent" => NeverServed(n)
<1> USE DEF CallInv, TypeOK, Idle, ledger
<1>1. CASE ApplyDecision(r)
  <2>1. PICK m \in Requests, d \in Decisions : m = tick[r].n /\ d = tick[r].decision
    BY <1>1 DEF ApplyDecision
  <2>2. UNCHANGED ledger \/ (call[m] = "unknown" /\ Settle(m, d))
    BY <1>1, <2>1 DEF ApplyDecision, StillOpen
  <2>3. /\ d.kind = "usage" => wire[m] \in Results
        /\ d.kind = "not_sent" => NeverServed(m)
    BY <1>1, <2>1 DEF ApplyDecision, TickSound
  <2>4. CASE call[m] = "unknown" /\ Settle(m, d) /\ d.kind = "usage"
    BY <2>3, <2>4 DEF Settle, Complete
  <2>5. CASE call[m] = "unknown" /\ Settle(m, d) /\ d.kind = "not_sent"
    BY <2>3, <2>5 DEF Settle, NotSent
  <2>6. CASE call[m] = "unknown" /\ Settle(m, d) /\ d.kind \in {"amount", "still_unknown"}
    <3>1. call' = call
      <4>1. CASE d.kind = "amount" BY <2>6, <4>1 DEF Settle, RecordAmount
      <4>2. CASE d.kind = "still_unknown" BY <2>6, <4>2 DEF Settle
      <4> QED BY <2>6, <4>1, <4>2
    <3> QED BY <3>1
  <2> QED BY <2>2, <2>4, <2>5, <2>6 DEF Decisions
<1>2. CASE Advance(r) BY <1>2 DEF Advance, Unknown
<1>3. CASE Confirm(r) \/ Abort(r) BY <1>3 DEF Confirm, Abort
<1>4. ASSUME NEW m \in Requests, Scan(r, m) PROVE call' = call BY <1>4 DEF Scan
<1> QED BY <1>1, <1>2, <1>3, <1>4 DEF TickStep

LEMMA TickKeepsRows ==
    ASSUME CallInv, NEW r \in Reconcilers, TickStep(r) \/ Abort(r)
    PROVE  PastAndFuture' /\ InHand' /\ LedgerAgrees' /\ OutOfHand'
<1>1. UNCHANGED <<overdue, wire, wrapper>> BY TickEffect DEF CallInv
<1>2. PICK m \in Requests : Writes(m)
  <2>1. PICK n \in Requests : /\ tick[r].pc # "idle" => Writes(n)
                              /\ tick[r].pc = "idle" => UNCHANGED ledger
    BY TickEffect DEF CallInv
  <2> QED BY <2>1 DEF Writes
<1>3. \A n \in Requests : call'[n] # call[n] =>
          /\ call[n] = "unknown" \/ Stale(n)
          /\ call'[n] \in {"unknown", "completed", "not_sent"}
  BY <1>2 DEF Writes, ledger, Unknown, Complete, NotSent, RecordAmount, CallInv, TypeOK, Stale
<1>4. LedgerAgrees'
  BY <1>2 DEF Writes, ledger, Unknown, Accepts, Complete, NotSent, RecordAmount, CallInv,
              TypeOK, LedgerAgrees, Stale, Results
<1>5. PastAndFuture'
  BY <1>1, <1>3 DEF PastAndFuture, Closed, CallInv, Stale
<1>6. InHand'
  BY <1>1, <1>3 DEF InHand, Closed, CallInv, TypeOK, Requests, Stale
<1>7. OutOfHand'
  BY <1>1, <1>3, TickVerdict DEF OutOfHand, CallInv, MaySend, NeverServed, Stale
<1> QED BY <1>4, <1>5, <1>6, <1>7

LEMMA TickKeepsSound ==
    ASSUME CallInv, NEW r \in Reconcilers, TickStep(r) \/ Abort(r)
    PROVE  TickSound'
<1> USE DEF CallInv, TypeOK, Idle
<1>1. UNCHANGED <<overdue, wire, wrapper>> BY TickEffect
<1>2. \A n \in Requests : MaySend(n)' = MaySend(n) /\ NeverServed(n)' = NeverServed(n)
  BY <1>1 DEF MaySend, NeverServed
<1>3. ASSUME NEW n \in Requests, Scan(r, n) PROVE TickSound'
  <2>1. ~MaySend(n) BY <1>3 DEF Scan, Stale, OutOfHand, MaySend
  <2> QED BY <1>1, <1>2, <1>3, <2>1 DEF Scan, TickSound
<1>4. CASE Advance(r) BY <1>1, <1>2, <1>4 DEF Advance, TickSound
<1>5. CASE Confirm(r)
  <2>1. PICK n \in Requests : n = tick[r].n /\ ~MaySend(n)
    BY <1>5 DEF Confirm, TickSound
  <2>2. ASSUME NEW d \in Answers(n)
        PROVE  /\ d.kind = "usage" => wire[n] \in Results
               /\ d.kind = "not_sent" => NeverServed(n)
    BY <2>1, <2>2 DEF Answers, NeverServed
  <2>3. \/ tick' = [tick EXCEPT ![r] = Idle]
        \/ \E d \in Answers(n) : tick' = [tick EXCEPT ![r] = [pc |-> "told", n |-> n, decision |-> d]]
    BY <1>5, <2>1 DEF Confirm
  <2> QED BY <1>1, <1>2, <2>1, <2>2, <2>3 DEF TickSound
<1>6. CASE ApplyDecision(r) \/ Abort(r)
  BY <1>1, <1>2, <1>6 DEF ApplyDecision, Abort, TickSound
<1> QED BY <1>3, <1>4, <1>5, <1>6 DEF TickStep

-----------------------------------------------------------------------------
(* The wrapper, its crash, the clock and the provider keep it *)

RowsInv == PastAndFuture /\ InHand /\ LedgerAgrees /\ OutOfHand

LEMMA WrapperKeeps == ASSUME CallInv, WrapperStep PROVE RowsInv'
<1> USE CallAssumption DEF CallInv, RowsInv, TypeOK, Requests, Results, Statuses, Goto, ledger,
        PastAndFuture, InHand, LedgerAgrees, OutOfHand, MaySend, NeverServed, Closed
<1>1. CASE Prepare
  <2>1. /\ wrapper.pc = "start" /\ wrapper.n + 1 \in Requests
        /\ wrapper'.n = wrapper.n + 1 /\ wrapper'.pc \in {"prepared", "not_prepared"}
        /\ UNCHANGED <<usage, amount, overdue, wire, tick>>
    BY <1>1 DEF Prepare
  <2>2. call[wrapper.n + 1] = "none" /\ wire[wrapper.n + 1] = "unsent" BY <2>1
  <2>3. \/ call' = [call EXCEPT ![wrapper.n + 1] = "prepared"]
        \/ call' = call
    BY <1>1 DEF Prepare
  <2>4. PastAndFuture'
    <3> SUFFICES ASSUME NEW n \in Requests
                 PROVE  /\ n > wrapper'.n => call'[n] = "none" /\ wire'[n] = "unsent"
                        /\ n < wrapper'.n => call'[n] \notin {"prepared", "dispatching"}
      BY DEF PastAndFuture
    <3>1. n > wrapper'.n => n > wrapper.n /\ n # wrapper.n + 1 BY <2>1
    <3>2. n < wrapper'.n => n # wrapper.n + 1 /\ (n < wrapper.n \/ (n = wrapper.n /\ wrapper.n > 0))
      BY <2>1
    <3> QED BY <2>1, <2>3, <3>1, <3>2
  <2>5. InHand' BY <2>1, <2>2, <2>3
  <2>6. LedgerAgrees' BY <2>1, <2>2, <2>3
  <2>7. OutOfHand' BY <2>1, <2>2, <2>3
  <2> QED BY <2>4, <2>5, <2>6, <2>7
<1>2. CASE ForgetPrepared BY <1>2 DEF ForgetPrepared, NotSent
<1>3. CASE DispatchTooLate BY <1>3 DEF DispatchTooLate, NotSent
<1>4. CASE Dispatch BY <1>4 DEF Dispatch
<1>5. CASE Send BY <1>5 DEF Send
<1>6. CASE NotReached BY <1>6 DEF NotReached
<1>7. CASE MarkNotSent
  <2>1. PICK n \in Requests : n = wrapper.n BY <1>7 DEF MarkNotSent
  <2>2. /\ wrapper.pc \in {"abandoned", "refused"} /\ NotSent(n)
        /\ wrapper'.n = n /\ wrapper'.pc \in {"done", "failed"}
        /\ UNCHANGED <<overdue, wire, tick>>
    BY <1>7, <2>1 DEF MarkNotSent
  <2>3. PastAndFuture' BY <2>1, <2>2 DEF NotSent
  <2>4. InHand' BY <2>1, <2>2 DEF NotSent
  <2>5. LedgerAgrees' BY <2>1, <2>2 DEF NotSent
  <2>6. OutOfHand' BY <2>1, <2>2 DEF NotSent
  <2> QED BY <2>3, <2>4, <2>5, <2>6
<1>8. CASE Answer BY <1>8 DEF Answer
<1>9. CASE NoAnswer BY <1>9 DEF NoAnswer
<1>10. CASE FinalizeUsage
  <2>1. PICK n \in Requests : n = wrapper.n BY <1>10 DEF FinalizeUsage
  <2>2. /\ call[n] \in {"dispatching", "unknown", "completed"}
        /\ call' = [call EXCEPT ![n] = "completed"]
        /\ usage' = [usage EXCEPT ![n] = wrapper.got]
        /\ amount' = [amount EXCEPT ![n] = "none"]
        /\ UNCHANGED <<overdue, wire, tick>>
    BY <1>10, <2>1 DEF FinalizeUsage, Accepts, Complete
  <2>3. wrapper'.n = n /\ wrapper'.pc \in {"done", "failed", "uncertain"}
    BY <1>10, <2>1 DEF FinalizeUsage
  <2>4. wire[n] \in Results /\ wrapper.pc = "answered" BY <1>10, <2>1 DEF FinalizeUsage
  <2>5. wrapper.got # "none"
    BY <1>10 DEF FinalizeUsage
  <2>6. PastAndFuture' BY <2>1, <2>2, <2>3
  <2>7. InHand' BY <2>1, <2>2, <2>3, <2>4
  <2>8. LedgerAgrees' BY <2>1, <2>2, <2>3, <2>5
  <2>9. OutOfHand' BY <2>1, <2>2, <2>3, <2>4
  <2> QED BY <2>6, <2>7, <2>8, <2>9
<1>11. CASE FinalizeFails BY <1>11 DEF FinalizeFails
<1>12. CASE MarkUnknown BY <1>12 DEF MarkUnknown, Unknown
<1>13. CASE Retry BY <1>13 DEF Retry
<1>14. CASE Finish BY <1>14 DEF Finish
<1> QED BY <1>1, <1>2, <1>3, <1>4, <1>5, <1>6, <1>7, <1>8, <1>9, <1>10, <1>11, <1>12,
           <1>13, <1>14 DEF WrapperStep

LEMMA WorldKeeps ==
    ASSUME CallInv, NEW n \in Requests, Crash \/ DeadlinePasses(n) \/ Serve(n)
    PROVE  RowsInv'
<1> USE DEF CallInv, RowsInv, TypeOK, Requests, Results, Goto, ledger,
        PastAndFuture, InHand, LedgerAgrees, OutOfHand, MaySend, NeverServed, Closed
<1>1. CASE Crash BY <1>1 DEF Crash
<1>2. CASE DeadlinePasses(n) BY <1>2 DEF DeadlinePasses
<1>3. CASE Serve(n) BY <1>3 DEF Serve
<1> QED BY <1>1, <1>2, <1>3

\* What a tick knows survives every step it does not take itself
LEMMA OthersKeepSound ==
    ASSUME CallInv, [Next]_vars, UNCHANGED tick PROVE TickSound'
<1>1. ASSUME NEW r \in Reconcilers, tick[r].pc # "idle"
      PROVE  /\ ~MaySend(tick[r].n)'
             /\ tick[r].pc = "told" =>
                  /\ tick[r].decision.kind = "usage" => wire'[tick[r].n] \in Results
                  /\ tick[r].decision.kind = "not_sent" => NeverServed(tick[r].n)'
  <2>1. PICK n \in Requests : n = tick[r].n BY <1>1 DEF CallInv, TypeOK, Idle
  <2> QED BY <1>1, <2>1, Stable DEF CallInv, TickSound, MaySend, NeverServed
<1> QED BY <1>1 DEF TickSound, MaySend, NeverServed

LEMMA CallStep == CallInv /\ [Next]_vars => CallInv'
<1> SUFFICES ASSUME CallInv, [Next]_vars PROVE CallInv' OBVIOUS
<1>1. TypeOK' BY TypeStep DEF CallInv
<1>2. CASE WrapperStep
  <2>1. UNCHANGED tick
    BY <1>2 DEF WrapperStep, Prepare, ForgetPrepared, DispatchTooLate, Dispatch, Send,
       NotReached, MarkNotSent, Answer, NoAnswer, FinalizeUsage, FinalizeFails,
       MarkUnknown, Retry, Finish
  <2> QED BY <1>1, <1>2, <2>1, WrapperKeeps, OthersKeepSound DEF CallInv, RowsInv
<1>3. ASSUME NEW n \in Requests, Crash \/ DeadlinePasses(n) \/ Serve(n) PROVE CallInv'
  <2>1. UNCHANGED tick BY <1>3 DEF Crash, DeadlinePasses, Serve
  <2> QED BY <1>1, <1>3, <2>1, WorldKeeps, OthersKeepSound DEF CallInv, RowsInv
<1>4. ASSUME NEW r \in Reconcilers, TickStep(r) \/ Abort(r) PROVE CallInv'
  BY <1>1, <1>4, TickKeepsRows, TickKeepsSound DEF CallInv
<1>5. CASE UNCHANGED vars
  BY <1>1, <1>5 DEF vars, CallInv, PastAndFuture, InHand, LedgerAgrees, OutOfHand, TickSound,
     MaySend, NeverServed, Closed
<1> QED BY <1>2, <1>3, <1>4, <1>5, CallAssumption DEF Next, Requests

LEMMA CallAlways == Spec => []CallInv
<1>1. Init => CallInv
  <2> SUFFICES ASSUME Init PROVE CallInv OBVIOUS
  <2>1. TypeOK BY CallAssumption DEF Init, TypeOK, Idle, Requests, Results, Statuses
  <2>2. PastAndFuture /\ InHand /\ LedgerAgrees /\ OutOfHand /\ TickSound
    BY CallAssumption DEF Init, PastAndFuture, InHand, LedgerAgrees, OutOfHand, TickSound,
       Requests, Results, Idle
  <2> QED BY <2>1, <2>2 DEF CallInv
<1> QED BY <1>1, CallStep, PTL DEF Spec

\* Usage events stand beside completed rows and bare amounts beside unknown
\* ones, for any number of requests, ticks and crashes
THEOREM Ledger == Spec => []LedgerAgrees
BY CallAlways, PTL DEF CallInv

\* A wrapper that returns leaves no request prepared or dispatching
THEOREM Closes == Spec => []NothingLeftOpen
<1>1. CallInv => NothingLeftOpen
  <2> SUFFICES ASSUME CallInv, wrapper.pc = "done", NEW n \in Requests
               PROVE  call[n] \notin {"prepared", "dispatching"}
    BY DEF NothingLeftOpen
  <2> QED BY DEF CallInv, TypeOK, PastAndFuture, InHand, Closed, Requests
<1> QED BY <1>1, CallAlways, PTL

\* Both: the books agree at every step, and nothing of a call that returned,
\* on whatever error path, is open
THEOREM Books == Spec => []BooksKept
BY Ledger, Closes, PTL DEF BooksKept

-----------------------------------------------------------------------------
(* Settled for good, and the refinement *)

LEMMA SettledStep ==
    ASSUME CallInv, [Next]_vars, NEW n \in Requests
    PROVE  SettledForGood(n)
<1> USE DEF SettledForGood, CallInv, TypeOK, LedgerAgrees, ledger
<1>1. CASE WrapperStep
  <2> USE DEF Goto
  <2>1. CASE Prepare
    <3>1. wrapper.n + 1 \in Requests /\ wrapper.n + 1 > wrapper.n /\ UNCHANGED usage
      BY <2>1, CallAssumption DEF Prepare, Requests
    <3>2. call[wrapper.n + 1] = "none" BY <3>1 DEF PastAndFuture
    <3> QED BY <2>1, <3>1, <3>2 DEF Prepare
  <2>2. CASE ForgetPrepared BY <2>2 DEF ForgetPrepared, NotSent
  <2>3. CASE DispatchTooLate BY <2>3 DEF DispatchTooLate, NotSent
  <2>4. CASE Dispatch BY <2>4 DEF Dispatch
  <2>5. CASE MarkNotSent BY <2>5 DEF MarkNotSent, NotSent
  <2>6. CASE FinalizeUsage BY <2>6 DEF FinalizeUsage, Accepts, Complete
  <2>7. CASE MarkUnknown BY <2>7 DEF MarkUnknown, Unknown
  <2>8. CASE Send \/ NotReached \/ Answer \/ NoAnswer \/ FinalizeFails \/ Retry \/ Finish
    BY <2>8 DEF Send, NotReached, Answer, NoAnswer, FinalizeFails, Retry, Finish
  <2> QED BY <1>1, <2>1, <2>2, <2>3, <2>4, <2>5, <2>6, <2>7, <2>8 DEF WrapperStep
<1>2. ASSUME NEW r \in Reconcilers, TickStep(r) \/ Abort(r) PROVE SettledForGood(n)
  <2>1. PICK m \in Requests : /\ tick[r].pc # "idle" => Writes(m)
                              /\ tick[r].pc = "idle" => UNCHANGED ledger
    BY <1>2, TickEffect
  <2>2. Writes(m) BY <2>1 DEF Writes
  <2> QED BY <2>2 DEF Writes, Stale, Unknown, Complete, NotSent, RecordAmount
<1>3. ASSUME NEW m \in Requests, Crash \/ DeadlinePasses(m) \/ Serve(m) PROVE SettledForGood(n)
  BY <1>3 DEF Crash, DeadlinePasses, Serve
<1>4. CASE UNCHANGED vars BY <1>4 DEF vars
<1> QED BY <1>1, <1>2, <1>3, <1>4 DEF Next

\* No wrapper, tick or late answer reopens a settled row or rewrites its usage
THEOREM SettledFinal == Spec => SettledIsFinal
<1>1. CallInv /\ [Next]_vars => [\A n \in Requests : SettledForGood(n)]_vars
  BY SettledStep
<1> QED BY <1>1, CallAlways, PTL DEF Spec, SettledIsFinal

\* A step either serves one request or decides about at most one row
LEMMA OneRow ==
    ASSUME CallInv, [Next]_vars
    PROVE  \/ \E n \in Requests : Serve(n)
           \/ /\ \A n \in Requests : (wire'[n] \in Results) <=> (wire[n] \in Results)
              /\ \E m \in Requests : \A n \in Requests \ {m} : call'[n] = call[n]
<1> USE DEF CallInv, TypeOK, ledger, Results, Goto
<1>1. CASE WrapperStep
  <2>1. \A n \in Requests : (wire'[n] \in Results) <=> (wire[n] \in Results)
    <3>1. CASE Send BY <3>1 DEF Send, InHand
    <3>2. CASE NotReached BY <3>2 DEF NotReached
    <3>3. CASE ~Send /\ ~NotReached
      <4>1. UNCHANGED wire
        BY <1>1, <3>3 DEF WrapperStep, Prepare, ForgetPrepared, DispatchTooLate, Dispatch,
           MarkNotSent, Answer, NoAnswer, FinalizeUsage, FinalizeFails, MarkUnknown, Retry, Finish
      <4> QED BY <4>1
    <3> QED BY <3>1, <3>2, <3>3
  <2>2. CASE Prepare
    <3>1. wrapper.n + 1 \in Requests BY <2>2, CallAssumption DEF Prepare, Requests
    <3>2. \A n \in Requests \ {wrapper.n + 1} : call'[n] = call[n] BY <2>2 DEF Prepare
    <3> QED BY <2>1, <3>1, <3>2
  <2>3. CASE ~Prepare
    <3>1. \A n \in Requests \ {wrapper.n} : call'[n] = call[n]
      BY <1>1, <2>3 DEF WrapperStep, ForgetPrepared, DispatchTooLate, Dispatch, Send,
         NotReached, MarkNotSent, Answer, NoAnswer, FinalizeUsage, FinalizeFails,
         MarkUnknown, Retry, Finish, NotSent, Unknown, Complete
    <3>2. CASE wrapper.n \in Requests BY <2>1, <3>1, <3>2
    <3>3. CASE wrapper.n \notin Requests
      <4>1. 1 \in Requests BY CallAssumption DEF Requests
      <4>2. \A n \in Requests \ {1} : call'[n] = call[n] BY <3>1, <3>3
      <4> QED BY <2>1, <4>1, <4>2
    <3> QED BY <3>2, <3>3
  <2> QED BY <2>2, <2>3
<1>2. ASSUME NEW r \in Reconcilers, TickStep(r) \/ Abort(r)
      PROVE  UNCHANGED wire /\ \E m \in Requests : \A n \in Requests \ {m} : call'[n] = call[n]
  <2>1. PICK m \in Requests : /\ tick[r].pc # "idle" => Writes(m)
                              /\ tick[r].pc = "idle" => UNCHANGED ledger
    BY <1>2, TickEffect
  <2>2. Writes(m) BY <2>1 DEF Writes
  <2>3. \A n \in Requests \ {m} : call'[n] = call[n]
    BY <2>2 DEF Writes, Unknown, Complete, NotSent, RecordAmount
  <2> QED BY <1>2, <2>3, TickEffect
<1>3. CASE Crash \/ \E n \in Requests : DeadlinePasses(n)
  BY <1>3, CallAssumption DEF Crash, DeadlinePasses, Requests
<1>4. CASE UNCHANGED vars BY <1>4, CallAssumption DEF vars, Requests
<1> QED BY <1>1, <1>2, <1>3, <1>4 DEF Next

LEMMA AccountStep ==
    ASSUME CallInv, CallInv', [Next]_vars
    PROVE  [Account!Next]_<<{n \in Requests : wire[n] \in Results}, [n \in Requests |-> Verdict(n)]>>
<1> DEFINE served  == {n \in Requests : wire[n] \in Results}
           account == [n \in Requests |-> Verdict(n)]
<1>1. CASE \E n \in Requests : Serve(n)
  <2>1. PICK n \in Requests : Serve(n) BY <1>1
  <2>2. Verdict(n) = "open"
    BY <2>1 DEF Serve, Verdict, CallInv, OutOfHand, NeverServed, TypeOK, Results
  <2>3. served' = served \cup {n}
    BY <2>1 DEF Serve, CallInv, TypeOK, Results
  <2>4. account' = account
    BY <2>1 DEF Serve, ledger, Verdict
  <2>5. Account!Serve(n) BY <2>2, <2>3, <2>4 DEF Account!Serve
  <2> QED BY <2>5 DEF Account!Next
<1>2. CASE /\ \A n \in Requests : (wire'[n] \in Results) <=> (wire[n] \in Results)
           /\ \E m \in Requests : \A n \in Requests \ {m} : call'[n] = call[n]
  <2>1. served' = served BY <1>2
  <2>2. PICK m \in Requests : \A n \in Requests \ {m} : call'[n] = call[n] BY <1>2
  <2>3. account' = [account EXCEPT ![m] = Verdict(m)'] BY <2>2 DEF Verdict
  <2>4. CASE Verdict(m)' = Verdict(m)
    <3>1. account' = account BY <2>3, <2>4
    <3> QED BY <2>1, <3>1
  <2>5. CASE Verdict(m)' # Verdict(m)
    <3>1. Verdict(m) = "open" /\ account[m] = "open"
      BY <2>5, SettledStep DEF Verdict, SettledForGood
    <3>2. CASE Verdict(m)' = "billed"
      <4>1. m \in served
        BY <1>2, <3>2 DEF Verdict, CallInv, OutOfHand
      <4> QED BY <2>1, <2>3, <3>1, <3>2, <4>1 DEF Account!Next, Account!Bill, Account!Decide
    <3>3. CASE Verdict(m)' = "written_off"
      <4>1. m \notin served
        BY <1>2, <3>3 DEF Verdict, CallInv, OutOfHand, NeverServed, Results
      <4> QED BY <2>1, <2>3, <3>1, <3>3, <4>1 DEF Account!Next, Account!WriteOff, Account!Decide
    <3> QED BY <2>5, <3>1, <3>2, <3>3 DEF Verdict
  <2> QED BY <2>4, <2>5
<1> QED BY <1>1, <1>2, OneRow

\* The ledger implements CallAccount: only served requests are billed, only
\* requests never served are written off, and either decision is final
THEOREM AccountHolds == Spec => AccountKept
<1>1. Init => Account!Init
  BY CallAssumption DEF Init, Account!Init, Verdict, Results
<1> QED BY <1>1, AccountStep, CallAlways, PTL DEF Spec, AccountKept, Account!Spec

-----------------------------------------------------------------------------
(* Retrieval: leases and the versions they keep *)

LeaseRow == {LeaseOf(r, v) : r \in ReadRequests, v \in AllVersions}
ReadRow  == [phase : OpenPhases \cup {"none", "failed", "done", "dead"},
             searching : SUBSET Providers, failed : SUBSET Providers,
             hits : SUBSET AllVersions, lapsed : SUBSET AllVersions]
DocRow   == [life : {"active", "deleting"}, active : VersionNumbers,
             versions : [VersionNumbers -> States]]

\* The version a document shows is published
ShowsPublished ==
    \A d \in LibraryDocs :
        library[d].life = "active" => library[d].versions[library[d].active] = "active"

\* A version with a lease is not on its way out
LeasedIsWhole == \A l \in readLeases : StateOf(l.version) \notin {"purging", "purged"}

\* Who reads alone in the name of its principal has a lease on every hit, unless it
\* ran out
HitsAreLeased ==
    \A r \in ReadRequests : Open(r) /\ Alone(r) =>
        \A v \in reads[r].hits \ reads[r].lapsed : LeaseOf(r, v) \in readLeases

ReadInv == RetrievalTypeOK /\ ShowsPublished /\ LeasedIsWhole /\ HitsAreLeased /\ NoLeaseLeft

LEMMA RetrievalBegins == RetrievalInit => ReadInv
<1> SUFFICES ASSUME RetrievalInit PROVE ReadInv OBVIOUS
<1> USE RetrievalAssumption DEF RetrievalInit, VersionNumbers
<1>1. 1 \in VersionNumbers OBVIOUS
<1>2. library \in [LibraryDocs -> DocRow]
  <2>1. [v \in VersionNumbers |-> IF v = 1 THEN "active" ELSE "none"] \in [VersionNumbers -> States]
    BY DEF States
  <2>2. [life |-> "active", active |-> 1,
         versions |-> [v \in VersionNumbers |-> IF v = 1 THEN "active" ELSE "none"]] \in DocRow
    BY <1>1, <2>1 DEF DocRow
  <2> QED BY <2>2
<1>3. entries \subseteq AllVersions BY DEF AllVersions
<1>4. reads \in [ReadRequests -> ReadRow] BY DEF ReadRow, NoRead, Empty
<1>5. RetrievalTypeOK
  <2>1. readLeases = {} /\ retrievalFaults \in 0..RetrievalFaults OBVIOUS
  <2> HIDE DEF RetrievalInit
  <2> QED BY <1>2, <1>3, <1>4, <2>1 DEF RetrievalTypeOK, DocRow, ReadRow
<1>6. ShowsPublished BY DEF ShowsPublished
<1>7. LeasedIsWhole /\ NoLeaseLeft BY DEF LeasedIsWhole, NoLeaseLeft
<1>8. HitsAreLeased BY DEF HitsAreLeased, NoRead, Empty
<1> QED BY <1>5, <1>6, <1>7, <1>8 DEF ReadInv

\* What a request acquires: leases of its own on what can be read, in the place
\* of those of its principal
LEMMA Acquiring ==
    ASSUME ReadInv, NEW r \in ReadRequests, Open(r), NEW page \in SUBSET AllVersions, Acquire(r, page)
    PROVE  /\ readLeases' \subseteq LeaseRow
           /\ \A l \in readLeases' : StateOf(l.version) \notin {"purging", "purged"}
           /\ \A l \in readLeases' : l \in readLeases \/ l.holder = r
           /\ \A v \in page : Readable(v) => LeaseOf(r, v) \in readLeases'
           /\ \A s \in ReadRequests, v \in AllVersions :
                 Alone(s) /\ LeaseOf(s, v) \in readLeases => LeaseOf(s, v) \in readLeases'
<1> DEFINE found == Found(page)
<1>1. readLeases' = {l \in readLeases : l.principal # PrincipalOf[r] \/ l.version \notin found}
                      \cup {LeaseOf(r, v) : v \in found}
  BY DEF Acquire
<1>2. readLeases \subseteq LeaseRow BY DEF ReadInv, RetrievalTypeOK, LeaseRow
<1>3. \A s \in ReadRequests, v \in AllVersions :
         /\ LeaseOf(s, v).holder = s /\ LeaseOf(s, v).version = v
         /\ LeaseOf(s, v).principal = PrincipalOf[s]
  BY DEF LeaseOf
<1>4. \A v \in found : v \in AllVersions /\ StateOf(v) = "active"
  BY DEF Found, Readable, ReadInv, RetrievalTypeOK, ShowsPublished, StateOf, AllVersions
<1> HIDE DEF found
<1>5. readLeases' \subseteq LeaseRow BY <1>1, <1>2, <1>4 DEF LeaseRow
<1>6. \A l \in readLeases' : StateOf(l.version) \notin {"purging", "purged"}
  BY <1>1, <1>3, <1>4 DEF ReadInv, LeasedIsWhole
<1>7. \A l \in readLeases' : l \in readLeases \/ l.holder = r BY <1>1, <1>3, <1>4
<1>8. \A v \in page : Readable(v) => LeaseOf(r, v) \in readLeases' BY <1>1 DEF found, Found
<1>9. ASSUME NEW s \in ReadRequests, NEW v \in AllVersions, Alone(s), LeaseOf(s, v) \in readLeases
      PROVE  LeaseOf(s, v) \in readLeases'
  <2>1. CASE s = r /\ v \in found BY <1>1, <2>1
  <2>2. CASE s # r /\ v \in found
    <3>1. PrincipalOf[r] # PrincipalOf[s] BY <1>9, <2>2 DEF Alone
    <3> QED BY <1>1, <1>3, <1>9, <3>1
  <2>3. CASE v \notin found BY <1>1, <1>3, <1>9, <2>3
  <2> QED BY <2>1, <2>2, <2>3
<1> QED BY <1>5, <1>6, <1>7, <1>8, <1>9

\* A step of a request: it reads what it acquired and lets go when it ends
LEMMA RequestSteps ==
    ASSUME ReadInv, NEW r \in ReadRequests,
           \/ OpenRequest(r) \/ RequestStep(r) \/ RequestDies(r)
           \/ \E provider \in Providers, page \in SUBSET entries : CollectFails(r, provider, page)
           \/ \E version \in AllVersions : Cite(r, version)
    PROVE  ReadInv'
<1> USE DEF OpenPhases
<1>0. /\ reads \in [ReadRequests -> ReadRow] /\ readLeases \subseteq LeaseRow
      /\ entries \subseteq AllVersions /\ retrievalFaults \in 0..RetrievalFaults
      /\ RetrievalFaults \in Nat /\ LeasedIsWhole /\ HitsAreLeased /\ NoLeaseLeft
  BY RetrievalAssumption DEF ReadInv, RetrievalTypeOK, ReadRow, LeaseRow
\* What is left to show of a step that leaves the documents alone
<1>1. ASSUME UNCHANGED <<library, entries>>, retrievalFaults' \in 0..RetrievalFaults,
             reads' \in [ReadRequests -> ReadRow], readLeases' \subseteq LeaseRow,
             \A l \in readLeases' : StateOf(l.version) \notin {"purging", "purged"},
             HitsAreLeased', NoLeaseLeft'
      PROVE  ReadInv'
  <2>1. RetrievalTypeOK' BY <1>1 DEF ReadInv, RetrievalTypeOK, ReadRow, LeaseRow
  <2>2. ShowsPublished' BY <1>1 DEF ReadInv, ShowsPublished
  <2>3. LeasedIsWhole' BY <1>1 DEF LeasedIsWhole, StateOf
  <2> QED BY <1>1, <2>1, <2>2, <2>3 DEF ReadInv
<1>2. retrievalFaults' \in 0..RetrievalFaults
  <2>1. UNCHANGED retrievalFaults \/ Fault
    BY DEF OpenRequest, RequestStep, Collect, Merge, Assemble, CloseRequest, RequestDies,
       CollectFails, Cite
  <2> QED BY <1>0, <2>1 DEF Fault
<1>3. CASE OpenRequest(r)
  <2>1. [Empty("searching") EXCEPT !.searching = Providers] \in ReadRow BY DEF Empty, ReadRow
  <2>2. reads' \in [ReadRequests -> ReadRow] BY <1>0, <1>3, <2>1 DEF OpenRequest
  <2>3. HitsAreLeased' BY <1>0, <1>3 DEF OpenRequest, HitsAreLeased, Open, Empty
  <2>4. NoLeaseLeft' BY <1>0, <1>3 DEF OpenRequest, NoLeaseLeft, Open, Empty
  <2> QED BY <1>0, <1>1, <1>2, <1>3, <2>2, <2>3, <2>4 DEF OpenRequest, LeasedIsWhole
\* Whatever is read: the hits that are kept are those that were leased
<1>4. ASSUME Open(r), NEW page \in SUBSET AllVersions, Acquire(r, page), UNCHANGED <<library, entries>>,
             NEW row \in ReadRow, reads' = [reads EXCEPT ![r] = row], row.phase \in OpenPhases,
             \A v \in row.hits \ row.lapsed :
                v \in reads[r].hits \ reads[r].lapsed \/ (v \in page /\ Readable(v))
      PROVE  ReadInv'
  <2>1. reads' \in [ReadRequests -> ReadRow] BY <1>0, <1>4
  <2>2. /\ readLeases' \subseteq LeaseRow
        /\ \A l \in readLeases' : StateOf(l.version) \notin {"purging", "purged"}
        /\ \A l \in readLeases' : l \in readLeases \/ l.holder = r
        /\ \A v \in page : Readable(v) => LeaseOf(r, v) \in readLeases'
        /\ \A s \in ReadRequests, v \in AllVersions :
              Alone(s) /\ LeaseOf(s, v) \in readLeases => LeaseOf(s, v) \in readLeases'
    BY <1>4, Acquiring
  <2>3. reads'[r] = row /\ \A s \in ReadRequests : s # r => reads'[s] = reads[s] BY <1>0, <1>4
  <2>4. \A s \in ReadRequests : reads[s].hits \subseteq AllVersions BY <1>0 DEF ReadRow
  <2>5. HitsAreLeased'
    <3> SUFFICES ASSUME NEW s \in ReadRequests, Open(s)', Alone(s),
                        NEW v \in reads'[s].hits \ reads'[s].lapsed
                 PROVE  LeaseOf(s, v) \in readLeases'
      BY DEF HitsAreLeased, Alone, LeaseOf
    <3>1. CASE s # r BY <1>0, <2>2, <2>3, <2>4, <3>1 DEF HitsAreLeased, Open
    <3>2. CASE s = r BY <1>0, <1>4, <2>2, <2>3, <2>4, <3>2 DEF HitsAreLeased
    <3> QED BY <3>1, <3>2
  <2>6. NoLeaseLeft'
    <3>1. \A l \in readLeases : l.holder \in ReadRequests BY <1>0 DEF LeaseRow, LeaseOf
    <3> QED BY <1>0, <1>4, <2>2, <2>3, <3>1 DEF NoLeaseLeft, Open
  <2> QED BY <1>1, <1>2, <1>4, <2>1, <2>2, <2>5, <2>6
<1>5. ASSUME NEW provider \in Providers, NEW page \in SUBSET entries,
             Collect(r, provider, page) \/ CollectFails(r, provider, page)
      PROVE  ReadInv'
  <2>1. reads[r] \in ReadRow /\ Open(r) /\ page \in SUBSET AllVersions
    BY <1>0, <1>5 DEF Collect, CollectFails, Open
  <2>2. CASE Collect(r, provider, page)
    <3> DEFINE row == [reads[r] EXCEPT !.searching = @ \ {provider},
                                       !.hits = @ \cup Found(page), !.lapsed = @ \ Found(page)]
    <3>0. Found(page) \in SUBSET AllVersions /\ \A v \in Found(page) : v \in page /\ Readable(v)
      BY <2>1 DEF Found
    <3>1. row \in ReadRow /\ row.phase = "searching"
      BY <2>1, <2>2, <3>0 DEF ReadRow, Collect
    <3>2. \A v \in row.hits \ row.lapsed :
             v \in reads[r].hits \ reads[r].lapsed \/ (v \in page /\ Readable(v))
      BY <2>1, <3>0 DEF ReadRow
    <3>3. reads' = [reads EXCEPT ![r] = row] BY <2>2 DEF Collect
    <3> HIDE DEF row
    <3> QED BY <1>4, <2>1, <2>2, <3>1, <3>2, <3>3 DEF Collect
  <2>3. CASE CollectFails(r, provider, page)
    <3> DEFINE row == [reads[r] EXCEPT !.searching = @ \ {provider}, !.failed = @ \cup {provider},
                                       !.lapsed = @ \ Found(page)]
    <3>1. /\ row \in ReadRow /\ row.phase = "searching" /\ row.hits = reads[r].hits
          /\ row.lapsed = reads[r].lapsed \ Found(page)
      BY <1>5, <2>1, <2>3 DEF ReadRow, CollectFails
    <3>3. \A v \in row.hits \ row.lapsed :
             v \in reads[r].hits \ reads[r].lapsed \/ (v \in page /\ Readable(v))
      BY <3>1 DEF Found
    <3>2. reads' = [reads EXCEPT ![r] = row] BY <2>3 DEF CollectFails
    <3> HIDE DEF row
    <3> QED BY <1>4, <2>1, <2>3, <3>1, <3>2, <3>3 DEF CollectFails
  <2> QED BY <1>5, <2>2, <2>3
\* A request that ends: its leases go with it, or are left to expire
<1>6. ASSUME NEW row \in ReadRow, reads' = [reads EXCEPT ![r] = row], row.phase \notin OpenPhases,
             UNCHANGED <<library, entries>>,
             \/ readLeases' = readLeases \ Released(r)
             \/ row.phase = "dead" /\ readLeases' = readLeases
      PROVE  ReadInv'
  <2>0. /\ readLeases' \subseteq readLeases
        /\ row.phase = "dead" \/ \A l \in readLeases' : l.holder # r
        /\ \A l \in readLeases : l.holder # r => l \in readLeases'
    BY <1>6, SMT DEF Released
  <2>1. reads' \in [ReadRequests -> ReadRow] BY <1>0, <1>6
  <2>2. reads'[r] = row /\ \A s \in ReadRequests : s # r => reads'[s] = reads[s] BY <1>0, <1>6
  <2>3. HitsAreLeased'
    <3> SUFFICES ASSUME NEW s \in ReadRequests, Open(s)', Alone(s),
                        NEW v \in reads'[s].hits \ reads'[s].lapsed
                 PROVE  LeaseOf(s, v) \in readLeases'
      BY DEF HitsAreLeased, Alone, LeaseOf
    <3>1. s # r BY <1>6, <2>0, <2>2 DEF Open
    <3>2. LeaseOf(s, v) \in readLeases BY <1>0, <2>2, <3>1 DEF HitsAreLeased, Open
    <3> QED BY <2>0, <3>1, <3>2 DEF LeaseOf
  <2>4. \A l \in readLeases : l.holder \in ReadRequests BY <1>0 DEF LeaseRow, LeaseOf
  <2>5. NoLeaseLeft' BY <1>0, <1>6, <2>0, <2>2, <2>4 DEF NoLeaseLeft, Open
  <2> QED BY <1>0, <1>1, <1>2, <1>6, <2>0, <2>1, <2>3, <2>5 DEF LeasedIsWhole
<1>7. ASSUME NEW phase \in {"failed", "done"}
      PROVE  Empty(phase) \in ReadRow /\ Empty(phase).phase \notin OpenPhases
  BY DEF Empty, ReadRow
<1>8. CASE Merge(r)
  <2>1. CASE reads[r].failed = Providers
    <3>1. readLeases' = readLeases \ Released(r) BY <1>8, <2>1 DEF Merge
    <3>2. reads' = [reads EXCEPT ![r] = Empty("failed")] /\ UNCHANGED <<library, entries>>
      BY <1>8, <2>1 DEF Merge
    <3> QED BY <1>6, <1>7, <3>1, <3>2
  <2>2. CASE reads[r].failed # Providers
    <3>1. [reads[r] EXCEPT !.phase = "reranking"] \in ReadRow BY <1>0 DEF ReadRow
    <3>2. reads' = [reads EXCEPT ![r] = [reads[r] EXCEPT !.phase = "reranking"]]
          /\ UNCHANGED <<library, entries, readLeases>> /\ reads[r].phase = "searching"
      BY <1>8, <2>2 DEF Merge
    <3>3. reads' \in [ReadRequests -> ReadRow] BY <1>0, <3>1, <3>2
    <3>4. \A s \in ReadRequests :
              /\ reads'[s].hits = reads[s].hits /\ reads'[s].lapsed = reads[s].lapsed
              /\ (Open(s)' <=> Open(s))
              /\ (reads[s].phase = "dead" => reads'[s].phase = "dead")
      BY <1>0, <3>2 DEF Open, ReadRow
    <3>5. HitsAreLeased' BY <1>0, <3>2, <3>4 DEF HitsAreLeased, Alone, LeaseOf
    <3>6. \A l \in readLeases : l.holder \in ReadRequests BY <1>0 DEF LeaseRow, LeaseOf
    <3>7. NoLeaseLeft' BY <1>0, <3>2, <3>4, <3>6 DEF NoLeaseLeft
    <3> QED BY <1>0, <1>1, <1>2, <3>2, <3>3, <3>5, <3>7 DEF LeasedIsWhole
  <2> QED BY <2>1, <2>2
<1>9. CASE Assemble(r)
  <2> DEFINE row == [reads[r] EXCEPT !.phase = "assembled", !.hits = StillReadable(r),
                                     !.lapsed = @ \ StillReadable(r)]
  <2>1. reads[r] \in ReadRow /\ Open(r) /\ reads[r].hits \in SUBSET AllVersions
    BY <1>0, <1>9 DEF Assemble, Open, ReadRow
  <2>2. row \in ReadRow /\ row.phase = "assembled" /\ row.hits = StillReadable(r)
    BY <2>1 DEF ReadRow, StillReadable, Found
  <2>3. reads' = [reads EXCEPT ![r] = row] BY <1>9 DEF Assemble, StillReadable
  <2> HIDE DEF row
  <2> QED BY <1>4, <1>9, <2>1, <2>2, <2>3 DEF Assemble, StillReadable, Found
<1>10. ASSUME NEW version \in AllVersions, Cite(r, version) PROVE ReadInv'
  <2>1. reads[r] \in ReadRow /\ Open(r) BY <1>0, <1>10 DEF Cite, Open
  <2> DEFINE row == [reads[r] EXCEPT !.lapsed = @ \ Found({version})]
  <2>2. reads' = [reads EXCEPT ![r] = row] BY <1>10 DEF Cite
  <2>3. /\ row \in ReadRow /\ row.phase = reads[r].phase /\ row.hits = reads[r].hits
        /\ row.lapsed = reads[r].lapsed \ Found({version})
    BY <2>1 DEF ReadRow
  <2>4. \A v \in row.hits \ row.lapsed :
           v \in reads[r].hits \ reads[r].lapsed \/ (v \in {version} /\ Readable(v))
    BY <2>3 DEF Found
  <2>5. {version} \in SUBSET AllVersions BY <1>10
  <2> HIDE DEF row
  <2> QED BY <1>4, <1>10, <2>1, <2>2, <2>3, <2>4, <2>5 DEF Cite, Open
<1>11. CASE CloseRequest(r)
  <2>1. readLeases' = readLeases \ Released(r) BY <1>11 DEF CloseRequest
  <2>2. reads' = [reads EXCEPT ![r] = Empty("done")] /\ UNCHANGED <<library, entries>>
    BY <1>11 DEF CloseRequest
  <2> QED BY <1>6, <1>7, <2>1, <2>2
<1>12. CASE RequestDies(r)
  <2> DEFINE row == Empty("dead")
  <2>1. row \in ReadRow /\ row.phase = "dead" BY DEF Empty, ReadRow
  <2>2. reads' = [reads EXCEPT ![r] = row] BY <1>12 DEF RequestDies
  <2> HIDE DEF row
  <2> QED BY <1>6, <1>12, <2>1, <2>2 DEF RequestDies
<1> QED BY <1>3, <1>5, <1>8, <1>9, <1>10, <1>11, <1>12 DEF RequestStep

\* A document moves on: no version that is leased leaves, and what it shows next
\* is published
LEMMA DocumentSteps ==
    ASSUME ReadInv, NEW d \in LibraryDocs,
           AcceptDeletion(d) \/ \E v \in VersionNumbers : Publish(d, v) \/ Purge(d, v)
    PROVE  ReadInv'
<1>0. /\ library \in [LibraryDocs -> DocRow] /\ library[d] \in DocRow
      /\ entries \subseteq AllVersions /\ readLeases \subseteq LeaseRow
      /\ UNCHANGED <<readLeases, reads, retrievalFaults>>
  <2>1. library \in [LibraryDocs -> DocRow] /\ entries \subseteq AllVersions /\ readLeases \subseteq LeaseRow
    BY DEF ReadInv, RetrievalTypeOK, DocRow, LeaseRow
  <2>2. UNCHANGED <<readLeases, reads, retrievalFaults>>
    BY DEF AcceptDeletion, Publish, Purge, EnterPurging, FinishPurge
  <2> QED BY <2>1, <2>2
<1>1. ASSUME NEW row \in DocRow, library' = [library EXCEPT ![d] = row], entries' \subseteq AllVersions,
             row.life = "active" => row.versions[row.active] = "active",
             \A v \in VersionNumbers : row.versions[v] \in {"purging", "purged"} =>
                \/ library[d].versions[v] \in {"purging", "purged"}
                \/ ~Leased(<<d, v>>)
      PROVE  ReadInv'
  <2>1. library' \in [LibraryDocs -> DocRow] BY <1>0, <1>1
  <2>2. library'[d] = row /\ \A e \in LibraryDocs : e # d => library'[e] = library[e]
    BY <1>0, <1>1
  <2>3. RetrievalTypeOK'
    BY <1>0, <1>1, <2>1 DEF ReadInv, RetrievalTypeOK, DocRow, LeaseRow
  <2>4. ShowsPublished' BY <1>1, <2>2 DEF ReadInv, ShowsPublished
  <2>5. LeasedIsWhole'
    <3> SUFFICES ASSUME NEW l \in readLeases PROVE StateOf(l.version)' \notin {"purging", "purged"}
      BY <1>0 DEF LeasedIsWhole
    <3>1. l.version \in AllVersions BY <1>0 DEF LeaseRow, LeaseOf
    <3>2. /\ l.version[1] \in LibraryDocs /\ l.version[2] \in VersionNumbers
          /\ l.version = <<l.version[1], l.version[2]>>
      BY <3>1 DEF AllVersions
    <3>3. StateOf(l.version) \notin {"purging", "purged"} BY DEF ReadInv, LeasedIsWhole
    <3>4. CASE l.version[1] = d
      <4>1. Leased(<<d, l.version[2]>>) BY <3>2, <3>4 DEF Leased
      <4>2. row.versions[l.version[2]] \notin {"purging", "purged"}
        BY <1>1, <3>2, <3>3, <3>4, <4>1 DEF StateOf
      <4> QED BY <2>2, <3>4, <4>2 DEF StateOf
    <3>5. CASE l.version[1] # d BY <2>2, <3>2, <3>3, <3>5 DEF StateOf
    <3> QED BY <3>4, <3>5
  <2>6. HitsAreLeased' /\ NoLeaseLeft'
    BY <1>0 DEF ReadInv, HitsAreLeased, NoLeaseLeft, Open, Alone, LeaseOf
  <2> QED BY <2>3, <2>4, <2>5, <2>6 DEF ReadInv
<1>2. ASSUME library[d].life = "active" PROVE library[d].versions[library[d].active] = "active"
  BY <1>2 DEF ReadInv, ShowsPublished
<1>3. CASE AcceptDeletion(d)
  <2>1. [library[d] EXCEPT !.life = "deleting"] \in DocRow BY <1>0 DEF DocRow
  <2>2. library' = [library EXCEPT ![d] = [library[d] EXCEPT !.life = "deleting"]]
    BY <1>3 DEF AcceptDeletion
  <2> QED BY <1>0, <1>1, <1>3, <2>1, <2>2 DEF AcceptDeletion, DocRow
<1>4. ASSUME NEW v \in VersionNumbers, Publish(d, v) PROVE ReadInv'
  <2> DEFINE versions == [library[d].versions EXCEPT ![v] = "active", ![library[d].active] = "superseded"]
             row == [library[d] EXCEPT !.active = v, !.versions = versions]
  <2>1. versions \in [VersionNumbers -> States] BY <1>0 DEF DocRow, States
  <2>2. v # library[d].active
    <3>1. library[d].active \in Int BY <1>0 DEF DocRow, VersionNumbers
    <3> QED BY <1>4, <3>1 DEF Publish
  <2>3. /\ versions[v] = "active"
        /\ \A w \in VersionNumbers : versions[w] \in {"purging", "purged"} =>
              library[d].versions[w] \in {"purging", "purged"}
    BY <1>0, <2>2 DEF DocRow
  <2>4. row \in DocRow /\ row.active = v /\ row.versions = versions
    BY <1>0, <2>1 DEF DocRow
  <2>5. library' = [library EXCEPT ![d] = row] BY <1>4 DEF Publish
  <2>6. entries' \subseteq AllVersions
    <3>1. <<d, v>> \in AllVersions BY DEF AllVersions
    <3> QED BY <1>0, <1>4, <3>1 DEF Publish
  <2> HIDE DEF versions, row
  <2> QED BY <1>1, <2>3, <2>4, <2>5, <2>6
<1>5. ASSUME NEW v \in VersionNumbers, NEW s \in {"purging", "purged"},
             library' = [library EXCEPT ![d].versions[v] = s], entries' \subseteq AllVersions,
             library[d].life = "active" => v # library[d].active,
             ~Leased(<<d, v>>) \/ library[d].versions[v] = "purging"
      PROVE  ReadInv'
  <2> DEFINE versions == [library[d].versions EXCEPT ![v] = s]
             row == [library[d] EXCEPT !.versions = versions]
  <2>1. versions \in [VersionNumbers -> States] BY <1>0 DEF DocRow, States
  <2>2. \A w \in VersionNumbers : w # v => versions[w] = library[d].versions[w] BY <1>0 DEF DocRow
  <2>3. row \in DocRow /\ row.life = library[d].life /\ row.active = library[d].active
        /\ row.versions = versions /\ library[d].active \in VersionNumbers
    BY <1>0, <2>1 DEF DocRow
  <2>4. library' = [library EXCEPT ![d] = row] BY <1>5
  <2> HIDE DEF versions, row
  <2>5. row.life = "active" => row.versions[row.active] = "active" BY <1>2, <1>5, <2>2, <2>3
  <2>6. \A w \in VersionNumbers : row.versions[w] \in {"purging", "purged"} =>
           library[d].versions[w] \in {"purging", "purged"} \/ ~Leased(<<d, w>>)
    BY <1>5, <2>2, <2>3
  <2> QED BY <1>1, <1>5, <2>3, <2>4, <2>5, <2>6
<1>6. ASSUME NEW v \in VersionNumbers, EnterPurging(d, v) PROVE ReadInv'
  <2>1. ~Leased(<<d, v>>) BY <1>6 DEF EnterPurging, Unread
  <2>2. library[d].life = "active" => v # library[d].active
    BY <1>2, <1>6 DEF EnterPurging, StateOf
  <2> QED BY <1>0, <1>5, <1>6, <2>1, <2>2 DEF EnterPurging
<1>7. ASSUME NEW v \in VersionNumbers, FinishPurge(d, v) PROVE ReadInv'
  <2>1. library[d].versions[v] = "purging" BY <1>7 DEF FinishPurge, StateOf
  <2>2. library[d].life = "active" => v # library[d].active BY <1>2, <2>1
  <2> QED BY <1>0, <1>5, <1>7, <2>1, <2>2 DEF FinishPurge
<1> QED BY <1>3, <1>4, <1>6, <1>7 DEF Purge

LEMMA RetrievalStep == ReadInv /\ [RetrievalNext]_retrievalVars => ReadInv'
<1> SUFFICES ASSUME ReadInv, [RetrievalNext]_retrievalVars PROVE ReadInv' OBVIOUS
\* A lease runs out: after its request, or under it, and then it is known to have
<1>1. ASSUME NEW l \in readLeases, LeaseExpires(l) PROVE ReadInv'
  <2>0. /\ reads \in [ReadRequests -> ReadRow] /\ readLeases \subseteq LeaseRow
        /\ retrievalFaults \in 0..RetrievalFaults /\ RetrievalFaults \in Nat
    BY RetrievalAssumption DEF ReadInv, RetrievalTypeOK, ReadRow, LeaseRow
  <2>1. readLeases' = readLeases \ {l} /\ UNCHANGED <<library, entries>> BY <1>1 DEF LeaseExpires
  <2>2. /\ l.holder \in ReadRequests /\ l.version \in AllVersions
        /\ \A s \in ReadRequests, v \in AllVersions : LeaseOf(s, v) = l => s = l.holder /\ v = l.version
    BY <2>0 DEF LeaseRow, LeaseOf
  <2> DEFINE row == [reads[l.holder] EXCEPT !.lapsed = @ \cup {l.version}]
  <2>3. row \in ReadRow /\ row.phase = reads[l.holder].phase /\ row.hits = reads[l.holder].hits
        /\ row.lapsed = reads[l.holder].lapsed \cup {l.version}
    BY <2>0, <2>2 DEF ReadRow
  <2>4. \/ UNCHANGED <<reads, retrievalFaults>> /\ ~Open(l.holder)
        \/ reads' = [reads EXCEPT ![l.holder] = row] /\ Fault
    BY <1>1 DEF LeaseExpires
  <2> HIDE DEF row
  <2>5. reads' \in [ReadRequests -> ReadRow] /\ retrievalFaults' \in 0..RetrievalFaults
    BY <2>0, <2>2, <2>3, <2>4 DEF Fault
  <2>6. \A s \in ReadRequests :
           /\ reads'[s].phase = reads[s].phase /\ reads'[s].hits = reads[s].hits
           /\ reads[s].lapsed \subseteq reads'[s].lapsed
           /\ s = l.holder /\ Open(s) => l.version \in reads'[s].lapsed
    BY <2>0, <2>2, <2>3, <2>4
  <2>7. RetrievalTypeOK' /\ ShowsPublished'
    BY <2>0, <2>1, <2>5 DEF ReadInv, RetrievalTypeOK, ShowsPublished, ReadRow, LeaseRow
  <2>8. LeasedIsWhole' BY <2>1 DEF ReadInv, LeasedIsWhole, StateOf
  <2>9. NoLeaseLeft'
    <3>1. \A k \in readLeases : k.holder \in ReadRequests BY <2>0 DEF LeaseRow, LeaseOf
    <3> QED BY <2>1, <2>6, <3>1 DEF ReadInv, NoLeaseLeft, Open
  <2>10. HitsAreLeased'
    <3> SUFFICES ASSUME NEW s \in ReadRequests, Open(s)', Alone(s),
                        NEW v \in reads'[s].hits \ reads'[s].lapsed
                 PROVE  LeaseOf(s, v) \in readLeases'
      BY DEF HitsAreLeased, Alone, LeaseOf
    <3>1. Open(s) /\ v \in reads[s].hits \ reads[s].lapsed /\ v \in AllVersions
      BY <2>0, <2>6 DEF Open, ReadRow
    <3>2. LeaseOf(s, v) \in readLeases BY <3>1 DEF ReadInv, HitsAreLeased
    <3>3. LeaseOf(s, v) # l BY <2>2, <2>6, <3>1
    <3> QED BY <2>1, <3>2, <3>3
  <2> QED BY <2>7, <2>8, <2>9, <2>10 DEF ReadInv
<1>2. CASE UNCHANGED retrievalVars
  BY <1>2 DEF retrievalVars, ReadInv, RetrievalTypeOK, ShowsPublished, LeasedIsWhole, StateOf,
     NoLeaseLeft, Open, HitsAreLeased, Alone, LeaseOf
<1> QED BY <1>1, <1>2, RequestSteps, DocumentSteps DEF RetrievalNext

LEMMA ReadAlways == RetrievalInit /\ [][RetrievalNext]_retrievalVars => []ReadInv
BY RetrievalBegins, RetrievalStep, PTL

LEMMA ReadIsSafe == ReadInv => RetrievalSafe
<1> SUFFICES ASSUME ReadInv PROVE HitsAreKept BY DEF ReadInv, RetrievalSafe
<1> SUFFICES ASSUME NEW r \in ReadRequests, Open(r), Alone(r), NEW v \in reads[r].hits \ reads[r].lapsed
             PROVE  StateOf(v) \notin {"purging", "purged"}
  BY DEF HitsAreKept
<1>1. LeaseOf(r, v) \in readLeases BY DEF ReadInv, HitsAreLeased
<1>2. LeaseOf(r, v).version = v BY DEF LeaseOf
<1> QED BY <1>1, <1>2 DEF ReadInv, LeasedIsWhole

\* No version is purged under the request that found it as long as its lease has not
\* run out, and no lease outlives its request unless the process died, for any
\* requests, principals, documents and versions
THEOREM LeasesKeep == RetrievalSpec => []RetrievalSafe
BY ReadAlways, ReadIsSafe, PTL DEF RetrievalSpec

LEMMA AssemblyStep ==
    ASSUME ReadInv, [RetrievalNext]_retrievalVars, NEW r \in ReadRequests
    PROVE  AssemblesReadable(r)
<1> SUFFICES ASSUME reads[r].phase # "assembled", reads'[r].phase = "assembled",
                    NEW v \in reads'[r].hits
             PROVE  Readable(v)
  BY DEF AssemblesReadable
<1>1. reads \in [ReadRequests -> ReadRow] BY DEF ReadInv, RetrievalTypeOK, ReadRow
<1>2. ASSUME NEW s \in ReadRequests, s # r, reads'[r] # reads[r] PROVE ~RequestStep(s)
  BY <1>1, <1>2 DEF RequestStep, Collect, Merge, Assemble, CloseRequest
<1>3. ~OpenRequest(r) BY <1>1 DEF OpenRequest, Empty
<1>4. ASSUME NEW p \in Providers, NEW page \in SUBSET entries PROVE ~Collect(r, p, page) /\ ~CollectFails(r, p, page)
  BY <1>1 DEF Collect, CollectFails, ReadRow
<1>5. ~Merge(r) BY <1>1 DEF Merge, Empty, ReadRow
<1>6. ~CloseRequest(r) BY <1>1 DEF CloseRequest, Empty
<1>7. ~RequestDies(r) BY <1>1 DEF RequestDies, Empty, ReadRow
<1>8. reads' # reads BY <1>1
<1>9. ASSUME NEW s \in ReadRequests, s # r
      PROVE  /\ ~OpenRequest(s) /\ ~RequestDies(s)
             /\ \A p \in Providers, page \in SUBSET entries : ~CollectFails(s, p, page)
  BY <1>1, <1>9 DEF OpenRequest, RequestDies, CollectFails
<1>10. ASSUME NEW s \in ReadRequests, NEW version \in AllVersions PROVE ~Cite(s, version)
  BY <1>1, <1>10 DEF Cite, ReadRow
<1>11. ASSUME NEW l \in readLeases PROVE ~LeaseExpires(l)
  <2>1. l.holder \in ReadRequests BY DEF ReadInv, RetrievalTypeOK, LeaseOf
  <2> QED BY <1>1, <2>1 DEF LeaseExpires, ReadRow
<1>12. RetrievalNext => Assemble(r)
  BY <1>2, <1>3, <1>4, <1>5, <1>6, <1>7, <1>8, <1>9, <1>10, <1>11
     DEF RetrievalNext, RequestStep, AcceptDeletion, Publish, Purge,
         EnterPurging, FinishPurge
<1>13. Assemble(r) BY <1>8, <1>12 DEF retrievalVars
<1>14. reads'[r].hits = StillReadable(r) BY <1>1, <1>13 DEF Assemble, ReadRow
<1> QED BY <1>14 DEF StillReadable, Found

LEMMA AssemblyAlways == RetrievalInit /\ [][RetrievalNext]_retrievalVars => AnswersAreCurrent
<1>1. ReadInv /\ [RetrievalNext]_retrievalVars =>
        [\A r \in ReadRequests : AssemblesReadable(r)]_retrievalVars
  BY AssemblyStep
<1> QED BY <1>1, ReadAlways, PTL DEF AnswersAreCurrent

\* An answer is assembled from the facts of that moment: nothing in it was
\* replaced, or its document deleted, since it was found
THEOREM FreshAnswers == RetrievalSpec => AnswersAreCurrent
BY AssemblyAlways, PTL DEF RetrievalSpec

-----------------------------------------------------------------------------
(* IndexStaging: what each backend holds on the way to the commit *)

\* Who is inside the publication transaction still has the job and its lease
OwnersPublish == \A a \in Attempts : InPublication(a) => MayPublish(a)

\* The attempt the register names ended the job; nobody works on it any more
RegisterIsFinal ==
    register # 0 /\ document = "kept" =>
        task.state = "succeeded" /\ task.attempt = register /\ hands[register] = "gone"

\* A document on its way out has no job left
DeletionEndsJobs == document # "kept" => task.state \notin {"queued", "running"}

\* What the next step of the publication relies on
Ready(a) ==
    /\ hands[a] \in {"receipt", "publish", "retire", "keyword"} => RowsOf(a, "staged") \subseteq sparse
    /\ hands[a] \in {"retire", "keyword", "retireKeyword", "commit"} => RowsOf(a, "published") \subseteq dense
    /\ hands[a] \in {"retireKeyword", "commit"} => RowsOf(a, "published") \subseteq sparse
WorkersAreReady == \A a \in Attempts : Current(a) /\ task.lease = "held" => Ready(a)

StagingInv ==
    /\ StagingSafe
    /\ OwnersPublish /\ RegisterIsFinal /\ DeletionEndsJobs /\ WorkersAreReady

\* Rows of other attempts are left alone; nothing more is shown
OnlyOf(a, old, new) == \A r : r.attempt # a => (r \in new <=> r \in old)
ShowsNoMore(old, new) == \A r \in new : r.status = "published" => r \in old

LEMMA RowsOfAre ==
    ASSUME NEW a \in Attempts, NEW s \in {"staged", "published"}
    PROVE  /\ RowsOf(a, s) \subseteq Rows
           /\ \A r \in RowsOf(a, s) : r.attempt = a /\ r.status = s
<1>1. RowsOf(a, s) \in {RowsOf(b, t) : b \in Attempts, t \in {"staged", "published"}} OBVIOUS
<1>2. RowsOf(a, s) \subseteq Rows BY <1>1 DEF Rows
<1>3. \A r \in RowsOf(a, s) : r.attempt = a /\ r.status = s BY DEF RowsOf
<1> QED BY <1>2, <1>3

LEMMA RowsApart ==
    ASSUME NEW a \in Attempts, NEW b \in Attempts, a # b, NEW old, NEW new, OnlyOf(a, old, new),
           NEW s \in {"staged", "published"}, RowsOf(b, s) \subseteq old
    PROVE  RowsOf(b, s) \subseteq new
BY RowsOfAre DEF OnlyOf

LEMMA StagingBegins == StagingInit => StagingInv
BY StagingAssumption
   DEF StagingInit, StagingInv, StagingSafe, StagingTypeOK, PublishedIsWhole, StrayIsPending, Stray,
       Pending, DeletedIsGone, OwnersPublish, InPublication, RegisterIsFinal, DeletionEndsJobs,
       WorkersAreReady, Current, Attempts

\* A worker's step that leaves the job, the register and the document alone
LEMMA WorkKeeps ==
    ASSUME StagingInv, StagingTypeOK', NEW a \in Attempts,
           UNCHANGED <<engine, task, register, document>>,
           hands' = [hands EXCEPT ![a] = hands'[a]], hands[a] # "gone",
           OnlyOf(a, dense, dense'), OnlyOf(a, sparse, sparse'),
           InPublication(a) \/ (ShowsNoMore(dense, dense') /\ ShowsNoMore(sparse, sparse')),
           InPublication(a)' => MayPublish(a),
           Current(a) /\ task.lease = "held" => Ready(a)'
    PROVE  StagingInv'
<1>1. /\ \A b \in Attempts : b # a => hands'[b] = hands[b]
      /\ task' = task /\ register' = register /\ document' = document /\ engine' = engine
  BY DEF StagingInv, StagingSafe, StagingTypeOK
<1>2. register # 0 /\ document = "kept" => register \in Attempts /\ register # a
  BY DEF StagingInv, RegisterIsFinal, StagingSafe, StagingTypeOK, Attempts
<1>3. InPublication(a) => Current(a) /\ document = "kept"
  BY DEF StagingInv, OwnersPublish, MayPublish
<1>4. PublishedIsWhole'
  <2> SUFFICES ASSUME register # 0, document = "kept"
               PROVE  RowsOf(register, "published") \subseteq dense' /\ RowsOf(register, "published") \subseteq sparse'
    BY <1>1 DEF PublishedIsWhole, RowsOf
  <2>1. RowsOf(register, "published") \subseteq dense /\ RowsOf(register, "published") \subseteq sparse
    BY DEF StagingInv, StagingSafe, PublishedIsWhole
  <2> QED BY <1>2, <2>1, RowsApart
<1>5. StrayIsPending'
  <2>1. ASSUME NEW r, r.status = "published", r.attempt # register, document = "kept",
               r \in dense' \/ (~Keyword /\ r \in sparse')
        PROVE  Pending(r)
    <3>1. CASE r.attempt = a /\ InPublication(a) BY <1>3, <3>1 DEF Pending, Current
    <3>2. CASE r.attempt # a \/ ~InPublication(a)
      <4>1. r \in dense \/ (~Keyword /\ r \in sparse)
        BY <2>1, <3>2 DEF OnlyOf, ShowsNoMore
      <4> QED BY <2>1, <4>1 DEF StagingInv, StagingSafe, StrayIsPending, Stray
    <3> QED BY <3>1, <3>2
  <2>2. \A r : Pending(r)' = Pending(r) BY <1>1 DEF Pending
  <2>3. \A r \in Stray(dense)' : Pending(r)'
    <3> SUFFICES ASSUME NEW r \in Stray(dense)' PROVE Pending(r)' OBVIOUS
    <3>1. /\ r \in dense' /\ r.status = "published" /\ r.attempt # register /\ document = "kept"
      BY <1>1 DEF Stray
    <3>2. Pending(r) BY <2>1, <3>1
    <3> QED BY <2>2, <3>2
  <2>4. ASSUME ~Keyword' PROVE \A r \in Stray(sparse)' : Pending(r)'
    <3> SUFFICES ASSUME NEW r \in Stray(sparse)' PROVE Pending(r)' OBVIOUS
    <3>1. /\ r \in sparse' /\ r.status = "published" /\ r.attempt # register /\ document = "kept"
      BY <1>1 DEF Stray
    <3>2. ~Keyword BY <1>1, <2>4 DEF Keyword
    <3> QED BY <2>1, <2>2, <3>1, <3>2
  <2> QED BY <2>3, <2>4 DEF StrayIsPending
<1>6. DeletedIsGone'
  <2> SUFFICES ASSUME document = "deleted", NEW r \in dense' \cup sparse', r.status = "published"
               PROVE  FALSE
    BY <1>1 DEF DeletedIsGone
  <2>1. ~InPublication(a) BY <1>3
  <2>2. r \in dense \cup sparse BY <2>1 DEF ShowsNoMore
  <2> QED BY <2>2 DEF StagingInv, StagingSafe, DeletedIsGone
<1>7. OwnersPublish'
  BY <1>1 DEF StagingInv, OwnersPublish, InPublication, MayPublish, Current
<1>8. RegisterIsFinal' /\ DeletionEndsJobs'
  BY <1>1, <1>2 DEF StagingInv, RegisterIsFinal, DeletionEndsJobs
<1>9. WorkersAreReady'
  <2> SUFFICES ASSUME NEW b \in Attempts, Current(b), task.lease = "held" PROVE Ready(b)'
    BY <1>1 DEF WorkersAreReady, Current
  <2>1. b # a => Ready(b) /\ hands'[b] = hands[b] BY <1>1 DEF StagingInv, WorkersAreReady
  <2>2. ASSUME b # a PROVE Ready(b)' BY <2>1, <2>2, RowsApart DEF Ready, RowsOf
  <2> QED BY <2>2
<1> QED BY <1>4, <1>5, <1>6, <1>7, <1>8, <1>9 DEF StagingInv, StagingSafe

LEMMA DiscardsOwn ==
    ASSUME NEW a
    PROVE  /\ DiscardDense(a) \subseteq dense /\ DiscardSparse(a) \subseteq sparse
           /\ OnlyOf(a, dense, DiscardDense(a)) /\ OnlyOf(a, sparse, DiscardSparse(a))
           /\ ShowsNoMore(dense, DiscardDense(a)) /\ ShowsNoMore(sparse, DiscardSparse(a))
           /\ \A r \in DiscardDense(a) : r.status = "published" => r.attempt # a
           /\ ~Keyword => \A r \in DiscardSparse(a) : r.status = "published" => r.attempt # a
BY DEF DiscardDense, DiscardSparse, Of, OnlyOf, ShowsNoMore

LEMMA DiscardTyped ==
    ASSUME StagingTypeOK, NEW a, Discarded(a) \/ DiscardFails(a)
    PROVE  /\ dense' \subseteq Rows /\ sparse' \subseteq Rows /\ storeFaults' \in 0..StoreFaults
           /\ OnlyOf(a, dense, dense') /\ OnlyOf(a, sparse, sparse')
           /\ ShowsNoMore(dense, dense') /\ ShowsNoMore(sparse, sparse')
<1>1. CASE Discarded(a) BY <1>1, DiscardsOwn DEF Discarded, StagingTypeOK
<1>2. CASE DiscardFails(a)
  <2>1. storeFaults' \in 0..StoreFaults
    BY <1>2, StagingAssumption DEF DiscardFails, StoreFault, StagingTypeOK
  <2>2. sparse' = sparse /\ (dense' = dense \/ dense' = DiscardDense(a)) BY <1>2 DEF DiscardFails
  <2> QED BY <2>1, <2>2, DiscardsOwn DEF StagingTypeOK, OnlyOf, ShowsNoMore
<1> QED BY <1>1, <1>2

\* Staging adds staged rows of its attempt
LEMMA StagesOwn ==
    ASSUME NEW a \in Attempts, NEW old, NEW some \in SUBSET RowsOf(a, "staged")
    PROVE  OnlyOf(a, old, old \cup some) /\ ShowsNoMore(old, old \cup some)
BY RowsOfAre DEF OnlyOf, ShowsNoMore

LEMMA FaultTyped == StagingTypeOK /\ (StoreFault \/ UNCHANGED storeFaults) => storeFaults' \in 0..StoreFaults
BY StagingAssumption DEF StoreFault, StagingTypeOK

LEMMA BeforePublication ==
    ASSUME StagingInv, NEW a \in Attempts, UNCHANGED engine,
           \/ StageDense(a) \/ StageSparse(a) \/ UndoStaging(a) \/ LosesFence(a)
           \/ BeginPublication(a) \/ RevertPublication(a) \/ WorkerDies(a)
           \/ FailJob(a) /\ UNCHANGED task
    PROVE  StagingInv'
<1> USE DEF Continue
<1>0. /\ StagingTypeOK /\ hands \in [Attempts -> {"idle", "dense", "sparse", "undo", "receipt",
                               "publish", "retire", "keyword", "retireKeyword",
                               "commit", "revert", "failing", "gone"}]
      /\ dense \subseteq Rows /\ sparse \subseteq Rows
  BY DEF StagingInv, StagingSafe, StagingTypeOK
<1>1. ASSUME NEW step \in {"sparse", "undo", "receipt", "failing", "gone"}, Continue(a, step)
      PROVE  /\ hands' = [hands EXCEPT ![a] = hands'[a]] /\ hands'[a] = step
             /\ hands' \in [Attempts -> {"idle", "dense", "sparse", "undo", "receipt",
                               "publish", "retire", "keyword", "retireKeyword",
                               "commit", "revert", "failing", "gone"}]
             /\ ~InPublication(a)'
             /\ step # "receipt" => Ready(a)'
  BY <1>0, <1>1 DEF InPublication, Ready
<1>2. CASE StageDense(a)
  <2>1. PICK some \in SUBSET RowsOf(a, "staged") : dense' = dense \cup some
    <3>1. dense' = dense \cup {} \/ dense' = dense \cup RowsOf(a, "staged") BY <1>2 DEF StageDense
    <3>2. {} \in SUBSET RowsOf(a, "staged") /\ RowsOf(a, "staged") \in SUBSET RowsOf(a, "staged") OBVIOUS
    <3> QED BY <3>1, <3>2
  <2>2. /\ \E step \in {"sparse", "undo"} : Continue(a, step)
        /\ StoreFault \/ UNCHANGED storeFaults
        /\ UNCHANGED <<task, sparse, register, document>> /\ hands[a] # "gone"
    BY <1>2 DEF StageDense
  <2>3. dense' \subseteq Rows BY <1>0, <2>1, RowsOfAre
  <2>4. StagingTypeOK' BY <1>0, <1>1, <2>2, <2>3, FaultTyped DEF StagingTypeOK
  <2>5. OnlyOf(a, dense, dense') /\ ShowsNoMore(dense, dense') BY <2>1, StagesOwn
  <2>6. OnlyOf(a, sparse, sparse') /\ ShowsNoMore(sparse, sparse') BY <2>2 DEF OnlyOf, ShowsNoMore
  <2> QED BY <1>1, <2>2, <2>4, <2>5, <2>6, WorkKeeps
<1>3. CASE StageSparse(a)
  <2>1. PICK some \in SUBSET RowsOf(a, "staged") : 
           /\ sparse' = sparse \cup some
           /\ hands'[a] = "receipt" => some = RowsOf(a, "staged")
    BY <1>0, <1>3 DEF StageSparse
  <2>2. /\ \E step \in {"receipt", "undo"} : Continue(a, step)
        /\ StoreFault \/ UNCHANGED storeFaults
        /\ UNCHANGED <<task, dense, register, document>> /\ hands[a] # "gone"
    BY <1>3 DEF StageSparse
  <2>3. sparse' \subseteq Rows BY <1>0, <2>1, RowsOfAre
  <2>4. StagingTypeOK' BY <1>0, <1>1, <2>2, <2>3, FaultTyped DEF StagingTypeOK
  <2>5. OnlyOf(a, sparse, sparse') /\ ShowsNoMore(sparse, sparse') BY <2>1, StagesOwn
  <2>6. OnlyOf(a, dense, dense') /\ ShowsNoMore(dense, dense') BY <2>2 DEF OnlyOf, ShowsNoMore
  <2>7. Ready(a)'
    <3>1. hands'[a] \in {"receipt", "undo"} BY <1>1, <2>2
    <3>2. hands'[a] = "receipt" => RowsOf(a, "staged") \subseteq sparse' BY <2>1
    <3> QED BY <3>1, <3>2 DEF Ready, RowsOf
  <2> QED BY <1>1, <2>2, <2>4, <2>5, <2>6, <2>7, WorkKeeps
<1>4. CASE UndoStaging(a) \/ RevertPublication(a)
  <2>1. /\ Discarded(a) \/ DiscardFails(a)
        /\ Continue(a, "failing") /\ hands[a] # "gone" /\ UNCHANGED <<task, register, document>>
    BY <1>4 DEF UndoStaging, RevertPublication
  <2>2. StagingTypeOK' BY <1>0, <1>1, <2>1, DiscardTyped DEF StagingTypeOK
  <2> QED BY <1>0, <1>1, <2>1, <2>2, DiscardTyped, WorkKeeps
<1>5. CASE LosesFence(a) \/ WorkerDies(a)
  <2>1. /\ Continue(a, "gone") /\ hands[a] # "gone"
        /\ UNCHANGED <<task, dense, sparse, register, document, storeFaults>>
    BY <1>5 DEF LosesFence, WorkerDies
  <2>2. StagingTypeOK' BY <1>0, <1>1, <2>1 DEF StagingTypeOK
  <2>3. /\ OnlyOf(a, sparse, sparse') /\ ShowsNoMore(sparse, sparse')
        /\ OnlyOf(a, dense, dense') /\ ShowsNoMore(dense, dense')
    BY <2>1 DEF OnlyOf, ShowsNoMore
  <2> QED BY <1>1, <2>1, <2>2, <2>3, WorkKeeps
<1>6. CASE BeginPublication(a)
  <2>1. /\ hands[a] = "receipt" /\ hands' = [hands EXCEPT ![a] = "publish"] /\ MayPublish(a)
        /\ UNCHANGED <<task, dense, sparse, register, document, storeFaults>>
    BY <1>6 DEF BeginPublication
  <2>2. StagingTypeOK' BY <1>0, <2>1 DEF StagingTypeOK
  <2>3. /\ OnlyOf(a, sparse, sparse') /\ ShowsNoMore(sparse, sparse')
        /\ OnlyOf(a, dense, dense') /\ ShowsNoMore(dense, dense')
    BY <2>1 DEF OnlyOf, ShowsNoMore
  <2>4. hands'[a] = "publish" /\ hands' = [hands EXCEPT ![a] = hands'[a]] BY <1>0, <2>1
  <2>5. Ready(a)'
    <3>1. Ready(a) BY <2>1 DEF StagingInv, WorkersAreReady, MayPublish
    <3> QED BY <2>1, <2>4, <3>1 DEF Ready, RowsOf
  <2> QED BY <2>1, <2>2, <2>3, <2>4, <2>5, WorkKeeps
<1>7. CASE FailJob(a) /\ UNCHANGED task
  <2>1. /\ Continue(a, "gone") /\ hands[a] # "gone" /\ UNCHANGED <<register, document>>
        /\ \/ Discarded(a) \/ DiscardFails(a) 
           \/ UNCHANGED <<dense, sparse, storeFaults>>
    BY <1>7 DEF FailJob
  <2>2. /\ dense' \subseteq Rows /\ sparse' \subseteq Rows /\ storeFaults' \in 0..StoreFaults
        /\ OnlyOf(a, sparse, sparse') /\ ShowsNoMore(sparse, sparse')
        /\ OnlyOf(a, dense, dense') /\ ShowsNoMore(dense, dense')
    <3>1. CASE UNCHANGED <<dense, sparse, storeFaults>>
      BY <1>0, <3>1 DEF OnlyOf, ShowsNoMore, StagingTypeOK
    <3> QED BY <1>0, <2>1, <3>1, DiscardTyped
  <2>3. StagingTypeOK' BY <1>0, <1>1, <1>7, <2>1, <2>2 DEF StagingTypeOK
  <2> QED BY <1>1, <1>7, <2>1, <2>2, <2>3, WorkKeeps
<1> QED BY <1>2, <1>3, <1>4, <1>5, <1>6, <1>7

\* Published: the staged rows of an attempt, with the other status
LEMMA PublishedRows ==
    ASSUME NEW a \in Attempts, NEW old, old \subseteq Rows
    PROVE  LET put == {[r EXCEPT !.status = "published"] : r \in Of(old, a, "staged")}
           IN  /\ put \subseteq RowsOf(a, "published")
               /\ RowsOf(a, "staged") \subseteq old => RowsOf(a, "published") \subseteq put
<1> DEFINE put == {[r EXCEPT !.status = "published"] : r \in Of(old, a, "staged")}
<1>1. ASSUME NEW r \in Of(old, a, "staged")
      PROVE  [r EXCEPT !.status = "published"] \in RowsOf(a, "published")
  <2>1. r \in Rows /\ r.attempt = a BY <1>1 DEF Of
  <2>2. PICK b \in Attempts, s \in {"staged", "published"} : r \in RowsOf(b, s)
    BY <2>1 DEF Rows
  <2>3. PICK c \in Chunks : r = [attempt |-> b, status |-> s, chunk |-> c] BY <2>2 DEF RowsOf
  <2>4. [r EXCEPT !.status = "published"] = [attempt |-> a, status |-> "published", chunk |-> c]
    BY <2>1, <2>3
  <2> QED BY <2>4 DEF RowsOf
<1>2. ASSUME RowsOf(a, "staged") \subseteq old, NEW r \in RowsOf(a, "published") PROVE r \in put
  <2>1. PICK c \in Chunks : r = [attempt |-> a, status |-> "published", chunk |-> c]
    BY <1>2 DEF RowsOf
  <2> DEFINE s == [attempt |-> a, status |-> "staged", chunk |-> c]
  <2>2. s \in RowsOf(a, "staged") BY DEF RowsOf
  <2>3. s \in Of(old, a, "staged") BY <1>2, <2>2 DEF Of
  <2>4. r = [s EXCEPT !.status = "published"] BY <2>1
  <2> QED BY <2>3, <2>4
<1> QED BY <1>1, <1>2

LEMMA InsidePublication ==
    ASSUME StagingInv, NEW a \in Attempts, UNCHANGED engine,
           PublishDense(a) \/ RetireDense(a) \/ PublishSparse(a) \/ RetireSparse(a)
    PROVE  StagingInv'
<1>0. /\ StagingTypeOK /\ hands \in [Attempts -> {"idle", "dense", "sparse", "undo", "receipt",
                               "publish", "retire", "keyword", "retireKeyword",
                               "commit", "revert", "failing", "gone"}]
      /\ dense \subseteq Rows /\ sparse \subseteq Rows
  BY DEF StagingInv, StagingSafe, StagingTypeOK
<1>1. /\ hands[a] \in {"publish", "retire", "keyword", "retireKeyword"}
      /\ UNCHANGED <<engine, task, register, document>>
      /\ StoreFault \/ UNCHANGED storeFaults
  BY DEF PublishDense, RetireDense, PublishSparse, RetireSparse
<1>2. InPublication(a) /\ MayPublish(a) /\ Ready(a)
  BY <1>1 DEF InPublication, StagingInv, OwnersPublish, WorkersAreReady, MayPublish
<1>3. /\ hands' = [hands EXCEPT ![a] = hands'[a]]
      /\ hands'[a] = "revert" \/ hands'[a] \in {"retire", "keyword", "retireKeyword", "commit"}
      /\ hands'[a] # "revert" =>
           \/ hands[a] = "publish" /\ hands'[a] = "retire"
           \/ hands[a] = "retire" /\ hands'[a] = "keyword"
           \/ hands[a] = "keyword" /\ hands'[a] \in {"retireKeyword", "commit"}
           \/ hands[a] = "retireKeyword" /\ hands'[a] = "commit"
  BY <1>0 DEF PublishDense, RetireDense, PublishSparse, RetireSparse, Continue
<1>4. ASSUME PublishDense(a) \/ RetireDense(a)
      PROVE  /\ dense' \subseteq Rows /\ OnlyOf(a, dense, dense') /\ sparse' = sparse
             /\ hands'[a] = "retire" => RowsOf(a, "published") \subseteq dense'
             /\ RowsOf(a, "published") \subseteq dense => RowsOf(a, "published") \subseteq dense'
             /\ hands'[a] \in {"revert", "retire", "keyword"}
  <2>1. CASE PublishDense(a)
    <3>1. /\ sparse' = sparse /\ hands'[a] \in {"revert", "retire"}
          /\ dense' \in {dense, dense \cup RowsOf(a, "published")}
          /\ hands'[a] = "retire" => dense' = dense \cup RowsOf(a, "published")
      BY <1>0, <2>1 DEF PublishDense, Continue
    <3> QED BY <1>0, <3>1, RowsOfAre DEF OnlyOf
  <2>2. CASE RetireDense(a)
    <3>1. /\ sparse' = sparse /\ dense' \in {dense, dense \ Of(dense, a, "staged")}
          /\ hands'[a] \in {"revert", "keyword"}
      BY <1>0, <2>2 DEF RetireDense, Continue
    <3> QED BY <1>0, <3>1, RowsOfAre DEF OnlyOf, Of
  <2> QED BY <1>4, <2>1, <2>2
<1>5. ASSUME PublishSparse(a) \/ RetireSparse(a)
      PROVE  /\ sparse' \subseteq Rows /\ OnlyOf(a, sparse, sparse') /\ dense' = dense
             /\ hands'[a] \in {"retireKeyword", "commit"} => RowsOf(a, "published") \subseteq sparse'
             /\ hands'[a] \in {"revert", "retireKeyword", "commit"}
  <2>1. CASE PublishSparse(a)
    <3> DEFINE put == {[r EXCEPT !.status = "published"] : r \in Of(sparse, a, "staged")}
               old == Of(sparse, a, "staged")
    <3>1. /\ put \subseteq RowsOf(a, "published")
          /\ hands[a] = "keyword" => RowsOf(a, "published") \subseteq put
      BY <1>0, <1>2, PublishedRows DEF Ready
    <3>2. \E some \in SUBSET put, left \in SUBSET old :
             /\ sparse' = (sparse \ left) \cup some
             /\ hands'[a] # "revert" => some = put
      <4>1. \/ sparse' = (sparse \ old) \cup put
            \/ sparse' = (sparse \ {}) \cup put
            \/ /\ hands'[a] = "revert"
               /\ \E some \in SUBSET put, left \in SUBSET old : sparse' = (sparse \ left) \cup some
        BY <1>0, <2>1 DEF PublishSparse, Continue
      <4>2. put \in SUBSET put /\ old \in SUBSET old /\ {} \in SUBSET old OBVIOUS
      <4> HIDE DEF put, old
      <4> QED BY <4>1, <4>2
    <3>3. /\ dense' = dense /\ hands[a] = "keyword"
          /\ hands'[a] \in {"revert", "retireKeyword", "commit"}
      BY <1>0, <2>1 DEF PublishSparse, Continue
    <3>4. \A r \in put \cup old : r.attempt = a BY <3>1, RowsOfAre DEF Of
    <3>5. put \subseteq Rows BY <3>1, RowsOfAre
    <3> HIDE DEF put, old
    <3> QED BY <1>0, <3>1, <3>2, <3>3, <3>4, <3>5 DEF OnlyOf
  <2>2. CASE RetireSparse(a)
    <3>1. /\ dense' = dense /\ sparse' \in {sparse, sparse \ Of(sparse, a, "staged")}
          /\ hands'[a] \in {"revert", "commit"} /\ hands[a] = "retireKeyword"
      BY <1>0, <2>2 DEF RetireSparse, Continue
    <3>2. RowsOf(a, "published") \subseteq sparse BY <1>2, <3>1 DEF Ready
    <3> QED BY <1>0, <3>1, <3>2, RowsOfAre DEF OnlyOf, Of
  <2> QED BY <1>5, <2>1, <2>2
<1>6. StagingTypeOK'
  <2>1. dense' \subseteq Rows /\ sparse' \subseteq Rows BY <1>0, <1>4, <1>5
  <2> QED BY <1>0, <1>1, <1>3, <2>1, FaultTyped DEF StagingTypeOK
<1>7. OnlyOf(a, dense, dense') /\ OnlyOf(a, sparse, sparse') BY <1>4, <1>5 DEF OnlyOf
<1>8. Ready(a)'
  <2>1. CASE PublishDense(a) \/ RetireDense(a)
    <3>1. hands'[a] \in {"retire", "keyword"} =>
            RowsOf(a, "published") \subseteq dense' /\ RowsOf(a, "staged") \subseteq sparse'
      BY <1>1, <1>2, <1>3, <1>4, <2>1 DEF Ready
    <3> QED BY <1>4, <2>1, <3>1 DEF Ready, RowsOf
  <2>2. CASE PublishSparse(a) \/ RetireSparse(a)
    <3>1. hands'[a] \in {"retireKeyword", "commit"} =>
            RowsOf(a, "published") \subseteq dense' /\ RowsOf(a, "published") \subseteq sparse'
      BY <1>1, <1>2, <1>3, <1>5, <2>2 DEF Ready
    <3> QED BY <1>5, <2>2, <3>1 DEF Ready, RowsOf
  <2> QED BY <2>1, <2>2
<1> QED BY <1>1, <1>2, <1>3, <1>6, <1>7, <1>8, WorkKeeps

\* The job of an attempt ends or is queued again, with its rows discarded
LEMMA JobLeaves ==
    ASSUME StagingInv, StagingTypeOK', UNCHANGED <<engine, register>>,
           task.state = "running", Unlocked, Discarded(task.attempt),
           task'.state # "running",
           \A b \in Attempts : hands'[b] \in {hands[b], "gone"},
           document' = "kept" \/ (document' = "purging" /\ task'.state = "cancelled")
    PROVE  StagingInv'
<1>1. document = "kept" /\ register = 0
  BY DEF StagingInv, RegisterIsFinal, DeletionEndsJobs, StagingSafe, StagingTypeOK
<1>2. \A b \in Attempts : ~InPublication(b)' BY DEF Unlocked, InPublication
<1>3. PublishedIsWhole' /\ RegisterIsFinal' BY <1>1 DEF PublishedIsWhole, RegisterIsFinal
<1>4. DeletionEndsJobs' BY DEF DeletionEndsJobs
<1>5. OwnersPublish' BY <1>2 DEF OwnersPublish
<1>6. WorkersAreReady' BY DEF WorkersAreReady, Current
<1>7. ASSUME NEW r, r.status = "published", r \in dense' \/ (~Keyword /\ r \in sparse'),
             r.attempt # register
      PROVE  FALSE
  <2>1. r.attempt # task.attempt BY <1>7, DiscardsOwn DEF Discarded
  <2>2. r \in dense \/ (~Keyword /\ r \in sparse) BY <1>7, DiscardsOwn DEF Discarded
  <2>3. Pending(r)
    <3>1. CASE r \in dense BY <1>1, <1>7, <3>1 DEF StagingInv, StagingSafe, StrayIsPending, Stray
    <3>2. CASE ~Keyword /\ r \in sparse
      BY <1>1, <1>7, <3>2 DEF StagingInv, StagingSafe, StrayIsPending, Stray
    <3> QED BY <2>2, <3>1, <3>2
  <2> QED BY <2>1, <2>3 DEF Pending
<1>8. StrayIsPending'
  <2>1. \A r \in Stray(dense)' : FALSE
    <3> SUFFICES ASSUME NEW r \in Stray(dense)' PROVE FALSE OBVIOUS
    <3>1. r \in dense' /\ r.status = "published" /\ r.attempt # register BY DEF Stray
    <3> QED BY <1>7, <3>1
  <2>2. ~Keyword' => \A r \in Stray(sparse)' : FALSE
    <3> SUFFICES ASSUME ~Keyword', NEW r \in Stray(sparse)' PROVE FALSE OBVIOUS
    <3>1. r \in sparse' /\ r.status = "published" /\ r.attempt # register BY DEF Stray
    <3>2. ~Keyword BY DEF Keyword
    <3> QED BY <1>7, <3>1, <3>2
  <2> QED BY <2>1, <2>2 DEF StrayIsPending
<1>9. DeletedIsGone' BY DEF DeletedIsGone
<1> QED BY <1>3, <1>4, <1>5, <1>6, <1>8, <1>9 DEF StagingInv, StagingSafe

\* A discard that failed half-way leaves the job to its owner
LEMMA DiscardHalfDone ==
    ASSUME StagingInv, StagingTypeOK', UNCHANGED <<engine, task, hands, register, document>>,
           task.state = "running", Unlocked, DiscardFails(task.attempt)
    PROVE  StagingInv'
<1>1. register # 0 => document # "kept"
  BY DEF StagingInv, RegisterIsFinal
<1>2. dense' \subseteq dense /\ sparse' = sparse
  BY DiscardsOwn DEF DiscardFails
<1>3. PublishedIsWhole' /\ RegisterIsFinal' /\ DeletionEndsJobs' /\ OwnersPublish'
  BY <1>1 DEF StagingInv, PublishedIsWhole, RegisterIsFinal, DeletionEndsJobs, OwnersPublish,
     InPublication, MayPublish, Current
<1>4. DeletedIsGone' BY <1>2 DEF StagingInv, StagingSafe, DeletedIsGone
<1>5. StrayIsPending' BY <1>2 DEF StagingInv, StagingSafe, StrayIsPending, Stray, Pending, Keyword
<1>6. WorkersAreReady'
  <2> SUFFICES ASSUME NEW b \in Attempts, Current(b), task.lease = "held" PROVE Ready(b)'
    BY DEF WorkersAreReady, Current
  <2>1. Ready(b) /\ ~InPublication(b) BY DEF StagingInv, WorkersAreReady, Unlocked
  <2> QED BY <1>2, <2>1 DEF Ready, InPublication, RowsOf
<1> QED BY <1>3, <1>4, <1>5, <1>6 DEF StagingInv, StagingSafe

LEMMA CommitKeeps ==
    ASSUME StagingInv, NEW a \in Attempts, Commit(a), UNCHANGED engine PROVE StagingInv'
<1>0. /\ StagingTypeOK /\ hands[a] = "commit"
      /\ register' = a /\ task' = [task EXCEPT !.state = "succeeded"]
      /\ hands' = [hands EXCEPT ![a] = "gone"]
      /\ UNCHANGED <<dense, sparse, document, storeFaults>>
  BY DEF StagingInv, StagingSafe, Commit, Continue
<1>1. Current(a) /\ document = "kept" /\ Ready(a)
  BY <1>0 DEF StagingInv, OwnersPublish, WorkersAreReady, InPublication, MayPublish
<1>2. /\ task'.state = "succeeded" /\ task'.attempt = a /\ task.attempt = a
      /\ hands'[a] = "gone" /\ \A b \in Attempts : b # a => hands'[b] = hands[b]
  BY <1>0, <1>1 DEF StagingTypeOK, Current
<1>3. StagingTypeOK'
  <2>1. task' \in [state : {"queued", "running", "succeeded", "failed", "cancelled"},
                   attempt : 0..JobAttempts, lease : {"held", "expired"}]
    BY <1>0 DEF StagingTypeOK
  <2> QED BY <1>0, <2>1 DEF StagingTypeOK, Attempts
<1>4. PublishedIsWhole' BY <1>0, <1>1 DEF PublishedIsWhole, Ready, RowsOf
<1>5. register = 0 BY <1>1 DEF StagingInv, RegisterIsFinal, Current
<1>6. StrayIsPending'
  <2>1. ASSUME NEW r \in Rows, r.status = "published", r.attempt # a,
               r \in dense \/ (~Keyword /\ r \in sparse)
        PROVE  FALSE
    <3>1. r.attempt # register
      <4>1. PICK b \in Attempts, s \in {"staged", "published"} : r \in RowsOf(b, s) BY DEF Rows
      <4> QED BY <1>5, <4>1, RowsOfAre DEF Attempts
    <3>2. Pending(r)
      <4>1. CASE r \in dense BY <1>1, <2>1, <3>1, <4>1 DEF StagingInv, StagingSafe, StrayIsPending, Stray
      <4>2. CASE ~Keyword /\ r \in sparse
        BY <1>1, <2>1, <3>1, <4>2 DEF StagingInv, StagingSafe, StrayIsPending, Stray
      <4> QED BY <2>1, <4>1, <4>2
    <3> QED BY <1>2, <2>1, <3>2 DEF Pending
  <2>2. \A r \in Stray(dense)' : FALSE
    <3> SUFFICES ASSUME NEW r \in Stray(dense)' PROVE FALSE OBVIOUS
    <3>1. r \in dense /\ r.status = "published" /\ r.attempt # a BY <1>0 DEF Stray
    <3> QED BY <1>0, <2>1, <3>1 DEF StagingTypeOK
  <2>3. ~Keyword' => \A r \in Stray(sparse)' : FALSE
    <3> SUFFICES ASSUME ~Keyword', NEW r \in Stray(sparse)' PROVE FALSE OBVIOUS
    <3>1. r \in sparse /\ r.status = "published" /\ r.attempt # a BY <1>0 DEF Stray
    <3>2. ~Keyword BY DEF Keyword
    <3> QED BY <1>0, <2>1, <3>1, <3>2 DEF StagingTypeOK
  <2> QED BY <2>2, <2>3 DEF StrayIsPending
<1>7. DeletedIsGone' BY <1>0, <1>1 DEF DeletedIsGone
<1>8. OwnersPublish'
  <2> SUFFICES ASSUME NEW b \in Attempts, InPublication(b)' PROVE FALSE BY DEF OwnersPublish
  <2>1. b # a BY <1>2 DEF InPublication
  <2>2. InPublication(b) BY <1>2, <2>1 DEF InPublication
  <2>3. Current(b) BY <2>2 DEF StagingInv, OwnersPublish, MayPublish
  <2> QED BY <1>2, <2>1, <2>3 DEF Current
<1>9. RegisterIsFinal' /\ DeletionEndsJobs' /\ WorkersAreReady'
  BY <1>0, <1>2 DEF RegisterIsFinal, DeletionEndsJobs, WorkersAreReady, Current
<1> QED BY <1>3, <1>4, <1>6, <1>7, <1>8, <1>9 DEF StagingInv, StagingSafe

LEMMA JobSteps ==
    ASSUME StagingInv, UNCHANGED engine,
           \/ \E a \in Attempts : Claim(a)
           \/ \E a \in Attempts : FailJob(a) /\ ~UNCHANGED task
           \/ LeaseRunsOut \/ RecoverExpired \/ DeleteDocument \/ PurgeRows
    PROVE  StagingInv'
<1> DEFINE Standings == {"queued", "running", "succeeded", "failed", "cancelled"}
           TaskRow == [state : Standings, attempt : 0..JobAttempts, lease : {"held", "expired"}]
<1>0. /\ StagingTypeOK /\ task \in TaskRow /\ dense \subseteq Rows /\ sparse \subseteq Rows
      /\ hands \in [Attempts -> {"idle", "dense", "sparse", "undo", "receipt",
                               "publish", "retire", "keyword", "retireKeyword",
                               "commit", "revert", "failing", "gone"}]
  BY DEF StagingInv, StagingSafe, StagingTypeOK
<1>1. ASSUME NEW a \in Attempts, Claim(a) PROVE StagingInv'
  <2>1. /\ task.state = "queued" /\ document = "kept" /\ Unlocked
        /\ task' = [state |-> "running", attempt |-> a, lease |-> "held"]
        /\ hands' = [hands EXCEPT ![a] = "dense"]
        /\ UNCHANGED <<dense, sparse, register, document, storeFaults>>
    BY <1>1 DEF Claim, Continue
  <2>2. task' \in TaskRow BY <2>1 DEF Attempts
  <2>3. StagingTypeOK' BY <1>0, <2>1, <2>2 DEF StagingTypeOK
  <2>4. register = 0 BY <2>1 DEF StagingInv, RegisterIsFinal
  <2>5. PublishedIsWhole' /\ RegisterIsFinal' /\ DeletionEndsJobs' /\ DeletedIsGone'
    BY <2>1, <2>4 DEF PublishedIsWhole, RegisterIsFinal, DeletionEndsJobs, DeletedIsGone
  <2>6. StrayIsPending'
    <3>1. \A r : ~Pending(r) BY <2>1 DEF Pending
    <3>2. Stray(dense)' = Stray(dense) /\ Stray(sparse)' = Stray(sparse) BY <2>1 DEF Stray
    <3>3. Stray(dense) = {} /\ (~Keyword => Stray(sparse) = {})
      BY <3>1 DEF StagingInv, StagingSafe, StrayIsPending
    <3> QED BY <3>2, <3>3 DEF StrayIsPending, Keyword
  <2>7. \A b \in Attempts : ~InPublication(b)' BY <1>0, <2>1 DEF Unlocked, InPublication
  <2>8. WorkersAreReady' BY <1>0, <2>1 DEF WorkersAreReady, Current, Ready
  <2> QED BY <2>3, <2>5, <2>6, <2>7, <2>8 DEF StagingInv, StagingSafe, OwnersPublish
<1>2. ASSUME NEW a \in Attempts, FailJob(a), ~UNCHANGED task PROVE StagingInv'
  <2>1. /\ Unlocked /\ task.state = "running" /\ task.attempt = a /\ Discarded(a)
        /\ hands' = [hands EXCEPT ![a] = "gone"] /\ UNCHANGED <<register, document>>
    BY <1>2 DEF FailJob, Current, Continue
  <2>2. task' \in TaskRow /\ task'.state # "running"
    <3>1. PICK state \in Ended : task' = [task EXCEPT !.state = state]
      BY <1>2 DEF FailJob
    <3>2. state \in {"queued", "failed"} BY <3>1 DEF Ended
    <3> QED BY <1>0, <3>1, <3>2
  <2>3. StagingTypeOK' BY <1>0, <2>1, <2>2, DiscardTyped DEF StagingTypeOK
  <2>4. document' = "kept" BY <2>1 DEF StagingInv, DeletionEndsJobs
  <2>5. \A b \in Attempts : hands'[b] \in {hands[b], "gone"} BY <1>0, <2>1
  <2> QED BY <2>1, <2>2, <2>3, <2>4, <2>5, JobLeaves
<1>3. CASE LeaseRunsOut
  <2>1. /\ Unlocked /\ task' = [task EXCEPT !.lease = "expired"]
        /\ UNCHANGED <<hands, dense, sparse, register, document, storeFaults>>
    BY <1>3 DEF LeaseRunsOut
  <2>2. /\ task' \in TaskRow /\ task'.lease = "expired"
        /\ task'.state = task.state /\ task'.attempt = task.attempt
    BY <1>0, <2>1
  <2>3. StagingTypeOK' BY <1>0, <2>1, <2>2 DEF StagingTypeOK
  <2>4. PublishedIsWhole' /\ DeletedIsGone' /\ StrayIsPending'
    BY <2>1, <2>2 DEF StagingInv, StagingSafe, PublishedIsWhole, DeletedIsGone, StrayIsPending,
       Stray, Pending, Keyword
  <2>5. RegisterIsFinal' /\ DeletionEndsJobs' /\ WorkersAreReady'
    BY <2>1, <2>2 DEF StagingInv, RegisterIsFinal, DeletionEndsJobs, WorkersAreReady
  <2>6. OwnersPublish' BY <2>1 DEF Unlocked, OwnersPublish, InPublication
  <2> QED BY <2>3, <2>4, <2>5, <2>6 DEF StagingInv, StagingSafe
<1>4. CASE RecoverExpired
  <2>1. /\ task.state = "running" /\ Unlocked /\ UNCHANGED <<hands, register, document>>
    BY <1>4 DEF RecoverExpired
  <2>2. CASE DiscardFails(task.attempt) /\ UNCHANGED task
    <3>1. StagingTypeOK' BY <1>0, <2>1, <2>2, DiscardTyped DEF StagingTypeOK
    <3> QED BY <2>1, <2>2, <3>1, DiscardHalfDone
  <2>3. CASE /\ Discarded(task.attempt)
             /\ task' = [task EXCEPT !.lease = "held",
                            !.state = IF task.attempt < JobAttempts THEN "queued" ELSE "failed"]
    <3>1. task' \in TaskRow /\ task'.state # "running" BY <1>0, <2>3
    <3>2. StagingTypeOK' BY <1>0, <2>1, <2>3, <3>1, DiscardTyped DEF StagingTypeOK
    <3>3. document' = "kept" BY <2>1 DEF StagingInv, DeletionEndsJobs
    <3> QED BY <2>1, <2>3, <3>1, <3>2, <3>3, JobLeaves
  <2> QED BY <1>4, <2>2, <2>3 DEF RecoverExpired, Recovered
<1>5. CASE DeleteDocument
  <2>1. document = "kept" /\ Unlocked /\ UNCHANGED <<hands, register>>
    BY <1>5 DEF DeleteDocument
  <2>2. CASE task.state = "running" /\ DiscardFails(task.attempt) /\ UNCHANGED <<task, document>>
    <3>1. StagingTypeOK' BY <1>0, <2>1, <2>2, DiscardTyped DEF StagingTypeOK
    <3> QED BY <2>1, <2>2, <3>1, DiscardHalfDone
  <2>3. CASE /\ task.state = "running" /\ Discarded(task.attempt)
             /\ task' = [task EXCEPT !.state = "cancelled"] /\ document' = "purging"
    <3>1. task' \in TaskRow /\ task'.state = "cancelled" BY <1>0, <2>3
    <3>2. StagingTypeOK' BY <1>0, <2>1, <2>3, <3>1, DiscardTyped DEF StagingTypeOK
    <3> QED BY <2>1, <2>3, <3>1, <3>2, JobLeaves
  <2>4. CASE /\ task.state # "running"
             /\ task' = [task EXCEPT !.state = IF @ = "queued" THEN "cancelled" ELSE @]
             /\ document' = "purging" /\ UNCHANGED <<dense, sparse, storeFaults>>
    <3>1. task' \in TaskRow /\ task'.state \notin {"queued", "running"} BY <1>0, <2>4
    <3>2. StagingTypeOK' BY <1>0, <2>1, <2>4, <3>1 DEF StagingTypeOK
    <3>3. PublishedIsWhole' /\ DeletedIsGone' /\ RegisterIsFinal' /\ DeletionEndsJobs'
      BY <2>4, <3>1 DEF PublishedIsWhole, DeletedIsGone, RegisterIsFinal, DeletionEndsJobs
    <3>4. StrayIsPending' BY <2>4 DEF StrayIsPending, Stray
    <3>5. OwnersPublish' BY <2>1 DEF Unlocked, OwnersPublish, InPublication
    <3>6. WorkersAreReady' BY <3>1 DEF WorkersAreReady, Current
    <3> QED BY <3>2, <3>3, <3>4, <3>5, <3>6 DEF StagingInv, StagingSafe
  <2> QED BY <1>5, <2>2, <2>3, <2>4 DEF DeleteDocument
<1>6. CASE PurgeRows
  <2>1. /\ document = "purging" /\ UNCHANGED <<task, hands>>
        /\ document' \in {"purging", "deleted"} /\ register' \in {register, 0}
        /\ StoreFault \/ UNCHANGED storeFaults
        /\ dense' \in {dense, {}} /\ sparse' \in {sparse, Swept}
        /\ document' = "deleted" => dense' = {} /\ sparse' = Swept
    BY <1>6 DEF PurgeRows
  <2>2. Swept \subseteq sparse /\ \A r \in Swept : r.status # "published" BY DEF Swept
  <2>3. StagingTypeOK' BY <1>0, <2>1, <2>2, FaultTyped, StagingAssumption DEF StagingTypeOK
  <2>4. PublishedIsWhole' /\ StrayIsPending' /\ RegisterIsFinal'
    BY <2>1 DEF PublishedIsWhole, StrayIsPending, Stray, RegisterIsFinal
  <2>5. DeletedIsGone' BY <2>1, <2>2 DEF DeletedIsGone
  <2>6. task.state \notin {"queued", "running"} BY <2>1 DEF StagingInv, DeletionEndsJobs
  <2>7. DeletionEndsJobs' /\ WorkersAreReady'
    BY <2>1, <2>6 DEF DeletionEndsJobs, WorkersAreReady, Current
  <2>8. OwnersPublish'
    BY <2>1 DEF StagingInv, OwnersPublish, InPublication, MayPublish
  <2> QED BY <2>3, <2>4, <2>5, <2>7, <2>8 DEF StagingInv, StagingSafe
<1> QED BY <1>1, <1>2, <1>3, <1>4, <1>5, <1>6

LEMMA StagingStep == StagingInv /\ [StagingNext]_stagingVars => StagingInv'
<1> SUFFICES ASSUME StagingInv, [StagingNext]_stagingVars PROVE StagingInv' OBVIOUS
<1>1. ASSUME NEW a \in Attempts, FailJob(a), UNCHANGED engine PROVE StagingInv'
  <2>1. CASE UNCHANGED task BY <1>1, <2>1, BeforePublication
  <2>2. CASE ~UNCHANGED task BY <1>1, <2>2, JobSteps
  <2> QED BY <2>1, <2>2
<1>2. ASSUME NEW a \in Attempts, WorkerStep(a) \/ WorkerDies(a), UNCHANGED engine PROVE StagingInv'
  BY <1>1, <1>2, BeforePublication, InsidePublication, CommitKeeps DEF WorkerStep
<1>3. CASE UNCHANGED stagingVars
  BY <1>3 DEF stagingVars, StagingInv, StagingSafe, StagingTypeOK, PublishedIsWhole, DeletedIsGone,
     StrayIsPending, Stray, Pending, Keyword, OwnersPublish, InPublication, MayPublish, Current,
     RegisterIsFinal, DeletionEndsJobs, WorkersAreReady, Ready, RowsOf
<1>4. CASE StagingNext BY <1>2, <1>4, JobSteps DEF StagingNext
<1> QED BY <1>3, <1>4

LEMMA StagingAlways == StagingInit /\ [][StagingNext]_stagingVars => []StagingInv
BY StagingBegins, StagingStep, PTL

\* What the register calls published is whole in both backends, what never
\* committed is shown only while its job is to be failed or recovered, and a
\* deleted document is found in neither, for any chunks, attempts and faults
THEOREM Whole == StagingSpec => []StagingSafe
<1>1. StagingInv => StagingSafe BY DEF StagingInv
<1> QED BY <1>1, StagingAlways, PTL DEF StagingSpec

-----------------------------------------------------------------------------
(* Side by side *)

\* A step of the whole is a step of the part that moves, or leaves it alone
LEMMA PartSteps ==
    [CallsNext]_allVars =>
        [Next]_vars /\ [RetrievalNext]_retrievalVars /\ [StagingNext]_stagingVars
BY DEF CallsNext, allVars, vars, retrievalVars, stagingVars

\* What the run checks of the three, for every instance: the books, the readers
\* and the backends keep their promises whatever part moves
THEOREM Work ==
    CallsSpec => /\ [](BooksKept /\ RetrievalSafe /\ StagingSafe)
                 /\ AccountKept /\ AnswersAreCurrent
<1>1. CallsSpec => /\ Init /\ RetrievalInit /\ StagingInit
                   /\ [][Next]_vars /\ [][RetrievalNext]_retrievalVars /\ [][StagingNext]_stagingVars
  BY PartSteps, PTL DEF CallsSpec, CallsInit
<1>2. StagingInv => StagingSafe BY DEF StagingInv
<1> QED BY <1>1, <1>2, Books, AccountHolds, ReadAlways, ReadIsSafe, AssemblyAlways,
       StagingAlways, PTL DEF Spec

=============================================================================
