---------------------------- MODULE DeliveryProofs ----------------------------
(***************************************************************************)
(* Proofs about what has to end although nobody waits for it: the delivery *)
(* of notifications (Outbox), for any events, users, dispatchers and       *)
(* bounds; the submissions of documents (Submissions), for any people,     *)
(* files and faults; the streams of an answer (Stream), for any streams,   *)
(* clients and events; and that MCDelivery keeps what they promise.        *)
(***************************************************************************)
EXTENDS MCDelivery, SequenceTheorems, FiniteSetTheorems, WellFoundedInduction, TLAPS

-----------------------------------------------------------------------------
(* Types *)

\* a worker with a claim, and one with an open transaction
LEMMA WorkKinds ==
    ASSUME TypeOK, NEW w \in Workers
    PROVE  /\ work[w].pc \in {"claimed", "failing"} => work[w] \in Claims
           /\ work[w].pc = "delivering" => work[w] \in Transaction
           /\ work[w].pc # "idle" => work[w].e \in Events /\ work[w].fence \in Nat
<1>1. work[w] \in WorkRecord BY DEF TypeOK
<1>2. Idle.pc = "idle" BY DEF Idle
<1>3. \A r \in Claims : r.pc \in {"claimed", "failing"} /\ r.e \in Events /\ r.fence \in Nat
  BY DEF Claims
<1>4. \A r \in Transaction : r.pc = "delivering" /\ r.e \in Events /\ r.fence \in Nat
  BY DEF Transaction
<1> QED BY <1>1, <1>2, <1>3, <1>4 DEF WorkRecord

LEMMA WorkTyped ==
    ASSUME TypeOK, NEW w \in Workers, NEW r \in WorkRecord
    PROVE  [work EXCEPT ![w] = r] \in [Workers -> WorkRecord]
BY DEF TypeOK

LEMMA RestTyped ==
    ASSUME TypeOK, NEW w \in Workers
    PROVE  [work EXCEPT ![w] = Idle] \in [Workers -> WorkRecord]
BY WorkTyped DEF WorkRecord

\* a retry is scheduled only while the cycle has attempts left
RetryLeft ==
    \A e \in Events : delivery[e].st = "retry_wait" => delivery[e].cycle < MaxAttempts

\* only a full event has a delivery and attempts
OnlyFullQueued ==
    \A e \in Events : event[e] # "full" => delivery[e].st = "none" /\ delivery[e].fence = 0

\* The delivery rows and their attempts, which everything else relies on
QueueInv == TypeOK /\ RetryLeft /\ OnlyFullQueued /\ OneOpenAttempt

\* a delivery that runs has its fence in its attempts
LEMMA OpenAttempt ==
    ASSUME TypeOK, OneOpenAttempt, NEW e \in Events, delivery[e].st = "running"
    PROVE  /\ delivery[e].fence \in 1..Len(attempts[e])
           /\ attempts[e][delivery[e].fence] = "running"
<1>1. delivery[e].fence \in {i \in DOMAIN attempts[e] : attempts[e][i] = "running"}
  BY DEF OneOpenAttempt
<1>2. attempts[e] \in Seq(Outcome) BY DEF TypeOK
<1> QED BY <1>1, <1>2

\* the tables the queue does not hold
TablesTyped ==
    /\ account \in [Users -> AccountRow]
    /\ deleted \in SUBSET DocumentEvents
    /\ note \in [Events -> [Users -> NoteRow]]
    /\ withheld \in [Events -> SUBSET Users]
    /\ receipt \in [Events -> [Users -> {"none", "materialized", "withheld"}]]
    /\ acked \in [Events -> SUBSET Users]
    /\ inbox \in [Users -> InboxRow]
    /\ acking \in [Events -> [Users -> {"no", "early", "found"}]]

LEMMA QueueKept ==
    ASSUME QueueInv, UNCHANGED queue, TablesTyped', work' \in [Workers -> WorkRecord]
    PROVE  QueueInv'
BY DEF QueueInv, queue, TypeOK, TablesTyped, RetryLeft, OnlyFullQueued, OneOpenAttempt

LEMMA TablesKept ==
    ASSUME TypeOK
    PROVE  /\ TablesTyped
           /\ UNCHANGED <<context, rows, acking>> => TablesTyped'
BY DEF TypeOK, TablesTyped, context, rows

\* a queue step writes the rows of one event
LEMMA QueueRow ==
    ASSUME QueueInv, NEW e \in Events, NEW s \in {"none", "full", "compacted"},
           NEW d \in DeliveryRow, NEW a \in Seq(Outcome),
           event' = [event EXCEPT ![e] = s],
           delivery' = [delivery EXCEPT ![e] = d], attempts' = [attempts EXCEPT ![e] = a],
           d.st = "retry_wait" => d.cycle < MaxAttempts,
           s # "full" => d.st = "none" /\ d.fence = 0,
           Len(a) = d.fence,
           {i \in DOMAIN a : a[i] = "running"} = IF d.st = "running" THEN {d.fence} ELSE {},
           TablesTyped', work' \in [Workers -> WorkRecord]
    PROVE  QueueInv'
<1>1. TypeOK BY DEF QueueInv
<1>2. TypeOK' BY <1>1 DEF TypeOK, TablesTyped
<1>3. /\ event'[e] = s /\ delivery'[e] = d /\ attempts'[e] = a
      /\ \A f \in Events \ {e} : /\ event'[f] = event[f] /\ delivery'[f] = delivery[f]
                                 /\ attempts'[f] = attempts[f]
  BY <1>1 DEF TypeOK
<1>4. RetryLeft' BY <1>3 DEF QueueInv, RetryLeft
<1>5. OnlyFullQueued' BY <1>3 DEF QueueInv, OnlyFullQueued
<1>6. OneOpenAttempt'
  <2> SUFFICES ASSUME NEW f \in Events
               PROVE  /\ Len(attempts'[f]) = delivery'[f].fence
                      /\ {i \in DOMAIN attempts'[f] : attempts'[f][i] = "running"} =
                            IF delivery'[f].st = "running" THEN {delivery'[f].fence} ELSE {}
    BY DEF OneOpenAttempt
  <2>1. CASE f = e BY <2>1, <1>3
  <2>2. CASE f # e BY <2>2, <1>3 DEF QueueInv, OneOpenAttempt
  <2> QED BY <2>1, <2>2
<1> QED BY <1>2, <1>4, <1>5, <1>6 DEF QueueInv

\* the literals of the actions
LEMMA Literals ==
    /\ {"none", "pending", "retry_wait", "running", "delivered", "dead_letter"} \subseteq Statuses
    /\ {"running", "delivered", "failed", "expired"} \subseteq Outcome
BY DEF Statuses, Due, Settled, Outcome

LEMMA BlankRows ==
    /\ NoDelivery \in DeliveryRow /\ NoDelivery.fence = 0 /\ NoDelivery.st = "none"
    /\ NewDelivery \in DeliveryRow /\ NewDelivery.fence = 0 /\ NewDelivery.st = "pending"
<1>1. 0 \in 0..MaxAttempts /\ 0 \in 0..MaxReplays /\ 0 \in Nat BY OutboxAssumption
<1>2. NoDelivery \in DeliveryRow /\ NoDelivery.fence = 0 /\ NoDelivery.st = "none"
  BY <1>1, Literals DEF NoDelivery, DeliveryRow
<1> QED BY <1>2, Literals DEF NewDelivery, DeliveryRow

\* closing the open attempt of a running delivery
LEMMA Ending ==
    ASSUME QueueInv, NEW e \in Events, delivery[e].st = "running",
           NEW st \in {"delivered", "dead_letter", "retry_wait"},
           st = "retry_wait" => delivery[e].cycle < MaxAttempts,
           NEW o \in {"delivered", "failed", "expired"},
           EndAttempt(e, delivery[e].fence, st, o),
           event' = event, TablesTyped', work' \in [Workers -> WorkRecord]
    PROVE  QueueInv'
<1> DEFINE n == delivery[e].fence
           a == [attempts[e] EXCEPT ![n] = o]
           d == [delivery[e] EXCEPT !.st = st, !.lapsed = FALSE]
<1>1. TypeOK /\ OneOpenAttempt BY DEF QueueInv
<1>2. n \in 1..Len(attempts[e]) /\ attempts[e][n] = "running" BY <1>1, OpenAttempt
<1>3. attempts[e] \in Seq(Outcome) /\ o \in Outcome BY <1>1, Literals DEF TypeOK
<1>4. /\ a \in Seq(Outcome) /\ Len(a) = Len(attempts[e])
      /\ \A j \in 1..Len(attempts[e]) : a[j] = IF j = n THEN o ELSE attempts[e][j]
  BY <1>2, <1>3, ExceptSeq
<1>5. delivery[e] \in DeliveryRow /\ st \in Statuses BY <1>1, Literals DEF TypeOK
<1>6. d \in DeliveryRow /\ d.st = st /\ d.fence = n /\ d.cycle = delivery[e].cycle
  BY <1>5 DEF DeliveryRow
<1>7. {i \in DOMAIN a : a[i] = "running"} = {}
  <2>1. DOMAIN a = 1..Len(attempts[e]) /\ DOMAIN attempts[e] = 1..Len(attempts[e])
    BY <1>3, <1>4
  <2>2. \A i \in 1..Len(attempts[e]) : attempts[e][i] = "running" => i = n
    BY <1>1, <2>1 DEF OneOpenAttempt
  <2> QED BY <1>4, <2>1, <2>2
<1>8. /\ delivery' = [delivery EXCEPT ![e] = d] /\ attempts' = [attempts EXCEPT ![e] = a]
      /\ event' = [event EXCEPT ![e] = event[e]] /\ event[e] \in {"none", "full", "compacted"}
  BY <1>1 DEF EndAttempt, TypeOK
<1>9. event[e] = "full" BY DEF QueueInv, OnlyFullQueued
<1>10. Len(a) = d.fence BY <1>1, <1>4, <1>6 DEF OneOpenAttempt
<1> QED BY <1>4, <1>6, <1>7, <1>8, <1>9, <1>10, QueueRow

\* the steps of the queue
LEMMA PublishQueue == ASSUME QueueInv, NEW e \in Events, Publish(e) PROVE QueueInv'
<1> USE OutboxAssumption
<1>1. TypeOK /\ TablesTyped' /\ work' \in [Workers -> WorkRecord]
  BY TablesKept DEF QueueInv, Publish, TypeOK
<1>2. NewDelivery \in DeliveryRow /\ NewDelivery.fence = 0 /\ NewDelivery.st = "pending"
  BY BlankRows
<1>3. attempts[e] \in Seq(Outcome) /\ Len(attempts[e]) = 0 /\ delivery[e].fence = 0
  BY <1>1 DEF TypeOK, QueueInv, OnlyFullQueued, OneOpenAttempt, Publish
<1>4. attempts' = [attempts EXCEPT ![e] = attempts[e]] BY <1>1 DEF Publish, TypeOK
<1>5. {i \in DOMAIN attempts[e] : attempts[e][i] = "running"} = {} BY <1>3
<1> QED BY <1>1, <1>2, <1>3, <1>4, <1>5, QueueRow DEF Publish

LEMMA ClaimQueue ==
    ASSUME QueueInv, NEW w \in Workers, NEW e \in Events, Claim(w, e) PROVE QueueInv'
<1> USE OutboxAssumption
<1> DEFINE d == Taken(delivery[e])
           a == Append(attempts[e], "running")
<1>1. TypeOK /\ TablesTyped' BY TablesKept DEF QueueInv, Claim
<1>2. delivery[e] \in DeliveryRow /\ attempts[e] \in Seq(Outcome) /\ "running" \in Outcome
  BY <1>1 DEF TypeOK, Outcome
<1>3. CycleAfter(delivery[e]) \in 0..MaxAttempts
  BY <1>2 DEF QueueInv, RetryLeft, CycleAfter, DeliveryRow
<1>4. d \in DeliveryRow /\ d.st = "running" /\ d.fence = delivery[e].fence + 1
  <2>1. delivery[e].fence + 1 \in Nat /\ "running" \in Statuses
    BY <1>2, Literals DEF DeliveryRow
  <2> QED BY <2>1, <1>2, <1>3 DEF DeliveryRow, Taken
<1>5. /\ a \in Seq(Outcome) /\ Len(a) = Len(attempts[e]) + 1
      /\ \A i \in 1..Len(attempts[e]) : a[i] = attempts[e][i]
      /\ a[Len(attempts[e]) + 1] = "running"
  BY <1>2, AppendProperties
<1>6. Len(attempts[e]) = delivery[e].fence /\ Len(attempts[e]) \in Nat
  BY <1>2 DEF QueueInv, OneOpenAttempt
<1>7. \A i \in 1..Len(attempts[e]) : attempts[e][i] # "running"
  <2>1. delivery[e].st # "running" BY DEF Claim, Due
  <2>2. DOMAIN attempts[e] = 1..Len(attempts[e]) BY <1>2
  <2> QED BY <2>1, <2>2 DEF QueueInv, OneOpenAttempt
<1>8. {i \in DOMAIN a : a[i] = "running"} = {d.fence}
  <2>1. DOMAIN a = 1..(Len(attempts[e]) + 1) BY <1>5
  <2> QED BY <2>1, <1>4, <1>5, <1>6, <1>7
<1>9. work' \in [Workers -> WorkRecord]
  <2>1. Claimed(e, delivery[e].fence + 1) \in Claims
    BY <1>2 DEF Claimed, Claims, DeliveryRow
  <2> QED BY <2>1, <1>1, WorkTyped DEF Claim, WorkRecord
<1>10. /\ event' = [event EXCEPT ![e] = event[e]] /\ event[e] \in {"none", "full", "compacted"}
       /\ delivery' = [delivery EXCEPT ![e] = d] /\ attempts' = [attempts EXCEPT ![e] = a]
  <2>1. delivery' = [delivery EXCEPT ![e] = d] /\ attempts' = [attempts EXCEPT ![e] = a]
    BY <1>1 DEF Claim, TypeOK
  <2> QED BY <2>1, <1>1 DEF Claim, TypeOK
<1>11. event[e] = "full"
  BY DEF QueueInv, OnlyFullQueued, Claim, Due
<1> QED BY ZenonT(40), <1>1, <1>4, <1>5, <1>6, <1>8, <1>9, <1>10, <1>11, QueueRow

\* a step that rewrites the row of a delivery that has no open attempt, or keeps
\* its status and fence
LEMMA Rewriting ==
    ASSUME QueueInv, NEW e \in Events, NEW d \in DeliveryRow,
           delivery' = [delivery EXCEPT ![e] = d], UNCHANGED <<event, attempts>>,
           d.fence = delivery[e].fence, event[e] = "full",
           d.st = "running" <=> delivery[e].st = "running",
           d.st # "retry_wait",
           TablesTyped', work' \in [Workers -> WorkRecord]
    PROVE  QueueInv'
<1>1. TypeOK BY DEF QueueInv
<1>2. /\ event' = [event EXCEPT ![e] = event[e]] /\ attempts' = [attempts EXCEPT ![e] = attempts[e]]
      /\ attempts[e] \in Seq(Outcome)
  BY <1>1 DEF TypeOK
<1>3. /\ Len(attempts[e]) = d.fence
      /\ {i \in DOMAIN attempts[e] : attempts[e][i] = "running"} =
            IF d.st = "running" THEN {d.fence} ELSE {}
  BY DEF QueueInv, OneOpenAttempt
<1> QED BY <1>2, <1>3, QueueRow

LEMMA LeaseLapsesQueue == ASSUME QueueInv, NEW e \in Events, LeaseLapses(e) PROVE QueueInv'
<1>1. TypeOK BY DEF QueueInv
<1>2. TablesTyped' /\ work' \in [Workers -> WorkRecord]
  BY <1>1, TablesKept DEF LeaseLapses, TypeOK
<1> DEFINE d == [delivery[e] EXCEPT !.lapsed = TRUE]
<1>3. delivery[e] \in DeliveryRow BY <1>1 DEF TypeOK
<1>4. d \in DeliveryRow /\ d.fence = delivery[e].fence /\ d.st = "running"
  BY <1>3 DEF DeliveryRow, LeaseLapses
<1>5. delivery' = [delivery EXCEPT ![e] = d] BY <1>1 DEF LeaseLapses, TypeOK
<1>6. event[e] = "full" /\ delivery[e].st = "running"
  BY DEF LeaseLapses, QueueInv, OnlyFullQueued
<1> QED BY <1>2, <1>4, <1>5, <1>6, Rewriting DEF LeaseLapses

LEMMA ReplayQueue == ASSUME QueueInv, NEW e \in Events, Replay(e) PROVE QueueInv'
<1>1. TypeOK BY DEF QueueInv
<1>2. TablesTyped' /\ work' \in [Workers -> WorkRecord]
  BY <1>1, TablesKept DEF Replay, TypeOK
<1> DEFINE d == Revived(delivery[e])
<1>3. delivery[e] \in DeliveryRow BY <1>1 DEF TypeOK
<1>4. delivery[e].replays + 1 \in 0..MaxReplays /\ 0 \in 0..MaxAttempts
  BY <1>3, OutboxAssumption DEF Replay, DeliveryRow
<1>5. d \in DeliveryRow /\ d.fence = delivery[e].fence /\ d.st = "pending"
  BY <1>3, <1>4, Literals DEF DeliveryRow, Revived
<1>6. delivery' = [delivery EXCEPT ![e] = d] BY <1>1 DEF Replay, TypeOK
<1> QED BY <1>2, <1>5, <1>6, Rewriting DEF Replay

LEMMA AfterFailureIs ==
    ASSUME NEW d \in DeliveryRow
    PROVE  /\ AfterFailure(d) \in {"delivered", "dead_letter", "retry_wait"}
           /\ AfterFailure(d) = "retry_wait" => d.cycle < MaxAttempts
BY OutboxAssumption DEF AfterFailure, DeliveryRow

LEMMA RecycleQueue == ASSUME QueueInv, NEW e \in Events, Recycle(e) PROVE QueueInv'
<1>1. TypeOK /\ delivery[e] \in DeliveryRow BY DEF QueueInv, TypeOK
<1>2. TablesTyped' /\ work' \in [Workers -> WorkRecord]
  BY <1>1, TablesKept DEF Recycle, TypeOK
<1> QED BY <1>1, <1>2, AfterFailureIs, Ending DEF Recycle

LEMMA FailQueue ==
    ASSUME QueueInv, NEW w \in Workers, NEW permanent \in BOOLEAN, FailAndSchedule(w, permanent)
    PROVE  QueueInv'
<1> DEFINE e == work[w].e
<1>1. TypeOK BY DEF QueueInv
<1>2. e \in Events BY <1>1, WorkKinds DEF FailAndSchedule
<1>3. TablesTyped' /\ work' \in [Workers -> WorkRecord]
  BY <1>1, TablesKept, RestTyped DEF FailAndSchedule
<1>4. CASE HoldsFence(w) /\ ~delivery[e].lapsed
  <2> DEFINE st == IF permanent THEN "dead_letter" ELSE AfterFailure(delivery[e])
  <2>1. delivery[e] \in DeliveryRow BY <1>1, <1>2 DEF TypeOK
  <2>2. st \in {"delivered", "dead_letter", "retry_wait"}
        /\ (st = "retry_wait" => delivery[e].cycle < MaxAttempts)
    BY <2>1, AfterFailureIs
  <2>3. EndAttempt(e, delivery[e].fence, st, "failed") /\ delivery[e].st = "running" /\ event' = event
    BY <1>4 DEF FailAndSchedule, HoldsFence
  <2> HIDE DEF st
  <2> QED BY <1>2, <1>3, <2>2, <2>3, Ending
<1>5. CASE ~(HoldsFence(w) /\ ~delivery[e].lapsed)
  BY <1>3, <1>5, QueueKept DEF FailAndSchedule, queue
<1> QED BY <1>4, <1>5

LEMMA CompactQueue == ASSUME QueueInv, NEW e \in Events, Compact(e) PROVE QueueInv'
<1>1. TypeOK BY DEF QueueInv
<1>2. work' \in [Workers -> WorkRecord] BY <1>1 DEF Compact, TypeOK
<1>3. \A u \in Users : SuppressionReceipt(e, u) \in {"none", "materialized", "withheld"}
  BY <1>1 DEF SuppressionReceipt, TypeOK
<1>4. TablesTyped' BY <1>1, <1>3 DEF Compact, TypeOK, TablesTyped, context
<1>5. <<>> \in Seq(Outcome) /\ Len(<<>>) = 0 OBVIOUS
<1>6. {i \in DOMAIN <<>> : <<>>[i] = "running"} = {} OBVIOUS
<1> QED BY <1>1, <1>2, <1>4, <1>5, <1>6, BlankRows, QueueRow DEF Compact

-----------------------------------------------------------------------------
(* The steps of the inbox *)

\* a notification keeps its type when it is read or redacted
LEMMA NoteFields ==
    /\ NoNote \in NoteRow
    /\ \A r \in NoteRow : /\ [r EXCEPT !.read = TRUE] \in NoteRow
                          /\ [r EXCEPT !.redacted = TRUE] \in NoteRow
BY DEF NoNote, NoteRow

LEMMA AccountFields ==
    ASSUME NEW r \in AccountRow, NEW st \in {"active", "pending_delete", "retired"}
    PROVE  [r EXCEPT !.st = st] \in AccountRow
BY DEF AccountRow

\* the steps of accounts and readers leave the queue and the dispatchers alone
ReaderStep ==
    \/ \E u \in Users : ChangeRole(u) \/ StartDeletion(u) \/ ReadAll(u) \/ RetireAccount(u)
    \/ \E e \in Events : Redact(e)
    \/ \E e \in Events, u \in Users :
          MarkRead(e, u) \/ AckScan(e, u) \/ AckCommit(e, u) \/ RetireDue(e, u)

LEMMA ReaderQueue == ASSUME QueueInv, ReaderStep PROVE QueueInv'
<1>1. TypeOK BY DEF QueueInv
<1>2. UNCHANGED <<queue, work>>
  BY DEF ReaderStep, ChangeRole, StartDeletion, ReadAll, RetireAccount, Redact, MarkRead,
         AckScan, AckCommit, RetireDue
<1>3. TablesTyped'
  <2> USE <1>1 DEF TypeOK, TablesTyped, context, rows
  <2>1. ASSUME NEW u \in Users, ChangeRole(u) PROVE TablesTyped'
    <3>1. Moved(account[u]) \in AccountRow
      <4>1. account[u] \in AccountRow /\ account[u].moves + 1 \in 0..MaxMoves
        BY <2>1, OutboxAssumption DEF ChangeRole, AccountRow
      <4> QED BY <4>1 DEF AccountRow, Moved
    <3> QED BY <2>1, <3>1 DEF ChangeRole
  <2>2. ASSUME NEW u \in Users, StartDeletion(u) PROVE TablesTyped'
    <3>1. [account[u] EXCEPT !.st = "pending_delete"] \in AccountRow BY AccountFields
    <3> QED BY <2>2, <3>1 DEF StartDeletion
  <2>3. ASSUME NEW u \in Users, ReadAll(u) PROVE TablesTyped'
    <3>1. [inbox[u] EXCEPT !.through = inbox[u].next - 1] \in InboxRow BY DEF InboxRow
    <3> QED BY <2>3, <3>1 DEF ReadAll
  <2>4. ASSUME NEW u \in Users, RetireAccount(u) PROVE TablesTyped'
    <3>1. [account[u] EXCEPT !.st = "retired"] \in AccountRow BY AccountFields
    <3>2. \A e \in Events : PermanentReceipt(e, u) \in {"none", "materialized", "withheld"}
      BY DEF PermanentReceipt
    <3>3. [next |-> 1, through |-> 0] \in InboxRow BY DEF InboxRow
    <3>4. account' \in [Users -> AccountRow] /\ inbox' \in [Users -> InboxRow]
      BY <2>4, <3>1, <3>3 DEF RetireAccount
    <3>5. receipt' \in [Events -> [Users -> {"none", "materialized", "withheld"}]]
      BY <2>4, <3>2 DEF RetireAccount
    <3>6. note' \in [Events -> [Users -> NoteRow]] BY <2>4, NoteFields DEF RetireAccount
    <3> QED BY <2>4, <3>4, <3>5, <3>6 DEF RetireAccount
  <2>5. ASSUME NEW e \in Events, Redact(e) PROVE TablesTyped'
    BY <2>5, NoteFields DEF Redact
  <2>6. ASSUME NEW e \in Events, NEW u \in Users, MarkRead(e, u) PROVE TablesTyped'
    BY <2>6, NoteFields DEF MarkRead
  <2>7. ASSUME NEW e \in Events, NEW u \in Users, AckScan(e, u) PROVE TablesTyped'
    BY <2>7 DEF AckScan
  <2>8. ASSUME NEW e \in Events, NEW u \in Users, AckCommit(e, u) PROVE TablesTyped'
    <3>1. note' \in [Events -> [Users -> NoteRow]] BY <2>8, NoteFields DEF AckCommit
    <3> QED BY <2>8, <3>1 DEF AckCommit
  <2>9. ASSUME NEW e \in Events, NEW u \in Users, RetireDue(e, u) PROVE TablesTyped'
    BY <2>9, NoteFields DEF RetireDue
  <2> QED BY <2>1, <2>2, <2>3, <2>4, <2>5, <2>6, <2>7, <2>8, <2>9 DEF ReaderStep
<1> QED BY <1>1, <1>2, <1>3, QueueKept DEF TypeOK

-----------------------------------------------------------------------------
(* The steps of the dispatchers *)

LEMMA DecisionTyped ==
    ASSUME TypeOK, NEW e \in Events, NEW u \in Users PROVE Decision(e, u) \in Verdict
<1>1. inbox[u].next \in Nat /\ (u \in acked[e]) \in BOOLEAN BY DEF TypeOK, InboxRow
<1>2. Withhold \in Verdict /\ Existing \in Verdict BY DEF Withhold, Existing, Verdict
<1>3. [what |-> "show", seq |-> inbox[u].next, read |-> u \in acked[e]] \in Verdict
  BY <1>1 DEF Verdict
<1> QED BY <1>2, <1>3 DEF Decision

\* the steps that write nothing but the local state of a dispatcher
LocalStep(w) == Begin(w) \/ Materialize(w) \/ Raise(w) \/ Crash(w)

LEMMA LocalQueue == ASSUME QueueInv, NEW w \in Workers, LocalStep(w) PROVE QueueInv'
<1>1. TypeOK BY DEF QueueInv
<1>2. UNCHANGED <<queue, context, rows, acking>>
  BY DEF LocalStep, Begin, Materialize, Raise, Crash
<1>3. work' \in [Workers -> WorkRecord]
  <2>1. ASSUME Begin(w) PROVE work' \in [Workers -> WorkRecord]
    <3> DEFINE t == [pc |-> "delivering", e |-> work[w].e, fence |-> work[w].fence,
                     redact |-> work[w].e \in deleted, out |-> [u \in Users |-> Undecided]]
    <3>1. work[w].e \in Events /\ work[w].fence \in Nat
      BY <1>1, <2>1, WorkKinds DEF Begin
    <3>2. Undecided \in Verdict BY DEF Undecided, Verdict
    <3>3. t \in WorkRecord BY <3>1, <3>2 DEF Transaction, WorkRecord
    <3>4. work' = [work EXCEPT ![w] = t] \/ work' = [work EXCEPT ![w] = Idle]
      BY <2>1 DEF Begin
    <3> QED BY <1>1, <3>3, <3>4, WorkTyped, RestTyped
  <2>2. ASSUME Materialize(w) PROVE work' \in [Workers -> WorkRecord]
    <3>1. PICK u \in Waiting(w) : work' = [work EXCEPT ![w].out[u] = Decision(work[w].e, u)]
      BY <2>2 DEF Materialize
    <3>2. work[w] \in Transaction BY <1>1, <2>2, WorkKinds DEF Materialize
    <3>3. work[w].e \in Events /\ u \in Users
      BY <3>2, OutboxAssumption DEF Waiting, Transaction
    <3>4. [work[w] EXCEPT !.out[u] = Decision(work[w].e, u)] \in Transaction
      BY <1>1, <3>2, <3>3, DecisionTyped DEF Transaction
    <3>5. work' = [work EXCEPT ![w] = [work[w] EXCEPT !.out[u] = Decision(work[w].e, u)]]
      BY <1>1, <3>1 DEF TypeOK
    <3> QED BY <1>1, <3>4, <3>5, WorkTyped DEF WorkRecord
  <2>3. ASSUME Raise(w) PROVE work' \in [Workers -> WorkRecord]
    <3>1. [pc |-> "failing", e |-> work[w].e, fence |-> work[w].fence] \in WorkRecord
      BY <1>1, <2>3, WorkKinds DEF Raise, Claims, WorkRecord
    <3> QED BY <1>1, <2>3, <3>1, WorkTyped DEF Raise
  <2>4. ASSUME Crash(w) PROVE work' \in [Workers -> WorkRecord]
    BY <1>1, <2>4, RestTyped DEF Crash
  <2> QED BY <2>1, <2>2, <2>3, <2>4 DEF LocalStep
<1> QED BY <1>1, <1>2, <1>3, TablesKept, QueueKept

LEMMA CommitQueue == ASSUME QueueInv, NEW w \in Workers, Commit(w) PROVE QueueInv'
<1> DEFINE e == work[w].e
           after == [u \in Users |-> Delivered(w, e, u)]
<1>1. TypeOK /\ work[w] \in Transaction /\ e \in Events
  BY WorkKinds DEF QueueInv, Commit
<1>2. work' \in [Workers -> WorkRecord] /\ UNCHANGED <<event, context, acking>>
  BY <1>1, RestTyped DEF Commit
<1>3. CASE ~MayCommit(w)
  BY <1>1, <1>2, <1>3, TablesKept, QueueKept DEF Commit, queue
<1>4. CASE MayCommit(w)
  <2>1. \A u \in Users : work[w].out[u] \in Verdict BY <1>1 DEF Transaction
  <2>2. \A u \in Users, f \in Events : after[u][f] \in NoteRow
    BY <1>1, <2>1 DEF Delivered, Transaction, Verdict, NoteRow, TypeOK
  <2>3. \A u \in Users, f \in Events : Keep(after[u], f) \in NoteRow
    BY <2>2, NoteFields DEF Keep
  <2>a. note' = [f \in Events |-> [u \in Users |->
                    IF u \in ShownBy(w) THEN Keep(after[u], f) ELSE note[f][u]]]
    BY <1>4 DEF Commit
  <2>b. receipt' = [f \in Events |-> [u \in Users |->
                       IF u \in ShownBy(w) /\ f \in OverCap(after[u]) /\ receipt[f][u] = "none"
                       THEN "materialized" ELSE receipt[f][u]]]
    BY <1>4 DEF Commit
  <2>c. acked' = [f \in Events |->
                     {u \in acked[f] : ~(u \in ShownBy(w) /\ f \in OverCap(after[u]))}]
    BY <1>4 DEF Commit
  <2>d. withheld' = [withheld EXCEPT ![e] =
                        @ \cup {u \in Audience[e] : work[w].out[u].what = "withhold"}]
    BY <1>4 DEF Commit
  <2>e. inbox' = [u \in Users |-> IF u \in ShownBy(w)
                                  THEN [inbox[u] EXCEPT !.next = work[w].out[u].seq + 1]
                                  ELSE inbox[u]]
    BY <1>4 DEF Commit
  <2> HIDE DEF after
  <2>4. note' \in [Events -> [Users -> NoteRow]]
    BY <1>1, <2>3, <2>a DEF TypeOK
  <2>5. receipt' \in [Events -> [Users -> {"none", "materialized", "withheld"}]]
    BY <1>1, <2>b DEF TypeOK
  <2>6. acked' \in [Events -> SUBSET Users]
    BY <1>1, <2>c DEF TypeOK
  <2>7. withheld' \in [Events -> SUBSET Users]
    <3>1. Audience[e] \subseteq Users BY <1>1, OutboxAssumption
    <3> QED BY <1>1, <2>d, <3>1 DEF TypeOK
  <2>8. inbox' \in [Users -> InboxRow]
    <3>1. \A u \in Users : [inbox[u] EXCEPT !.next = work[w].out[u].seq + 1] \in InboxRow
      <4> SUFFICES ASSUME NEW u \in Users
                   PROVE  [inbox[u] EXCEPT !.next = work[w].out[u].seq + 1] \in InboxRow
        OBVIOUS
      <4>1. work[w].out[u].seq + 1 \in Nat \ {0} BY <2>1 DEF Verdict
      <4>2. inbox[u] \in InboxRow BY <1>1 DEF TypeOK
      <4> QED BY <4>1, <4>2 DEF InboxRow
    <3> QED BY <1>1, <2>e, <3>1 DEF TypeOK
  <2>9. TablesTyped'
    BY <1>1, <1>2, <2>4, <2>5, <2>6, <2>7, <2>8 DEF TablesTyped, TypeOK, context
  <2>10. EndAttempt(e, delivery[e].fence, "delivered", "delivered") /\ delivery[e].st = "running"
    BY <1>4 DEF Commit, MayCommit, HoldsFence
  <2> QED BY <1>1, <1>2, <2>9, <2>10, Ending
<1> QED BY <1>3, <1>4

-----------------------------------------------------------------------------
(* The queue invariant, and what follows from it alone *)

LEMMA Steps ==
    ASSUME Next
    PROVE  \/ ReaderStep
           \/ \E e \in Events : Publish(e) \/ LeaseLapses(e) \/ Recycle(e) \/ Replay(e) \/ Compact(e)
           \/ \E w \in Workers : LocalStep(w) \/ Commit(w)
           \/ \E w \in Workers, permanent \in BOOLEAN : FailAndSchedule(w, permanent)
           \/ \E w \in Workers, e \in Events : Claim(w, e)
BY DEF Next, WorkerStep, ReaderStep, LocalStep

LEMMA InitQueue == Init => QueueInv
<1> SUFFICES ASSUME Init PROVE QueueInv OBVIOUS
<1>1. TypeOK
  <2>1. /\ [st |-> "active", holds |-> TRUE, moves |-> 0] \in AccountRow
        /\ [next |-> 1, through |-> 0] \in InboxRow
        /\ Idle \in WorkRecord
    BY OutboxAssumption DEF AccountRow, InboxRow, WorkRecord
  <2>2. \A e \in Events : <<>> \in Seq(Outcome) OBVIOUS
  <2> QED BY <2>1, <2>2, BlankRows, NoteFields DEF Init, TypeOK
<1>2. RetryLeft /\ OnlyFullQueued BY BlankRows DEF Init, RetryLeft, OnlyFullQueued
<1>3. OneOpenAttempt
  <2>1. Len(<<>>) = 0 /\ {i \in DOMAIN <<>> : <<>>[i] = "running"} = {} OBVIOUS
  <2> QED BY <2>1, BlankRows DEF Init, OneOpenAttempt
<1> QED BY <1>1, <1>2, <1>3 DEF QueueInv

LEMMA QueueStep == QueueInv /\ [Next]_vars => QueueInv'
<1> SUFFICES ASSUME QueueInv, [Next]_vars PROVE QueueInv' OBVIOUS
<1>1. CASE UNCHANGED vars
  BY <1>1 DEF vars, context, rows, queue, QueueInv, TypeOK, RetryLeft, OnlyFullQueued, OneOpenAttempt
<1>2. CASE Next
  BY <1>2, Steps, ReaderQueue, PublishQueue, LeaseLapsesQueue, RecycleQueue, ReplayQueue,
     CompactQueue, LocalQueue, CommitQueue, FailQueue, ClaimQueue
<1> QED BY <1>1, <1>2

LEMMA QueueAlways == Spec => []QueueInv
BY InitQueue, QueueStep, PTL DEF Spec

\* Rows keep the columns of the schema and no cycle takes more attempts than
\* RetryPolicy allows, whatever is claimed, recycled and replayed
THEOREM TypeCorrect == Spec => []TypeOK
<1>1. QueueInv => TypeOK BY DEF QueueInv
<1> QED BY <1>1, QueueAlways, PTL

\* claim_one, recycle_expired_running, fail_and_schedule and
\* run_consumer_and_finalize keep one open attempt for a running delivery and
\* none for any other
THEOREM OneOpen == Spec => []OneOpenAttempt
<1>1. QueueInv => OneOpenAttempt BY DEF QueueInv
<1> QED BY <1>1, QueueAlways, PTL

\* an ended attempt is not the open one, and only that one is ever written
LEMMA EndingKeeps ==
    ASSUME QueueInv, NEW e \in Events, delivery[e].st = "running", NEW st, NEW o,
           EndAttempt(e, delivery[e].fence, st, o), NEW f \in Events
    PROVE  HistoryOf(f)
<1>1. TypeOK /\ OneOpenAttempt BY DEF QueueInv
<1> SUFFICES ASSUME NEW i \in DOMAIN attempts[f], attempts[f][i] # "running"
             PROVE  i \in DOMAIN attempts'[f] /\ attempts'[f][i] = attempts[f][i]
  BY DEF HistoryOf
<1>2. attempts' = [attempts EXCEPT ![e] = [attempts[e] EXCEPT ![delivery[e].fence] = o]]
  BY <1>1 DEF EndAttempt, TypeOK
<1>3. CASE f # e BY <1>1, <1>2, <1>3 DEF TypeOK
<1>4. CASE f = e
  <2>1. i # delivery[e].fence BY <1>1, <1>4, OpenAttempt
  <2>2. attempts'[f] = [attempts[e] EXCEPT ![delivery[e].fence] = o]
    BY <1>1, <1>2, <1>4 DEF TypeOK
  <2> QED BY <2>1, <2>2, <1>4
<1> QED BY <1>3, <1>4

LEMMA ClaimKeeps ==
    ASSUME QueueInv, NEW w \in Workers, NEW e \in Events, Claim(w, e), NEW f \in Events
    PROVE  HistoryOf(f)
<1>1. TypeOK BY DEF QueueInv
<1>2. attempts[e] \in Seq(Outcome) /\ attempts[f] \in Seq(Outcome) /\ "running" \in Outcome
  BY <1>1, Literals DEF TypeOK
<1>3. /\ attempts'[e] = Append(attempts[e], "running")
      /\ f # e => attempts'[f] = attempts[f]
  BY <1>1 DEF Claim, TypeOK
<1>4. \A i \in DOMAIN attempts[e] :
          i \in DOMAIN attempts'[e] /\ attempts'[e][i] = attempts[e][i]
  BY <1>2, <1>3, AppendProperties
<1> QED BY <1>3, <1>4 DEF HistoryOf

\* How an attempt ended is never rewritten: the fenced updates of a worker whose
\* delivery was recycled under it change nothing
THEOREM History == Spec => HistoryIsFinal
<1>1. QueueInv /\ [Next]_vars => [\A e \in Events : HistoryOf(e)]_vars
  <2> SUFFICES ASSUME QueueInv, Next, NEW f \in Events PROVE HistoryOf(f)
    BY DEF HistoryIsFinal
  <2>1. CASE UNCHANGED attempts BY <2>1 DEF HistoryOf
  <2>2. ASSUME ReaderStep PROVE UNCHANGED attempts
    BY <2>2 DEF ReaderStep, ChangeRole, StartDeletion, ReadAll, RetireAccount, Redact, MarkRead,
                AckScan, AckCommit, RetireDue, queue
  <2>3. ASSUME NEW e \in Events, Publish(e) \/ LeaseLapses(e) \/ Replay(e) PROVE UNCHANGED attempts
    BY <2>3 DEF Publish, LeaseLapses, Replay
  <2>4. ASSUME NEW w \in Workers, LocalStep(w) PROVE UNCHANGED attempts
    BY <2>4 DEF LocalStep, Begin, Materialize, Raise, Crash, queue
  <2>5. ASSUME NEW e \in Events, Recycle(e) PROVE HistoryOf(f)
    BY <2>5, EndingKeeps DEF Recycle
  <2>6. ASSUME NEW w \in Workers, Commit(w) PROVE HistoryOf(f)
    <3>1. work[w].e \in Events BY <2>6, WorkKinds DEF QueueInv, Commit
    <3>2. CASE MayCommit(w)
      BY <2>6, <3>1, <3>2, EndingKeeps DEF Commit, MayCommit, HoldsFence
    <3>3. CASE ~MayCommit(w) BY <2>6, <3>3, <2>1 DEF Commit
    <3> QED BY <3>2, <3>3
  <2>7. ASSUME NEW w \in Workers, NEW permanent \in BOOLEAN, FailAndSchedule(w, permanent)
        PROVE  HistoryOf(f)
    <3>1. work[w].e \in Events BY <2>7, WorkKinds DEF QueueInv, FailAndSchedule
    <3>2. CASE HoldsFence(w) /\ ~delivery[work[w].e].lapsed
      BY <2>7, <3>1, <3>2, EndingKeeps DEF FailAndSchedule, HoldsFence
    <3>3. CASE ~(HoldsFence(w) /\ ~delivery[work[w].e].lapsed)
      BY <2>7, <3>3, <2>1 DEF FailAndSchedule
    <3> QED BY <3>2, <3>3
  <2>8. ASSUME NEW e \in Events, Compact(e) PROVE HistoryOf(f)
    <3>1. f # e => attempts'[f] = attempts[f]
      BY <2>8 DEF Compact, QueueInv, TypeOK
    <3>2. event'[e] = "compacted" BY <2>8 DEF Compact, QueueInv, TypeOK
    <3> QED BY <3>1, <3>2 DEF HistoryOf
  <2>9. ASSUME NEW w \in Workers, NEW e \in Events, Claim(w, e) PROVE HistoryOf(f)
    BY <2>9, ClaimKeeps
  <2> QED BY Steps, <2>1, <2>2, <2>3, <2>4, <2>5, <2>6, <2>7, <2>8, <2>9
<1> QED BY <1>1, QueueAlways, PTL DEF Spec, HistoryIsFinal

-----------------------------------------------------------------------------
(* What steps do to notifications and to open transactions *)

\* readers remove, read and redact notifications, and show none
LEMMA ReaderNotes ==
    ASSUME QueueInv, ReaderStep, NEW e \in Events, NEW u \in Users, note'[e][u].seq > 0
    PROVE  Shown(e, u) /\ (note[e][u].redacted => note'[e][u].redacted)
<1>1. TypeOK /\ note[e][u] \in NoteRow BY DEF QueueInv, TypeOK
<1>2. ~(NoNote.seq > 0) BY DEF NoNote
<1>3. CASE UNCHANGED note BY <1>3 DEF Shown
<1>4. ASSUME NEW v \in Users, RetireAccount(v) PROVE note'[e][u] \in {note[e][u], NoNote}
  BY <1>1, <1>4 DEF RetireAccount, TypeOK
<1>5. ASSUME NEW f \in Events, NEW v \in Users, RetireDue(f, v)
      PROVE  note'[e][u] \in {note[e][u], NoNote}
  BY <1>1, <1>5 DEF RetireDue, TypeOK
<1>6. ASSUME NEW f \in Events, Redact(f)
      PROVE  note'[e][u] \in {note[e][u], [note[e][u] EXCEPT !.redacted = TRUE]}
  BY <1>1, <1>6 DEF Redact, TypeOK
<1>7. ASSUME NEW f \in Events, NEW v \in Users, MarkRead(f, v) \/ AckCommit(f, v)
      PROVE  note'[e][u] \in {note[e][u], [note[e][u] EXCEPT !.read = TRUE]}
  <2>1. note' = note \/ note' = [note EXCEPT ![f][v].read = TRUE]
    BY <1>7 DEF MarkRead, AckCommit
  <2>2. note' = [note EXCEPT ![f][v].read = TRUE] =>
            note'[e][u] = IF e = f /\ u = v THEN [note[e][u] EXCEPT !.read = TRUE] ELSE note[e][u]
    <3>1. note \in [Events -> [Users -> NoteRow]] BY <1>1 DEF TypeOK
    <3>2. \A x : [note EXCEPT ![f][v] = x][e][u] = IF e = f /\ u = v THEN x ELSE note[e][u]
      BY <3>1
    <3>3. [note EXCEPT ![f][v].read = TRUE] = [note EXCEPT ![f][v] = [note[f][v] EXCEPT !.read = TRUE]]
      BY <3>1
    <3> QED BY <3>2, <3>3
  <2> QED BY <2>1, <2>2
<1>8. \/ UNCHANGED note
      \/ note'[e][u] \in {note[e][u], NoNote, [note[e][u] EXCEPT !.redacted = TRUE],
                          [note[e][u] EXCEPT !.read = TRUE]}
  <2>1. ASSUME NEW v \in Users, ChangeRole(v) \/ StartDeletion(v) \/ ReadAll(v) PROVE UNCHANGED note
    BY <2>1 DEF ChangeRole, StartDeletion, ReadAll, rows
  <2>2. ASSUME NEW f \in Events, NEW v \in Users, AckScan(f, v) PROVE UNCHANGED note
    BY <2>2 DEF AckScan, rows
  <2> QED BY <1>4, <1>5, <1>6, <1>7, <2>1, <2>2 DEF ReaderStep
<1> QED BY <1>1, <1>2, <1>3, <1>8 DEF Shown, NoteRow

\* a commit shows the notification of its own event, redacted as it was found
LEMMA CommitNotes ==
    ASSUME QueueInv, NEW w \in Workers, Commit(w), NEW f \in Events, NEW u \in Users,
           note'[f][u].seq > 0
    PROVE  \/ note'[f][u] = note[f][u]
           \/ f = work[w].e /\ u \in ShownBy(w) /\ note'[f][u].redacted = work[w].redact
<1> DEFINE e == work[w].e
           after == [v \in Users |-> Delivered(w, e, v)]
<1>1. TypeOK BY DEF QueueInv
<1>2. CASE ~MayCommit(w) BY <1>2 DEF Commit, rows
<1>3. CASE MayCommit(w)
  <2>1. note' = [h \in Events |-> [v \in Users |->
                    IF v \in ShownBy(w) THEN Keep(after[v], h) ELSE note[h][v]]]
    BY <1>3 DEF Commit
  <2>2. note'[f][u] = IF u \in ShownBy(w) THEN Keep(after[u], f) ELSE note[f][u]
    BY <2>1
  <2>3. CASE u \notin ShownBy(w) BY <2>2, <2>3
  <2>4. CASE u \in ShownBy(w)
    <3>1. ~(NoNote.seq > 0) BY DEF NoNote
    <3>2. note'[f][u] = after[u][f] BY <2>2, <2>4, <3>1 DEF Keep
    <3>3. after[u][f] = Delivered(w, e, u)[f] OBVIOUS
    <3>4. CASE f # e BY <3>2, <3>3, <3>4 DEF Delivered
    <3>5. CASE f = e
      <4>1. work[w].out[u].what = "show" BY <2>4 DEF ShownBy
      <4>2. Delivered(w, e, u)[f] = [seq |-> work[w].out[u].seq, read |-> work[w].out[u].read,
                                     redacted |-> work[w].redact]
        BY <3>5, <4>1 DEF Delivered
      <4>3. note'[f][u].redacted = work[w].redact
        <5> HIDE DEF after, e
        <5> QED BY <3>2, <3>3, <4>2
      <4> QED BY <2>4, <3>5, <4>3
    <3> QED BY <3>4, <3>5
  <2> QED BY <2>3, <2>4
<1> QED BY <1>2, <1>3

\* the steps that write no notification
OtherStep ==
    \/ \E e \in Events : Publish(e) \/ LeaseLapses(e) \/ Recycle(e) \/ Replay(e) \/ Compact(e)
    \/ \E w \in Workers : LocalStep(w)
    \/ \E w \in Workers, permanent \in BOOLEAN : FailAndSchedule(w, permanent)
    \/ \E w \in Workers, e \in Events : Claim(w, e)

LEMMA OtherKeeps == OtherStep => UNCHANGED <<note, account, deleted>>
BY DEF OtherStep, Publish, LeaseLapses, Recycle, Replay, Compact, LocalStep, Begin,
       Materialize, Raise, Crash, FailAndSchedule, Claim, rows, context

\* how a dispatcher gets to have an open transaction
LEMMA OpenTransaction ==
    ASSUME QueueInv, Next, NEW v \in Workers, work'[v].pc = "delivering"
    PROVE  \/ work'[v] = work[v]
           \/ /\ UNCHANGED <<note, account, deleted>>
              /\ \A u \in Users : work'[v].out[u] = Undecided
              /\ work'[v].redact = (work'[v].e \in deleted)
              /\ ~DocumentLocked(work'[v].e)
           \/ /\ UNCHANGED <<note, account, deleted>>
              /\ work[v].pc = "delivering"
              /\ work'[v].e = work[v].e /\ work'[v].redact = work[v].redact
              /\ \A u \in Users : \/ work'[v].out[u] = work[v].out[u]
                                  \/ work'[v].out[u] = Decision(work[v].e, u)
<1>1. TypeOK BY DEF QueueInv
<1>2. ASSUME UNCHANGED work PROVE work'[v] = work[v] BY <1>2
<1>3. ASSUME NEW w \in Workers, NEW r, r.pc # "delivering", work' = [work EXCEPT ![w] = r]
      PROVE  work'[v] = work[v]
  BY <1>1, <1>3 DEF TypeOK
<1>4. Idle.pc # "delivering" /\ \A e, n : Claimed(e, n).pc # "delivering"
  BY DEF Idle, Claimed
<1>5. ASSUME ReaderStep PROVE UNCHANGED work
  BY <1>5 DEF ReaderStep, ChangeRole, StartDeletion, ReadAll, RetireAccount, Redact, MarkRead,
              AckScan, AckCommit, RetireDue
<1>6. ASSUME NEW e \in Events, Publish(e) \/ LeaseLapses(e) \/ Recycle(e) \/ Replay(e) \/ Compact(e)
      PROVE  UNCHANGED work
  BY <1>6 DEF Publish, LeaseLapses, Recycle, Replay, Compact
<1>7. ASSUME NEW w \in Workers, Commit(w) \/ Crash(w) PROVE work'[v] = work[v]
  BY <1>3, <1>4, <1>7 DEF Commit, Crash
<1>8. ASSUME NEW w \in Workers, NEW permanent \in BOOLEAN, FailAndSchedule(w, permanent)
      PROVE  work'[v] = work[v]
  BY <1>3, <1>4, <1>8 DEF FailAndSchedule
<1>9. ASSUME NEW w \in Workers, NEW e \in Events, Claim(w, e) PROVE work'[v] = work[v]
  BY <1>3, <1>4, <1>9 DEF Claim
<1>10. ASSUME NEW w \in Workers, Raise(w) PROVE work'[v] = work[v]
  BY <1>3, <1>10 DEF Raise
<1>11. ASSUME NEW w \in Workers, Begin(w), work'[v] # work[v]
       PROVE  /\ UNCHANGED <<note, account, deleted>>
              /\ \A u \in Users : work'[v].out[u] = Undecided
              /\ work'[v].redact = (work'[v].e \in deleted)
              /\ ~DocumentLocked(work'[v].e)
  <2>1. HoldsFence(w) /\ ~delivery[work[w].e].lapsed /\ v = w
    BY <1>1, <1>3, <1>4, <1>11 DEF Begin, TypeOK
  <2>2. work'[w] = [pc |-> "delivering", e |-> work[w].e, fence |-> work[w].fence,
                    redact |-> work[w].e \in deleted,
                    out |-> [u \in Users |-> Undecided]]
    BY <1>1, <1>11, <2>1 DEF Begin, TypeOK
  <2>3. ~DocumentLocked(work[w].e) BY <1>11, <2>1 DEF Begin
  <2> QED BY <1>11, <2>1, <2>2, <2>3 DEF Begin, rows, context
<1>12. ASSUME NEW w \in Workers, Materialize(w), work'[v] # work[v]
       PROVE  /\ UNCHANGED <<note, account, deleted>>
              /\ work[v].pc = "delivering"
              /\ work'[v].e = work[v].e /\ work'[v].redact = work[v].redact
              /\ \A u \in Users : \/ work'[v].out[u] = work[v].out[u]
                                  \/ work'[v].out[u] = Decision(work[v].e, u)
  <2>1. PICK x \in Waiting(w) : work' = [work EXCEPT ![w].out[x] = Decision(work[w].e, x)]
    BY <1>12 DEF Materialize
  <2>2. v = w /\ work[w].pc = "delivering" BY <1>1, <1>12, <2>1 DEF TypeOK, Materialize
  <2>3. work[w] \in Transaction BY <1>1, <2>2, WorkKinds
  <2>4. work'[w] = [work[w] EXCEPT !.out[x] = Decision(work[w].e, x)]
    BY <1>1, <2>1 DEF TypeOK
  <2>5. /\ work'[w].e = work[w].e /\ work'[w].redact = work[w].redact
        /\ \A u \in Users : work'[w].out[u] = IF u = x THEN Decision(work[w].e, x)
                                              ELSE work[w].out[u]
    BY <2>3, <2>4 DEF Transaction
  <2> QED BY <1>12, <2>2, <2>5 DEF Materialize, rows, context
<1> QED BY Steps, <1>2, <1>5, <1>6, <1>7, <1>8, <1>9, <1>10, <1>11, <1>12 DEF LocalStep

-----------------------------------------------------------------------------
(* Retirement and redaction *)

\* a retired account has no notification, and none under way
RetireInv ==
    \A u \in Users : account[u].st = "retired" =>
        /\ \A e \in Events : ~Shown(e, u)
        /\ \A w \in Workers : work[w].pc = "delivering" /\ u \in Audience[work[w].e] =>
              work[w].out[u].what # "show"

\* a deleted document has no plain notification, and none under way
RedactInv ==
    \A e \in deleted :
        /\ \A u \in Users : Shown(e, u) => note[e][u].redacted
        /\ \A w \in Workers : work[w].pc = "delivering" /\ work[w].e = e => work[w].redact

LEMMA InitRetireRedact == Init => RetireInv /\ RedactInv
BY DEF Init, RetireInv, RedactInv, Shown, NoNote, Idle

\* only StartDeletion and RetireAccount change the state of an account, and
\* retiring one waits for the deliveries that have decided about it
LEMMA Retiring ==
    ASSUME QueueInv, Next, NEW u \in Users, account'[u].st = "retired"
    PROVE  \/ account[u].st = "retired"
           \/ /\ UNCHANGED work /\ ~InboxLocked(u)
              /\ \A e \in Events : note'[e][u] = NoNote
<1>1. TypeOK BY DEF QueueInv
<1>2. CASE UNCHANGED account BY <1>2
<1>3. ASSUME NEW v \in Users, ChangeRole(v) \/ StartDeletion(v) PROVE account[u].st = "retired"
  <2>1. Moved(account[v]).st = account[v].st BY <1>1 DEF Moved, TypeOK, AccountRow
  <2>2. account' = [account EXCEPT ![v] = Moved(account[v])]
        \/ account' = [account EXCEPT ![v].st = "pending_delete"]
    BY <1>3 DEF ChangeRole, StartDeletion
  <2>3. account \in [Users -> AccountRow] /\ account[v] \in AccountRow BY <1>1 DEF TypeOK
  <2>4. account'[u] = account[u] \/ account'[u].st = account[u].st \/ account'[u].st = "pending_delete"
    <3>1. CASE u # v BY <2>2, <2>3, <3>1
    <3>2. CASE u = v
      <4>1. [account[v] EXCEPT !.st = "pending_delete"].st = "pending_delete"
        BY <2>3 DEF AccountRow
      <4>2. account'[v] \in {Moved(account[v]), [account[v] EXCEPT !.st = "pending_delete"]}
        BY <2>2, <2>3
      <4> QED BY <2>1, <3>2, <4>1, <4>2
    <3> QED BY <3>1, <3>2
  <2> QED BY <2>4
<1>4. ASSUME NEW v \in Users, RetireAccount(v), account[u].st # "retired"
      PROVE  /\ UNCHANGED work /\ ~InboxLocked(u)
             /\ \A e \in Events : note'[e][u] = NoNote
  <2>1. u = v BY <1>1, <1>4 DEF RetireAccount, TypeOK
  <2> QED BY <1>1, <1>4, <2>1 DEF RetireAccount, TypeOK
<1>5. ASSUME ReaderStep, ~(\E v \in Users : ChangeRole(v) \/ StartDeletion(v) \/ RetireAccount(v))
      PROVE  UNCHANGED account
  BY <1>5 DEF ReaderStep, ReadAll, Redact, MarkRead, AckScan, AckCommit, RetireDue, context
<1>6. ASSUME NEW w \in Workers, Commit(w) PROVE UNCHANGED account
  BY <1>6 DEF Commit, context
<1>7. OtherStep => UNCHANGED account BY OtherKeeps
<1>8. ReaderStep \/ OtherStep \/ \E w \in Workers : Commit(w) BY Steps DEF OtherStep
<1> QED BY <1>2, <1>3, <1>4, <1>5, <1>6, <1>7, <1>8

LEMMA RetireStep == QueueInv /\ RetireInv /\ [Next]_vars => RetireInv'
<1> SUFFICES ASSUME QueueInv, RetireInv, [Next]_vars PROVE RetireInv' OBVIOUS
<1>1. CASE UNCHANGED vars BY <1>1 DEF vars, context, rows, RetireInv, Shown
<1>2. CASE Next
  <2> SUFFICES ASSUME NEW u \in Users, account'[u].st = "retired"
               PROVE  /\ \A e \in Events : ~(note'[e][u].seq > 0)
                      /\ \A w \in Workers : work'[w].pc = "delivering" /\ u \in Audience[work'[w].e] =>
                            work'[w].out[u].what # "show"
    BY DEF RetireInv, Shown
  <2>1. CASE account[u].st # "retired"
    <3>1. UNCHANGED work /\ ~InboxLocked(u) /\ \A e \in Events : note'[e][u] = NoNote
      BY <1>2, <2>1, Retiring
    <3> QED BY <3>1 DEF InboxLocked, NoNote
  <2>2. CASE account[u].st = "retired"
    <3>1. ASSUME NEW e \in Events, note'[e][u].seq > 0 PROVE FALSE
      <4>1. ~Shown(e, u) BY <2>2 DEF RetireInv
      <4>2. ~ReaderStep BY <3>1, <4>1, ReaderNotes
      <4>3. ~OtherStep BY <3>1, <4>1, OtherKeeps DEF Shown
      <4>4. PICK w \in Workers : Commit(w) BY <1>2, <4>2, <4>3, Steps DEF OtherStep
      <4>5. u \in ShownBy(w) BY <3>1, <4>1, <4>4, CommitNotes DEF Shown
      <4> QED BY <2>2, <4>4, <4>5 DEF RetireInv, ShownBy, Commit
    <3>2. ASSUME NEW w \in Workers, work'[w].pc = "delivering", u \in Audience[work'[w].e],
                 work'[w].out[u].what = "show"
          PROVE  FALSE
      <4>1. Undecided.what # "show" /\ Withhold.what # "show" BY DEF Undecided, Withhold
      <4>2. \A e \in Events : Decision(e, u) = Withhold
        BY <2>2 DEF Decision, Reachable
      <4>3. CASE work'[w] = work[w] BY <2>2, <3>2, <4>3 DEF RetireInv
      <4>4. CASE \A v \in Users : work'[w].out[v] = Undecided BY <3>2, <4>1, <4>4
      <4>5. CASE /\ work[w].pc = "delivering" /\ work'[w].e = work[w].e
                 /\ \/ work'[w].out[u] = work[w].out[u]
                    \/ work'[w].out[u] = Decision(work[w].e, u)
        <5>1. work[w].e \in Events BY <4>5, WorkKinds DEF QueueInv
        <5> QED BY <2>2, <3>2, <4>1, <4>2, <4>5, <5>1 DEF RetireInv
      <4> QED BY <1>2, <3>2, <4>3, <4>4, <4>5, OpenTransaction
    <3> QED BY <3>1, <3>2
  <2> QED BY <2>1, <2>2
<1> QED BY <1>1, <1>2

\* _apply_retirement_work waits for the inbox lock and materialization reads the
\* account under it: a retired account never has a notification again
THEOREM Retired == Spec => []NoNoteForRetired
<1>1. RetireInv => NoNoteForRetired BY DEF RetireInv, NoNoteForRetired
<1> QED BY <1>1, InitRetireRedact, QueueAlways, RetireStep, PTL DEF Spec

\* a document is deleted while no delivery of it is under way, and every
\* notification it has is redacted with it
LEMMA Deleting ==
    ASSUME QueueInv, Next, NEW e \in deleted' \ deleted
    PROVE  /\ UNCHANGED work /\ ~DocumentLocked(e) /\ e \in DocumentEvents
           /\ \A u \in Users : note'[e][u].seq > 0 => note'[e][u].redacted
<1>1. TypeOK BY DEF QueueInv
<1>2. ~(\E w \in Workers : Commit(w)) BY DEF Commit, context
<1>3. ~OtherStep BY OtherKeeps
<1>4. ReaderStep BY <1>2, <1>3, Steps DEF OtherStep
<1>5. PICK f \in Events : Redact(f)
  BY <1>4 DEF ReaderStep, ChangeRole, StartDeletion, ReadAll, RetireAccount, MarkRead, AckScan,
              AckCommit, RetireDue, context
<1>6. f = e BY <1>5 DEF Redact
<1>7. \A u \in Users : note'[e][u] = IF Shown(e, u) THEN [note[e][u] EXCEPT !.redacted = TRUE]
                                     ELSE note[e][u]
  BY <1>1, <1>5, <1>6 DEF Redact, TypeOK
<1>8. \A u \in Users : note[e][u] \in NoteRow BY <1>1, <1>5, <1>6 DEF TypeOK
<1>9. ASSUME NEW u \in Users, note'[e][u].seq > 0 PROVE note'[e][u].redacted
  <2>1. Shown(e, u) BY <1>7, <1>9 DEF Shown
  <2>2. note'[e][u] = [note[e][u] EXCEPT !.redacted = TRUE] BY <1>7, <2>1
  <2>3. [note[e][u] EXCEPT !.redacted = TRUE].redacted = TRUE BY <1>8 DEF NoteRow
  <2> QED BY <2>2, <2>3
<1> QED BY <1>5, <1>6, <1>9 DEF Redact

LEMMA RedactStep == QueueInv /\ RedactInv /\ [Next]_vars => RedactInv'
<1> SUFFICES ASSUME QueueInv, RedactInv, [Next]_vars PROVE RedactInv' OBVIOUS
<1>1. CASE UNCHANGED vars BY <1>1 DEF vars, context, rows, RedactInv, Shown
<1>2. CASE Next
  <2> SUFFICES ASSUME NEW e \in deleted'
               PROVE  /\ \A u \in Users : note'[e][u].seq > 0 => note'[e][u].redacted
                      /\ \A w \in Workers : work'[w].pc = "delivering" /\ work'[w].e = e =>
                            work'[w].redact
    BY DEF RedactInv, Shown
  <2>1. CASE e \notin deleted
    BY <1>2, <2>1, Deleting DEF DocumentLocked
  <2>2. CASE e \in deleted
    <3>0. e \in Events BY <2>2, OutboxAssumption DEF QueueInv, TypeOK
    <3>1. ASSUME NEW u \in Users, note'[e][u].seq > 0 PROVE note'[e][u].redacted
      <4>1. Shown(e, u) => note[e][u].redacted BY <2>2 DEF RedactInv
      <4>2. CASE ReaderStep BY <3>0, <3>1, <4>1, <4>2, ReaderNotes
      <4>3. CASE OtherStep BY <3>1, <4>1, <4>3, OtherKeeps DEF Shown
      <4>4. ASSUME NEW w \in Workers, Commit(w) PROVE note'[e][u].redacted
        <5>1. work[w].pc = "delivering" BY <4>4 DEF Commit
        <5>2. work[w].e = e => work[w].redact BY <2>2, <5>1 DEF RedactInv
        <5>3. \/ note'[e][u] = note[e][u]
              \/ e = work[w].e /\ note'[e][u].redacted = work[w].redact
          BY <3>0, <3>1, <4>4, CommitNotes
        <5>4. CASE note'[e][u] = note[e][u] BY <3>1, <4>1, <5>4 DEF Shown
        <5>5. CASE e = work[w].e /\ note'[e][u].redacted = work[w].redact
          BY <5>2, <5>5, Zenon
        <5> QED BY <5>3, <5>4, <5>5
      <4> QED BY <1>2, <4>2, <4>3, <4>4, Steps DEF OtherStep
    <3>2. ASSUME NEW w \in Workers, work'[w].pc = "delivering", work'[w].e = e
          PROVE  work'[w].redact
      BY <1>2, <2>2, <3>2, OpenTransaction DEF RedactInv
    <3> QED BY <3>1, <3>2
  <2> QED BY <2>1, <2>2
<1> QED BY <1>1, <1>2

\* _redact_document_notifications and the delivery of the document exclude each
\* other: what is shown of a deleted document is the redacted notification
THEOREM Redacted == Spec => []DeletedIsRedacted
<1>1. RedactInv => DeletedIsRedacted BY DEF RedactInv, DeletedIsRedacted
<1> QED BY <1>1, InitRetireRedact, QueueAlways, RedactStep, PTL DEF Spec

-----------------------------------------------------------------------------
(* Fates *)

Archived(e, u) == receipt[e][u] = "materialized"
Denied(e, u)   == u \in withheld[e] \/ receipt[e][u] = "withheld"

\* EveryRecipientAccounted without counting
Accounted(e, u) ==
    /\ Over(e) <=> (Shown(e, u) \/ Archived(e, u) \/ Denied(e, u))
    /\ ~(Shown(e, u) /\ Archived(e, u))
    /\ ~(Shown(e, u) /\ Denied(e, u))
    /\ ~(Archived(e, u) /\ Denied(e, u))

\* a verdict that shows has a number, and a notification is found to exist only
\* when its event is over
SoundVerdict(w, u) ==
    /\ work[w].out[u].what = "show" => work[w].out[u].seq > 0
    /\ work[w].out[u].what = "existing" => Over(work[w].e)

FateInv ==
    /\ \A e \in Events : \A u \in Audience[e] : Accounted(e, u)
    /\ \A w \in Workers : work[w].pc = "delivering" =>
          \A u \in Audience[work[w].e] : SoundVerdict(w, u)

LEMMA CountFates ==
    ASSUME TypeOK, NEW e \in Events, NEW u \in Audience[e], Accounted(e, u)
    PROVE  Cardinality(Fates(e, u)) = IF Over(e) THEN 1 ELSE 0
<1>1. /\ "shown" \in Fates(e, u) <=> Shown(e, u)
      /\ "archived" \in Fates(e, u) <=> Archived(e, u)
      /\ "withheld" \in Fates(e, u) <=> Denied(e, u)
      /\ Fates(e, u) \subseteq {"shown", "archived", "withheld"}
  BY DEF Fates, Archived, Denied
<1>2. CASE ~Over(e)
  <2>1. Fates(e, u) = {} BY <1>1, <1>2 DEF Accounted
  <2> QED BY <1>2, <2>1, FS_EmptySet
<1>3. CASE Over(e)
  <2>1. PICK f \in {"shown", "archived", "withheld"} : Fates(e, u) = {f}
    BY <1>1, <1>3 DEF Accounted
  <2> QED BY <1>3, <2>1, FS_Singleton
<1> QED BY <1>2, <1>3

LEMMA InitFate == Init => FateInv
<1> SUFFICES ASSUME Init PROVE FateInv OBVIOUS
<1>1. \A e \in Events : event[e] = "none" /\ delivery[e].st = "none" BY BlankRows DEF Init
<1>2. \A e \in Events, u \in Users : note[e][u].seq = 0 /\ receipt[e][u] = "none" /\ withheld[e] = {}
  BY DEF Init, NoNote
<1>3. \A e \in Events : Audience[e] \subseteq Users BY OutboxAssumption
<1>4. \A w \in Workers : work[w].pc # "delivering" BY DEF Init, Idle
<1> QED BY <1>1, <1>2, <1>3, <1>4 DEF FateInv, Accounted, Shown, Archived, Denied, Over

\* a step that writes no notification, suppression or receipt of a recipient
LEMMA SameFate ==
    ASSUME NEW e, NEW u, Accounted(e, u), Over(e)' <=> Over(e),
           Shown(e, u)' <=> Shown(e, u), Archived(e, u)' <=> Archived(e, u),
           Denied(e, u)' <=> Denied(e, u)
    PROVE  Accounted(e, u)'
BY DEF Accounted

\* the steps of readers
LEMMA ReaderFate ==
    ASSUME QueueInv, ReaderStep, NEW e \in Events, NEW u \in Audience[e], Accounted(e, u)
    PROVE  Accounted(e, u)'
<1>1. /\ TypeOK /\ u \in Users /\ note[e][u] \in NoteRow
      /\ receipt[e][u] \in {"none", "materialized", "withheld"}
  BY OutboxAssumption DEF QueueInv, TypeOK
<1>2. UNCHANGED queue
  BY DEF ReaderStep, ChangeRole, StartDeletion, ReadAll, RetireAccount, Redact, MarkRead,
         AckScan, AckCommit, RetireDue
<1>3. Over(e)' <=> Over(e) BY <1>2 DEF Over, queue
<1>4. UNCHANGED withheld
  BY DEF ReaderStep, ChangeRole, StartDeletion, ReadAll, RetireAccount, Redact, MarkRead,
         AckScan, AckCommit, RetireDue, rows
<1>5. ~(NoNote.seq > 0) BY DEF NoNote
<1>6. ASSUME NEW v \in Users, RetireAccount(v) PROVE Accounted(e, u)'
  <2>1. CASE u # v
    <3>1. note'[e][u] = note[e][u] /\ receipt'[e][u] = receipt[e][u]
      BY <1>1, <1>6, <2>1 DEF RetireAccount, TypeOK
    <3> QED BY <1>3, <1>4, <3>1, SameFate DEF Shown, Archived, Denied
  <2>2. CASE u = v
    <3>1. note'[e][u] = NoNote /\ receipt'[e][u] = PermanentReceipt(e, u)
      BY <1>1, <1>6, <2>2 DEF RetireAccount, TypeOK
    <3> QED BY <1>1, <1>3, <1>4, <1>5, <3>1
            DEF Accounted, Shown, Archived, Denied, PermanentReceipt
  <2> QED BY <2>1, <2>2
<1>7. ASSUME NEW f \in Events, NEW v \in Users, RetireDue(f, v) PROVE Accounted(e, u)'
  <2>1. CASE ~(e = f /\ u = v)
    <3>1. note'[e][u] = note[e][u] /\ receipt'[e][u] = receipt[e][u]
      BY <1>1, <1>7, <2>1 DEF RetireDue, TypeOK
    <3> QED BY <1>3, <1>4, <3>1, SameFate DEF Shown, Archived, Denied
  <2>2. CASE e = f /\ u = v
    <3>1. /\ note'[e][u] = NoNote /\ Shown(e, u)
          /\ receipt'[e][u] = IF receipt[e][u] = "none" THEN "materialized" ELSE receipt[e][u]
      BY <1>1, <1>7, <2>2 DEF RetireDue, TypeOK
    <3> QED BY <1>1, <1>3, <1>4, <1>5, <3>1 DEF Accounted, Shown, Archived, Denied
  <2> QED BY <2>1, <2>2
<1>8. ASSUME ~(\E v \in Users : RetireAccount(v)),
             ~(\E f \in Events, v \in Users : RetireDue(f, v))
      PROVE  Accounted(e, u)'
  <2>1. UNCHANGED receipt
    BY <1>8 DEF ReaderStep, ChangeRole, StartDeletion, ReadAll, Redact, MarkRead, AckScan,
                AckCommit, rows
  <2>2. note'[e][u].seq = note[e][u].seq
    <3>1. [note[e][u] EXCEPT !.read = TRUE].seq = note[e][u].seq
          /\ [note[e][u] EXCEPT !.redacted = TRUE].seq = note[e][u].seq
      BY <1>1 DEF NoteRow
    <3>2. note \in [Events -> [Users -> NoteRow]] BY <1>1 DEF TypeOK
    <3>3. ASSUME NEW v \in Users, ChangeRole(v) \/ StartDeletion(v) \/ ReadAll(v)
          PROVE  note' = note
      BY <3>3 DEF ChangeRole, StartDeletion, ReadAll, rows
    <3>4. ASSUME NEW f \in Events, Redact(f)
          PROVE  note'[e][u] \in {note[e][u], [note[e][u] EXCEPT !.redacted = TRUE]}
      BY <1>1, <3>2, <3>4 DEF Redact
    <3>5. ASSUME NEW f \in Events, NEW v \in Users, AckScan(f, v) PROVE note' = note
      BY <3>5 DEF AckScan, rows
    <3>6. ASSUME NEW f \in Events, NEW v \in Users, MarkRead(f, v) \/ AckCommit(f, v)
          PROVE  note'[e][u] \in {note[e][u], [note[e][u] EXCEPT !.read = TRUE]}
      <4>1. note' = note \/ note' = [note EXCEPT ![f][v] = [note[f][v] EXCEPT !.read = TRUE]]
        BY <3>2, <3>6 DEF MarkRead, AckCommit
      <4>2. \A x : [note EXCEPT ![f][v] = x][e][u] = IF e = f /\ u = v THEN x ELSE note[e][u]
        BY <1>1, <3>2
      <4> QED BY <4>1, <4>2
    <3> QED BY <1>8, <3>1, <3>3, <3>4, <3>5, <3>6 DEF ReaderStep
  <2> QED BY <1>3, <1>4, <2>1, <2>2, SameFate DEF Shown, Archived, Denied
<1> QED BY <1>6, <1>7, <1>8

LEMMA CompactFate ==
    ASSUME QueueInv, NEW f \in Events, Compact(f), NEW e \in Events, NEW u \in Audience[e],
           Accounted(e, u)
    PROVE  Accounted(e, u)'
<1>1. /\ TypeOK /\ u \in Users
      /\ receipt[e][u] \in {"none", "materialized", "withheld"}
  BY OutboxAssumption DEF QueueInv, TypeOK
<1>2. note' = note BY DEF Compact
<1>3. CASE e # f
  <2>1. /\ event'[e] = event[e] /\ delivery'[e] = delivery[e]
        /\ receipt'[e] = receipt[e] /\ withheld'[e] = withheld[e]
    BY <1>1, <1>3 DEF Compact, TypeOK
  <2> QED BY <1>2, <2>1, SameFate DEF Shown, Archived, Denied, Over
<1>4. CASE e = f
  <2>1. /\ event'[e] = "compacted" /\ withheld'[e] = {}
        /\ receipt'[e][u] = SuppressionReceipt(e, u)
    BY <1>1, <1>4 DEF Compact, TypeOK
  <2>2. Over(e) BY <1>4 DEF Compact, Over
  <2>3. Over(e)' BY <2>1 DEF Over
  <2> QED BY <1>1, <1>2, <2>1, <2>2, <2>3
          DEF Accounted, Shown, Archived, Denied, SuppressionReceipt
<1> QED BY <1>3, <1>4

\* a delivery that runs, is due or has not begun is not over, and only
\* delivering and compacting end one
LEMMA OtherOver ==
    ASSUME QueueInv, OtherStep, ~(\E f \in Events : Compact(f)), NEW e \in Events
    PROVE  (Over(e)' <=> Over(e)) /\ UNCHANGED rows
<1>1. TypeOK /\ OnlyFullQueued BY DEF QueueInv
<1>2. delivery \in [Events -> DeliveryRow] /\ event \in [Events -> {"none", "full", "compacted"}]
  BY <1>1 DEF TypeOK
<1>3. ASSUME NEW f \in Events, Publish(f) PROVE (Over(e)' <=> Over(e)) /\ UNCHANGED rows
  <2>1. delivery[f].st = "none" /\ event[f] = "none"
    BY <1>1, <1>3 DEF OnlyFullQueued, Publish
  <2>2. /\ event'[e] = IF e = f THEN "full" ELSE event[e]
        /\ delivery'[e] = IF e = f THEN NewDelivery ELSE delivery[e]
    BY <1>2, <1>3 DEF Publish
  <2> QED BY <1>3, <2>1, <2>2, BlankRows DEF Publish, Over
<1>4. ASSUME NEW f \in Events, LeaseLapses(f) PROVE (Over(e)' <=> Over(e)) /\ UNCHANGED rows
  <2>1. [delivery[f] EXCEPT !.lapsed = TRUE].st = delivery[f].st BY <1>2 DEF DeliveryRow
  <2>2. delivery'[e] = IF e = f THEN [delivery[f] EXCEPT !.lapsed = TRUE] ELSE delivery[e]
    BY <1>2, <1>4 DEF LeaseLapses
  <2> QED BY <1>4, <2>1, <2>2 DEF LeaseLapses, Over
<1>5. ASSUME NEW f \in Events, Replay(f) PROVE (Over(e)' <=> Over(e)) /\ UNCHANGED rows
  <2>1. Revived(delivery[f]).st = "pending" BY <1>2 DEF DeliveryRow, Revived
  <2>2. delivery'[e] = IF e = f THEN Revived(delivery[f]) ELSE delivery[e]
    BY <1>2, <1>5 DEF Replay
  <2> QED BY <1>5, <2>1, <2>2 DEF Replay, Over
<1>6. ASSUME NEW f \in Events, delivery[f].st = "running", NEW n, NEW o,
             NEW st, st # "delivered", EndAttempt(f, n, st, o), event' = event
      PROVE  Over(e)' <=> Over(e)
  <2>1. [delivery[f] EXCEPT !.st = st, !.lapsed = FALSE].st = st BY <1>2 DEF DeliveryRow
  <2>2. delivery'[e] = IF e = f THEN [delivery[f] EXCEPT !.st = st, !.lapsed = FALSE]
                       ELSE delivery[e]
    BY <1>2, <1>6 DEF EndAttempt
  <2> QED BY <1>6, <2>1, <2>2 DEF Over
<1>7. \A f \in Events : AfterFailure(delivery[f]) # "delivered" BY DEF AfterFailure
<1>8. ASSUME NEW f \in Events, Recycle(f) PROVE (Over(e)' <=> Over(e)) /\ UNCHANGED rows
  BY <1>6, <1>7, <1>8 DEF Recycle
<1>9. ASSUME NEW w \in Workers, NEW permanent \in BOOLEAN, FailAndSchedule(w, permanent)
      PROVE  (Over(e)' <=> Over(e)) /\ UNCHANGED rows
  <2> DEFINE f == work[w].e
             st == IF permanent THEN "dead_letter" ELSE AfterFailure(delivery[f])
  <2>1. f \in Events BY <1>1, <1>9, WorkKinds DEF FailAndSchedule
  <2>2. st # "delivered" BY <1>7, <2>1
  <2>3. UNCHANGED <<event, rows>> BY <1>9 DEF FailAndSchedule
  <2>4. CASE HoldsFence(w) /\ ~delivery[f].lapsed
    <3>1. EndAttempt(f, work[w].fence, st, "failed") /\ delivery[f].st = "running"
      BY <1>9, <2>4 DEF FailAndSchedule, HoldsFence
    <3> HIDE DEF st
    <3> QED BY <1>6, <2>1, <2>2, <2>3, <3>1
  <2>5. CASE ~(HoldsFence(w) /\ ~delivery[f].lapsed)
    BY <1>9, <2>3, <2>5 DEF FailAndSchedule, Over
  <2> QED BY <2>4, <2>5
<1>10. ASSUME NEW w \in Workers, NEW f \in Events, Claim(w, f)
       PROVE  (Over(e)' <=> Over(e)) /\ UNCHANGED rows
  <2>1. Taken(delivery[f]).st = "running" BY <1>2 DEF DeliveryRow, Taken
  <2>2. delivery'[e] = IF e = f THEN Taken(delivery[f]) ELSE delivery[e]
    BY <1>2, <1>10 DEF Claim
  <2> QED BY <1>10, <2>1, <2>2 DEF Claim, Over, Due
<1>11. ASSUME NEW w \in Workers, LocalStep(w) PROVE (Over(e)' <=> Over(e)) /\ UNCHANGED rows
  <2>1. UNCHANGED <<queue, rows>> BY <1>11 DEF LocalStep, Begin, Materialize, Raise, Crash
  <2> QED BY <2>1 DEF Over, queue
<1> QED BY <1>3, <1>4, <1>5, <1>8, <1>9, <1>10, <1>11 DEF OtherStep

\* the tables after a commit that keeps its fence
LEMMA CommitTables ==
    ASSUME QueueInv, NEW w \in Workers, Commit(w), MayCommit(w), NEW f \in Events, NEW u \in Users
    PROVE  LET ns == Delivered(w, work[w].e, u) IN
           /\ u \in ShownBy(w) =>
                 /\ f \in OverCap(ns) => note'[f][u] = NoNote
                 /\ f \notin OverCap(ns) => note'[f][u] = ns[f]
           /\ u \notin ShownBy(w) => note'[f][u] = note[f][u]
           /\ receipt'[f][u] = IF u \in ShownBy(w) /\ f \in OverCap(ns) /\ receipt[f][u] = "none"
                               THEN "materialized" ELSE receipt[f][u]
           /\ u \in withheld'[f] <=>
                 \/ u \in withheld[f]
                 \/ f = work[w].e /\ u \in Audience[f] /\ work[w].out[u].what = "withhold"
<1> DEFINE e == work[w].e
           after == [v \in Users |-> Delivered(w, e, v)]
<1>1. TypeOK /\ e \in Events BY WorkKinds DEF QueueInv, Commit
<1>2. note' = [h \in Events |-> [v \in Users |->
                  IF v \in ShownBy(w) THEN Keep(after[v], h) ELSE note[h][v]]]
  BY DEF Commit
<1>3. receipt' = [h \in Events |-> [v \in Users |->
                     IF v \in ShownBy(w) /\ h \in OverCap(after[v]) /\ receipt[h][v] = "none"
                     THEN "materialized" ELSE receipt[h][v]]]
  BY DEF Commit
<1>4. withheld' = [withheld EXCEPT ![e] =
                      @ \cup {v \in Audience[e] : work[w].out[v].what = "withhold"}]
  BY DEF Commit
<1>5. after[u] = Delivered(w, e, u) OBVIOUS
<1> HIDE DEF after
<1>6. note'[f][u] = IF u \in ShownBy(w) THEN Keep(after[u], f) ELSE note[f][u] BY <1>2
<1>7. receipt'[f][u] = IF u \in ShownBy(w) /\ f \in OverCap(after[u]) /\ receipt[f][u] = "none"
                       THEN "materialized" ELSE receipt[f][u]
  BY <1>3
<1>8. u \in withheld'[f] <=>
          \/ u \in withheld[f]
          \/ f = e /\ u \in Audience[f] /\ work[w].out[u].what = "withhold"
  BY <1>1, <1>4 DEF TypeOK
<1> QED BY <1>5, <1>6, <1>7, <1>8 DEF Keep

LEMMA CommitFate ==
    ASSUME QueueInv, FateInv, NEW w \in Workers, Commit(w), NEW f \in Events, NEW u \in Audience[f]
    PROVE  Accounted(f, u)'
<1> DEFINE e == work[w].e
           ns == Delivered(w, e, u)
<1>1. /\ TypeOK /\ e \in Events /\ u \in Users /\ work[w] \in Transaction /\ Accounted(f, u)
      /\ receipt[f][u] \in {"none", "materialized", "withheld"}
  BY OutboxAssumption, WorkKinds DEF QueueInv, Commit, FateInv, TypeOK
<1>2. CASE ~MayCommit(w)
  BY <1>1, <1>2, SameFate DEF Commit, rows, Shown, Archived, Denied, Over
<1>3. CASE MayCommit(w)
  <2>1. delivery[e].st = "running" /\ ~Over(e)
    BY <1>1, <1>3 DEF MayCommit, HoldsFence, Over, QueueInv, OnlyFullQueued
  <2>2. delivery'[f].st = IF f = e THEN "delivered" ELSE delivery[f].st
    <3>1. [delivery[e] EXCEPT !.st = "delivered", !.lapsed = FALSE].st = "delivered"
      BY <1>1 DEF TypeOK, DeliveryRow
    <3>2. delivery' = [delivery EXCEPT ![e] = [delivery[e] EXCEPT !.st = "delivered", !.lapsed = FALSE]]
      BY <1>1, <1>3 DEF Commit, EndAttempt, TypeOK
    <3> QED BY <1>1, <3>1, <3>2 DEF TypeOK
  <2>3. event' = event BY DEF Commit
  <2>4. \A h \in OverCap(ns) : ns[h].seq > 0 BY DEF OverCap
  <2>5. ~(NoNote.seq > 0) BY DEF NoNote
  <2>6. CASE f # e
    <3>1. ns[f] = note[f][u] BY <2>6 DEF Delivered
    <3>2. Over(f)' <=> Over(f) BY <2>2, <2>3, <2>6 DEF Over
    <3>3. u \in withheld'[f] <=> u \in withheld[f]
      BY <1>1, <1>3, <2>6, CommitTables
    <3>4. CASE u \in ShownBy(w) /\ f \in OverCap(ns)
      <4>1. Shown(f, u) BY <2>4, <3>1, <3>4 DEF Shown
      <4>2. receipt[f][u] = "none" BY <1>1, <4>1 DEF Accounted, Archived, Denied
      <4>3. note'[f][u] = NoNote /\ receipt'[f][u] = "materialized"
        BY <1>1, <1>3, <3>4, <4>2, CommitTables
      <4> QED BY <1>1, <2>5, <3>2, <3>3, <4>1, <4>2, <4>3 DEF Accounted, Shown, Archived, Denied
    <3>5. CASE ~(u \in ShownBy(w) /\ f \in OverCap(ns))
      <4>1. note'[f][u] = note[f][u] /\ receipt'[f][u] = receipt[f][u]
        BY <1>1, <1>3, <3>1, <3>5, CommitTables
      <4> QED BY <1>1, <3>2, <3>3, <4>1, SameFate DEF Shown, Archived, Denied
    <3> QED BY <3>4, <3>5
  <2>7. CASE f = e
    <3>1. Over(f)' BY <2>2, <2>7 DEF Over
    <3>2. ~Shown(f, u) /\ ~Archived(f, u) /\ ~Denied(f, u)
      BY <1>1, <2>1, <2>7 DEF Accounted
    <3>3. receipt[f][u] = "none" BY <1>1, <3>2 DEF Archived, Denied
    <3>4. SoundVerdict(w, u) BY <2>7 DEF FateInv, Commit
    <3>5. work[w].out[u].what \in {"withhold", "show"}
      <4>1. work[w].out[u] \in Verdict BY <1>1 DEF Transaction
      <4>2. work[w].out[u].what # "todo" BY <1>1, <2>7 DEF Commit, Waiting
      <4> QED BY <2>1, <3>4, <4>1, <4>2 DEF SoundVerdict, Verdict
    <3>6. CASE work[w].out[u].what = "withhold"
      <4>1. u \notin ShownBy(w) BY <3>6 DEF ShownBy
      <4>2. /\ note'[f][u] = note[f][u] /\ receipt'[f][u] = receipt[f][u]
            /\ u \in withheld'[f]
        BY <1>1, <1>3, <2>7, <3>6, <4>1, CommitTables
      <4> QED BY <3>1, <3>2, <3>3, <4>2 DEF Accounted, Shown, Archived, Denied
    <3>7. CASE work[w].out[u].what = "show"
      <4>1. u \in ShownBy(w) BY <2>7, <3>7 DEF ShownBy
      <4>2. ns[f].seq > 0 BY <1>1, <2>7, <3>4, <3>7 DEF Delivered, SoundVerdict
      <4>3. u \notin withheld'[f] BY <1>1, <1>3, <3>2, <3>7, CommitTables DEF Denied
      <4>4. CASE f \in OverCap(ns)
        <5>1. note'[f][u] = NoNote /\ receipt'[f][u] = "materialized"
          BY <1>1, <1>3, <3>3, <4>1, <4>4, CommitTables
        <5> QED BY <2>5, <3>1, <4>3, <5>1 DEF Accounted, Shown, Archived, Denied
      <4>5. CASE f \notin OverCap(ns)
        <5>1. note'[f][u] = ns[f] /\ receipt'[f][u] = "none"
          BY <1>1, <1>3, <3>3, <4>1, <4>5, CommitTables
        <5> QED BY <3>1, <4>2, <4>3, <5>1 DEF Accounted, Shown, Archived, Denied
      <4> QED BY <4>4, <4>5
    <3> QED BY <3>5, <3>6, <3>7
  <2> QED BY <2>6, <2>7
<1> QED BY <1>2, <1>3

LEMMA OverIsFinal ==
    ASSUME QueueInv, Next, NEW e \in Events, Over(e) PROVE Over(e)'
<1>1. TypeOK BY DEF QueueInv
<1>2. ASSUME ReaderStep PROVE UNCHANGED queue
  BY <1>2 DEF ReaderStep, ChangeRole, StartDeletion, ReadAll, RetireAccount, Redact, MarkRead,
              AckScan, AckCommit, RetireDue
<1>3. ASSUME NEW f \in Events, Compact(f) PROVE Over(e)'
  BY <1>1, <1>3 DEF Compact, Over, TypeOK
<1>4. ASSUME NEW w \in Workers, Commit(w) PROVE Over(e)'
  <2>1. work[w].e \in Events BY <1>1, <1>4, WorkKinds DEF Commit
  <2>2. CASE MayCommit(w)
    <3>1. [delivery[work[w].e] EXCEPT !.st = "delivered", !.lapsed = FALSE].st = "delivered"
      BY <1>1, <2>1 DEF TypeOK, DeliveryRow
    <3>2. delivery' = [delivery EXCEPT ![work[w].e] =
                          [delivery[work[w].e] EXCEPT !.st = "delivered", !.lapsed = FALSE]]
      BY <1>1, <1>4, <2>1, <2>2 DEF Commit, EndAttempt, TypeOK
    <3> QED BY <1>1, <1>4, <3>1, <3>2 DEF Commit, Over, TypeOK
  <2>3. CASE ~MayCommit(w) BY <1>4, <2>3 DEF Commit, Over
  <2> QED BY <2>2, <2>3
<1> QED BY <1>2, <1>3, <1>4, OtherOver, Steps DEF OtherStep, Over, queue

LEMMA FateStep == QueueInv /\ FateInv /\ [Next]_vars => FateInv'
<1> SUFFICES ASSUME QueueInv, FateInv, [Next]_vars PROVE FateInv' OBVIOUS
<1>1. CASE UNCHANGED vars
  BY <1>1 DEF vars, queue, rows, FateInv, Accounted, Shown, Archived, Denied, Over, SoundVerdict
<1>2. CASE Next
  <2>1. ASSUME NEW e \in Events, NEW u \in Audience[e] PROVE Accounted(e, u)'
    <3>1. Accounted(e, u) BY DEF FateInv
    <3>2. CASE ReaderStep BY <3>1, <3>2, ReaderFate
    <3>3. ASSUME NEW f \in Events, Compact(f) PROVE Accounted(e, u)' BY <3>1, <3>3, CompactFate
    <3>4. ASSUME NEW w \in Workers, Commit(w) PROVE Accounted(e, u)' BY <3>4, CommitFate
    <3>5. CASE OtherStep /\ ~(\E f \in Events : Compact(f))
      <4>1. (Over(e)' <=> Over(e)) /\ UNCHANGED <<note, receipt, withheld>>
        BY <3>5, OtherOver DEF rows
      <4> QED BY <3>1, <4>1, SameFate DEF Shown, Archived, Denied
    <3> QED BY <1>2, <3>2, <3>3, <3>4, <3>5, Steps DEF OtherStep
  <2>2. \A e \in Events : Over(e) => Over(e)' BY <1>2, OverIsFinal
  <2>3. ASSUME NEW v \in Workers, work'[v].pc = "delivering", NEW u \in Audience[work'[v].e]
        PROVE  SoundVerdict(v, u)'
    <3>1. /\ work'[v] = work[v] => work[v].pc = "delivering"
          /\ Undecided.what = "todo" /\ TypeOK
      BY <2>3 DEF Undecided, QueueInv
    <3>2. CASE work'[v] = work[v]
      <4>1. SoundVerdict(v, u) /\ work[v].e \in Events
        BY <2>3, <3>1, <3>2, WorkKinds DEF FateInv
      <4> QED BY <2>2, <3>2, <4>1 DEF SoundVerdict, Over
    <3>3. CASE \A x \in Users : work'[v].out[x] = Undecided
      <4>1. QueueInv' BY <1>2, QueueStep
      <4>2. work'[v].e \in Events
        <5>1. TypeOK' BY <4>1 DEF QueueInv
        <5>2. work'[v] \in WorkRecord BY <5>1 DEF TypeOK
        <5> QED BY <2>3, <5>2 DEF WorkRecord, Claims, Transaction, Idle
      <4>3. u \in Users BY <4>2, OutboxAssumption
      <4> QED BY <3>1, <3>3, <4>3 DEF SoundVerdict
    <3>4. CASE /\ work[v].pc = "delivering" /\ work'[v].e = work[v].e
               /\ \A x \in Users : \/ work'[v].out[x] = work[v].out[x]
                                   \/ work'[v].out[x] = Decision(work[v].e, x)
      <4>1. work[v].e \in Events /\ u \in Audience[work[v].e] /\ u \in Users
        BY <2>3, <3>1, <3>4, WorkKinds, OutboxAssumption
      <4>2. SoundVerdict(v, u) BY <3>4, <4>1 DEF FateInv
      <4>3. Over(work[v].e) =>
              \/ event'[work[v].e] = "compacted"
              \/ delivery'[work[v].e].st = "delivered"
        BY <2>2, <4>1 DEF Over
      <4>4. CASE work'[v].out[u] = work[v].out[u]
        BY <3>4, <4>2, <4>3, <4>4 DEF SoundVerdict, Over
      <4>5. CASE work'[v].out[u] = Decision(work[v].e, u)
        <5>1. inbox[u].next > 0 BY <3>1, <4>1 DEF TypeOK, InboxRow
        <5>2. Shown(work[v].e, u) => Over(work[v].e)
          BY <4>1 DEF FateInv, Accounted
        <5>3. /\ Decision(work[v].e, u).what = "show" => Decision(work[v].e, u).seq = inbox[u].next
              /\ Decision(work[v].e, u).what = "existing" => Shown(work[v].e, u)
          BY DEF Decision, Withhold, Existing
        <5> QED BY <3>4, <4>3, <4>5, <5>1, <5>2, <5>3 DEF SoundVerdict, Over
      <4> QED BY <3>4, <4>1, <4>4, <4>5
    <3> QED BY <1>2, <2>3, <3>2, <3>3, <3>4, OpenTransaction
  <2> QED BY <2>1, <2>3 DEF FateInv
<1> QED BY <1>1, <1>2

\* Every recipient of an event ends with exactly one fate and has no trace of it
\* before: commit, trimming, retirement, compaction and redaction lose none
THEOREM Accounting == Spec => []EveryRecipientAccounted
<1>1. QueueInv /\ FateInv => EveryRecipientAccounted
  BY CountFates DEF QueueInv, FateInv, EveryRecipientAccounted
<1> QED BY <1>1, InitFate, QueueAlways, FateStep, PTL DEF Spec

-----------------------------------------------------------------------------
(* Numbers and the cap of an inbox *)

\* a set of numbers has a least one
LEMMA Least ==
    ASSUME NEW S \in SUBSET Nat, S # {}
    PROVE  \E m \in S : \A n \in S : m <= n
<1> DEFINE T == {1..n : n \in S}
           R == StrictSubsetOrdering(Nat)
<1>1. IsWellFoundedOn(R, FiniteSubsetsOf(Nat)) BY FS_StrictSubsetOrderingWellFounded
<1>2. T \subseteq FiniteSubsetsOf(Nat)
  <2>1. \A n \in S : 1..n \in SUBSET Nat /\ IsFiniteSet(1..n) BY FS_Interval
  <2> QED BY <2>1 DEF FiniteSubsetsOf
<1>3. T # {} OBVIOUS
<1> HIDE DEF R, T
<1>4. \E x \in T : \A y \in T : <<y, x>> \notin R BY <1>1, <1>2, <1>3, WFMin
<1>5. PICK m \in S : \A n \in S : <<1..n, 1..m>> \notin R BY <1>4 DEF T
<1>6. ASSUME NEW n \in S, n < m PROVE FALSE
  <2>1. 1..n \subseteq 1..m /\ m \in 1..m /\ m \notin 1..n BY <1>6
  <2>2. 1..n \in SUBSET Nat /\ 1..m \in SUBSET Nat OBVIOUS
  <2>3. <<1..n, 1..m>> \in R BY <2>1, <2>2 DEF R, StrictSubsetOrdering
  <2> QED BY <1>5, <2>3
<1> QED BY <1>6

\* a dispatcher that has decided about u holds the lock of its inbox
Decided(w, u) ==
    work[w].pc = "delivering" /\ u \in Audience[work[w].e] /\ work[w].out[u].what # "todo"

\* the lock of an inbox is held once, and the number about to be given out is
\* the next one as long as it is
LocksInv ==
    \A u \in Users :
        /\ \A v, w \in Workers : Decided(v, u) /\ Decided(w, u) => v = w
        /\ \A w \in Workers : Decided(w, u) /\ work[w].out[u].what = "show" =>
              work[w].out[u].seq = inbox[u].next

\* the numbers of an inbox are below the next one and given out once
NumbersInv ==
    \A u \in Users :
        /\ inbox[u].through < inbox[u].next
        /\ \A e \in Events : note[e][u].seq < inbox[u].next
        /\ \A e, f \in Events : Shown(e, u) /\ note[e][u].seq = note[f][u].seq => e = f

SeqInv == LocksInv /\ NumbersInv

\* what a step does to the inbox of a user
InboxStep(u) ==
    \/ inbox'[u] = inbox[u]
    \/ ~InboxLocked(u) /\ UNCHANGED <<work, note>>
          /\ inbox'[u].next = inbox[u].next /\ inbox'[u].through = inbox[u].next - 1
    \/ /\ ~InboxLocked(u) /\ UNCHANGED work
       /\ inbox'[u] = [next |-> 1, through |-> 0] /\ \A e \in Events : note'[e][u] = NoNote
    \/ \E w \in Workers :
          /\ Commit(w) /\ MayCommit(w) /\ u \in ShownBy(w)
          /\ inbox'[u] = [inbox[u] EXCEPT !.next = work[w].out[u].seq + 1]

LEMMA InboxMoves == QueueInv /\ Next => \A u \in Users : InboxStep(u)
<1> SUFFICES ASSUME QueueInv, Next, NEW u \in Users PROVE InboxStep(u) OBVIOUS
<1>1. TypeOK BY DEF QueueInv
<1>2. inbox \in [Users -> InboxRow] BY <1>1 DEF TypeOK
<1>3. CASE UNCHANGED inbox BY <1>3 DEF InboxStep
<1>4. ASSUME NEW v \in Users, ReadAll(v) PROVE InboxStep(u)
  <2>1. CASE u # v BY <1>2, <1>4, <2>1 DEF ReadAll, InboxStep
  <2>2. CASE u = v
    <3>1. inbox'[u] = [inbox[u] EXCEPT !.through = inbox[u].next - 1]
      BY <1>2, <1>4, <2>2 DEF ReadAll
    <3>2. inbox'[u].next = inbox[u].next /\ inbox'[u].through = inbox[u].next - 1
      BY <1>2, <3>1 DEF InboxRow
    <3> QED BY <1>4, <2>2, <3>2 DEF ReadAll, InboxStep
  <2> QED BY <2>1, <2>2
<1>5. ASSUME NEW v \in Users, RetireAccount(v) PROVE InboxStep(u)
  <2>1. CASE u # v BY <1>2, <1>5, <2>1 DEF RetireAccount, InboxStep
  <2>2. CASE u = v
    <3>1. inbox'[u] = [next |-> 1, through |-> 0] BY <1>2, <1>5, <2>2 DEF RetireAccount
    <3>2. \A e \in Events : note'[e][u] = NoNote BY <1>1, <1>5, <2>2 DEF RetireAccount, TypeOK
    <3> QED BY <1>5, <2>2, <3>1, <3>2 DEF RetireAccount, InboxStep
  <2> QED BY <2>1, <2>2
<1>6. ASSUME ReaderStep, ~(\E v \in Users : ReadAll(v) \/ RetireAccount(v)) PROVE UNCHANGED inbox
  BY <1>6 DEF ReaderStep, ChangeRole, StartDeletion, Redact, MarkRead, AckScan, AckCommit,
              RetireDue, rows
<1>7. ASSUME NEW w \in Workers, Commit(w) PROVE InboxStep(u)
  <2>1. CASE ~MayCommit(w) BY <1>3, <1>7, <2>1 DEF Commit, rows
  <2>2. CASE MayCommit(w)
    <3>1. inbox' = [v \in Users |-> IF v \in ShownBy(w)
                                    THEN [inbox[v] EXCEPT !.next = work[w].out[v].seq + 1]
                                    ELSE inbox[v]]
      BY <1>7, <2>2 DEF Commit
    <3> QED BY <1>7, <2>2, <3>1 DEF InboxStep
  <2> QED BY <2>1, <2>2
<1>8. OtherStep => UNCHANGED inbox
  BY DEF OtherStep, Publish, LeaseLapses, Recycle, Replay, Compact, LocalStep, Begin,
         Materialize, Raise, Crash, FailAndSchedule, Claim, rows
<1> QED BY <1>3, <1>4, <1>5, <1>6, <1>7, <1>8, Steps DEF OtherStep

\* a dispatcher decides about a user only when nobody else has
LEMMA Deciding ==
    ASSUME QueueInv, Next, NEW v \in Workers, NEW u \in Users, Decided(v, u)'
    PROVE  \/ Decided(v, u) /\ work'[v] = work[v]
           \/ Decided(v, u) /\ work'[v].out[u] = work[v].out[u] /\ UNCHANGED <<inbox, note>>
           \/ /\ ~InboxLocked(u) /\ UNCHANGED <<inbox, note>>
              /\ work'[v].out[u] = Decision(work[v].e, u)
              /\ \A w \in Workers \ {v} : work'[w] = work[w]
<1>1. TypeOK BY DEF QueueInv
<1>2. work'[v].pc = "delivering" /\ work'[v].out[u].what # "todo" BY DEF Decided
<1>3. CASE work'[v] = work[v] BY <1>3 DEF Decided
<1>4. CASE work'[v] # work[v]
  <2>1. ~(\A x \in Users : work'[v].out[x] = Undecided) BY <1>2 DEF Undecided
  <2>2. ~ReaderStep
    BY <1>4 DEF ReaderStep, ChangeRole, StartDeletion, ReadAll, RetireAccount, Redact, MarkRead,
                AckScan, AckCommit, RetireDue
  <2>3. ~(\E e \in Events : Publish(e) \/ LeaseLapses(e) \/ Recycle(e) \/ Replay(e) \/ Compact(e))
    BY <1>4 DEF Publish, LeaseLapses, Recycle, Replay, Compact
  <2>4. ASSUME NEW w \in Workers, NEW r, r.pc # "delivering", work' = [work EXCEPT ![w] = r]
        PROVE  FALSE
    BY <1>1, <1>2, <1>4, <2>4 DEF TypeOK
  <2>5. Idle.pc # "delivering" /\ \A e, n : Claimed(e, n).pc # "delivering"
    BY DEF Idle, Claimed
  <2>6. ASSUME NEW w \in Workers, Commit(w) \/ Crash(w) \/ Raise(w) PROVE FALSE
    BY <2>4, <2>5, <2>6 DEF Commit, Crash, Raise
  <2>7. ASSUME NEW w \in Workers, NEW permanent \in BOOLEAN, FailAndSchedule(w, permanent)
        PROVE  FALSE
    BY <2>4, <2>5, <2>7 DEF FailAndSchedule
  <2>8. ASSUME NEW w \in Workers, NEW e \in Events, Claim(w, e) PROVE FALSE
    BY <2>4, <2>5, <2>8 DEF Claim
  <2>9. ASSUME NEW w \in Workers, Begin(w) PROVE FALSE
    <3>1. v = w BY <1>1, <1>4, <2>9 DEF Begin, TypeOK
    <3>2. work'[w] = [pc |-> "delivering", e |-> work[w].e, fence |-> work[w].fence,
                      redact |-> work[w].e \in deleted,
                      out |-> [x \in Users |-> Undecided]]
          \/ work'[w] = Idle
      BY <1>1, <2>9 DEF Begin, TypeOK
    <3> QED BY <1>2, <2>1, <2>5, <3>1, <3>2
  <2>10. PICK w \in Workers : Materialize(w)
    BY Steps, <2>2, <2>3, <2>6, <2>7, <2>8, <2>9 DEF LocalStep
  <2>11. PICK x \in Waiting(w) : /\ ~InboxLocked(x)
                                 /\ work' = [work EXCEPT ![w].out[x] = Decision(work[w].e, x)]
    BY <2>10 DEF Materialize
  <2>12. v = w /\ work[w].pc = "delivering" /\ work[w] \in Transaction
    BY <1>1, <1>4, <2>10, <2>11, WorkKinds DEF TypeOK, Materialize
  <2>13. work'[w] = [work[w] EXCEPT !.out[x] = Decision(work[w].e, x)]
    BY <1>1, <2>11 DEF TypeOK
  <2>14. /\ work'[w].e = work[w].e /\ work'[w].pc = work[w].pc
         /\ \A y \in Users : work'[w].out[y] = IF y = x THEN Decision(work[w].e, x)
                                               ELSE work[w].out[y]
    BY <2>12, <2>13 DEF Transaction
  <2>15. UNCHANGED <<inbox, note>> BY <2>10 DEF Materialize, rows
  <2>16. \A y \in Workers \ {v} : work'[y] = work[y] BY <1>1, <2>11, <2>12 DEF TypeOK
  <2>17. CASE x = u BY <2>11, <2>12, <2>14, <2>15, <2>16, <2>17
  <2>18. CASE x # u BY <2>12, <2>14, <2>15, <2>18 DEF Decided
  <2> QED BY <2>17, <2>18
<1> QED BY <1>3, <1>4

LEMMA InitSeq == Init => SeqInv
BY DEF Init, SeqInv, LocksInv, NumbersInv, Decided, Shown, NoNote, Idle

\* the note of a commit has the number its verdict gave it
LEMMA CommitNumbers ==
    ASSUME QueueInv, NEW w \in Workers, Commit(w), NEW f \in Events, NEW u \in Users
    PROVE  \/ note'[f][u].seq \in {0, note[f][u].seq}
           \/ /\ MayCommit(w) /\ u \in ShownBy(w) /\ f = work[w].e
              /\ note'[f][u].seq = work[w].out[u].seq
<1>1. NoNote.seq = 0 BY DEF NoNote
<1>2. CASE ~MayCommit(w) BY <1>2 DEF Commit, rows
<1>3. CASE MayCommit(w)
  <2> DEFINE ns == Delivered(w, work[w].e, u)
  <2>1. u \notin ShownBy(w) => note'[f][u] = note[f][u] BY <1>3, CommitTables
  <2>2. u \in ShownBy(w) => note'[f][u] \in {NoNote, ns[f]} BY <1>3, CommitTables
  <2>3. f # work[w].e => ns[f] = note[f][u] BY DEF Delivered
  <2>4. f = work[w].e /\ u \in ShownBy(w) => ns[f].seq = work[w].out[u].seq
    BY DEF Delivered, ShownBy
  <2> QED BY <1>1, <1>3, <2>1, <2>2, <2>3, <2>4
<1> QED BY <1>2, <1>3

\* what a step does to the number of a notification
LEMMA NumberMoves ==
    ASSUME QueueInv, Next, NEW f \in Events, NEW u \in Users
    PROVE  \/ note'[f][u].seq \in {0, note[f][u].seq}
           \/ \E w \in Workers : /\ Commit(w) /\ MayCommit(w) /\ u \in ShownBy(w)
                                 /\ f = work[w].e /\ note'[f][u].seq = work[w].out[u].seq
<1>1. TypeOK /\ note[f][u] \in NoteRow BY DEF QueueInv, TypeOK
<1>2. CASE ReaderStep
  <2>1. ASSUME note'[f][u].seq # note[f][u].seq PROVE note'[f][u].seq = 0
    <3>1. \A r : r \in {[note[f][u] EXCEPT !.read = TRUE], [note[f][u] EXCEPT !.redacted = TRUE]}
             => r.seq = note[f][u].seq
      BY <1>1 DEF NoteRow
    <3>2. NoNote.seq = 0 BY DEF NoNote
    <3>3. note \in [Events -> [Users -> NoteRow]] BY <1>1 DEF TypeOK
    <3>4. ~ UNCHANGED note BY <2>1
    <3>5. ASSUME NEW v \in Users, ChangeRole(v) \/ StartDeletion(v) \/ ReadAll(v) PROVE FALSE
      BY <3>4, <3>5 DEF ChangeRole, StartDeletion, ReadAll, rows
    <3>6. ASSUME NEW h \in Events, Redact(h)
          PROVE  note'[f][u] \in {note[f][u], [note[f][u] EXCEPT !.redacted = TRUE]}
      BY <3>3, <3>6 DEF Redact
    <3>7. ASSUME NEW h \in Events, NEW v \in Users, AckScan(h, v) PROVE FALSE
      BY <3>4, <3>7 DEF AckScan, rows
    <3>8. ASSUME NEW h \in Events, NEW v \in Users, MarkRead(h, v) \/ AckCommit(h, v)
          PROVE  note'[f][u] \in {note[f][u], [note[f][u] EXCEPT !.read = TRUE]}
      <4>1. note' = note \/ note' = [note EXCEPT ![h][v] = [note[h][v] EXCEPT !.read = TRUE]]
        BY <3>3, <3>8 DEF MarkRead, AckCommit
      <4>2. \A x : [note EXCEPT ![h][v] = x][f][u] = IF f = h /\ u = v THEN x ELSE note[f][u]
        BY <3>3
      <4> QED BY <4>1, <4>2
    <3>9. ASSUME NEW h \in Events, NEW v \in Users, RetireDue(h, v)
          PROVE  note'[f][u] \in {note[f][u], NoNote}
      BY <3>3, <3>9 DEF RetireDue
    <3>10. ASSUME NEW v \in Users, RetireAccount(v) PROVE note'[f][u] \in {note[f][u], NoNote}
      BY <3>3, <3>10 DEF RetireAccount
    <3> QED BY <1>2, <2>1, <3>1, <3>2, <3>5, <3>6, <3>7, <3>8, <3>9, <3>10 DEF ReaderStep
  <2> QED BY <2>1
<1>3. CASE OtherStep BY <1>3, OtherKeeps
<1>4. ASSUME NEW w \in Workers, Commit(w)
      PROVE  \/ note'[f][u].seq \in {0, note[f][u].seq}
             \/ /\ MayCommit(w) /\ u \in ShownBy(w)
                /\ f = work[w].e /\ note'[f][u].seq = work[w].out[u].seq
  BY <1>4, CommitNumbers
<1> QED BY <1>2, <1>3, <1>4, Steps DEF OtherStep

\* a committing dispatcher holds the lock of the inboxes it adds to
LEMMA ShowsNext ==
    ASSUME QueueInv, SeqInv, NEW w \in Workers, Commit(w), NEW u \in ShownBy(w)
    PROVE  /\ u \in Users /\ Decided(w, u) /\ work[w].out[u].seq = inbox[u].next
           /\ work'[w].pc = "idle"
<1>1. TypeOK /\ work[w].pc = "delivering" BY DEF QueueInv, Commit
<1>2. work[w].e \in Events BY <1>1, WorkKinds
<1>3. u \in Audience[work[w].e] /\ work[w].out[u].what = "show" BY DEF ShownBy
<1>4. u \in Users BY <1>2, <1>3, OutboxAssumption
<1>5. Decided(w, u) BY <1>1, <1>3 DEF Decided
<1>6. work'[w] = Idle BY <1>1 DEF Commit, TypeOK
<1> QED BY <1>3, <1>4, <1>5, <1>6 DEF SeqInv, LocksInv, Idle

LEMMA LocksStep == QueueInv /\ SeqInv /\ Next => LocksInv'
<1> SUFFICES ASSUME QueueInv, SeqInv, Next, NEW u \in Users
             PROVE  /\ \A v, w \in Workers : Decided(v, u)' /\ Decided(w, u)' => v = w
                    /\ \A w \in Workers : Decided(w, u)' /\ work'[w].out[u].what = "show" =>
                          work'[w].out[u].seq = inbox'[u].next
  BY DEF LocksInv
<1>1. \A v \in Workers : ~InboxLocked(u) => ~Decided(v, u) BY DEF InboxLocked, Decided
<1>2. ASSUME NEW v \in Workers, NEW w \in Workers, Decided(v, u)', Decided(w, u)', v # w
      PROVE  FALSE
  <2>1. ASSUME NEW x \in Workers, NEW y \in Workers, x # y, Decided(y, u)', ~InboxLocked(u),
               \A z \in Workers \ {x} : work'[z] = work[z]
        PROVE  FALSE
    <3>1. work'[y] = work[y] BY <2>1
    <3>2. Decided(y, u) BY <2>1, <3>1 DEF Decided
    <3> QED BY <1>1, <2>1, <3>2
  <2>2. ASSUME NEW x \in Workers, NEW y \in Workers, x # y, Decided(x, u)', Decided(y, u)'
        PROVE  Decided(x, u)
    <3>1. CASE ~InboxLocked(u) /\ \A z \in Workers \ {x} : work'[z] = work[z]
      BY <2>1, <2>2, <3>1
    <3> QED BY <2>2, <3>1, Deciding
  <2>3. Decided(v, u) /\ Decided(w, u) BY <1>2, <2>2
  <2> QED BY <1>2, <2>3 DEF SeqInv, LocksInv
<1>3. ASSUME NEW w \in Workers, Decided(w, u)', work'[w].out[u].what = "show"
      PROVE  work'[w].out[u].seq = inbox'[u].next
  <2>1. CASE ~Decided(w, u)
    <3>1. UNCHANGED inbox /\ work'[w].out[u] = Decision(work[w].e, u)
      BY <1>3, <2>1, Deciding
    <3> QED BY <1>3, <3>1 DEF Decision, Withhold, Existing
  <2>2. CASE Decided(w, u)
    <3>1. InboxLocked(u) BY <1>1, <2>2
    <3>2. work'[w].out[u] = work[w].out[u] BY <1>3, <3>1, Deciding
    <3>3. work[w].out[u].seq = inbox[u].next BY <1>3, <2>2, <3>2 DEF SeqInv, LocksInv
    <3>4. inbox'[u] = inbox[u]
      <4>1. ASSUME NEW v \in Workers, Commit(v), u \in ShownBy(v) PROVE FALSE
        <5>1. Decided(v, u) /\ work'[v].pc = "idle" BY <4>1, ShowsNext
        <5>2. v = w BY <2>2, <5>1 DEF SeqInv, LocksInv
        <5> QED BY <1>3, <5>1, <5>2 DEF Decided
      <4> QED BY <3>1, <4>1, InboxMoves DEF InboxStep
    <3> QED BY <3>2, <3>3, <3>4
  <2> QED BY <2>1, <2>2
<1> QED BY <1>2, <1>3

LEMMA NumbersStep == QueueInv /\ SeqInv /\ Next => NumbersInv'
<1> SUFFICES ASSUME QueueInv, SeqInv, Next, NEW u \in Users
             PROVE  /\ inbox'[u].through < inbox'[u].next
                    /\ \A e \in Events : note'[e][u].seq < inbox'[u].next
                    /\ \A e, f \in Events :
                          note'[e][u].seq > 0 /\ note'[e][u].seq = note'[f][u].seq => e = f
  BY DEF NumbersInv, Shown
<1>1. /\ TypeOK /\ inbox[u] \in InboxRow
      /\ inbox[u].next \in Nat \ {0} /\ inbox[u].through \in Nat
      /\ \A e \in Events : note[e][u].seq \in Nat
  BY DEF QueueInv, TypeOK, InboxRow, NoteRow
<1>2. /\ inbox[u].through < inbox[u].next
      /\ \A e \in Events : note[e][u].seq < inbox[u].next
      /\ \A e, f \in Events : note[e][u].seq > 0 /\ note[e][u].seq = note[f][u].seq => e = f
  BY DEF SeqInv, NumbersInv, Shown
<1>3. CASE /\ inbox'[u].through < inbox'[u].next /\ inbox'[u].next \in Nat
           /\ inbox[u].next <= inbox'[u].next
           /\ \A e \in Events : note'[e][u].seq \in {0, note[e][u].seq}
  BY <1>1, <1>2, <1>3
<1>4. CASE inbox'[u] = inbox[u]
  <2>1. ASSUME NEW w \in Workers, Commit(w), MayCommit(w), u \in ShownBy(w) PROVE FALSE
    <3>1. work[w].out[u].seq = inbox[u].next BY <2>1, ShowsNext
    <3>2. inbox' = [v \in Users |-> IF v \in ShownBy(w)
                                    THEN [inbox[v] EXCEPT !.next = work[w].out[v].seq + 1]
                                    ELSE inbox[v]]
      BY <2>1 DEF Commit
    <3>3. inbox'[u] = [inbox[u] EXCEPT !.next = inbox[u].next + 1] BY <2>1, <3>1, <3>2
    <3>4. inbox'[u].next = inbox[u].next + 1 BY <1>1, <3>3 DEF InboxRow
    <3> QED BY <1>1, <1>4, <3>4
  <2>2. \A e \in Events : note'[e][u].seq \in {0, note[e][u].seq} BY <2>1, NumberMoves
  <2> QED BY <1>1, <1>2, <1>3, <1>4, <2>2
<1>5. CASE /\ UNCHANGED note
           /\ inbox'[u].next = inbox[u].next /\ inbox'[u].through = inbox[u].next - 1
  BY <1>1, <1>2, <1>5
<1>6. CASE inbox'[u] = [next |-> 1, through |-> 0] /\ \A e \in Events : note'[e][u] = NoNote
  BY <1>6 DEF NoNote
<1>7. ASSUME NEW w \in Workers, Commit(w), MayCommit(w), u \in ShownBy(w),
             inbox'[u] = [inbox[u] EXCEPT !.next = work[w].out[u].seq + 1]
      PROVE  /\ inbox'[u].through < inbox'[u].next
             /\ \A e \in Events : note'[e][u].seq < inbox'[u].next
             /\ \A e, f \in Events :
                   note'[e][u].seq > 0 /\ note'[e][u].seq = note'[f][u].seq => e = f
  <2>1. work[w].out[u].seq = inbox[u].next BY <1>7, ShowsNext
  <2>2. inbox'[u].next = inbox[u].next + 1 /\ inbox'[u].through = inbox[u].through
    BY <1>1, <1>7, <2>1 DEF InboxRow
  <2>3. \A e \in Events : \/ note'[e][u].seq \in {0, note[e][u].seq}
                          \/ e = work[w].e /\ note'[e][u].seq = inbox[u].next
    BY <1>7, <2>1, CommitNumbers
  <2> QED BY <1>1, <1>2, <2>2, <2>3
<1> QED BY <1>4, <1>5, <1>6, <1>7, InboxMoves DEF InboxStep

LEMMA SeqStep == QueueInv /\ SeqInv /\ [Next]_vars => SeqInv'
<1> SUFFICES ASSUME QueueInv, SeqInv, [Next]_vars PROVE SeqInv' OBVIOUS
<1>1. CASE UNCHANGED vars
  BY <1>1 DEF vars, rows, SeqInv, LocksInv, NumbersInv, Decided, Shown
<1>2. CASE Next BY <1>2, LocksStep, NumbersStep DEF SeqInv
<1> QED BY <1>1, <1>2

LEMMA SeqAlways == Spec => []SeqInv
BY InitSeq, SeqStep, QueueAlways, PTL DEF Spec

\* A notification is numbered with the next number of its inbox, which no other
\* dispatcher and no read-all can move between the moment it is read under the
\* lock and the commit: no number is given out twice, none is read beforehand
\* (NotificationMaterializer._materialize_new, NotificationService._read_all_in)
THEOREM Sequences == Spec => SequencesGrow
<1>1. QueueInv /\ SeqInv /\ [Next]_vars =>
        [\A e \in Events, u \in Users : Numbered(e, u)]_vars
  <2> SUFFICES ASSUME QueueInv, SeqInv, Next, NEW e \in Events, NEW u \in Users,
                      ~Shown(e, u), note'[e][u].seq > 0
               PROVE  /\ note'[e][u].seq \in inbox[u].next .. inbox'[u].next - 1
                      /\ note'[e][u].seq > inbox'[u].through
    BY DEF Numbered
  <2>1. /\ TypeOK /\ inbox[u] \in InboxRow /\ note[e][u] \in NoteRow
        /\ inbox[u].next \in Nat \ {0} /\ inbox[u].through \in Nat /\ note[e][u].seq \in Nat
    BY DEF QueueInv, TypeOK, InboxRow, NoteRow
  <2>2. note'[e][u].seq \notin {0, note[e][u].seq} BY <2>1 DEF Shown
  <2>3. PICK w \in Workers : /\ Commit(w) /\ MayCommit(w) /\ u \in ShownBy(w)
                             /\ note'[e][u].seq = work[w].out[u].seq
    BY <2>2, NumberMoves
  <2>4. work[w].out[u].seq = inbox[u].next BY <2>3, ShowsNext
  <2>5. inbox' = [v \in Users |-> IF v \in ShownBy(w)
                                  THEN [inbox[v] EXCEPT !.next = work[w].out[v].seq + 1]
                                  ELSE inbox[v]]
    BY <2>3 DEF Commit
  <2>6. inbox'[u].next = inbox[u].next + 1 /\ inbox'[u].through = inbox[u].through
    BY <2>1, <2>3, <2>4, <2>5 DEF InboxRow
  <2>7. inbox[u].through < inbox[u].next BY DEF SeqInv, NumbersInv
  <2> QED BY <2>1, <2>3, <2>4, <2>6, <2>7
<1> QED BY <1>1, QueueAlways, SeqAlways, PTL DEF Spec, SequencesGrow

\* the notifications of an inbox
Online(u) == {e \in Events : Shown(e, u)}

CapInv ==
    \A u \in Users : IsFiniteSet(Online(u)) /\ Cardinality(Online(u)) <= MaxOnline

LEMMA InitCap == Init => CapInv
<1> SUFFICES ASSUME Init, NEW u \in Users
             PROVE  IsFiniteSet(Online(u)) /\ Cardinality(Online(u)) <= MaxOnline
  BY DEF CapInv
<1>1. Online(u) = {} BY DEF Init, Online, Shown, NoNote
<1> QED BY <1>1, FS_EmptySet, OutboxAssumption

\* a step that shows nobody anything new only shrinks an inbox
LEMMA Shrinks ==
    ASSUME NEW S, NEW T, IsFiniteSet(T), Cardinality(T) <= MaxOnline, S \subseteq T
    PROVE  IsFiniteSet(S) /\ Cardinality(S) <= MaxOnline
<1>1. IsFiniteSet(S) /\ Cardinality(S) <= Cardinality(T) BY FS_Subset
<1>2. Cardinality(S) \in Nat /\ Cardinality(T) \in Nat BY <1>1, FS_CardinalityType
<1> QED BY <1>1, <1>2, OutboxAssumption

\* a full inbox with one notification more has one that is over the cap: the
\* oldest of them
LEMMA OldestIsOver ==
    ASSUME NEW ns, DOMAIN ns = Events, \A e \in Events : ns[e].seq \in Nat,
           NEW S, S = {e \in Events : ns[e].seq > 0}, IsFiniteSet(S),
           Cardinality(S) = MaxOnline + 1,
           \A e, f \in S : ns[e].seq = ns[f].seq => e = f
    PROVE  \E f \in S : f \in OverCap(ns)
<1>1. S # {}
  BY FS_EmptySet, OutboxAssumption
<1> DEFINE Q == {ns[e].seq : e \in S}
<1>2. Q \in SUBSET Nat /\ Q # {} BY <1>1
<1>3. \E m \in Q : \A n \in Q : m <= n
  <2> HIDE DEF Q
  <2> QED BY <1>2, Least
<1>4. PICK f \in S : \A e \in S : ns[f].seq <= ns[e].seq BY <1>3
<1>5. Newer(ns, f) = S \ {f}
  <2>1. \A e \in S \ {f} : ns[e].seq > ns[f].seq BY <1>4
  <2>2. \A e \in Events : ns[e].seq > ns[f].seq => e \in S \ {f} BY <1>4
  <2> QED BY <2>1, <2>2 DEF Newer
<1>6. Cardinality(S \ {f}) = MaxOnline
  <2>1. Cardinality(S \ {f}) = Cardinality(S) - 1 BY FS_RemoveElement
  <2> QED BY <2>1, OutboxAssumption
<1>7. Cardinality(Newer(ns, f)) >= MaxOnline
  <2>1. Cardinality(Newer(ns, f)) = MaxOnline BY <1>5, <1>6
  <2> QED BY <2>1, OutboxAssumption
<1>8. f \in DOMAIN ns /\ ns[f].seq > 0 BY <1>4
<1>9. f \in OverCap(ns) BY <1>7, <1>8 DEF OverCap
<1> QED BY <1>4, <1>9

LEMMA CommitCap ==
    ASSUME QueueInv, SeqInv, CapInv, NEW w \in Workers, Commit(w), MayCommit(w),
           NEW u \in ShownBy(w)
    PROVE  IsFiniteSet(Online(u)') /\ Cardinality(Online(u)') <= MaxOnline
<1> DEFINE e == work[w].e
           ns == Delivered(w, e, u)
           S == {f \in Events : ns[f].seq > 0}
<1>1. TypeOK /\ u \in Users /\ work[w].out[u].seq = inbox[u].next /\ inbox[u].next \in Nat \ {0}
  BY ShowsNext DEF QueueInv, TypeOK, InboxRow
<1>2. e \in Events BY WorkKinds, <1>1 DEF Commit
<1>3. DOMAIN ns = Events /\ \A f \in Events \ {e} : ns[f] = note[f][u] BY DEF Delivered
<1>4. ns[e].seq = inbox[u].next BY <1>1, <1>2 DEF Delivered, ShownBy
<1>5. \A f \in Events : note[f][u].seq \in Nat /\ note[f][u].seq < inbox[u].next
  BY <1>1 DEF TypeOK, NoteRow, SeqInv, NumbersInv
<1>6. \A f \in Events : ns[f].seq \in Nat BY <1>1, <1>3, <1>4, <1>5
<1>7. \A f \in Events : /\ f \in OverCap(ns) => note'[f][u] = NoNote
                        /\ f \notin OverCap(ns) => note'[f][u] = ns[f]
  BY <1>1, CommitTables
<1> HIDE DEF ns
<1>8. S = Online(u) \cup {e}
  BY <1>1, <1>2, <1>3, <1>4 DEF Online, Shown
<1>9. Online(u)' \subseteq S \ OverCap(ns)
  BY <1>7 DEF Online, Shown, NoNote
<1>10. IsFiniteSet(Online(u)) /\ Cardinality(Online(u)) <= MaxOnline
  BY <1>1 DEF CapInv
<1>11. /\ IsFiniteSet(S)
       /\ Cardinality(S) = IF e \in Online(u) THEN Cardinality(Online(u)) ELSE Cardinality(Online(u)) + 1
  BY <1>8, <1>10, FS_AddElement
<1>12. Cardinality(Online(u)) \in Nat /\ Cardinality(S) \in Nat BY <1>10, <1>11, FS_CardinalityType
<1>13. CASE Cardinality(S) <= MaxOnline
  <2>1. Online(u)' \subseteq S BY <1>9
  <2> QED BY <1>11, <1>13, <2>1, Shrinks
<1>14. CASE Cardinality(S) = MaxOnline + 1
  <2>1. \A f, g \in S : ns[f].seq = ns[g].seq => f = g
    <3>1. \A f, g \in Events : note[f][u].seq > 0 /\ note[f][u].seq = note[g][u].seq => f = g
      BY <1>1 DEF SeqInv, NumbersInv, Shown
    <3> QED BY <1>3, <1>4, <1>5, <3>1
  <2>2. PICK f \in S : f \in OverCap(ns) BY <1>3, <1>6, <1>11, <1>14, <2>1, OldestIsOver
  <2>3. Online(u)' \subseteq S \ {f} BY <1>9, <2>2
  <2>4. IsFiniteSet(S \ {f}) /\ Cardinality(S \ {f}) = MaxOnline
    <3>1. IsFiniteSet(S \ {f}) /\ Cardinality(S \ {f}) = Cardinality(S) - 1
      BY <1>11, <2>2, FS_RemoveElement
    <3> QED BY <1>14, <3>1, OutboxAssumption
  <2>5. Cardinality(S \ {f}) <= MaxOnline BY <2>4, OutboxAssumption
  <2> QED BY <2>3, <2>4, <2>5, Shrinks
<1> QED BY <1>10, <1>11, <1>12, <1>13, <1>14, OutboxAssumption

LEMMA CapStep == QueueInv /\ SeqInv /\ CapInv /\ [Next]_vars => CapInv'
<1> SUFFICES ASSUME QueueInv, SeqInv, CapInv, [Next]_vars, NEW u \in Users
             PROVE  IsFiniteSet(Online(u)') /\ Cardinality(Online(u)') <= MaxOnline
  BY DEF CapInv, Online, Shown
<1>1. IsFiniteSet(Online(u)) /\ Cardinality(Online(u)) <= MaxOnline BY DEF CapInv
<1>2. CASE Online(u)' \subseteq Online(u)
  <2> DEFINE S == Online(u)'
  <2>1. S \subseteq Online(u) BY <1>2
  <2> HIDE DEF S
  <2>2. IsFiniteSet(S) /\ Cardinality(S) <= MaxOnline BY <1>1, <2>1, Shrinks
  <2> QED BY <2>2 DEF S
<1>3. CASE UNCHANGED note BY <1>2, <1>3 DEF Online, Shown
<1>4. CASE ReaderStep BY <1>2, <1>4, ReaderNotes DEF Online, Shown
<1>5. ASSUME NEW w \in Workers, Commit(w)
      PROVE  IsFiniteSet(Online(u)') /\ Cardinality(Online(u)') <= MaxOnline
  <2>1. CASE ~MayCommit(w) BY <1>3, <1>5, <2>1 DEF Commit, rows
  <2>2. CASE MayCommit(w) /\ u \in ShownBy(w) BY <1>5, <2>2, CommitCap
  <2>3. CASE u \notin ShownBy(w) BY <1>2, <1>5, <2>3, CommitNotes DEF Online, Shown
  <2> QED BY <2>1, <2>2, <2>3
<1>6. CASE OtherStep BY <1>3, <1>6, OtherKeeps
<1> QED BY <1>3, <1>4, <1>5, <1>6, Steps DEF OtherStep, vars, rows

\* Whoever materializes a notification trims the inbox in the same transaction,
\* under a lock nobody else adds to it: with one notification too many the
\* oldest is over the cap, so no inbox ever has more (_trim_over_cap)
THEOREM Capped == Spec => []WithinCap
<1>1. CapInv => WithinCap BY DEF CapInv, WithinCap, Online
<1> QED BY <1>1, InitCap, CapStep, QueueAlways, SeqAlways, PTL DEF Spec

-----------------------------------------------------------------------------
(* The outbox implements NotificationPromise *)

FateOf(e, u) ==
    IF Shown(e, u) THEN "shown"
    ELSE IF Archived(e, u) THEN "archived"
    ELSE IF Denied(e, u) THEN "withheld" ELSE "none"

\* the fates, when nobody has two
Known == [e \in Events |-> [u \in Users |-> FateOf(e, u)]]

\* nobody else has a trace of an event
StrangersInv == \A e \in Events : \A u \in Users \ Audience[e] : FateOf(e, u) = "none"

\* the delivery of an event commits
Serving(e) == \E w \in Workers : Commit(w) /\ MayCommit(w) /\ work[w].e = e

LEMMA FateIs ==
    FateInv /\ StrangersInv => Fate = Known
<1> SUFFICES ASSUME FateInv, StrangersInv PROVE Fate = Known OBVIOUS
<1>1. ASSUME NEW e \in Events, NEW u \in Users
      PROVE  (IF Fates(e, u) = {} THEN "none" ELSE CHOOSE f \in Fates(e, u) : TRUE) = FateOf(e, u)
  <2>1. /\ "shown" \in Fates(e, u) <=> Shown(e, u)
        /\ "archived" \in Fates(e, u) <=> Archived(e, u)
        /\ "withheld" \in Fates(e, u) <=> Denied(e, u)
        /\ Fates(e, u) \subseteq {"shown", "archived", "withheld"}
    BY DEF Fates, Archived, Denied
  <2>2. /\ ~(Shown(e, u) /\ Archived(e, u)) /\ ~(Shown(e, u) /\ Denied(e, u))
        /\ ~(Archived(e, u) /\ Denied(e, u))
    BY DEF FateInv, Accounted, StrangersInv, FateOf
  <2>3. FateOf(e, u) = "none" => Fates(e, u) = {} BY <2>1 DEF FateOf
  <2>4. FateOf(e, u) # "none" => Fates(e, u) = {FateOf(e, u)} BY <2>1, <2>2 DEF FateOf
  <2>5. \A x : (CHOOSE f \in {x} : TRUE) = x OBVIOUS
  <2> QED BY <2>3, <2>4, <2>5
<1> QED BY <1>1 DEF Fate, Known

LEMMA FateWillBe == FateInv' /\ StrangersInv' => Fate' = Known'
<1>1. (FateInv /\ StrangersInv => Fate = Known)' BY FateIs, PTL
<1> QED BY <1>1

LEMMA InitStrangers == Init => StrangersInv
BY DEF Init, StrangersInv, FateOf, Shown, NoNote, Archived, Denied

\* nobody is shown, filed or denied a notification but by the commit that
\* serves its event, or filed by losing the one shown
LEMMA Appears ==
    ASSUME QueueInv, Next, NEW e \in Events, NEW u \in Users, ~(Serving(e) /\ u \in Audience[e])
    PROVE  /\ Shown(e, u)' => Shown(e, u)
           /\ Archived(e, u)' => Archived(e, u) \/ Shown(e, u)
           /\ Denied(e, u)' => Denied(e, u)
<1>1. TypeOK BY DEF QueueInv
<1> DEFINE Goal == /\ Shown(e, u)' => Shown(e, u)
                   /\ Archived(e, u)' => Archived(e, u) \/ Shown(e, u)
                   /\ Denied(e, u)' => Denied(e, u)
<1>2. ASSUME note'[e][u].seq > 0 => Shown(e, u), withheld'[e] \subseteq withheld[e],
             \/ receipt'[e][u] = receipt[e][u]
             \/ receipt'[e][u] = "materialized" /\ Shown(e, u)
             \/ receipt'[e][u] = "withheld" /\ u \in withheld[e]
             \/ receipt'[e][u] = "none"
      PROVE  Goal
  BY <1>2 DEF Shown, Archived, Denied
<1>3. CASE UNCHANGED rows BY <1>3 DEF rows, Shown, Archived, Denied
<1>4. CASE ReaderStep
  <2>1. note'[e][u].seq > 0 => Shown(e, u) BY <1>4, ReaderNotes
  <2>2. UNCHANGED withheld
    BY <1>4 DEF ReaderStep, ChangeRole, StartDeletion, ReadAll, RetireAccount, Redact, MarkRead,
           AckScan, AckCommit, RetireDue, rows
  <2>3. \/ receipt'[e][u] = receipt[e][u]
        \/ receipt'[e][u] = "materialized" /\ Shown(e, u)
        \/ receipt'[e][u] = "withheld" /\ u \in withheld[e]
        \/ receipt'[e][u] = "none"
    <3>1. ASSUME NEW f \in Events, NEW v \in Users, RetireDue(f, v)
          PROVE  \/ receipt'[e][u] = receipt[e][u]
                 \/ receipt'[e][u] = "materialized" /\ Shown(e, u)
      <4>1. Shown(f, v) /\
            receipt' = [receipt EXCEPT ![f] = [receipt[f] EXCEPT ![v] =
                           IF receipt[f][v] = "none" THEN "materialized" ELSE receipt[f][v]]]
        BY <1>1, <3>1 DEF RetireDue, TypeOK
      <4> QED BY <1>1, <4>1 DEF TypeOK
    <3>2. ASSUME NEW v \in Users, RetireAccount(v)
          PROVE  receipt'[e][u] \in {receipt[e][u], PermanentReceipt(e, u)}
      BY <1>1, <3>2 DEF RetireAccount, TypeOK
    <3>3. ASSUME ~UNCHANGED receipt
          PROVE  \/ \E f \in Events, v \in Users : RetireDue(f, v)
                 \/ \E v \in Users : RetireAccount(v)
      BY <1>4, <3>3 DEF ReaderStep, ChangeRole, StartDeletion, ReadAll, Redact, MarkRead, AckScan,
                        AckCommit, rows
    <3> QED BY <3>1, <3>2, <3>3 DEF PermanentReceipt
  <2> QED BY <1>2, <2>1, <2>2, <2>3
<1>5. ASSUME NEW f \in Events, Compact(f) PROVE Goal
  <2>1. note' = note /\ withheld'[e] \subseteq withheld[e]
    BY <1>1, <1>5 DEF Compact, TypeOK
  <2>2. receipt'[e][u] \in {receipt[e][u], SuppressionReceipt(e, u)}
    BY <1>1, <1>5 DEF Compact, TypeOK
  <2> QED BY <1>2, <2>1, <2>2 DEF SuppressionReceipt, Shown
<1>6. ASSUME NEW w \in Workers, Commit(w) PROVE Goal
  <2>1. CASE ~MayCommit(w) BY <1>3, <1>6, <2>1 DEF Commit
  <2>2. CASE MayCommit(w)
    <3> DEFINE ns == Delivered(w, work[w].e, u)
    <3>1. \/ note'[e][u] = note[e][u]
          \/ note'[e][u] = NoNote
          \/ u \in ShownBy(w) /\ note'[e][u] = ns[e]
      BY <1>6, <2>2, CommitTables
    <3>2. u \in ShownBy(w) => e # work[w].e
      BY <1>6, <2>2 DEF Serving, ShownBy
    <3>3. e # work[w].e => ns[e] = note[e][u] BY DEF Delivered
    <3>4. note'[e][u].seq > 0 => Shown(e, u) BY <3>1, <3>2, <3>3 DEF NoNote, Shown
    <3>5. u \in withheld'[e] => u \in withheld[e] BY <1>6, <2>2, CommitTables DEF Serving
    <3>6. \/ receipt'[e][u] = receipt[e][u]
          \/ receipt'[e][u] = "materialized" /\ u \in ShownBy(w) /\ e \in OverCap(ns)
      BY <1>6, <2>2, CommitTables
    <3>7. e \in OverCap(ns) => ns[e].seq > 0 BY DEF OverCap
    <3> HIDE DEF ns
    <3> QED BY <3>2, <3>3, <3>4, <3>5, <3>6, <3>7 DEF Shown, Archived, Denied
  <2> QED BY <2>1, <2>2
<1>7. CASE OtherStep /\ ~(\E f \in Events : Compact(f)) BY <1>3, <1>7, OtherOver
<1> QED BY <1>4, <1>5, <1>6, <1>7, Steps DEF OtherStep

\* the commit of an event shows or denies it to its audience: the notification
\* it adds is the newest of its inbox, so it is not the one trimmed
LEMMA Served ==
    ASSUME QueueInv, SeqInv, FateInv, NEW w \in Workers, Commit(w), MayCommit(w),
           NEW e \in Events, e = work[w].e, NEW u \in Audience[e]
    PROVE  ~Over(e) /\ FateOf(e, u)' \in {"shown", "withheld"}
<1> DEFINE ns == Delivered(w, e, u)
<1>1. TypeOK /\ u \in Users
  BY OutboxAssumption DEF QueueInv
<1>2. delivery[e].st = "running" /\ ~Over(e)
  BY <1>1 DEF MayCommit, HoldsFence, Over, QueueInv, OnlyFullQueued
<1>3. Over(e)'
  <2>1. [delivery[e] EXCEPT !.st = "delivered", !.lapsed = FALSE].st = "delivered"
    BY <1>1 DEF TypeOK, DeliveryRow
  <2>2. delivery' = [delivery EXCEPT ![e] = [delivery[e] EXCEPT !.st = "delivered", !.lapsed = FALSE]]
    BY <1>1 DEF Commit, EndAttempt, TypeOK
  <2> QED BY <1>1, <2>1, <2>2 DEF TypeOK, Over
<1>4. Accounted(e, u)' BY <1>1, CommitFate
<1>5. ~Archived(e, u) BY <1>1, <1>2 DEF FateInv, Accounted
<1>6. ~Archived(e, u)'
  <2>1. CASE u \notin ShownBy(w) BY <1>1, <1>5, <2>1, CommitTables DEF Archived
  <2>2. CASE u \in ShownBy(w)
    <3>1. work[w].out[u].seq = inbox[u].next /\ inbox[u].next \in Nat \ {0}
      BY <1>1, <2>2, ShowsNext DEF TypeOK, InboxRow
    <3>2. \A f \in Events : note[f][u].seq \in Nat /\ note[f][u].seq < inbox[u].next
      BY <1>1 DEF TypeOK, NoteRow, SeqInv, NumbersInv
    <3>3. /\ DOMAIN ns = Events /\ \A f \in Events \ {e} : ns[f] = note[f][u]
          /\ ns[e].seq = inbox[u].next
      BY <1>1, <2>2, <3>1 DEF Delivered, ShownBy
    <3>4. Newer(ns, e) = {} BY <3>1, <3>2, <3>3 DEF Newer
    <3>5. e \notin OverCap(ns)
      <4>1. Cardinality(Newer(ns, e)) = 0 BY <3>4, FS_EmptySet
      <4> QED BY <4>1, OutboxAssumption DEF OverCap
    <3>6. receipt'[e][u] = receipt[e][u] BY <1>1, <3>5, CommitTables
    <3> QED BY <1>5, <3>6 DEF Archived
  <2> QED BY <2>1, <2>2
<1> QED BY <1>2, <1>3, <1>4, <1>6 DEF Accounted, FateOf

FateKinds == {"none", "shown", "archived", "withheld"}
Aging(f) == IF f = "shown" THEN {"shown", "archived"} ELSE {f}

\* what a step does to the fate of a notification
LEMMA FateMoves ==
    ASSUME QueueInv, SeqInv, FateInv, StrangersInv, Next, NEW e \in Events, NEW u \in Users
    PROVE  IF Serving(e) /\ u \in Audience[e]
           THEN FateOf(e, u) = "none" /\ FateOf(e, u)' \in {"shown", "withheld"}
           ELSE FateOf(e, u)' \in Aging(FateOf(e, u))
<1>1. CASE Serving(e) /\ u \in Audience[e]
  <2>1. PICK w \in Workers : Commit(w) /\ MayCommit(w) /\ work[w].e = e BY <1>1 DEF Serving
  <2>2. ~Over(e) /\ FateOf(e, u)' \in {"shown", "withheld"} BY <1>1, <2>1, Served
  <2>3. FateOf(e, u) = "none" BY <1>1, <2>2 DEF FateInv, Accounted, FateOf
  <2> QED BY <1>1, <2>2, <2>3
<1>2. CASE ~(Serving(e) /\ u \in Audience[e])
  <2>1. /\ Shown(e, u)' => Shown(e, u)
        /\ Archived(e, u)' => Archived(e, u) \/ Shown(e, u)
        /\ Denied(e, u)' => Denied(e, u)
    BY <1>2, Appears
  <2>2. CASE u \notin Audience[e]
    <3>1. FateOf(e, u) = "none" BY <2>2 DEF StrangersInv
    <3>2. FateOf(e, u)' = "none" BY <2>1, <3>1 DEF FateOf
    <3> QED BY <1>2, <3>1, <3>2 DEF Aging
  <2>3. CASE u \in Audience[e]
    <3>1. Accounted(e, u) BY <2>3 DEF FateInv
    <3>2. Accounted(e, u)'
      <4>1. FateInv' BY FateStep
      <4> QED BY <2>3, <4>1 DEF FateInv
    <3>3. Over(e) => Over(e)' BY OverIsFinal
    <3> QED BY <1>2, <2>1, <3>1, <3>2, <3>3 DEF FateOf, Aging, Accounted
  <2> QED BY <2>2, <2>3
<1> QED BY <1>1, <1>2

LEMMA StrangersStep ==
    QueueInv /\ SeqInv /\ FateInv /\ StrangersInv /\ [Next]_vars => StrangersInv'
<1> SUFFICES ASSUME QueueInv, SeqInv, FateInv, StrangersInv, [Next]_vars PROVE StrangersInv'
  OBVIOUS
<1>1. CASE UNCHANGED vars
  BY <1>1 DEF vars, rows, StrangersInv, FateOf, Shown, Archived, Denied
<1>2. CASE Next BY <1>2, FateMoves DEF StrangersInv, Aging
<1> QED BY <1>1, <1>2

\* every step of the outbox is one of the promise: a commit serves its event,
\* trimming, retirement and compaction archive, the rest changes no fate
LEMMA PromiseStep ==
    ASSUME QueueInv, SeqInv, FateInv, StrangersInv, FateInv', StrangersInv', [Next]_vars
    PROVE  [Promise!Next]_Fate
<1>1. Fate = Known /\ Fate' = Known' BY FateIs, FateWillBe
<1>2. \A e \in Events, u \in Users :
         /\ Fate[e][u] = FateOf(e, u)
         /\ Fate'[e][u] = FateOf(e, u)'
  BY <1>1 DEF Known
<1>3. Fate' \in [Events -> [Users -> FateKinds]]
  BY <1>1 DEF Known, FateOf, FateKinds
<1>4. CASE UNCHANGED vars
  <2>1. UNCHANGED Known
    BY <1>4 DEF vars, rows, Known, FateOf, Shown, Archived, Denied
  <2> QED BY <1>1, <2>1
<1>5. CASE Next /\ \E e \in Events : Serving(e)
  <2>1. PICK w \in Workers, e \in Events : Commit(w) /\ MayCommit(w) /\ work[w].e = e
    BY <1>5 DEF Serving
  <2>2. \A f \in Events : Serving(f) => f = e
    <3>1. ASSUME NEW v \in Workers, Commit(v), MayCommit(v), v # w PROVE FALSE
      <4>1. TypeOK BY DEF QueueInv
      <4>2. work'[w] = work[w] BY <3>1, <4>1 DEF Commit, TypeOK
      <4>3. work'[w] = Idle BY <2>1, <4>1 DEF Commit, TypeOK
      <4> QED BY <2>1, <4>2, <4>3 DEF Commit, Idle
    <3> QED BY <2>1, <3>1 DEF Serving
  <2>3. Serving(e) BY <2>1 DEF Serving
  <2>4. \A u \in Users : Fate[e][u] = "none"
    <3>1. ASSUME NEW u \in Audience[e] PROVE FateOf(e, u) = "none"
      <4>1. u \in Users BY OutboxAssumption
      <4> QED BY <1>5, <2>3, <3>1, <4>1, FateMoves
    <3>2. \A u \in Users \ Audience[e] : FateOf(e, u) = "none" BY DEF StrangersInv
    <3> QED BY <1>2, <3>1, <3>2
  <2>5. \A f \in Events, u \in Users :
          Fate'[f][u] \in IF f = e /\ u \in Audience[e] THEN {"shown", "withheld"}
                          ELSE Aging(Fate[f][u])
    BY <1>2, <1>5, <2>2, <2>3, FateMoves
  <2>6. Promise!Serve(e)
    BY <1>3, <2>4, <2>5 DEF Promise!Serve, Promise!Aged, Aging, FateKinds
  <2> QED BY <2>6 DEF Promise!Next
<1>6. CASE Next /\ ~(\E e \in Events : Serving(e))
  <2>1. \A f \in Events, u \in Users : Fate'[f][u] \in Aging(Fate[f][u])
    BY <1>2, <1>6, FateMoves
  <2>2. Promise!Archive BY <1>3, <2>1 DEF Promise!Archive, Promise!Aged, Aging, FateKinds
  <2> QED BY <2>2 DEF Promise!Next
<1> QED BY <1>4, <1>5, <1>6

\* The outbox, with its retries, crashes, trims, retirements and compactions,
\* is an implementation of NotificationPromise: an event is served to its whole
\* audience at once and nothing shown is lost but to the archive
\* (run_consumer_and_finalize, retire_notification_by_id, compact_event)
THEOREM Promised == Spec => PromiseKept
<1>1. Init => Promise!Init
  <2> SUFFICES ASSUME Init PROVE Promise!Init OBVIOUS
  <2>1. Fate = Known BY FateIs, InitFate, InitStrangers
  <2>2. \A e \in Events, u \in Users : FateOf(e, u) = "none"
    BY DEF Init, FateOf, Shown, NoNote, Archived, Denied
  <2> QED BY <2>1, <2>2 DEF Known, Promise!Init
<1>2. QueueInv /\ SeqInv /\ FateInv /\ StrangersInv /\ FateInv' /\ StrangersInv' /\ [Next]_vars
        => [Promise!Next]_Fate
  BY PromiseStep
<1> QED BY <1>1, <1>2, InitFate, FateStep, InitStrangers, StrangersStep, QueueAlways, SeqAlways,
           PTL DEF Spec, PromiseKept, Promise!Spec

\* What users are promised of their inbox, together: no note for the retired, the
\* cap, the numbers and the fates (_trim_over_cap, _materialize_new, _read_all_in,
\* _apply_retirement_work)
THEOREM Notes == Spec => NotesKept
<1>1. Spec => []NoNoteForRetired BY Retired
<1>2. Spec => []WithinCap BY Capped
<1>3. Spec => SequencesGrow BY Sequences
<1>4. Spec => PromiseKept BY Promised
<1> QED BY <1>1, <1>2, <1>3, <1>4, PTL DEF NotesKept

-----------------------------------------------------------------------------
(* Submissions *)

Persons  == {"member", "moved", "pending_delete", "deleted"}
Stages   == {"none", "storing", "lost", "pending", "withdrawn", "rejected", "invalidated",
             "approved", "deleted"}
SubRow   == [status : Stages, owner : Submitters \cup {"none"}, space : SharedSpaces \cup {"none"},
             file : SubmissionFiles \cup {"none"}, private : BOOLEAN, requested : Nat,
             cleaned : BOOLEAN, overtook : BOOLEAN, lapsed : BOOLEAN]
Notices  == [submission : SubmissionIds, event : {"approved", "rejected", "invalidated"}]

SubmissionTypeOK ==
    /\ people \in [Submitters -> Persons]
    /\ change \in [Submitters -> [to : Persons \cup {"none"}, rows : SUBSET SubmissionIds]]
    /\ subs \in [SubmissionIds -> SubRow]
    /\ review \in [SubmissionIds -> {"none", "checked", "copied"}]
    /\ published \in [SubmissionIds -> [document : BOOLEAN, object : BOOLEAN]]
    /\ dedup \in [SharedSpaces \X SubmissionFiles -> SubmissionIds \cup {NoClaim}]
    /\ notices \subseteq Notices
    /\ storageFaults \in Nat

\* A submission that began has an owner, a space and a file
Named ==
    \A s \in SubmissionIds : subs[s].status # "none" =>
        subs[s].owner \in Submitters /\ subs[s].space \in SharedSpaces /\ subs[s].file \in SubmissionFiles

\* A row under review is pending and no identity change has it; what was copied is there
Reviewed ==
    \A s \in SubmissionIds : review[s] # "none" =>
        /\ subs[s].status = "pending" /\ \A u \in Submitters : s \notin change[u].rows
        /\ review[s] = "copied" => published[s].object

\* A change has pending rows of its person, and all of them but those inserted
\* since it began; the end of a deletion has none and needs none
Changing ==
    \A u \in Submitters :
        /\ change[u].rows \subseteq PendingOf(u)
        /\ change[u].to = "none" => change[u].rows = {}
        /\ change[u].to = "deleted" => people[u] = "pending_delete" /\ change[u].rows = {}
        /\ change[u].to \notin {"none", "deleted"} =>
              \A s \in PendingOf(u) \ change[u].rows : subs[s].overtook

\* What was announced of a submission is how it ended, and is announced
Announced(s) ==
    /\ \A n \in notices : n.submission = s => n.event = subs[s].status \/ subs[s].status = "deleted"
    /\ subs[s].status \in {"approved", "rejected", "invalidated"} =>
          \E n \in notices : n.submission = s /\ n.event = subs[s].status
    /\ subs[s].status \in {"pending", "rejected", "storing"} /\ storageFaults = 0 => subs[s].private

\* Only an approval notes that its submitter has lost the right
Lapsed == \A s \in SubmissionIds : subs[s].lapsed => subs[s].overtook /\ subs[s].status = "approved"

SubmissionInv ==
    /\ SubmissionTypeOK /\ Named /\ Reviewed /\ Changing
    /\ OneDocumentPerFile /\ Lapsed /\ PendingIsAllowed
    /\ \A s \in SubmissionIds : Announced(s)

LEMMA SubmissionBegins == SubmissionInit => SubmissionInv
<1> SUFFICES ASSUME SubmissionInit PROVE SubmissionInv OBVIOUS
<1>1. NotSubmitted \in SubRow /\ NotSubmitted.status = "none" /\ ~NotSubmitted.lapsed
  BY DEF NotSubmitted, Row, SubRow, Stages
<1>2. /\ NoChange \in [to : Persons \cup {"none"}, rows : SUBSET SubmissionIds]
      /\ NoChange.to = "none" /\ NoChange.rows = {}
  BY DEF NoChange
<1> HIDE DEF NotSubmitted, NoChange
<1>3. /\ \A s \in SubmissionIds : subs[s] = NotSubmitted /\ review[s] = "none" /\ ~published[s].document
      /\ \A u \in Submitters : change[u] = NoChange
      /\ notices = {}
  BY DEF SubmissionInit
<1>4. SubmissionTypeOK
  <2>1. people \in [Submitters -> Persons] BY DEF SubmissionInit, Persons
  <2>2. subs \in [SubmissionIds -> SubRow] BY <1>1 DEF SubmissionInit
  <2>3. change \in [Submitters -> [to : Persons \cup {"none"}, rows : SUBSET SubmissionIds]]
    BY <1>2 DEF SubmissionInit
  <2>4. published \in [SubmissionIds -> [document : BOOLEAN, object : BOOLEAN]]
        /\ review \in [SubmissionIds -> {"none", "checked", "copied"}]
    BY DEF SubmissionInit
  <2>5. dedup \in [SharedSpaces \X SubmissionFiles -> SubmissionIds \cup {NoClaim}]
    BY DEF SubmissionInit
  <2>6. notices \subseteq Notices /\ storageFaults \in Nat BY DEF SubmissionInit
  <2> QED BY <2>1, <2>2, <2>3, <2>4, <2>5, <2>6 DEF SubmissionTypeOK
<1>5. Named /\ Reviewed /\ OneDocumentPerFile /\ Lapsed
  BY <1>1, <1>3 DEF Named, Reviewed, OneDocumentPerFile, Lapsed
<1>6. Changing /\ PendingIsAllowed BY <1>1, <1>2, <1>3 DEF Changing, PendingIsAllowed, InStatus, PendingOf
<1>7. \A s \in SubmissionIds : Announced(s) BY <1>1, <1>3 DEF Announced
<1> QED BY <1>4, <1>5, <1>6, <1>7 DEF SubmissionInv

\* The clock is a number
LEMMA NowTyped == Now \in Nat \ {0}
<1>1. IsFiniteSet({s \in SubmissionIds : subs[s].requested # 0})
  BY SubmissionAssumption, FS_Subset
<1> QED BY <1>1, FS_CardinalityType DEF Now

\* Whether an identity change holds the row
HeldBack(s) == \E u \in Submitters : s \in change[u].rows

\* A step about one submission and no person
LEMMA OneSubmission ==
    ASSUME SubmissionInv, SubmissionTypeOK', NEW s \in SubmissionIds, UNCHANGED <<people, change>>,
           \A t \in SubmissionIds \ {s} :
              subs'[t] = subs[t] /\ review'[t] = review[t] /\ published'[t] = published[t],
           notices \subseteq notices', \A n \in notices' : n \in notices \/ n.submission = s,
           storageFaults' = 0 => storageFaults = 0,
           subs'[s].status # "none" => /\ subs'[s].owner \in Submitters
                                       /\ subs'[s].space \in SharedSpaces
                                       /\ subs'[s].file \in SubmissionFiles,
           HeldBack(s) => subs'[s].status = "pending" /\ subs'[s].owner = subs[s].owner,
           subs'[s].status = "pending" =>
              \/ /\ subs[s].status = "pending" /\ subs'[s].owner = subs[s].owner
                 /\ subs'[s].space = subs[s].space /\ subs'[s].overtook = subs[s].overtook
              \/ /\ subs'[s].overtook \/ CanContribute(people[subs'[s].owner], subs'[s].space)
                 /\ change[subs'[s].owner] # NoChange => subs'[s].overtook,
           review'[s] # "none" => /\ subs'[s].status = "pending" /\ ~HeldBack(s)
                                  /\ review'[s] = "copied" => published'[s].object,
           published'[s].document => /\ subs'[s].status = "approved" /\ published'[s].object
                                     /\ ClaimOf(s)' = s,
           \A t \in SubmissionIds \ {s} : published[t].document => ClaimOf(t)' = t,
           subs'[s].lapsed => subs'[s].overtook /\ subs'[s].status = "approved",
           Announced(s)'
    PROVE  SubmissionInv'
<1>1. Named' BY DEF SubmissionInv, Named
<1>2. Reviewed' BY DEF SubmissionInv, Reviewed, HeldBack
<1>3. OneDocumentPerFile' BY DEF SubmissionInv, OneDocumentPerFile
<1>4. Lapsed' BY DEF SubmissionInv, Lapsed
<1>5. PendingIsAllowed'
  <2> SUFFICES ASSUME NEW t \in SubmissionIds, subs'[t].status = "pending"
               PROVE  Allowed(t)' \/ subs'[t].overtook
    BY DEF PendingIsAllowed, InStatus
  <2>1. CASE t = s /\ subs[s].status # "pending" BY <2>1 DEF Allowed
  <2>2. CASE t # s \/ subs[s].status = "pending"
    <3>1. CASE t = s /\ (subs'[s].overtook \/ CanContribute(people[subs'[s].owner], subs'[s].space))
      BY <3>1 DEF Allowed
    <3>2. CASE /\ subs'[t].owner = subs[t].owner /\ subs'[t].space = subs[t].space
               /\ subs'[t].overtook = subs[t].overtook /\ subs[t].status = "pending"
      BY <3>2 DEF SubmissionInv, PendingIsAllowed, InStatus, Allowed
    <3> QED BY <2>2, <3>1, <3>2
  <2> QED BY <2>1, <2>2
<1>6. Changing'
  <2> SUFFICES ASSUME NEW u \in Submitters
               PROVE  /\ change[u].rows \subseteq PendingOf(u)'
                      /\ change[u].to \notin {"none", "deleted"} =>
                            \A t \in PendingOf(u)' \ change[u].rows : subs'[t].overtook
    BY DEF SubmissionInv, Changing
  <2>1. change[u].rows \subseteq PendingOf(u)'
    <3> SUFFICES ASSUME NEW t \in change[u].rows
                 PROVE  t \in SubmissionIds /\ subs'[t].status = "pending" /\ subs'[t].owner = u
      BY DEF PendingOf, InStatus
    <3>1. t \in SubmissionIds /\ subs[t].status = "pending" /\ subs[t].owner = u
      BY DEF SubmissionInv, Changing, PendingOf, InStatus
    <3> QED BY <3>1 DEF HeldBack
  <2>2. ASSUME change[u].to \notin {"none", "deleted"}, NEW t \in PendingOf(u)' \ change[u].rows
        PROVE  subs'[t].overtook
    <3>1. t \in SubmissionIds /\ subs'[t].status = "pending" /\ subs'[t].owner = u
      BY DEF PendingOf, InStatus
    <3>2. CASE /\ subs'[t].owner = subs[t].owner /\ subs'[t].overtook = subs[t].overtook
               /\ subs[t].status = "pending"
      BY <2>2, <3>1, <3>2 DEF SubmissionInv, Changing, PendingOf, InStatus
    <3>3. CASE t = s /\ (change[subs'[s].owner] # NoChange => subs'[s].overtook)
      BY <2>2, <3>1, <3>3 DEF NoChange
    <3> QED BY <3>1, <3>2, <3>3
  <2> QED BY <2>1, <2>2
<1>7. \A t \in SubmissionIds : Announced(t)'
  <2> SUFFICES ASSUME NEW t \in SubmissionIds, t # s PROVE Announced(t)' OBVIOUS
  <2>1. Announced(t) BY DEF SubmissionInv
  <2>2. subs'[t] = subs[t] /\ \A n \in notices' : n.submission = t => n \in notices OBVIOUS
  <2> QED BY <2>1, <2>2 DEF Announced
<1> QED BY <1>1, <1>2, <1>3, <1>4, <1>5, <1>6, <1>7 DEF SubmissionInv

LEMMA RowSet ==
    ASSUME SubmissionInv, NEW s \in SubmissionIds, NEW row \in SubRow, subs' = [subs EXCEPT ![s] = row]
    PROVE  /\ subs' \in [SubmissionIds -> SubRow] /\ subs'[s] = row
           /\ \A t \in SubmissionIds : t # s => subs'[t] = subs[t]
BY DEF SubmissionInv, SubmissionTypeOK

\* A transition of a row that no review and no change holds, to an end
LEMMA SubmitterSteps ==
    ASSUME SubmissionInv, NEW s \in SubmissionIds,
           \/ \E u \in Submitters, space \in SharedSpaces, file \in SubmissionFiles : Submit(s, u, space, file)
           \/ SubmitCommits(s) \/ SubmitDies(s) \/ Withdraw(s) \/ Delete(s) \/ ObjectLost(s)
    PROVE  SubmissionInv'
<1>0. /\ SubmissionTypeOK /\ subs[s] \in SubRow /\ storageFaults \in Nat /\ Announced(s)
      /\ \A n \in notices : n.event \in {"approved", "rejected", "invalidated"}
  BY DEF SubmissionInv, SubmissionTypeOK, Notices
<1>1. /\ UNCHANGED <<people, change, review, published, dedup, notices>>
      /\ storageFaults' \in Nat
      /\ storageFaults' = 0 => storageFaults = 0
  <2>1. /\ UNCHANGED <<people, change, review, published, dedup, notices>>
        /\ storageFaults' = storageFaults \/ storageFaults' = storageFaults + 1
    <3>1. CASE \E u \in Submitters, space \in SharedSpaces, file \in SubmissionFiles : Submit(s, u, space, file)
      BY <3>1 DEF Submit
    <3>2. CASE SubmitCommits(s) \/ Withdraw(s) BY <3>2 DEF SubmitCommits, Withdraw
    <3>3. CASE SubmitDies(s) \/ ObjectLost(s) BY <3>3 DEF SubmitDies, ObjectLost, OneFault
    <3>4. CASE Delete(s) BY <3>4 DEF Delete, OneFault
    <3> QED BY <3>1, <3>2, <3>3, <3>4
  <2> QED BY <1>0, <2>1
<1>2. subs[s].status # "pending" => ~HeldBack(s) /\ review[s] = "none"
  BY <1>0 DEF SubmissionInv, HeldBack, Changing, PendingOf, InStatus, Reviewed, SubmissionTypeOK
<1>3. RowUnlocked(s) => ~HeldBack(s) /\ review[s] = "none"
  BY DEF RowUnlocked, HeldBack
<1>4. published[s].document => subs[s].status = "approved"
  BY DEF SubmissionInv, OneDocumentPerFile
<1>5. subs[s].status # "none" => /\ subs[s].owner \in Submitters /\ subs[s].space \in SharedSpaces
                                 /\ subs[s].file \in SubmissionFiles
  BY DEF SubmissionInv, Named
<1>6. subs[s].lapsed => subs[s].status = "approved" BY DEF SubmissionInv, Lapsed
<1>7. ASSUME NEW row \in SubRow, subs' = [subs EXCEPT ![s] = row]
      PROVE  /\ SubmissionTypeOK' /\ subs'[s] = row
             /\ \A t \in SubmissionIds \ {s} : subs'[t] = subs[t]
             /\ \A t \in SubmissionIds \ {s} : published[t].document => ClaimOf(t)' = t
  <2>1. /\ subs' \in [SubmissionIds -> SubRow] /\ subs'[s] = row
        /\ \A t \in SubmissionIds : t # s => subs'[t] = subs[t]
    BY <1>7, RowSet
  <2>2. SubmissionTypeOK'
    <3>1. /\ people' = people /\ change' = change /\ review' = review /\ published' = published
          /\ dedup' = dedup /\ notices' = notices
      BY <1>1
    <3> QED BY <1>0, <1>1, <2>1, <3>1 DEF SubmissionTypeOK
  <2>3. \A t \in SubmissionIds \ {s} : published[t].document => ClaimOf(t)' = t
    BY <1>1, <2>1 DEF SubmissionInv, OneDocumentPerFile, ClaimOf, Key
  <2> QED BY <2>1, <2>2, <2>3
\* the row as it is left, when it was not approved and is not now
<1>8. ASSUME NEW row \in SubRow, subs' = [subs EXCEPT ![s] = row], subs[s].status # "approved",
             row.status # "none" => /\ row.owner \in Submitters /\ row.space \in SharedSpaces
                                    /\ row.file \in SubmissionFiles,
             row.status # "pending" => ~HeldBack(s) /\ review[s] = "none",
             row.status = "pending" =>
                \/ /\ subs[s].status = "pending" /\ row.owner = subs[s].owner
                   /\ row.space = subs[s].space /\ row.overtook = subs[s].overtook
                \/ /\ ~HeldBack(s) /\ review[s] = "none"
                   /\ row.overtook \/ CanContribute(people[row.owner], row.space)
                   /\ change[row.owner] # NoChange => row.overtook,
             ~row.lapsed,
             \A n \in notices : n.submission = s => n.event = row.status \/ row.status = "deleted",
             row.status \in {"approved", "rejected", "invalidated"} => row.status = subs[s].status,
             row.status \in {"pending", "rejected", "storing"} /\ storageFaults' = 0 => row.private
      PROVE  SubmissionInv'
  <2>1. /\ SubmissionTypeOK' /\ subs'[s] = row
        /\ \A t \in SubmissionIds \ {s} : subs'[t] = subs[t]
        /\ \A t \in SubmissionIds \ {s} : published[t].document => ClaimOf(t)' = t
    BY <1>7, <1>8
  <2>2. Announced(s)' BY <1>0, <1>1, <1>8, <2>1 DEF Announced
  <2>3. review[s] # "none" => ~HeldBack(s) /\ (review[s] = "copied" => published[s].object)
    BY DEF SubmissionInv, Reviewed, HeldBack
  <2>4. ~published[s].document BY <1>4, <1>8
  <2>5. review'[s] # "none" => /\ subs'[s].status = "pending" /\ ~HeldBack(s)
                               /\ review'[s] = "copied" => published'[s].object
    BY <1>1, <1>8, <2>1, <2>3
  <2>6. HeldBack(s) => subs'[s].status = "pending" /\ subs'[s].owner = subs[s].owner
    BY <1>8, <2>1
  <2> QED BY <1>1, <1>8, <2>1, <2>2, <2>4, <2>5, <2>6, OneSubmission
<1>9. ASSUME NEW u \in Submitters, NEW space \in SharedSpaces, NEW file \in SubmissionFiles,
             Submit(s, u, space, file)
      PROVE  SubmissionInv'
  <2> DEFINE row == Row("storing", u, space, file, TRUE)
  <2>1. row \in SubRow BY DEF Row, SubRow, Stages
  <2>2. /\ row.status = "storing" /\ row.owner = u /\ row.space = space /\ row.file = file
        /\ row.private /\ ~row.lapsed
    BY DEF Row
  <2>3. subs[s].status = "none" /\ subs' = [subs EXCEPT ![s] = row] BY <1>9 DEF Submit
  <2>4. \A n \in notices : n.submission # s BY <1>0, <2>3 DEF Announced
  <2> HIDE DEF row
  <2> QED BY <1>2, <1>8, <2>1, <2>2, <2>3, <2>4
<1>10. CASE SubmitCommits(s)
  <2> DEFINE u     == subs[s].owner
             late  == change[u] # NoChange \/ ~Allowed(s)
             row   == [subs[s] EXCEPT !.status = "pending", !.overtook = late]
  <2>1. subs[s].status = "storing" /\ subs' = [subs EXCEPT ![s] = row] /\ storageFaults' = storageFaults
    BY <1>0, <1>10 DEF SubmitCommits, SubRow
  <2>2. late \in BOOLEAN OBVIOUS
  <2>3. /\ row \in SubRow /\ row.status = "pending" /\ row.overtook = late /\ row.owner = u
        /\ row.space = subs[s].space /\ row.file = subs[s].file /\ row.private = subs[s].private
        /\ row.lapsed = subs[s].lapsed
    BY <1>0, <2>2 DEF SubRow, Stages
  <2>4. ~late => CanContribute(people[u], subs[s].space) /\ change[u] = NoChange BY DEF Allowed
  <2>5. \A n \in notices : n.submission # s BY <1>0, <2>1 DEF Announced
  <2>6. storageFaults' = 0 => subs[s].private BY <1>0, <2>1 DEF Announced
  <2> HIDE DEF row, late
  <2> QED BY <1>2, <1>5, <1>6, <1>8, <2>1, <2>3, <2>4, <2>5, <2>6
<1>11. CASE SubmitDies(s)
  <2> DEFINE row == [subs[s] EXCEPT !.status = "lost"]
  <2>1. subs[s].status = "storing" /\ subs' = [subs EXCEPT ![s] = row]
    BY <1>0, <1>11 DEF SubmitDies, SubRow
  <2>2. /\ row \in SubRow /\ row.status = "lost" /\ row.owner = subs[s].owner
        /\ row.space = subs[s].space /\ row.file = subs[s].file /\ row.lapsed = subs[s].lapsed
    BY <1>0 DEF SubRow, Stages
  <2>3. \A n \in notices : n.submission # s BY <1>0, <2>1 DEF Announced
  <2> HIDE DEF row
  <2> QED BY <1>2, <1>5, <1>6, <1>8, <2>1, <2>2, <2>3
<1>12. CASE Withdraw(s)
  <2> DEFINE row == [subs[s] EXCEPT !.status = "withdrawn", !.requested = Now]
  <2>1. subs[s].status = "pending" /\ RowUnlocked(s) /\ subs' = [subs EXCEPT ![s] = row]
    BY <1>0, <1>12 DEF Withdraw, SubRow
  <2>2. /\ row \in SubRow /\ row.status = "withdrawn" /\ row.owner = subs[s].owner
        /\ row.space = subs[s].space /\ row.file = subs[s].file /\ row.lapsed = subs[s].lapsed
    BY <1>0, NowTyped DEF SubRow, Stages
  <2>3. \A n \in notices : n.submission # s BY <1>0, <2>1 DEF Announced
  <2> HIDE DEF row
  <2> QED BY <1>3, <1>5, <1>6, <1>8, <2>1, <2>2, <2>3
<1>13. CASE Delete(s)
  <2>1. subs[s].status \in {"rejected", "withdrawn", "invalidated"} /\ RowUnlocked(s)
    BY <1>13 DEF Delete
  <2>2. CASE subs' = [subs EXCEPT ![s].status = "deleted", ![s].private = FALSE]
    <3> DEFINE row == [subs[s] EXCEPT !.status = "deleted", !.private = FALSE]
    <3>1. subs' = [subs EXCEPT ![s] = row] BY <1>0, <2>2 DEF SubRow
    <3>2. /\ row \in SubRow /\ row.status = "deleted" /\ row.owner = subs[s].owner
          /\ row.space = subs[s].space /\ row.file = subs[s].file /\ row.lapsed = subs[s].lapsed
      BY <1>0 DEF SubRow, Stages
    <3> HIDE DEF row
    <3> QED BY <1>3, <1>5, <1>6, <1>8, <2>1, <3>1, <3>2
  <2>3. CASE OneFault /\ subs' = [subs EXCEPT ![s].private = FALSE]
    <3> DEFINE row == [subs[s] EXCEPT !.private = FALSE]
    <3>1. subs' = [subs EXCEPT ![s] = row] /\ storageFaults' # 0 BY <1>0, <2>3 DEF SubRow, OneFault
    <3>2. /\ row \in SubRow /\ row.status = subs[s].status /\ row.owner = subs[s].owner
          /\ row.space = subs[s].space /\ row.file = subs[s].file /\ row.lapsed = subs[s].lapsed
      BY <1>0 DEF SubRow, Stages
    <3>3. \A n \in notices : n.submission = s => n.event = subs[s].status
      BY <1>0, <2>1 DEF Announced
    <3> HIDE DEF row
    <3> QED BY <1>3, <1>5, <1>6, <1>8, <2>1, <3>1, <3>2, <3>3
  <2> QED BY <1>13, <2>2, <2>3 DEF Delete
<1>14. CASE ObjectLost(s)
  <2> DEFINE row == [subs[s] EXCEPT !.private = FALSE]
  <2>1. subs[s].status = "pending" /\ subs' = [subs EXCEPT ![s] = row] /\ storageFaults' # 0
    BY <1>0, <1>14 DEF ObjectLost, SubRow, OneFault
  <2>2. /\ row \in SubRow /\ row.status = "pending" /\ row.owner = subs[s].owner
        /\ row.space = subs[s].space /\ row.file = subs[s].file /\ row.lapsed = subs[s].lapsed
        /\ row.overtook = subs[s].overtook
    BY <1>0, <2>1 DEF SubRow, Stages
  <2>3. \A n \in notices : n.submission # s BY <1>0, <2>1 DEF Announced
  <2> HIDE DEF row
  <2> QED BY <1>5, <1>6, <1>8, <2>1, <2>2, <2>3
<1> QED BY <1>9, <1>10, <1>11, <1>12, <1>13, <1>14

\* A reviewer ends a pending submission: rejected or invalidated, and announced
LEMMA ReviewEnds ==
    ASSUME SubmissionInv, NEW s \in SubmissionIds, NEW end \in {"rejected", "invalidated"}, NEW time \in Nat,
           subs[s].status = "pending", ~HeldBack(s),
           subs' = [subs EXCEPT ![s] = [subs[s] EXCEPT !.status = end, !.requested = time]],
           Notify(s, end), review' = [review EXCEPT ![s] = "none"],
           UNCHANGED <<people, change, published, dedup, storageFaults>>
    PROVE  SubmissionInv'
<1> DEFINE row == [subs[s] EXCEPT !.status = end, !.requested = time]
           word == [submission |-> s, event |-> end]
<1>0. /\ SubmissionTypeOK /\ subs[s] \in SubRow /\ Announced(s)
      /\ \A n \in notices : n.event \in {"approved", "rejected", "invalidated"}
  BY DEF SubmissionInv, SubmissionTypeOK, Notices
<1>1. /\ row \in SubRow /\ row.status = end /\ row.owner = subs[s].owner
      /\ row.space = subs[s].space /\ row.file = subs[s].file /\ row.lapsed = subs[s].lapsed
      /\ row.private = subs[s].private
  BY <1>0 DEF SubRow, Stages
<1>2. word \in Notices /\ word.submission = s /\ word.event = end BY DEF Notices
<1>3. notices' = notices \cup {word} BY DEF Notify
<1> HIDE DEF row, word
<1>4. /\ subs' \in [SubmissionIds -> SubRow] /\ subs'[s] = row
      /\ \A t \in SubmissionIds : t # s => subs'[t] = subs[t]
  BY <1>1, RowSet DEF row
<1>5. /\ review' \in [SubmissionIds -> {"none", "checked", "copied"}] /\ review'[s] = "none"
      /\ \A t \in SubmissionIds : t # s => review'[t] = review[t]
  BY <1>0 DEF SubmissionTypeOK
<1>6. SubmissionTypeOK'
  <2>1. notices' \subseteq Notices BY <1>0, <1>2, <1>3 DEF SubmissionTypeOK
  <2> QED BY <1>0, <1>4, <1>5, <2>1 DEF SubmissionTypeOK
<1>7. \A n \in notices : n.submission # s BY <1>0 DEF Announced
<1>8. Announced(s)'
  <2>1. \A n \in notices' : n.submission = s => n.event = end BY <1>2, <1>3, <1>7
  <2>2. word \in notices' BY <1>3
  <2>3. storageFaults' = 0 => subs[s].private BY <1>0 DEF Announced
  <2> QED BY <1>1, <1>2, <1>4, <2>1, <2>2, <2>3 DEF Announced
<1>9. /\ ~published[s].document /\ ~subs[s].lapsed
      /\ subs[s].owner \in Submitters /\ subs[s].space \in SharedSpaces /\ subs[s].file \in SubmissionFiles
  BY DEF SubmissionInv, OneDocumentPerFile, Lapsed, Named
<1>10. \A t \in SubmissionIds \ {s} : published[t].document => ClaimOf(t)' = t
  BY <1>4 DEF SubmissionInv, OneDocumentPerFile, ClaimOf, Key
<1>11. \A n \in notices' : n \in notices \/ n.submission = s BY <1>2, <1>3
<1> QED BY <1>1, <1>3, <1>4, <1>5, <1>6, <1>8, <1>9, <1>10, <1>11, OneSubmission

LEMMA Invalidating ==
    ASSUME SubmissionInv, NEW s \in SubmissionIds, subs[s].status = "pending", ~HeldBack(s),
           Invalidate(s), review' = [review EXCEPT ![s] = "none"],
           UNCHANGED <<people, change, published, dedup, storageFaults>>
    PROVE  SubmissionInv'
<1>1. subs' = [subs EXCEPT ![s] = [subs[s] EXCEPT !.status = "invalidated", !.requested = Now]]
  BY DEF Invalidate, SubmissionInv, SubmissionTypeOK, SubRow
<1> QED BY <1>1, NowTyped, ReviewEnds DEF Invalidate

\* A step of a review that changes neither the row nor what was announced
LEMMA Reviewing ==
    ASSUME SubmissionInv, NEW s \in SubmissionIds, NEW step \in {"none", "checked", "copied"},
           NEW doc \in [document : BOOLEAN, object : BOOLEAN],
           subs[s].status = "pending", ~HeldBack(s), ~doc.document,
           step = "copied" => doc.object,
           review' = [review EXCEPT ![s] = step], published' = [published EXCEPT ![s] = doc],
           storageFaults' \in Nat, storageFaults' = 0 => storageFaults = 0,
           UNCHANGED <<people, change, subs, dedup, notices>>
    PROVE  SubmissionInv'
<1>1. SubmissionTypeOK /\ Announced(s) BY DEF SubmissionInv
<1>2. /\ review' \in [SubmissionIds -> {"none", "checked", "copied"}] /\ review'[s] = step
      /\ published' \in [SubmissionIds -> [document : BOOLEAN, object : BOOLEAN]] /\ published'[s] = doc
      /\ \A t \in SubmissionIds : t # s => review'[t] = review[t] /\ published'[t] = published[t]
  BY <1>1 DEF SubmissionTypeOK
<1>3. SubmissionTypeOK' BY <1>1, <1>2 DEF SubmissionTypeOK
<1>4. Announced(s)' BY <1>1 DEF Announced
<1>5. /\ ~subs[s].lapsed
      /\ subs[s].owner \in Submitters /\ subs[s].space \in SharedSpaces /\ subs[s].file \in SubmissionFiles
  BY DEF SubmissionInv, Lapsed, Named
<1>6. \A t \in SubmissionIds \ {s} : published[t].document => ClaimOf(t)' = t
  BY DEF SubmissionInv, OneDocumentPerFile, ClaimOf, Key
<1> QED BY <1>2, <1>3, <1>4, <1>5, <1>6, OneSubmission

LEMMA ReviewerSteps ==
    ASSUME SubmissionInv, NEW s \in SubmissionIds,
           Reject(s) \/ BeginApproval(s) \/ CopyObject(s) \/ ApprovalDies(s)
    PROVE  SubmissionInv'
<1>0. /\ subs[s] \in SubRow /\ review \in [SubmissionIds -> {"none", "checked", "copied"}]
      /\ published \in [SubmissionIds -> [document : BOOLEAN, object : BOOLEAN]]
      /\ storageFaults \in Nat
  BY DEF SubmissionInv, SubmissionTypeOK
<1>1. RowUnlocked(s) => ~HeldBack(s) /\ review = [review EXCEPT ![s] = "none"]
  BY <1>0 DEF RowUnlocked, HeldBack
<1>2. review[s] # "none" => subs[s].status = "pending" /\ ~HeldBack(s)
  BY DEF SubmissionInv, Reviewed, HeldBack
<1>3. subs[s].status = "pending" => ~published[s].document
  BY DEF SubmissionInv, OneDocumentPerFile
<1>4. published = [published EXCEPT ![s] = published[s]] /\ published[s] \in [document : BOOLEAN, object : BOOLEAN]
  BY <1>0
<1>5. CASE Reject(s)
  <2>1. /\ subs[s].status = "pending" /\ RowUnlocked(s)
        /\ UNCHANGED <<people, change, review, published, dedup, storageFaults>>
    BY <1>5 DEF Reject
  <2>2. CASE Invalidate(s) BY <1>1, <2>1, <2>2, Invalidating
  <2>3. CASE subs' = [subs EXCEPT ![s].status = "rejected"] /\ Notify(s, "rejected")
    <3>1. /\ subs' = [subs EXCEPT ![s] = [subs[s] EXCEPT !.status = "rejected", !.requested = subs[s].requested]]
          /\ subs[s].requested \in Nat
      BY <1>0, <2>3 DEF SubRow
    <3> QED BY <1>1, <2>1, <2>3, <3>1, ReviewEnds
  <2> QED BY <1>5, <2>2, <2>3 DEF Reject
<1>6. CASE BeginApproval(s)
  <2>1. /\ subs[s].status = "pending" /\ RowUnlocked(s)
        /\ UNCHANGED <<people, change, published, dedup, storageFaults>>
    BY <1>6 DEF BeginApproval, MayApprove
  <2>2. CASE Invalidate(s) /\ UNCHANGED review BY <1>1, <2>1, <2>2, Invalidating
  <2>3. CASE review' = [review EXCEPT ![s] = "checked"] /\ UNCHANGED <<subs, notices>>
    BY <1>0, <1>1, <1>3, <1>4, <2>1, <2>3, Reviewing
  <2> QED BY <1>6, <2>2, <2>3 DEF BeginApproval
<1>7. CASE CopyObject(s)
  <2>1. review[s] = "checked" /\ UNCHANGED <<people, change, dedup, storageFaults>>
    BY <1>7 DEF CopyObject
  <2>2. CASE /\ review' = [review EXCEPT ![s] = "copied"]
             /\ published' = [published EXCEPT ![s].object = TRUE]
             /\ UNCHANGED <<subs, notices>>
    <3> DEFINE doc == [published[s] EXCEPT !.object = TRUE]
    <3>1. /\ doc \in [document : BOOLEAN, object : BOOLEAN] /\ doc.object
          /\ doc.document = published[s].document
      BY <1>4
    <3>2. published' = [published EXCEPT ![s] = doc] BY <1>0, <2>2
    <3> HIDE DEF doc
    <3> QED BY <1>0, <1>2, <1>3, <2>1, <2>2, <3>1, <3>2, Reviewing
  <2>3. CASE review' = [review EXCEPT ![s] = "none"] /\ Invalidate(s) /\ UNCHANGED published
    BY <1>2, <2>1, <2>3, Invalidating
  <2> QED BY <1>7, <2>2, <2>3 DEF CopyObject
<1>8. CASE ApprovalDies(s)
  <2>1. /\ review[s] # "none" /\ storageFaults' = storageFaults + 1
        /\ review' = [review EXCEPT ![s] = "none"]
        /\ UNCHANGED <<people, change, subs, published, dedup, notices>>
    BY <1>8 DEF ApprovalDies, OneFault
  <2>2. storageFaults' \in Nat /\ storageFaults' # 0 BY <1>0, <2>1
  <2> QED BY <1>2, <1>3, <1>4, <2>1, <2>2, Reviewing
<1> QED BY <1>5, <1>6, <1>7, <1>8

LEMMA Approving ==
    ASSUME SubmissionInv, NEW s \in SubmissionIds, CommitApproval(s) PROVE SubmissionInv'
<1>0. /\ SubmissionTypeOK /\ subs[s] \in SubRow /\ Announced(s)
      /\ \A n \in notices : n.event \in {"approved", "rejected", "invalidated"}
      /\ published[s] \in [document : BOOLEAN, object : BOOLEAN]
      /\ storageFaults \in Nat
  BY DEF SubmissionInv, SubmissionTypeOK, Notices
<1>1. /\ review[s] = "copied" /\ review' = [review EXCEPT ![s] = "none"]
      /\ UNCHANGED <<people, change, storageFaults>>
  BY DEF CommitApproval
<1>2. subs[s].status = "pending" /\ ~HeldBack(s) /\ published[s].object
  BY <1>1 DEF SubmissionInv, Reviewed, HeldBack
<1>3. /\ ~published[s].document
      /\ subs[s].owner \in Submitters /\ subs[s].space \in SharedSpaces /\ subs[s].file \in SubmissionFiles
  BY <1>2 DEF SubmissionInv, OneDocumentPerFile, Named
<1>4. CASE /\ ~WinsClaim(s)
           /\ published' = [published EXCEPT ![s].object = FALSE]
           /\ UNCHANGED <<subs, dedup, notices>>
  <2> DEFINE doc == [published[s] EXCEPT !.object = FALSE]
  <2>1. /\ doc \in [document : BOOLEAN, object : BOOLEAN] /\ doc.document = published[s].document
    BY <1>0
  <2>2. published' = [published EXCEPT ![s] = doc] BY <1>0, <1>4 DEF SubmissionTypeOK
  <2> HIDE DEF doc
  <2> QED BY <1>0, <1>1, <1>2, <1>3, <1>4, <2>1, <2>2, Reviewing
<1>5. CASE /\ WinsClaim(s)
           /\ published' = [published EXCEPT ![s].document = TRUE]
           /\ dedup' = [dedup EXCEPT ![Key(s)] = s]
           /\ subs' = [subs EXCEPT ![s].status = "approved", ![s].requested = Now,
                                   ![s].lapsed = ~Allowed(s)]
           /\ Notify(s, "approved")
  <2> DEFINE row == [subs[s] EXCEPT !.status = "approved", !.requested = Now, !.lapsed = ~Allowed(s)]
             doc == [published[s] EXCEPT !.document = TRUE]
             word == [submission |-> s, event |-> "approved"]
  <2>0. Now \in Nat BY NowTyped
  <2>1. (~Allowed(s)) \in BOOLEAN OBVIOUS
  <2>2. /\ row \in SubRow /\ row.status = "approved" /\ row.owner = subs[s].owner
        /\ row.space = subs[s].space /\ row.file = subs[s].file /\ row.lapsed = ~Allowed(s)
        /\ row.overtook = subs[s].overtook
    BY <1>0, <2>0, <2>1 DEF SubRow, Stages
  <2>3. subs' = [subs EXCEPT ![s] = row] BY <1>0, <1>5 DEF SubRow, SubmissionTypeOK
  <2>4. /\ doc \in [document : BOOLEAN, object : BOOLEAN] /\ doc.document /\ doc.object
    BY <1>0, <1>2
  <2>5. published' = [published EXCEPT ![s] = doc] BY <1>0, <1>5 DEF SubmissionTypeOK
  <2>6. word \in Notices /\ word.submission = s /\ word.event = "approved" BY DEF Notices
  <2>7. notices' = notices \cup {word} BY <1>5 DEF Notify
  <2>8. ~Allowed(s) => subs[s].overtook BY <1>2 DEF SubmissionInv, PendingIsAllowed, InStatus
  <2> HIDE DEF row, doc, word
  <2>9. /\ subs' \in [SubmissionIds -> SubRow] /\ subs'[s] = row
        /\ \A t \in SubmissionIds : t # s => subs'[t] = subs[t]
    BY <2>2, <2>3, RowSet
  <2>10. /\ review' \in [SubmissionIds -> {"none", "checked", "copied"}] /\ review'[s] = "none"
         /\ published' \in [SubmissionIds -> [document : BOOLEAN, object : BOOLEAN]] /\ published'[s] = doc
         /\ \A t \in SubmissionIds : t # s => review'[t] = review[t] /\ published'[t] = published[t]
    BY <1>0, <1>1, <2>4, <2>5 DEF SubmissionTypeOK
  <2>11. Key(s) \in SharedSpaces \X SubmissionFiles BY <1>3 DEF Key
  <2>12. /\ dedup' \in [SharedSpaces \X SubmissionFiles -> SubmissionIds \cup {NoClaim}]
         /\ dedup'[Key(s)] = s /\ \A k \in SharedSpaces \X SubmissionFiles : k # Key(s) => dedup'[k] = dedup[k]
    BY <1>0, <1>5, <2>11 DEF SubmissionTypeOK
  <2>13. SubmissionTypeOK'
    <3>1. notices' \subseteq Notices BY <1>0, <2>6, <2>7 DEF SubmissionTypeOK
    <3> QED BY <1>0, <1>1, <2>9, <2>10, <2>12, <3>1 DEF SubmissionTypeOK
  <2>14. Announced(s)'
    <3>1. \A n \in notices : n.submission # s BY <1>0, <1>2 DEF Announced
    <3>2. \A n \in notices' : n.submission = s => n.event = "approved" BY <2>6, <2>7, <3>1
    <3>3. word \in notices' BY <2>7
    <3> QED BY <2>2, <2>6, <2>9, <3>2, <3>3 DEF Announced
  <2>15. ClaimOf(s)' = s BY <2>2, <2>9, <2>12 DEF ClaimOf, Key
  <2>16. ASSUME NEW t \in SubmissionIds \ {s}, published[t].document PROVE ClaimOf(t)' = t
    <3>1. ClaimOf(t) = t /\ subs[t].status = "approved"
      BY <2>16 DEF SubmissionInv, OneDocumentPerFile
    <3>2. Key(t) \in SharedSpaces \X SubmissionFiles BY <3>1 DEF SubmissionInv, Named, Key
    <3>3. Key(t) # Key(s)
      <4>1. dedup[Key(s)] = "none" BY <1>5 DEF WinsClaim, ClaimOf, NoClaim
      <4> QED BY <3>1, <4>1, SubmissionAssumption DEF ClaimOf
    <3>4. Key(t)' = Key(t) BY <2>9 DEF Key
    <3> QED BY <2>12, <3>1, <3>2, <3>3, <3>4 DEF ClaimOf
  <2>17. \A n \in notices' : n \in notices \/ n.submission = s BY <2>6, <2>7
  <2> QED BY ZenonT(40), <1>1, <1>2, <1>3, <2>2, <2>4, <2>7, <2>8, <2>9, <2>10, <2>13, <2>14, <2>15, <2>16, <2>17,
             OneSubmission
<1> QED BY <1>4, <1>5 DEF CommitApproval

LEMMA DeletingDocument ==
    ASSUME SubmissionInv, NEW s \in SubmissionIds, DeleteDocument(s) PROVE SubmissionInv'
<1> DEFINE doc == [document |-> FALSE, object |-> FALSE]
<1>0. SubmissionTypeOK /\ Announced(s) BY DEF SubmissionInv
<1>1. /\ published[s].document /\ published' = [published EXCEPT ![s] = doc]
      /\ dedup' = [dedup EXCEPT ![Key(s)] = IF dedup[Key(s)] = s THEN NoClaim ELSE dedup[Key(s)]]
      /\ UNCHANGED <<people, change, subs, review, notices, storageFaults>>
  BY DEF DeleteDocument
<1>2. subs[s].status = "approved" /\ ClaimOf(s) = s
  BY <1>1 DEF SubmissionInv, OneDocumentPerFile
<1>3. /\ subs[s].owner \in Submitters /\ subs[s].space \in SharedSpaces /\ subs[s].file \in SubmissionFiles
      /\ ~HeldBack(s) /\ review[s] = "none" /\ (subs[s].lapsed => subs[s].overtook)
  BY <1>0, <1>2 DEF SubmissionInv, Named, Changing, PendingOf, InStatus, HeldBack, Reviewed, Lapsed,
     SubmissionTypeOK
<1>4. Key(s) \in SharedSpaces \X SubmissionFiles BY <1>3 DEF Key
<1>5. /\ dedup' \in [SharedSpaces \X SubmissionFiles -> SubmissionIds \cup {NoClaim}]
      /\ \A k \in SharedSpaces \X SubmissionFiles : dedup[k] # s => dedup'[k] = dedup[k]
  BY <1>0, <1>1, <1>4 DEF SubmissionTypeOK
<1>6. /\ published' \in [SubmissionIds -> [document : BOOLEAN, object : BOOLEAN]] /\ ~published'[s].document
      /\ \A t \in SubmissionIds : t # s => published'[t] = published[t]
  BY <1>0, <1>1 DEF SubmissionTypeOK
<1>7. SubmissionTypeOK' BY <1>0, <1>1, <1>5, <1>6 DEF SubmissionTypeOK
<1>8. ASSUME NEW t \in SubmissionIds \ {s}, published[t].document PROVE ClaimOf(t)' = t
  <2>1. ClaimOf(t) = t /\ subs[t].status = "approved"
    BY <1>8 DEF SubmissionInv, OneDocumentPerFile
  <2>2. Key(t) \in SharedSpaces \X SubmissionFiles BY <2>1 DEF SubmissionInv, Named, Key
  <2>3. Key(t)' = Key(t) BY <1>1 DEF Key
  <2> QED BY <1>5, <2>1, <2>2, <2>3 DEF ClaimOf
<1>9. Announced(s)' BY <1>0, <1>1 DEF Announced
<1> QED BY <1>1, <1>2, <1>3, <1>6, <1>7, <1>8, <1>9, OneSubmission

-----------------------------------------------------------------------------
(* Submissions: the steps about many rows *)

\* The row says the same of everything but its object and its cleanup
SameRow(t) ==
    /\ subs'[t].status = subs[t].status /\ subs'[t].owner = subs[t].owner
    /\ subs'[t].space = subs[t].space /\ subs'[t].file = subs[t].file
    /\ subs'[t].overtook = subs[t].overtook /\ subs'[t].lapsed = subs[t].lapsed

LEMMA RowsStay ==
    ASSUME SubmissionInv, subs' \in [SubmissionIds -> SubRow], \A t \in SubmissionIds : SameRow(t),
           \A t \in SubmissionIds : subs'[t].private = subs[t].private
                                      \/ subs[t].status \in {"approved", "withdrawn", "invalidated"},
           UNCHANGED <<people, change, review, published, dedup, notices>>,
           storageFaults' \in Nat, storageFaults' = 0 => storageFaults = 0
    PROVE  SubmissionInv'
<1>1. SubmissionTypeOK' BY DEF SubmissionInv, SubmissionTypeOK
<1>2. Named' /\ Reviewed' /\ Lapsed' BY DEF SubmissionInv, Named, Reviewed, Lapsed, SameRow
<1>3. \A u \in Submitters : PendingOf(u)' = PendingOf(u) BY DEF PendingOf, InStatus, SameRow
<1>4. Changing'
  <2> SUFFICES ASSUME NEW u \in Submitters
               PROVE  /\ change[u].rows \subseteq PendingOf(u)'
                      /\ change[u].to \notin {"none", "deleted"} =>
                            \A t \in PendingOf(u)' \ change[u].rows : subs'[t].overtook
    BY DEF SubmissionInv, Changing
  <2>1. \A t \in PendingOf(u) : subs'[t].overtook = subs[t].overtook BY DEF PendingOf, InStatus, SameRow
  <2> QED BY <1>3, <2>1 DEF SubmissionInv, Changing
<1>5. OneDocumentPerFile' BY DEF SubmissionInv, OneDocumentPerFile, ClaimOf, Key, SameRow
<1>6. PendingIsAllowed' BY DEF SubmissionInv, PendingIsAllowed, InStatus, Allowed, SameRow
<1>7. \A s \in SubmissionIds : Announced(s)'
  <2> SUFFICES ASSUME NEW s \in SubmissionIds PROVE Announced(s)' OBVIOUS
  <2>1. Announced(s) /\ SameRow(s) BY DEF SubmissionInv
  <2> QED BY <2>1 DEF Announced, SameRow
<1> QED BY <1>1, <1>2, <1>4, <1>5, <1>6, <1>7 DEF SubmissionInv

\* cleanup_scheduled writes only rows that have ended
LEMMA CleaningUp == ASSUME SubmissionInv, CleanupScheduled PROVE SubmissionInv'
<1>0. subs \in [SubmissionIds -> SubRow] /\ storageFaults \in Nat BY DEF SubmissionInv, SubmissionTypeOK
<1>1. UNCHANGED <<people, change, review, published, dedup, notices>> BY DEF CleanupScheduled
<1>2. PICK batch \in SUBSET Cleanable :
         \/ /\ subs' = [s \in SubmissionIds |-> IF s \in batch THEN Cleaned(s) ELSE subs[s]]
            /\ UNCHANGED storageFaults
         \/ /\ OneFault
            /\ \E gone \in SUBSET batch :
                  subs' = [s \in SubmissionIds |->
                             IF s \in gone THEN [subs[s] EXCEPT !.private = FALSE] ELSE subs[s]]
  BY DEF CleanupScheduled
<1>3. \A t \in SubmissionIds : t \notin batch \/ subs[t].status \in {"approved", "withdrawn", "invalidated"}
  BY DEF Cleanable
<1>4. CASE /\ subs' = [s \in SubmissionIds |-> IF s \in batch THEN Cleaned(s) ELSE subs[s]]
           /\ UNCHANGED storageFaults
  <2>1. ASSUME NEW t \in SubmissionIds
        PROVE  Cleaned(t) \in SubRow /\ Cleaned(t) = [subs[t] EXCEPT !.private = FALSE, !.cleaned = TRUE]
    BY <1>0 DEF Cleaned, SubRow
  <2>2. subs' \in [SubmissionIds -> SubRow] BY <1>0, <1>4, <2>1
  <2>3. ASSUME NEW t \in SubmissionIds
        PROVE  SameRow(t) /\ (subs'[t].private = subs[t].private \/ t \in batch)
    <3>1. subs'[t] = IF t \in batch THEN Cleaned(t) ELSE subs[t] BY <1>4
    <3>2. subs[t] \in SubRow BY <1>0
    <3>3. CASE t \notin batch BY <3>1, <3>3 DEF SameRow
    <3>4. CASE t \in batch
      <4>1. subs'[t] = [subs[t] EXCEPT !.private = FALSE, !.cleaned = TRUE] BY <2>1, <3>1, <3>4
      <4> QED BY <3>2, <3>4, <4>1 DEF SameRow, SubRow
    <3> QED BY <3>3, <3>4
  <2> QED BY <1>0, <1>1, <1>3, <1>4, <2>2, <2>3, RowsStay
<1>5. CASE /\ OneFault
           /\ \E gone \in SUBSET batch :
                 subs' = [s \in SubmissionIds |->
                            IF s \in gone THEN [subs[s] EXCEPT !.private = FALSE] ELSE subs[s]]
  <2>1. PICK gone \in SUBSET batch :
          subs' = [s \in SubmissionIds |->
                     IF s \in gone THEN [subs[s] EXCEPT !.private = FALSE] ELSE subs[s]]
    BY <1>5
  <2>2. \A t \in SubmissionIds : [subs[t] EXCEPT !.private = FALSE] \in SubRow BY <1>0 DEF SubRow
  <2>3. subs' \in [SubmissionIds -> SubRow] BY <1>0, <2>1, <2>2
  <2>4. \A t \in SubmissionIds : SameRow(t) /\ (subs'[t].private = subs[t].private \/ t \in batch)
    BY <1>0, <2>1 DEF SameRow, SubRow
  <2>5. storageFaults' \in Nat /\ storageFaults' # 0 BY <1>0, <1>5 DEF OneFault
  <2> QED BY <1>1, <1>3, <2>3, <2>4, <2>5, RowsStay
<1> QED BY <1>2, <1>4, <1>5

\* What a change of one person's account keeps, when it writes no row
LEMMA ChangeSet ==
    ASSUME SubmissionInv, NEW u \in Submitters,
           NEW c \in [to : Persons \cup {"none"}, rows : SUBSET SubmissionIds],
           change' = [change EXCEPT ![u] = c], UNCHANGED <<people, subs, review, published, dedup, notices>>,
           storageFaults' \in Nat, storageFaults' = 0 => storageFaults = 0,
           c.rows \subseteq PendingOf(u), \A s \in c.rows : review[s] = "none",
           c.to = "none" => c.rows = {},
           c.to = "deleted" => people[u] = "pending_delete" /\ c.rows = {},
           c.to \notin {"none", "deleted"} => \A s \in PendingOf(u) \ c.rows : subs[s].overtook
    PROVE  SubmissionInv'
<1>1. /\ change' \in [Submitters -> [to : Persons \cup {"none"}, rows : SUBSET SubmissionIds]]
      /\ change'[u] = c /\ \A v \in Submitters : v # u => change'[v] = change[v]
  BY DEF SubmissionInv, SubmissionTypeOK
<1>2. SubmissionTypeOK' BY <1>1 DEF SubmissionInv, SubmissionTypeOK
<1>3. Named' /\ OneDocumentPerFile' /\ Lapsed'
  BY DEF SubmissionInv, Named, OneDocumentPerFile, ClaimOf, Key, Lapsed
<1>4. PendingIsAllowed' BY DEF SubmissionInv, PendingIsAllowed, InStatus, Allowed
<1>5. \A v \in Submitters : PendingOf(v)' = PendingOf(v) BY DEF PendingOf, InStatus
<1>6. Changing' BY <1>1, <1>5 DEF SubmissionInv, Changing
<1>7. Reviewed' BY <1>1 DEF SubmissionInv, Reviewed
<1>8. \A s \in SubmissionIds : Announced(s)' BY DEF SubmissionInv, Announced
<1> QED BY <1>2, <1>3, <1>4, <1>6, <1>7, <1>8 DEF SubmissionInv

LEMMA ChangeBegins ==
    ASSUME SubmissionInv, NEW u \in Submitters, NEW to \in Persons, BeginChange(u, to) PROVE SubmissionInv'
<1> DEFINE c == [to |-> to, rows |-> IF to = "deleted" THEN {} ELSE PendingOf(u)]
<1>1. PendingOf(u) \subseteq SubmissionIds BY DEF PendingOf, InStatus
<1>2. /\ c \in [to : Persons \cup {"none"}, rows : SUBSET SubmissionIds] /\ c.to = to
      /\ c.rows = IF to = "deleted" THEN {} ELSE PendingOf(u)
  BY <1>1
<1>3. /\ change' = [change EXCEPT ![u] = c] /\ (to = "deleted" => people[u] = "pending_delete")
      /\ UNCHANGED <<people, subs, review, published, dedup, notices, storageFaults>>
      /\ \A s \in PendingOf(u) : to = "deleted" \/ RowUnlocked(s)
  BY DEF BeginChange
<1>4. to # "none" BY DEF Persons
<1>5. storageFaults \in Nat BY DEF SubmissionInv, SubmissionTypeOK
<1>6. \A s \in c.rows : review[s] = "none" BY <1>2, <1>3 DEF RowUnlocked
<1> HIDE DEF c
<1> QED BY <1>2, <1>3, <1>4, <1>5, <1>6, ChangeSet

LEMMA ChangeAborts ==
    ASSUME SubmissionInv, NEW u \in Submitters, AbortChange(u) PROVE SubmissionInv'
<1>1. /\ NoChange \in [to : Persons \cup {"none"}, rows : SUBSET SubmissionIds]
      /\ NoChange.to = "none" /\ NoChange.rows = {}
  BY DEF NoChange
<1>2. /\ change' = [change EXCEPT ![u] = NoChange] /\ storageFaults' = storageFaults + 1
      /\ UNCHANGED <<people, subs, review, published, dedup, notices>>
  BY DEF AbortChange, OneFault
<1>3. storageFaults \in Nat BY DEF SubmissionInv, SubmissionTypeOK
<1>4. storageFaults' \in Nat /\ storageFaults' # 0 BY <1>2, <1>3
<1>5. NoChange.rows \subseteq PendingOf(u) /\ \A s \in NoChange.rows : review[s] = "none" BY <1>1
<1> HIDE DEF NoChange
<1> QED BY <1>1, <1>2, <1>4, <1>5, ChangeSet

\* The change commits: the pending rows it holds that the person may no longer
\* make are invalidated and announced, every other row is as it was
LEMMA ChangeCommits ==
    ASSUME SubmissionInv, NEW u \in Submitters, CommitChange(u) PROVE SubmissionInv'
<1> DEFINE to == change[u].to
           gone == LapsedRows(u)
           words == {[submission |-> s, event |-> "invalidated"] : s \in gone}
<1>0. /\ SubmissionTypeOK /\ change[u] \in [to : Persons \cup {"none"}, rows : SUBSET SubmissionIds]
      /\ \A s \in SubmissionIds : subs[s] \in SubRow
  BY DEF SubmissionInv, SubmissionTypeOK
<1>1. /\ change[u] # NoChange /\ people' = [people EXCEPT ![u] = to]
      /\ subs' = [s \in SubmissionIds |->
                    IF s \in gone THEN [subs[s] EXCEPT !.status = "invalidated", !.requested = Now]
                    ELSE subs[s]]
      /\ notices' = notices \cup words
      /\ change' = [change EXCEPT ![u] = NoChange]
      /\ UNCHANGED <<review, published, dedup, storageFaults>>
  BY DEF CommitChange
<1>2. to # "none"
  <2>1. SUFFICES ASSUME to = "none" PROVE FALSE OBVIOUS
  <2>2. change[u].rows = {} BY <2>1 DEF SubmissionInv, Changing
  <2> QED BY <1>0, <1>1, <2>1, <2>2 DEF NoChange
<1>3. ASSUME NEW s \in gone
      PROVE  /\ s \in SubmissionIds /\ subs[s].status = "pending" /\ subs[s].owner = u
             /\ s \in change[u].rows /\ ~CanContribute(to, subs[s].space)
             /\ review[s] = "none" /\ ~published[s].document /\ ~subs[s].lapsed
             /\ \A n \in notices : n.submission # s
  <2>1. s \in change[u].rows /\ ~CanContribute(to, subs[s].space) BY DEF LapsedRows
  <2>2. s \in SubmissionIds /\ subs[s].status = "pending" /\ subs[s].owner = u
    BY <2>1 DEF SubmissionInv, Changing, PendingOf, InStatus
  <2>3. review[s] = "none" BY <1>0, <2>1, <2>2 DEF SubmissionInv, Reviewed, SubmissionTypeOK
  <2>4. ~published[s].document /\ ~subs[s].lapsed
    BY <2>2 DEF SubmissionInv, OneDocumentPerFile, Lapsed
  <2>5. Announced(s) BY <2>2 DEF SubmissionInv
  <2>6. \A n \in notices : n.event \in {"approved", "rejected", "invalidated"}
    BY <1>0 DEF SubmissionTypeOK, Notices
  <2> QED BY <2>1, <2>2, <2>3, <2>4, <2>5, <2>6 DEF Announced
<1>4. ASSUME NEW s \in SubmissionIds, s \in gone
      PROVE  /\ subs'[s] \in SubRow /\ subs'[s].status = "invalidated" /\ subs'[s].owner = subs[s].owner
             /\ subs'[s].space = subs[s].space /\ subs'[s].file = subs[s].file
             /\ ~subs'[s].lapsed
  <2>1. subs'[s] = [subs[s] EXCEPT !.status = "invalidated", !.requested = Now] BY <1>1, <1>4
  <2>2. ~subs[s].lapsed BY <1>3, <1>4
  <2> QED BY <1>0, <2>1, <2>2, NowTyped DEF SubRow, Stages
<1>5. \A s \in SubmissionIds : s \notin gone => subs'[s] = subs[s] BY <1>1
<1>6. \A n \in words : n \in Notices /\ n.submission \in gone /\ n.event = "invalidated"
  BY <1>3 DEF Notices
<1>7. ASSUME NEW s \in gone PROVE \E n \in notices' : n.submission = s /\ n.event = "invalidated"
  <2> DEFINE word == [submission |-> s, event |-> "invalidated"]
  <2>1. word \in notices' /\ word.submission = s /\ word.event = "invalidated" BY <1>1
  <2> QED BY <2>1
<1>8. /\ change' \in [Submitters -> [to : Persons \cup {"none"}, rows : SUBSET SubmissionIds]]
      /\ change'[u].to = "none" /\ change'[u].rows = {}
      /\ \A v \in Submitters : v # u => change'[v] = change[v]
  <2>1. /\ NoChange \in [to : Persons \cup {"none"}, rows : SUBSET SubmissionIds]
        /\ NoChange.to = "none" /\ NoChange.rows = {}
    BY DEF NoChange
  <2> HIDE DEF NoChange
  <2> QED BY <1>0, <1>1, <2>1 DEF SubmissionTypeOK
<1>9. /\ people' \in [Submitters -> Persons] /\ people'[u] = to
      /\ \A v \in Submitters : v # u => people'[v] = people[v]
  BY <1>0, <1>1, <1>2 DEF SubmissionTypeOK
<1>10. SubmissionTypeOK'
  <2>1. subs' \in [SubmissionIds -> SubRow]
    <3>1. \A s \in SubmissionIds : subs'[s] \in SubRow BY <1>0, <1>4, <1>5
    <3>2. DOMAIN subs' = SubmissionIds /\ subs' = [s \in SubmissionIds |-> subs'[s]] BY <1>1
    <3> QED BY <3>1, <3>2
  <2>2. notices' \subseteq Notices BY <1>0, <1>1, <1>6 DEF SubmissionTypeOK
  <2> QED BY <1>0, <1>1, <1>8, <1>9, <2>1, <2>2 DEF SubmissionTypeOK
<1> HIDE DEF to, gone, words
<1>11. \A s \in SubmissionIds : /\ subs'[s].owner = subs[s].owner /\ subs'[s].space = subs[s].space
                                /\ subs'[s].file = subs[s].file
  BY <1>4, <1>5
<1>12. \A s \in SubmissionIds : subs'[s].status = "pending" => subs[s].status = "pending" /\ s \notin gone
  BY <1>4, <1>5
<1>13. Named' BY <1>3, <1>11, <1>5 DEF SubmissionInv, Named
<1>14. Reviewed'
  <2> SUFFICES ASSUME NEW s \in SubmissionIds, review[s] # "none"
               PROVE  /\ subs'[s].status = "pending" /\ \A v \in Submitters : s \notin change'[v].rows
                      /\ review[s] = "copied" => published[s].object
    BY <1>1 DEF Reviewed
  <2>1. s \notin gone BY <1>3
  <2> QED BY <1>5, <1>8, <2>1 DEF SubmissionInv, Reviewed
<1>15. Lapsed' BY <1>4, <1>5 DEF SubmissionInv, Lapsed
<1>16. OneDocumentPerFile'
  <2> SUFFICES ASSUME NEW s \in SubmissionIds, published[s].document
               PROVE  subs'[s].status = "approved" /\ published[s].object /\ ClaimOf(s)' = s
    BY <1>1 DEF OneDocumentPerFile
  <2>1. s \notin gone BY <1>3
  <2>2. ClaimOf(s)' = ClaimOf(s) BY <1>1, <1>11 DEF ClaimOf, Key
  <2> QED BY <1>5, <2>1, <2>2 DEF SubmissionInv, OneDocumentPerFile
\* a row the change did not hold was inserted since it began, or it is the end
\* of a deletion, whose request had already taken the right away
<1>17. ASSUME NEW s \in SubmissionIds, subs'[s].status = "pending", subs[s].owner = u
       PROVE  CanContribute(to, subs[s].space) \/ subs[s].overtook
  <2>1. s \in PendingOf(u) BY <1>12, <1>17 DEF PendingOf, InStatus
  <2>2. CASE s \in change[u].rows BY <1>12, <1>17, <2>2 DEF LapsedRows, gone, to
  <2>3. CASE to = "deleted"
    <3>1. people[u] = "pending_delete" BY <2>3 DEF SubmissionInv, Changing, to
    <3>2. ~Allowed(s) BY <1>17, <3>1 DEF Allowed, CanContribute
    <3> QED BY <2>1, <3>2 DEF SubmissionInv, PendingIsAllowed, PendingOf
  <2>4. CASE s \notin change[u].rows /\ to # "deleted"
    BY <1>2, <2>1, <2>4 DEF SubmissionInv, Changing, to
  <2> QED BY <2>2, <2>3, <2>4
<1>18. PendingIsAllowed'
  <2> SUFFICES ASSUME NEW s \in SubmissionIds, subs'[s].status = "pending"
               PROVE  CanContribute(people'[subs'[s].owner], subs'[s].space) \/ subs'[s].overtook
    BY DEF PendingIsAllowed, InStatus, Allowed
  <2>1. subs'[s] = subs[s] /\ subs[s].status = "pending" BY <1>5, <1>12
  <2>2. subs[s].owner \in Submitters BY <2>1 DEF SubmissionInv, Named
  <2>3. CASE subs[s].owner = u BY <1>9, <1>17, <2>1, <2>3
  <2>4. CASE subs[s].owner # u
    <3>1. Allowed(s) \/ subs[s].overtook BY <2>1 DEF SubmissionInv, PendingIsAllowed, InStatus
    <3> QED BY <1>9, <2>1, <2>2, <2>4, <3>1 DEF Allowed
  <2> QED BY <2>3, <2>4
<1>19. Changing'
  <2> SUFFICES ASSUME NEW v \in Submitters
               PROVE  /\ change'[v].rows \subseteq PendingOf(v)'
                      /\ change'[v].to = "none" => change'[v].rows = {}
                      /\ change'[v].to = "deleted" => people'[v] = "pending_delete" /\ change'[v].rows = {}
                      /\ change'[v].to \notin {"none", "deleted"} =>
                            \A s \in PendingOf(v)' \ change'[v].rows : subs'[s].overtook
    BY DEF Changing
  <2>1. CASE v = u BY <1>8, <2>1
  <2>2. CASE v # u
    <3>1. PendingOf(v)' = PendingOf(v) /\ \A s \in PendingOf(v) : subs'[s] = subs[s]
      <4>1. \A s \in PendingOf(v) : s \in SubmissionIds /\ s \notin gone BY <1>3, <2>2 DEF PendingOf, InStatus
      <4>2. \A s \in PendingOf(v) : subs'[s] = subs[s] BY <1>5, <4>1
      <4> QED BY <1>11, <1>12, <4>2 DEF PendingOf, InStatus
    <3>2. change'[v] = change[v] /\ people'[v] = people[v] BY <1>8, <1>9, <2>2
    <3> QED BY <3>1, <3>2 DEF SubmissionInv, Changing
  <2> QED BY <2>1, <2>2
<1>20. \A s \in SubmissionIds : Announced(s)'
  <2> SUFFICES ASSUME NEW s \in SubmissionIds PROVE Announced(s)' OBVIOUS
  <2>1. Announced(s) BY DEF SubmissionInv
  <2>2. CASE s \notin gone
    <3>1. \A n \in notices' : n.submission = s => n \in notices BY <1>1, <1>6, <2>2
    <3> QED BY <1>1, <1>5, <2>1, <2>2, <3>1 DEF Announced
  <2>3. CASE s \in gone
    <3>1. \A n \in notices' : n.submission = s => n.event = "invalidated" BY <1>1, <1>3, <1>6, <2>3
    <3>2. subs'[s].status = "invalidated" BY <1>4, <2>3
    <3>3. \E n \in notices' : n.submission = s /\ n.event = "invalidated" BY <1>7, <2>3
    <3> QED BY <3>1, <3>2, <3>3 DEF Announced
  <2> QED BY <2>2, <2>3
<1> QED BY <1>10, <1>13, <1>14, <1>15, <1>16, <1>18, <1>19, <1>20 DEF SubmissionInv

LEMMA SubmissionStep == SubmissionInv /\ [SubmissionNext]_submissionVars => SubmissionInv'
<1> SUFFICES ASSUME SubmissionInv, [SubmissionNext]_submissionVars PROVE SubmissionInv' OBVIOUS
<1>1. CASE UNCHANGED submissionVars
  <2>1. \A s \in SubmissionIds : Announced(s)' BY <1>1 DEF SubmissionInv, Announced, submissionVars
  <2>2. OneDocumentPerFile' /\ PendingIsAllowed'
    BY <1>1 DEF SubmissionInv, submissionVars, OneDocumentPerFile, ClaimOf, Key, PendingIsAllowed, InStatus,
       Allowed
  <2>3. SubmissionTypeOK' /\ Named' /\ Reviewed' /\ Lapsed' /\ Changing'
    BY <1>1 DEF SubmissionInv, submissionVars, SubmissionTypeOK, Named, Reviewed, Lapsed, Changing,
       PendingOf, InStatus
  <2> QED BY <2>1, <2>2, <2>3 DEF SubmissionInv
<1>2. ASSUME NEW u \in Submitters, NEW to \in {"member", "moved", "pending_delete", "deleted"},
             BeginChange(u, to)
      PROVE  SubmissionInv'
  BY <1>2, ChangeBegins DEF Persons
<1>3. ASSUME NEW u \in Submitters, CommitChange(u) \/ AbortChange(u) PROVE SubmissionInv'
  BY <1>3, ChangeCommits, ChangeAborts
<1> QED BY <1>1, <1>2, <1>3, CleaningUp, SubmitterSteps, ReviewerSteps, Approving, DeletingDocument
        DEF SubmissionNext

LEMMA SubmissionSafety == SubmissionInv => SubmissionsSafe
<1> SUFFICES ASSUME SubmissionInv PROVE SubmissionsSafe OBVIOUS
<1>1. ApprovedForMembers BY DEF SubmissionInv, Lapsed, ApprovedForMembers
<1>2. EndsAreAnnounced
  <2> SUFFICES ASSUME NEW s \in SubmissionIds
               PROVE  /\ subs[s].status \in {"pending", "rejected"} /\ storageFaults = 0 => subs[s].private
                      /\ subs[s].status \in {"approved", "rejected", "invalidated"} =>
                            {n.event : n \in {m \in notices : m.submission = s}} = {subs[s].status}
                      /\ subs[s].status \in {"pending", "withdrawn"} => \A n \in notices : n.submission # s
    BY DEF EndsAreAnnounced
  <2>1. Announced(s) BY DEF SubmissionInv
  <2>2. \A n \in notices : n.event \in {"approved", "rejected", "invalidated"}
    BY DEF SubmissionInv, SubmissionTypeOK, Notices
  <2>3. ASSUME subs[s].status \in {"approved", "rejected", "invalidated"}
        PROVE  {n.event : n \in {m \in notices : m.submission = s}} = {subs[s].status}
    BY <2>1, <2>3 DEF Announced
  <2> QED BY <2>1, <2>2, <2>3 DEF Announced
<1> QED BY <1>1, <1>2 DEF SubmissionInv, SubmissionsSafe

\* However approvals of equal files race each other, identity changes, deletions,
\* lost objects and transactions that die: one document per file and space, its
\* claim and its submission agree, nobody who lost the right keeps a row in the
\* queue, and what was announced is what happened (SubmissionService.approve,
\* reject, invalidate_pending_for_identity, cleanup_scheduled)
THEOREM Reviews == SubmissionSpec => []SubmissionsSafe
BY SubmissionBegins, SubmissionStep, SubmissionSafety, PTL DEF SubmissionSpec

-----------------------------------------------------------------------------
(* The streams of an answer *)

StreamPcs == {"none", "streaming", "leaving", "last", "leaves", "gone", "dead"}
StreamRow == [pc : StreamPcs, client : Clients \cup {"none"}, online : BOOLEAN, at : Nat, batch : SUBSET Nat]
EventKinds == {"progress", "click", "end"}
StreamTypeOK ==
    /\ life \in {"running", "stop_requested", "ended", "deleted"}
    /\ events \in Seq(EventKinds)
    /\ deadline \in {"none", "armed", "over"}
    /\ stream \in [Streams -> StreamRow]
    /\ leases \in [Streams -> {"none", "live", "expired"}]
    /\ received \in [Clients -> Nat]
    /\ reaper \in {"idle", "disarming", "locking"}

Reads(s) == stream[s].pc = "streaming"
Listens(s) == Reads(s) /\ stream[s].online

\* The events a client could be missing
Unread(n) == {i \in DOMAIN events : i > n /\ events[i] # "click"}

\* What a stream holds is what comes next in the log, without a hole
BatchIsNext(s) ==
    Reads(s) =>
        /\ stream[s].client \in Clients
        /\ stream[s].batch \subseteq Unread(stream[s].at)
        /\ \A m \in stream[s].batch, n \in Unread(stream[s].at) : n < m => n \in stream[s].batch

\* A stream that is listened to stands where its client does, and no two streams
\* write to one client
InStep ==
    /\ \A s \in Streams : Listens(s) => stream[s].at = received[stream[s].client]
    /\ \A s, r \in Streams : Listens(s) /\ Listens(r) /\ stream[s].client = stream[r].client => s = r

\* Who is about to reap has found no lease, and nobody has subscribed since
NobodyBack == reaper = "locking" /\ deadline = "over" => \A s \in Streams : leases[s] # "live"

\* The action properties of Stream, of one step
EventOnce ==
    [\A c \in Clients : received'[c] # received[c] =>
        /\ received[c] < received'[c] /\ events[received'[c]] # "click"
        /\ \A n \in received[c] + 1 .. received'[c] - 1 : events[n] = "click"]_streamVars
DesertedOnly ==
    [reaper = "locking" /\ reaper' = "idle" /\ life' # life => deadline = "over" /\ ~Streaming!Live]_streamVars

StreamInv == StreamTypeOK /\ (\A s \in Streams : BatchIsNext(s)) /\ InStep /\ NobodyBack

LEMMA InitStream == Streaming!StreamInit => StreamInv
BY DEF Streaming!StreamInit, StreamInv, StreamTypeOK, BatchIsNext, InStep, NobodyBack, StreamRow, StreamPcs,
       EventKinds, Streaming!NoStream, Reads, Listens

\* What a stream is shown is what its client is missing, unless nothing is left
LEMMA ReadsWhatIsNext ==
    ASSUME StreamTypeOK, NEW n \in Nat
    PROVE  /\ Streaming!EventsAfter(n) \subseteq Nat
           /\ Streaming!EventsAfter(n) = IF life = "deleted" THEN {} ELSE Unread(n)
BY DEF StreamTypeOK, Streaming!EventsAfter, Streaming!StreamEvent, Unread

LEMMA AwayTyped ==
    ASSUME StreamTypeOK, NEW s \in Streams, NEW pc \in StreamPcs
    PROVE  Streaming!Away(s, pc) \in StreamRow /\ Streaming!Away(s, pc).pc = pc
BY DEF StreamTypeOK, StreamRow, StreamPcs, Streaming!Away, Streaming!NoStream

\* A row that stops reading, or is no longer listened to
Leaves(s, row) ==
    /\ row \in StreamRow
    /\ row.pc = "streaming" => Reads(s) /\ row = [stream[s] EXCEPT !.online = FALSE]
    /\ stream' = [stream EXCEPT ![s] = row]
    /\ UNCHANGED <<events, received>>

\* Steps that no stream takes: the log may have got longer
Logs == /\ UNCHANGED <<stream, received>>
        /\ events' \in Seq(EventKinds) /\ Len(events) <= Len(events')
        /\ \A n \in DOMAIN events : events'[n] = events[n]

LEMMA Departures ==
    ASSUME StreamTypeOK, NEW s \in Streams,
           \/ Streaming!Refused(s) \/ Streaming!Break(s) \/ Streaming!Cancel(s)
           \/ Streaming!LeaveCounts(s) \/ Streaming!LeaveFindsNothing(s) \/ Streaming!LeaveCommits(s)
           \/ Streaming!StreamDies(s)
    PROVE  \E row : Leaves(s, row)
<1>1. stream \in [Streams -> StreamRow] BY DEF StreamTypeOK
<1>2. Streaming!Away(s, "leaving") \in StreamRow /\ Streaming!Away(s, "leaving").pc = "leaving"
  BY AwayTyped DEF StreamPcs
<1>3. Streaming!Away(s, "dead") \in StreamRow /\ Streaming!Away(s, "dead").pc = "dead"
  BY AwayTyped DEF StreamPcs
<1>4. [Streaming!NoStream EXCEPT !.pc = "gone"] \in StreamRow
  BY DEF Streaming!NoStream, StreamRow, StreamPcs
<1>5. [Streaming!NoStream EXCEPT !.pc = "gone"].pc = "gone" BY DEF Streaming!NoStream
<1>6. CASE Streaming!Refused(s) \/ Streaming!Cancel(s)
  <2>1. Leaves(s, Streaming!Away(s, "leaving"))
    BY <1>2, <1>6 DEF Leaves, Streaming!Refused, Streaming!Cancel
  <2> QED BY <2>1
<1>7. CASE Streaming!StreamDies(s)
  <2>1. Leaves(s, Streaming!Away(s, "dead")) BY <1>3, <1>7 DEF Leaves, Streaming!StreamDies
  <2> QED BY <2>1
<1>8. CASE Streaming!Break(s)
  <2>1. [stream[s] EXCEPT !.online = FALSE] \in StreamRow BY <1>1 DEF StreamRow
  <2>2. stream' = [stream EXCEPT ![s] = [stream[s] EXCEPT !.online = FALSE]]
    BY <1>1, <1>8 DEF Streaming!Break
  <2>3. Leaves(s, [stream[s] EXCEPT !.online = FALSE])
    BY <2>1, <2>2, <1>8 DEF Leaves, Reads, Streaming!Break
  <2> QED BY <2>3
<1>9. CASE Streaming!LeaveCounts(s)
  <2> DEFINE row == [stream[s] EXCEPT !.pc = IF Streaming!Held = {s} THEN "last" ELSE "leaves"]
  <2>1. row \in StreamRow /\ row.pc # "streaming" BY <1>1 DEF StreamRow, StreamPcs
  <2>2. stream' = [stream EXCEPT ![s] = row] BY <1>1, <1>9 DEF Streaming!LeaveCounts
  <2>3. Leaves(s, row) BY <2>1, <2>2, <1>9 DEF Leaves, Streaming!LeaveCounts
  <2> QED BY <2>3
<1>10. CASE Streaming!LeaveFindsNothing(s) \/ Streaming!LeaveCommits(s)
  <2>1. Leaves(s, [Streaming!NoStream EXCEPT !.pc = "gone"])
    BY <1>4, <1>5, <1>10 DEF Leaves, Streaming!LeaveFindsNothing, Streaming!LeaveCommits
  <2> QED BY <2>1
<1> QED BY <1>6, <1>7, <1>8, <1>9, <1>10

LEMMA Logging ==
    ASSUME StreamTypeOK,
           \/ Streaming!ReaperStep \/ Streaming!GracePasses \/ Streaming!Progress \/ Streaming!Click
           \/ Streaming!RequestStop \/ Streaming!Finish \/ Streaming!Delete
           \/ \E clients \in SUBSET Clients \ {{}} : Streaming!Revoke(clients)
           \/ \E s \in Streams : Streaming!LeaseLapses(s)
    PROVE  Logs
<1>1. events \in Seq(EventKinds) BY DEF StreamTypeOK
<1>2. ASSUME NEW tail \in Seq(EventKinds), events' = events \o tail, UNCHANGED <<stream, received>>
      PROVE  Logs
  <2>1. events' \in Seq(EventKinds) /\ Len(events') = Len(events) + Len(tail) BY <1>1, <1>2
  <2>2. \A n \in DOMAIN events : events'[n] = events[n] BY <1>1, <1>2
  <2> QED BY <2>1, <2>2, <1>1, <1>2 DEF Logs
<1>3. ASSUME UNCHANGED <<events, stream, received>> PROVE Logs BY <1>1, <1>3 DEF Logs
<1>4. <<"progress">> \in Seq(EventKinds) /\ <<"click">> \in Seq(EventKinds) /\ <<"end">> \in Seq(EventKinds)
      /\ <<"progress", "end">> \in Seq(EventKinds)
  BY DEF EventKinds
<1>5. CASE Streaming!Progress \/ Streaming!Click \/ Streaming!Finish
  BY <1>2, <1>4, <1>5 DEF Streaming!Progress, Streaming!Click, Streaming!Finish, Streaming!Log
<1>6. CASE Streaming!ReaperStep
  <2>1. CASE Streaming!Reap BY <1>2, <1>3, <1>4, <2>1 DEF Streaming!Reap
  <2>2. CASE Streaming!ScanGrace \/ Streaming!DisarmGrace
    BY <1>3, <2>2 DEF Streaming!ScanGrace, Streaming!DisarmGrace
  <2> QED BY <1>6, <2>1, <2>2 DEF Streaming!ReaperStep
<1>7. CASE Streaming!GracePasses \/ Streaming!RequestStop \/ Streaming!Delete
  BY <1>3, <1>7 DEF Streaming!GracePasses, Streaming!RequestStop, Streaming!Delete
<1>8. CASE \E clients \in SUBSET Clients \ {{}} : Streaming!Revoke(clients)
  BY <1>3, <1>8 DEF Streaming!Revoke
<1>9. CASE \E s \in Streams : Streaming!LeaseLapses(s) BY <1>3, <1>9 DEF Streaming!LeaseLapses
<1> QED BY <1>5, <1>6, <1>7, <1>8, <1>9

\* What every step of StreamNext is
LEMMA StreamMoves ==
    ASSUME StreamTypeOK, [Streaming!StreamNext]_streamVars
    PROVE  \/ \E s \in Streams : Streaming!Deliver(s) \/ Streaming!Poll(s)
           \/ \E s \in Streams, c \in Clients : Streaming!Open(s, c)
           \/ \E s \in Streams : \E row : Leaves(s, row)
           \/ Logs
<1>1. CASE UNCHANGED streamVars
  BY <1>1 DEF streamVars, Logs, StreamTypeOK
<1>2. ASSUME NEW s \in Streams, Streaming!StreamStep(s) \/ Streaming!Refused(s) \/ Streaming!Break(s)
                               \/ Streaming!StreamDies(s)
      PROVE  Streaming!Deliver(s) \/ Streaming!Poll(s) \/ \E row : Leaves(s, row)
  BY <1>2, Departures DEF Streaming!StreamStep
<1>3. CASE Streaming!StreamNext BY <1>2, <1>3, Logging DEF Streaming!StreamNext
<1> QED BY <1>1, <1>3

LEMMA StatusTyped ==
    ASSUME StreamTypeOK, [Streaming!StreamNext]_streamVars
    PROVE  /\ life' \in {"running", "stop_requested", "ended", "deleted"}
           /\ deadline' \in {"none", "armed", "over"}
           /\ leases' \in [Streams -> {"none", "live", "expired"}]
           /\ reaper' \in {"idle", "disarming", "locking"}
<1> DEFINE Typed == /\ life' \in {"running", "stop_requested", "ended", "deleted"}
                    /\ deadline' \in {"none", "armed", "over"}
                    /\ leases' \in [Streams -> {"none", "live", "expired"}]
                    /\ reaper' \in {"idle", "disarming", "locking"}
<1> USE DEF StreamTypeOK
<1>1. CASE UNCHANGED streamVars BY <1>1 DEF streamVars
<1>2. ASSUME NEW s \in Streams, Streaming!StreamStep(s) PROVE Typed
  BY <1>2 DEF Streaming!StreamStep, Streaming!Deliver, Streaming!Poll, Streaming!Cancel,
     Streaming!LeaveCounts, Streaming!LeaveFindsNothing, Streaming!LeaveCommits
<1>3. ASSUME NEW s \in Streams,
             \/ Streaming!Refused(s) \/ Streaming!Break(s) \/ Streaming!StreamDies(s) \/ Streaming!LeaseLapses(s)
             \/ \E c \in Clients : Streaming!Open(s, c)
      PROVE  Typed
  BY <1>3 DEF Streaming!Refused, Streaming!Break, Streaming!StreamDies, Streaming!LeaseLapses, Streaming!Open
<1>4. CASE Streaming!GracePasses \/ Streaming!ReaperStep
  BY <1>4 DEF Streaming!GracePasses, Streaming!ReaperStep, Streaming!ScanGrace, Streaming!DisarmGrace, Streaming!Reap
<1>5. CASE Streaming!Progress \/ Streaming!Click \/ Streaming!RequestStop \/ Streaming!Finish \/ Streaming!Delete
  BY <1>5 DEF Streaming!Progress, Streaming!Click, Streaming!RequestStop, Streaming!Finish, Streaming!Delete
<1>6. ASSUME NEW clients \in SUBSET Clients, Streaming!Revoke(clients) PROVE Typed
  BY <1>6 DEF Streaming!Revoke
<1>7. CASE Streaming!StreamNext BY <1>2, <1>3, <1>4, <1>5, <1>6, <1>7 DEF Streaming!StreamNext
<1> QED BY <1>1, <1>7

\* While somebody is about to reap, a lease is made only by clearing the deadline,
\* and the clock the pass has read stands still
LEMMA NobodyStep ==
    ASSUME StreamTypeOK, NobodyBack, [Streaming!StreamNext]_streamVars
    PROVE  NobodyBack'
<1> USE DEF StreamTypeOK, NobodyBack
<1>1. CASE UNCHANGED streamVars BY <1>1 DEF streamVars
<1>2. ASSUME NEW s \in Streams, Streaming!StreamStep(s) PROVE NobodyBack'
  BY <1>2 DEF Streaming!StreamStep, Streaming!Deliver, Streaming!Poll, Streaming!Cancel,
     Streaming!LeaveCounts, Streaming!LeaveFindsNothing, Streaming!LeaveCommits
<1>3. ASSUME NEW s \in Streams,
             \/ Streaming!Refused(s) \/ Streaming!Break(s) \/ Streaming!StreamDies(s) \/ Streaming!LeaseLapses(s)
             \/ \E c \in Clients : Streaming!Open(s, c)
      PROVE  NobodyBack'
  BY <1>3 DEF Streaming!Refused, Streaming!Break, Streaming!StreamDies, Streaming!LeaseLapses, Streaming!Open
<1>4. CASE Streaming!GracePasses \/ Streaming!ReaperStep
  BY <1>4 DEF Streaming!GracePasses, Streaming!ReaperStep, Streaming!ScanGrace, Streaming!FindsLease,
     Streaming!Live, Streaming!DisarmGrace, Streaming!Reap
<1>5. CASE Streaming!Progress \/ Streaming!Click \/ Streaming!RequestStop \/ Streaming!Finish \/ Streaming!Delete
  BY <1>5 DEF Streaming!Progress, Streaming!Click, Streaming!RequestStop, Streaming!Finish, Streaming!Delete
<1>6. ASSUME NEW clients \in SUBSET Clients, Streaming!Revoke(clients) PROVE NobodyBack'
  BY <1>6 DEF Streaming!Revoke
<1>7. CASE Streaming!StreamNext BY <1>2, <1>3, <1>4, <1>5, <1>6, <1>7 DEF Streaming!StreamNext
<1> QED BY <1>1, <1>7

\* An event is written out to the one stream its client listens to, and it is the
\* first that client was missing
LEMMA WrittenOut ==
    ASSUME StreamInv, NEW s \in Streams, Streaming!Deliver(s)
    PROVE  \E n \in Unread(received[stream[s].client]) :
              /\ \A m \in Unread(received[stream[s].client]) : n <= m
              /\ received' = [received EXCEPT ![stream[s].client] = n]
              /\ events' = events
              /\ \E row \in StreamRow :
                    /\ stream' = [stream EXCEPT ![s] = row]
                    /\ row.pc = "streaming" =>
                          row = [stream[s] EXCEPT !.at = n, !.batch = stream[s].batch \ {n}]
<1>1. /\ stream \in [Streams -> StreamRow] /\ Reads(s) /\ Listens(s) /\ BatchIsNext(s)
      /\ stream[s].at = received[stream[s].client]
      /\ events \in Seq(EventKinds)
  BY DEF StreamInv, StreamTypeOK, Streaming!Deliver, Reads, Listens, InStep
<1>2. PICK n \in stream[s].batch :
         /\ \A m \in stream[s].batch \ {n} : n < m
         /\ received' = [received EXCEPT ![stream[s].client] = n]
         /\ stream' = [stream EXCEPT ![s] =
                           IF stream[s].batch \ {n} = {} /\ events[n] = "end"
                           THEN Streaming!Away(s, "leaving")
                           ELSE [stream[s] EXCEPT !.at = n, !.batch = stream[s].batch \ {n}]]
  BY <1>1 DEF Streaming!Deliver
<1>3. n \in Unread(stream[s].at) /\ n \in Nat BY <1>1, <1>2 DEF BatchIsNext, Unread
<1>4. \A m \in Unread(stream[s].at) : n <= m
  <2>1. SUFFICES ASSUME NEW m \in Unread(stream[s].at), m < n PROVE FALSE
    BY <1>1, <1>3 DEF Unread
  <2>2. m \in stream[s].batch BY <2>1, <1>1, <1>2 DEF BatchIsNext
  <2> QED BY <2>1, <2>2, <1>1, <1>2, <1>3 DEF Unread
<1>5. [stream[s] EXCEPT !.at = n, !.batch = stream[s].batch \ {n}] \in StreamRow
  BY <1>1, <1>3 DEF StreamRow
<1>6. Streaming!Away(s, "leaving") \in StreamRow /\ Streaming!Away(s, "leaving").pc = "leaving"
  BY AwayTyped DEF StreamInv, StreamPcs
<1>7. events' = events BY DEF Streaming!Deliver
<1>8. CASE stream[s].batch \ {n} = {} /\ events[n] = "end"
  <2>1. stream' = [stream EXCEPT ![s] = Streaming!Away(s, "leaving")] BY <1>2, <1>8
  <2> QED BY <2>1, <1>1, <1>2, <1>3, <1>4, <1>6, <1>7
<1>9. CASE ~(stream[s].batch \ {n} = {} /\ events[n] = "end")
  <2>1. stream' = [stream EXCEPT ![s] = [stream[s] EXCEPT !.at = n, !.batch = stream[s].batch \ {n}]]
    BY <1>2, <1>9
  <2> QED BY <2>1, <1>1, <1>2, <1>3, <1>4, <1>5, <1>7
<1> QED BY <1>8, <1>9

\* The rows of the other streams are left alone
LEMMA Others ==
    ASSUME StreamTypeOK, NEW s \in Streams, NEW row \in StreamRow, stream' = [stream EXCEPT ![s] = row]
    PROVE  /\ stream' \in [Streams -> StreamRow] /\ stream'[s] = row
           /\ \A r \in Streams \ {s} : stream'[r] = stream[r]
BY DEF StreamTypeOK

LEMMA DeliverKeeps ==
    ASSUME StreamInv, NEW s \in Streams, Streaming!Deliver(s)
    PROVE  /\ stream' \in [Streams -> StreamRow] /\ received' \in [Clients -> Nat] /\ events' \in Seq(EventKinds)
           /\ \A r \in Streams : BatchIsNext(r)'
           /\ InStep'
<1> DEFINE c == stream[s].client
<1>1. /\ StreamTypeOK /\ InStep /\ Reads(s) /\ Listens(s) /\ BatchIsNext(s) /\ c \in Clients
      /\ stream[s].at = received[c] /\ \A r \in Streams : BatchIsNext(r)
  BY DEF StreamInv, Streaming!Deliver, Reads, Listens, InStep, BatchIsNext
<1>2. PICK n \in Unread(received[c]) :
         /\ \A m \in Unread(received[c]) : n <= m
         /\ received' = [received EXCEPT ![c] = n]
         /\ events' = events
         /\ \E row \in StreamRow :
               /\ stream' = [stream EXCEPT ![s] = row]
               /\ row.pc = "streaming" => row = [stream[s] EXCEPT !.at = n, !.batch = stream[s].batch \ {n}]
  BY WrittenOut
<1>3. PICK row \in StreamRow :
         /\ stream' = [stream EXCEPT ![s] = row]
         /\ row.pc = "streaming" => row = [stream[s] EXCEPT !.at = n, !.batch = stream[s].batch \ {n}]
  BY <1>2
<1>4. n \in Nat /\ received[c] \in Nat /\ events \in Seq(EventKinds)
  BY <1>1, <1>2 DEF StreamTypeOK, Unread
<1>5. /\ stream' \in [Streams -> StreamRow] /\ stream'[s] = row
      /\ \A r \in Streams \ {s} : stream'[r] = stream[r]
  BY <1>1, <1>3, Others
<1>6. /\ received' \in [Clients -> Nat] /\ received'[c] = n
      /\ \A d \in Clients \ {c} : received'[d] = received[d]
  BY <1>1, <1>2, <1>4 DEF StreamTypeOK
<1>7. \A k : Unread(k)' = {i \in DOMAIN events : i > k' /\ events[i] # "click"} BY <1>2 DEF Unread
<1>8. row.pc = "streaming" =>
         row.at = n /\ row.batch = stream[s].batch \ {n} /\ row.client = c /\ row.online
  BY <1>1, <1>3 DEF StreamTypeOK, StreamRow, Listens
<1>9. ASSUME NEW r \in Streams PROVE BatchIsNext(r)'
  <2>1. CASE r # s
    BY <2>1, <1>1, <1>2, <1>5 DEF BatchIsNext, Reads, Unread
  <2>2. CASE r = s
    <3>1. SUFFICES ASSUME row.pc = "streaming"
                   PROVE  /\ row.client \in Clients
                          /\ row.batch \subseteq {i \in DOMAIN events : i > row.at /\ events[i] # "click"}
                          /\ \A m \in row.batch, k \in {i \in DOMAIN events : i > row.at /\ events[i] # "click"} :
                                k < m => k \in row.batch
      BY <2>2, <1>2, <1>5 DEF BatchIsNext, Reads, Unread
    <3>2. row.at = n /\ row.batch = stream[s].batch \ {n} /\ row.client = c BY <3>1, <1>8
    <3>3. stream[s].batch \subseteq Unread(received[c])
      BY <1>1 DEF BatchIsNext
    <3>4. \A m \in stream[s].batch, k \in Unread(received[c]) : k < m => k \in stream[s].batch
      BY <1>1 DEF BatchIsNext
    <3>5. \A i \in DOMAIN events : i \in Nat BY <1>4
    <3>6. \A i \in Unread(received[c]) : i # n => i > n BY <1>2, <1>4, <3>5 DEF Unread
    <3>7. \A i \in DOMAIN events : i > n => i > received[c] BY <1>2, <1>4, <3>5 DEF Unread
    <3> QED BY <3>2, <3>3, <3>4, <3>5, <3>6, <3>7, <1>1, <1>4 DEF Unread
  <2> QED BY <2>1, <2>2
<1>10. InStep'
  <2>1. ASSUME NEW r \in Streams, Listens(r)'
        PROVE  /\ stream'[r].client = stream[r].client /\ Listens(r)
               /\ stream'[r].at = received'[stream'[r].client]
    <3>1. CASE r = s BY <3>1, <2>1, <1>1, <1>5, <1>6, <1>8 DEF Listens, Reads
    <3>2. CASE r # s
      <4>1. stream'[r] = stream[r] /\ Listens(r) BY <3>2, <2>1, <1>5 DEF Listens, Reads
      <4>2. stream[r].client # c BY <3>2, <4>1, <1>1 DEF InStep
      <4>3. stream[r].client \in Clients BY <4>1, <1>1 DEF BatchIsNext, Listens
      <4> QED BY <4>1, <4>2, <4>3, <1>1, <1>6 DEF InStep
    <3> QED BY <3>1, <3>2
  <2>2. ASSUME NEW r \in Streams, NEW q \in Streams, Listens(r)', Listens(q)',
               stream'[r].client = stream'[q].client
        PROVE  r = q
    BY <2>1, <2>2, <1>1 DEF InStep
  <2> QED BY <2>1, <2>2 DEF InStep
<1> QED BY <1>2, <1>4, <1>5, <1>6, <1>9, <1>10

LEMMA PollKeeps ==
    ASSUME StreamInv, NEW s \in Streams, Streaming!Poll(s)
    PROVE  /\ stream' \in [Streams -> StreamRow] /\ received' \in [Clients -> Nat] /\ events' \in Seq(EventKinds)
           /\ \A r \in Streams : BatchIsNext(r)'
           /\ InStep'
<1> DEFINE row == [stream[s] EXCEPT !.batch = Streaming!EventsAfter(stream[s].at)]
<1>1. StreamTypeOK /\ InStep /\ BatchIsNext(s) /\ Reads(s) BY DEF StreamInv, Streaming!Poll, Reads
<1>2. /\ Streaming!EventsAfter(stream[s].at) \subseteq Nat
      /\ Streaming!EventsAfter(stream[s].at) \in {{}, Unread(stream[s].at)}
  BY <1>1, ReadsWhatIsNext DEF StreamTypeOK, StreamRow
<1>3. /\ row \in StreamRow /\ row.batch \in {{}, Unread(stream[s].at)}
      /\ row.pc = stream[s].pc /\ row.client = stream[s].client
      /\ row.at = stream[s].at /\ row.online = stream[s].online
  BY <1>1, <1>2 DEF StreamTypeOK, StreamRow
<1>4. stream' = [stream EXCEPT ![s] = row] BY <1>1 DEF Streaming!Poll, StreamTypeOK
<1>5. UNCHANGED <<events, received>> BY DEF Streaming!Poll
<1> HIDE DEF row
<1>6. /\ stream' \in [Streams -> StreamRow] /\ stream'[s] = row
      /\ \A r \in Streams \ {s} : stream'[r] = stream[r]
  BY <1>1, <1>3, <1>4, Others
<1>7. ASSUME NEW r \in Streams PROVE BatchIsNext(r)'
  <2>1. CASE r # s BY <2>1, <1>5, <1>6 DEF StreamInv, BatchIsNext, Reads, Unread
  <2>2. CASE r = s BY <2>2, <1>1, <1>3, <1>5, <1>6 DEF BatchIsNext, Reads, Unread
  <2> QED BY <2>1, <2>2
<1>8. \A r \in Streams : /\ Listens(r)' <=> Listens(r)
                         /\ stream'[r].client = stream[r].client /\ stream'[r].at = stream[r].at
  BY <1>3, <1>6 DEF Listens, Reads
<1>9. InStep' BY <1>1, <1>5, <1>8 DEF InStep
<1> QED BY <1>1, <1>5, <1>6, <1>7, <1>9 DEF StreamTypeOK

LEMMA OpenKeeps ==
    ASSUME StreamInv, NEW s \in Streams, NEW c \in Clients, Streaming!Open(s, c)
    PROVE  /\ stream' \in [Streams -> StreamRow] /\ received' \in [Clients -> Nat] /\ events' \in Seq(EventKinds)
           /\ \A r \in Streams : BatchIsNext(r)'
           /\ InStep'
<1> DEFINE row == [pc |-> "streaming", client |-> c, online |-> TRUE, at |-> received[c],
                   batch |-> Streaming!EventsAfter(received[c])]
<1>1. StreamTypeOK /\ InStep /\ received[c] \in Nat BY DEF StreamInv, StreamTypeOK
<1>2. /\ Streaming!EventsAfter(received[c]) \subseteq Nat
      /\ Streaming!EventsAfter(received[c]) \in {{}, Unread(received[c])}
  BY <1>1, ReadsWhatIsNext
<1>3. /\ row \in StreamRow /\ row.batch \in {{}, Unread(received[c])}
      /\ row.pc = "streaming" /\ row.client = c /\ row.at = received[c] /\ row.online
  BY <1>1, <1>2 DEF StreamRow, StreamPcs
<1>4. stream' = [stream EXCEPT ![s] = row] /\ UNCHANGED <<events, received>> BY DEF Streaming!Open
<1>5. \A r \in Streams : Listens(r) => stream[r].client # c
  BY DEF Streaming!Open, Streaming!StreamOf, Listens, Reads
<1> HIDE DEF row
<1>6. /\ stream' \in [Streams -> StreamRow] /\ stream'[s] = row
      /\ \A r \in Streams \ {s} : stream'[r] = stream[r]
  BY <1>1, <1>3, <1>4, Others
<1>7. ASSUME NEW r \in Streams PROVE BatchIsNext(r)'
  <2>1. CASE r # s BY <2>1, <1>4, <1>6 DEF StreamInv, BatchIsNext, Reads, Unread
  <2>2. CASE r = s BY <2>2, <1>1, <1>3, <1>4, <1>6 DEF BatchIsNext, Reads, Unread
  <2> QED BY <2>1, <2>2
<1>8. \A r \in Streams \ {s} : Listens(r)' <=> Listens(r) BY <1>6 DEF Listens, Reads
<1>9. InStep' BY <1>1, <1>3, <1>4, <1>5, <1>6, <1>8 DEF InStep
<1> QED BY <1>1, <1>4, <1>6, <1>7, <1>9 DEF StreamTypeOK

LEMMA LeavesKeeps ==
    ASSUME StreamInv, NEW s \in Streams, NEW row, Leaves(s, row)
    PROVE  /\ stream' \in [Streams -> StreamRow] /\ received' \in [Clients -> Nat] /\ events' \in Seq(EventKinds)
           /\ \A r \in Streams : BatchIsNext(r)'
           /\ InStep'
<1>1. StreamTypeOK /\ InStep /\ UNCHANGED <<events, received>> BY DEF StreamInv, Leaves
<1>2. /\ stream' \in [Streams -> StreamRow] /\ stream'[s] = row
      /\ \A r \in Streams \ {s} : stream'[r] = stream[r]
  BY <1>1, Others DEF Leaves
<1>3. row.pc = "streaming" =>
         /\ Reads(s) /\ row.client = stream[s].client /\ row.at = stream[s].at
         /\ row.batch = stream[s].batch /\ ~row.online
  BY <1>1 DEF Leaves, StreamTypeOK, StreamRow
<1>4. ASSUME NEW r \in Streams PROVE BatchIsNext(r)'
  <2>1. CASE r # s BY <2>1, <1>1, <1>2 DEF StreamInv, BatchIsNext, Reads, Unread
  <2>2. CASE r = s BY <2>2, <1>1, <1>2, <1>3 DEF StreamInv, BatchIsNext, Reads, Unread
  <2> QED BY <2>1, <2>2
<1>5. \A r \in Streams : Listens(r)' => r # s /\ Listens(r) BY <1>2, <1>3 DEF Listens, Reads
<1>6. InStep' BY <1>1, <1>2, <1>5 DEF InStep
<1> QED BY <1>1, <1>2, <1>4, <1>6 DEF StreamTypeOK

LEMMA LogsKeeps ==
    ASSUME StreamInv, Logs
    PROVE  /\ stream' \in [Streams -> StreamRow] /\ received' \in [Clients -> Nat] /\ events' \in Seq(EventKinds)
           /\ \A r \in Streams : BatchIsNext(r)'
           /\ InStep'
<1>1. StreamTypeOK /\ UNCHANGED <<stream, received>> BY DEF StreamInv, Logs
<1>2. ASSUME NEW r \in Streams PROVE BatchIsNext(r)'
  <2>1. SUFFICES ASSUME Reads(r)
                 PROVE  /\ stream[r].batch \subseteq Unread(stream[r].at)'
                        /\ \A m \in stream[r].batch, n \in Unread(stream[r].at)' : n < m => n \in stream[r].batch
    BY <1>1 DEF StreamInv, BatchIsNext, Reads
  <2>2. /\ stream[r].batch \subseteq Unread(stream[r].at)
        /\ \A m \in stream[r].batch, n \in Unread(stream[r].at) : n < m => n \in stream[r].batch
    BY <2>1 DEF StreamInv, BatchIsNext
  <2>3. /\ DOMAIN events = 1..Len(events) /\ Len(events) \in Nat
        /\ DOMAIN events' = 1..Len(events') /\ Len(events') \in Nat
        /\ Len(events) <= Len(events') /\ \A n \in DOMAIN events : events'[n] = events[n]
    BY <1>1 DEF StreamTypeOK, Logs
  <2>4. Unread(stream[r].at)' = {i \in DOMAIN events' : i > stream[r].at /\ events'[i] # "click"}
    BY <1>1 DEF Unread
  <2>5. Unread(stream[r].at) \subseteq Unread(stream[r].at)' BY <2>3, <2>4 DEF Unread
  <2>6. \A n \in Unread(stream[r].at)' : n \in DOMAIN events => n \in Unread(stream[r].at)
    BY <2>3, <2>4 DEF Unread
  <2>7. \A m \in stream[r].batch, n \in Unread(stream[r].at)' : n < m => n \in DOMAIN events
    BY <2>2, <2>3, <2>4 DEF Unread
  <2> QED BY <2>2, <2>5, <2>6, <2>7
<1>3. InStep' BY <1>1 DEF StreamInv, InStep, Listens, Reads
<1> QED BY <1>1, <1>2, <1>3 DEF StreamTypeOK, Logs

LEMMA StreamKept == StreamInv /\ [Streaming!StreamNext]_streamVars => StreamInv'
<1> SUFFICES ASSUME StreamInv, [Streaming!StreamNext]_streamVars PROVE StreamInv' OBVIOUS
<1>1. StreamTypeOK /\ NobodyBack BY DEF StreamInv
<1>2. /\ stream' \in [Streams -> StreamRow] /\ received' \in [Clients -> Nat] /\ events' \in Seq(EventKinds)
      /\ \A r \in Streams : BatchIsNext(r)'
      /\ InStep'
  BY <1>1, StreamMoves, DeliverKeeps, PollKeeps, OpenKeeps, LeavesKeeps, LogsKeeps
<1>3. StreamTypeOK' BY <1>1, <1>2, StatusTyped DEF StreamTypeOK
<1>4. NobodyBack' BY <1>1, NobodyStep
<1> QED BY <1>2, <1>3, <1>4 DEF StreamInv

LEMMA OnceStep ==
    ASSUME StreamInv, [Streaming!StreamNext]_streamVars, NEW c \in Clients, received'[c] # received[c]
    PROVE  /\ received[c] < received'[c] /\ events[received'[c]] # "click"
           /\ \A n \in received[c] + 1 .. received'[c] - 1 : events[n] = "click"
<1>1. StreamTypeOK BY DEF StreamInv
<1>2. PICK s \in Streams : Streaming!Deliver(s)
  BY <1>1, StreamMoves DEF Leaves, Logs, Streaming!Poll, Streaming!Open
<1>3. PICK n \in Unread(received[stream[s].client]) :
         /\ \A m \in Unread(received[stream[s].client]) : n <= m
         /\ received' = [received EXCEPT ![stream[s].client] = n]
  BY <1>2, WrittenOut
<1>4. stream[s].client = c /\ received'[c] = n BY <1>1, <1>3 DEF StreamTypeOK
<1>5. received[c] \in Nat /\ n \in 1..Len(events) /\ Len(events) \in Nat /\ n > received[c] /\ events[n] # "click"
      /\ DOMAIN events = 1..Len(events)
  BY <1>1, <1>3, <1>4 DEF StreamTypeOK, Unread
<1>6. ASSUME NEW k \in received[c] + 1 .. n - 1 PROVE events[k] = "click"
  <2>1. k \in DOMAIN events /\ k > received[c] /\ ~(n <= k) BY <1>5, <1>6
  <2> QED BY <2>1, <1>3, <1>4 DEF Unread
<1> QED BY <1>4, <1>5, <1>6

\* A client receives each event of an answer once and in order, over any number of
\* streams it opens and breaks off, and never a citation click (stream,
\* list_events_after).
THEOREM ReadOnce == Streaming!StreamSpec => Streaming!EveryEventOnce
<1>1. StreamInv /\ [Streaming!StreamNext]_streamVars => EventOnce BY OnceStep DEF EventOnce
<1> QED BY <1>1, InitStream, StreamKept, PTL
        DEF Streaming!StreamSpec, EventOnce, Streaming!EveryEventOnce, Streaming!streamVars, streamVars

LEMMA ReapStep ==
    ASSUME StreamInv, [Streaming!StreamNext]_streamVars, reaper = "locking", reaper' = "idle", life' # life
    PROVE  deadline = "over" /\ ~Streaming!Live
<1>1. StreamTypeOK /\ NobodyBack BY DEF StreamInv
<1>2. CASE Streaming!Reap BY <1>1, <1>2 DEF Streaming!Reap, Streaming!StillOver, Streaming!Live, NobodyBack
<1>3. reaper' # reaper OBVIOUS
<1>4. CASE Streaming!ReaperStep
  BY <1>2, <1>4 DEF Streaming!ReaperStep, Streaming!ScanGrace, Streaming!DisarmGrace
<1>5. ASSUME NEW s \in Streams, Streaming!StreamStep(s) PROVE FALSE
  BY <1>3, <1>5 DEF Streaming!StreamStep, Streaming!Deliver, Streaming!Poll, Streaming!Cancel,
     Streaming!LeaveCounts, Streaming!LeaveFindsNothing, Streaming!LeaveCommits
<1>6. ASSUME NEW s \in Streams,
             \/ Streaming!Refused(s) \/ Streaming!Break(s) \/ Streaming!StreamDies(s) \/ Streaming!LeaseLapses(s)
             \/ \E c \in Clients : Streaming!Open(s, c)
      PROVE  FALSE
  BY <1>3, <1>6 DEF Streaming!Refused, Streaming!Break, Streaming!StreamDies, Streaming!LeaseLapses, Streaming!Open
<1>7. CASE Streaming!GracePasses \/ Streaming!Progress \/ Streaming!Click \/ Streaming!RequestStop
           \/ Streaming!Finish \/ Streaming!Delete \/ UNCHANGED streamVars
           \/ \E clients \in SUBSET Clients \ {{}} : Streaming!Revoke(clients)
  BY <1>3, <1>7 DEF Streaming!GracePasses, Streaming!Progress, Streaming!Click, Streaming!RequestStop,
     Streaming!Finish, Streaming!Delete, Streaming!Revoke, streamVars
<1> QED BY <1>4, <1>5, <1>6, <1>7 DEF Streaming!StreamNext

\* The reaper stops a generation only when its whole grace is over and no stream has
\* a lease it could renew, whoever subscribed or left while the pass was on its way
\* (_reap_disconnect_grace, create_lease).
THEOREM ReapsDeserted == Streaming!StreamSpec => Streaming!ReapsOnlyAbandoned
<1>1. StreamInv /\ [Streaming!StreamNext]_streamVars => DesertedOnly BY ReapStep DEF DesertedOnly
<1> QED BY <1>1, InitStream, StreamKept, PTL
        DEF Streaming!StreamSpec, DesertedOnly, Streaming!ReapsOnlyAbandoned, Streaming!streamVars, streamVars

-----------------------------------------------------------------------------
(* Side by side *)

\* A step of one part is a step of its module and lets the others stand
LEMMA PartSteps ==
    [DeliveryNext]_allVars =>
        [Next]_vars /\ [SubmissionNext]_submissionVars /\ [Streaming!StreamNext]_streamVars
BY DEF DeliveryNext, allVars

\* What the parts of MCDelivery promise holds of them together
THEOREM SideBySide ==
    DeliverySpec => [](EveryRecipientAccounted /\ DeletedIsRedacted /\ SubmissionsSafe)
<1>1. DeliveryInit => Init /\ SubmissionInit BY Zenon DEF DeliveryInit
<1>2. QueueInv /\ FateInv => EveryRecipientAccounted
  BY CountFates DEF QueueInv, FateInv, EveryRecipientAccounted
<1>3. RedactInv => DeletedIsRedacted BY DEF RedactInv, DeletedIsRedacted
<1> QED BY <1>1, <1>2, <1>3, PartSteps, InitQueue, QueueStep, InitFate, FateStep, InitRetireRedact,
           RedactStep, SubmissionBegins, SubmissionStep, SubmissionSafety, PTL DEF DeliverySpec

\* What the streams of an answer keep to holds beside the other parts: each event
\* once, and nobody's reading cut short while it goes on (stream,
\* _reap_disconnect_grace).
THEOREM ReadersSideBySide ==
    DeliverySpec => Streaming!EveryEventOnce /\ Streaming!ReapsOnlyAbandoned
<1>1. DeliveryInit => Streaming!StreamInit BY Zenon DEF DeliveryInit
<1>2. StreamInv /\ [Streaming!StreamNext]_streamVars => EventOnce BY OnceStep DEF EventOnce
<1>3. StreamInv /\ [Streaming!StreamNext]_streamVars => DesertedOnly BY ReapStep DEF DesertedOnly
<1> QED BY <1>1, <1>2, <1>3, PartSteps, InitStream, StreamKept, PTL
        DEF DeliverySpec, EventOnce, DesertedOnly, Streaming!EveryEventOnce, Streaming!ReapsOnlyAbandoned,
            Streaming!streamVars, streamVars

=============================================================================
