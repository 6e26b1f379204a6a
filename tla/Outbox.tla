------------------------------- MODULE Outbox -------------------------------
(***************************************************************************)
(* The transactional outbox and the notification inbox it fills:           *)
(* publication (publisher.py), claims, leases, retries and replays         *)
(* (dispatcher.py), materialization per recipient (notifications.py),      *)
(* acknowledgement and read state (service.py), retention and compaction   *)
(* (maintenance.py, compaction.py), document redaction and account         *)
(* retirement (lifecycle.py).                                              *)
(*                                                                         *)
(* The delivery transaction and the acknowledgement transaction are split  *)
(* where another transaction can commit between their reads and their own  *)
(* commit (READ COMMITTED); every other transaction is one action.  The    *)
(* advisory locks of PostgreSQL are held by the split delivery.            *)
(***************************************************************************)
EXTENDS Integers, Sequences, FiniteSets

CONSTANTS
    Events,        \* outbox events
    Users,         \* recipient ids, a set of numbers: they are ordered
    Workers,       \* dispatcher processes
    Audience,      \* the recipients frozen when an event is published
    RoleEvents,    \* events addressed to a role snapshot
    DocumentEvents,\* events about one version of a document
    MaxAttempts,   \* dispatcher.py: MAX_CYCLE_ATTEMPTS
    MaxOnline,     \* maintenance.py: MAX_ONLINE_NOTIFICATIONS
    MaxReplays,    \* bound: replays of one delivery
    MaxMoves       \* bound: role changes of one account

ASSUME OutboxAssumption ==
    /\ Users \subseteq Nat
    /\ Audience \in [Events -> SUBSET Users]
    /\ RoleEvents \subseteq Events
    /\ DocumentEvents \subseteq Events
    /\ MaxAttempts \in Nat \ {0}
    /\ MaxOnline \in Nat \ {0}
    /\ MaxReplays \in Nat
    /\ MaxMoves \in Nat

VARIABLES
    event,      \* storage_state of the outbox_event rows
    delivery,   \* outbox_delivery rows of the in-app consumer
    attempts,   \* status of the outbox_delivery_attempt rows, by attempt number
    account,    \* identity_user rows, as materialization reads them
    deleted,    \* events whose document version has a redaction tombstone
    note,       \* notification rows
    withheld,   \* notification_suppression rows
    receipt,    \* outcome of the notification_delivery_receipt rows
    acked,      \* notification_context_ack rows
    inbox,      \* notification_inbox rows
    acking,     \* acknowledgements between their update and their commit
    work        \* the local state of each dispatcher process

vars == <<event, delivery, attempts, account, deleted, note, withheld, receipt,
          acked, inbox, acking, work>>

rows    == <<note, withheld, receipt, acked, inbox>>
queue   == <<event, delivery, attempts>>
context == <<account, deleted>>

-----------------------------------------------------------------------------
(* Rows *)

Due      == {"pending", "retry_wait"}
Settled  == {"none", "delivered", "dead_letter"}
Statuses == Due \cup Settled \cup {"running"}

NoDelivery == [st |-> "none", fence |-> 0, cycle |-> 0, replays |-> 0, lapsed |-> FALSE]
NewDelivery == [NoDelivery EXCEPT !.st = "pending"]

NoNote == [seq |-> 0, read |-> FALSE, redacted |-> FALSE]
Shown(e, u) == note[e][u].seq > 0

Idle == [pc |-> "idle"]
Claimed(e, n) == [pc |-> "claimed", e |-> e, fence |-> n]

\* what a delivery transaction has decided for one recipient
Undecided == [what |-> "todo", seq |-> 0, read |-> FALSE]
Withhold  == [what |-> "withhold", seq |-> 0, read |-> FALSE]
Existing  == [what |-> "existing", seq |-> 0, read |-> FALSE]

-----------------------------------------------------------------------------
(* Locks *)

\* pg_advisory_xact_lock on the document of the event
DocumentLocked(e) ==
    /\ e \in DocumentEvents
    /\ \E w \in Workers : work[w].pc = "delivering" /\ work[w].e = e

\* pg_advisory_xact_lock on the inbox of the user
InboxLocked(u) ==
    \E w \in Workers : work[w].pc = "delivering" /\ u \in Audience[work[w].e]
                       /\ work[w].out[u].what # "todo"

-----------------------------------------------------------------------------
(* Publication and the accounts it addresses *)

\* _publish_authorized: event, recipients and pending delivery in one
\* transaction of the producer; a second publication reuses the row
Publish(e) ==
    /\ event[e] = "none"
    /\ event' = [event EXCEPT ![e] = "full"]
    /\ delivery' = [delivery EXCEPT ![e] = NewDelivery]
    /\ UNCHANGED <<attempts, context, rows, acking, work>>

\* the role of an account changes, or its deletion starts
Moved(a) == [a EXCEPT !.holds = ~a.holds, !.moves = a.moves + 1]

ChangeRole(u) ==
    /\ account[u].st = "active" /\ account[u].moves < MaxMoves
    /\ account' = [account EXCEPT ![u] = Moved(account[u])]
    /\ UNCHANGED <<queue, deleted, rows, acking, work>>

StartDeletion(u) ==
    /\ account[u].st = "active"
    /\ account' = [account EXCEPT ![u].st = "pending_delete"]
    /\ UNCHANGED <<queue, deleted, rows, acking, work>>

-----------------------------------------------------------------------------
(* Claims and leases *)

\* claim_one: fence and attempt number grow together, a retry advances the
\* cycle and anything else starts a new one
CycleAfter(d) == IF d.st = "retry_wait" THEN d.cycle + 1 ELSE 1
Taken(d) == [d EXCEPT !.st = "running", !.fence = d.fence + 1, !.lapsed = FALSE,
                      !.cycle = CycleAfter(d)]

Claim(w, e) ==
    /\ work[w].pc = "idle"
    /\ delivery[e].st \in Due
    /\ delivery' = [delivery EXCEPT ![e] = Taken(delivery[e])]
    /\ attempts' = [attempts EXCEPT ![e] = Append(@, "running")]
    /\ work' = [work EXCEPT ![w] = Claimed(e, delivery[e].fence + 1)]
    /\ UNCHANGED <<event, context, rows, acking>>

\* renew_lease never renews a lease that has passed, so renewing is not passing
LeaseLapses(e) ==
    /\ delivery[e].st = "running" /\ ~delivery[e].lapsed
    /\ delivery' = [delivery EXCEPT ![e].lapsed = TRUE]
    /\ UNCHANGED <<event, attempts, context, rows, acking, work>>

HoldsFence(w) ==
    /\ delivery[work[w].e].st = "running"
    /\ delivery[work[w].e].fence = work[w].fence

\* RetryPolicy.delay_for_cycle_attempt
AfterFailure(d) == IF d.cycle >= MaxAttempts THEN "dead_letter" ELSE "retry_wait"

EndAttempt(e, n, st, outcome) ==
    /\ delivery' = [delivery EXCEPT ![e] = [@ EXCEPT !.st = st, !.lapsed = FALSE]]
    /\ attempts' = [attempts EXCEPT ![e][n] = outcome]

\* recycle_expired_running
MutantRecycle(e) ==         \* leaves the last attempt of a cycle running
    /\ delivery[e].st = "running" /\ delivery[e].lapsed
    /\ delivery[e].cycle < MaxAttempts
    /\ EndAttempt(e, delivery[e].fence, AfterFailure(delivery[e]), "expired")
    /\ UNCHANGED <<event, context, rows, acking, work>>
Recycle(e) ==
    /\ delivery[e].st = "running" /\ delivery[e].lapsed
    /\ EndAttempt(e, delivery[e].fence, AfterFailure(delivery[e]), "expired")
    /\ UNCHANGED <<event, context, rows, acking, work>>

\* replay: a fresh cycle, on the same fence and attempt numbers
Revived(d) == [d EXCEPT !.st = "pending", !.cycle = 0, !.replays = d.replays + 1]

Replay(e) ==
    /\ event[e] = "full"
    /\ delivery[e].st = "dead_letter"
    /\ delivery[e].replays < MaxReplays
    /\ delivery' = [delivery EXCEPT ![e] = Revived(delivery[e])]
    /\ UNCHANGED <<event, attempts, context, rows, acking, work>>

-----------------------------------------------------------------------------
(* The delivery transaction *)

\* run_consumer_and_finalize checks the fence and the lease, then takes the
\* lock of the document and looks for its tombstone
Begin(w) ==
    /\ work[w].pc = "claimed"
    /\ IF HoldsFence(w) /\ ~delivery[work[w].e].lapsed
       THEN /\ ~DocumentLocked(work[w].e)
            /\ work' = [work EXCEPT ![w] =
                    [pc |-> "delivering", e |-> work[w].e, fence |-> work[w].fence,
                     redact |-> work[w].e \in deleted,
                     out |-> [u \in Users |-> Undecided]]]
       ELSE work' = [work EXCEPT ![w] = Idle]
    /\ UNCHANGED <<queue, context, rows, acking>>

Waiting(w) == {u \in Audience[work[w].e] : work[w].out[u].what = "todo"}

\* the two lifecycle and role checks of NotificationMaterializer.materialize
Reachable(e, u) ==
    /\ account[u].st = "active"
    /\ e \in RoleEvents => account[u].holds

Decision(e, u) ==
    IF ~Reachable(e, u) THEN Withhold
    ELSE IF Shown(e, u) THEN Existing
    ELSE [what |-> "show", seq |-> inbox[u].next, read |-> u \in acked[e]]

\* materialize, for the recipients in order of their id, under the inbox lock
Materialize(w) ==
    /\ work[w].pc = "delivering"
    /\ \E u \in Waiting(w) :
          /\ \A v \in Waiting(w) : u <= v
          /\ ~InboxLocked(u)
          /\ work' = [work EXCEPT ![w].out[u] = Decision(work[w].e, u)]
    /\ UNCHANGED <<queue, context, rows, acking>>

\* _trim_over_cap, of the notifications ns of a user: those ranked beyond the cap
Newer(ns, f) == {h \in DOMAIN ns : ns[h].seq > ns[f].seq}
OverCap(ns) ==
    {f \in DOMAIN ns : ns[f].seq > 0 /\ Cardinality(Newer(ns, f)) >= MaxOnline}

\* the rows of user u once e has been delivered to u
Delivered(w, e, u) ==
    [f \in Events |->
        IF f # e THEN note[f][u]
        ELSE IF work[w].out[u].what = "show"
        THEN [seq |-> work[w].out[u].seq, read |-> work[w].out[u].read,
              redacted |-> work[w].redact]
        ELSE note[e][u]]

ShownBy(w) == {u \in Audience[work[w].e] : work[w].out[u].what = "show"}

\* retire_notification_by_id: a receipt first, then notification and ack go
Keep(ns, f) == IF f \in OverCap(ns) THEN NoNote ELSE ns[f]

\* the final fenced update, which looks at the lease as of the start of the
\* transaction, and the commit
MayCommit(w) == HoldsFence(w)

Commit(w) ==
    LET e == work[w].e
        after == [u \in Users |-> Delivered(w, e, u)]
    IN
    /\ work[w].pc = "delivering"
    /\ Waiting(w) = {}
    /\ \A u \in ShownBy(w) : \A f \in OverCap(after[u]) : acking[f][u] # "found"
    /\ IF MayCommit(w)
       THEN /\ EndAttempt(e, work[w].fence, "delivered", "delivered")
            /\ note' = [f \in Events |-> [u \in Users |->
                           IF u \in ShownBy(w) THEN Keep(after[u], f) ELSE note[f][u]]]
            /\ receipt' = [f \in Events |-> [u \in Users |->
                              IF u \in ShownBy(w) /\ f \in OverCap(after[u])
                                 /\ receipt[f][u] = "none"
                              THEN "materialized" ELSE receipt[f][u]]]
            /\ acked' = [f \in Events |->
                            {u \in acked[f] : ~(u \in ShownBy(w) /\ f \in OverCap(after[u]))}]
            /\ withheld' = [withheld EXCEPT ![e] =
                               @ \cup {u \in Audience[e] : work[w].out[u].what = "withhold"}]
            /\ inbox' = [u \in Users |-> IF u \in ShownBy(w)
                                         THEN [inbox[u] EXCEPT !.next = work[w].out[u].seq + 1]
                                         ELSE inbox[u]]
       ELSE UNCHANGED <<delivery, attempts, rows>>
    /\ work' = [work EXCEPT ![w] = Idle]
    /\ UNCHANGED <<event, context, acking>>

\* any exception of the consumer rolls its transaction back
Raise(w) ==
    /\ work[w].pc = "delivering"
    /\ work' = [work EXCEPT ![w] = [pc |-> "failing", e |-> work[w].e, fence |-> work[w].fence]]
    /\ UNCHANGED <<queue, context, rows, acking>>

\* fail_and_schedule, for a permanent and for a retryable error
FailAndSchedule(w, permanent) ==
    LET e == work[w].e IN
    /\ work[w].pc = "failing"
    /\ IF HoldsFence(w) /\ ~delivery[e].lapsed
       THEN EndAttempt(e, work[w].fence,
                       IF permanent THEN "dead_letter" ELSE AfterFailure(delivery[e]), "failed")
       ELSE UNCHANGED <<delivery, attempts>>
    /\ work' = [work EXCEPT ![w] = Idle]
    /\ UNCHANGED <<event, context, rows, acking>>

\* the process dies and the database rolls its open transaction back
Crash(w) ==
    /\ work[w].pc # "idle"
    /\ work' = [work EXCEPT ![w] = Idle]
    /\ UNCHANGED <<queue, context, rows, acking>>

-----------------------------------------------------------------------------
(* Read state *)

MarkRead(e, u) ==
    /\ Shown(e, u) /\ ~note[e][u].read
    /\ note' = [note EXCEPT ![e][u].read = TRUE]
    /\ UNCHANGED <<queue, context, withheld, receipt, acked, inbox, acking, work>>

\* read_all: the watermark moves to the last sequence given out, under the lock
\* that materialization holds until it commits
ReadAll(u) ==
    /\ ~InboxLocked(u)
    /\ account[u].st = "active"
    /\ inbox[u].through < inbox[u].next - 1
    /\ inbox' = [inbox EXCEPT ![u].through = inbox[u].next - 1]
    /\ UNCHANGED <<queue, context, note, withheld, receipt, acked, acking, work>>

\* _assert_recipient_evidence; the recipient rows live as long as the full event
Evidence(e, u) ==
    /\ u \notin withheld[e]
    /\ \/ event[e] = "full" /\ u \in Audience[e]
       \/ Shown(e, u)
       \/ receipt[e][u] = "materialized"

\* ack_event up to its last update: the projection it can see will be read.
\* With a materialized receipt and no projection nothing is written
AckScan(e, u) ==
    /\ acking[e][u] = "no"
    /\ u \notin acked[e]
    /\ Evidence(e, u)
    /\ Shown(e, u) \/ receipt[e][u] # "materialized"
    /\ acking' = [acking EXCEPT ![e][u] = IF Shown(e, u) THEN "found" ELSE "early"]
    /\ UNCHANGED <<queue, context, rows, work>>

AckCommit(e, u) ==
    /\ acking[e][u] # "no"
    /\ acked' = [acked EXCEPT ![e] = @ \cup {u}]
    /\ note' = IF acking[e][u] = "found" /\ Shown(e, u)
               THEN [note EXCEPT ![e][u].read = TRUE] ELSE note
    /\ acking' = [acking EXCEPT ![e][u] = "no"]
    /\ UNCHANGED <<queue, context, withheld, receipt, inbox, work>>

-----------------------------------------------------------------------------
(* Retention, redaction and retirement *)

\* _retire_due, of a notification past its ninety days
MutantRetireDue(e, u) ==    \* deletes the notification without its receipt
    /\ Shown(e, u)
    /\ acking[e][u] # "found"
    /\ note' = [note EXCEPT ![e][u] = NoNote]
    /\ acked' = [acked EXCEPT ![e] = @ \ {u}]
    /\ UNCHANGED <<queue, context, withheld, receipt, inbox, acking, work>>
RetireDue(e, u) ==
    /\ Shown(e, u)
    /\ acking[e][u] # "found"           \* the ack holds the row
    /\ note' = [note EXCEPT ![e][u] = NoNote]
    /\ receipt' = [receipt EXCEPT ![e][u] = IF @ = "none" THEN "materialized" ELSE @]
    /\ acked' = [acked EXCEPT ![e] = @ \ {u}]
    /\ UNCHANGED <<queue, context, withheld, inbox, acking, work>>

\* _write_suppression_receipts
SuppressionReceipt(e, u) ==
    IF u \in withheld[e] /\ receipt[e][u] = "none" THEN "withheld" ELSE receipt[e][u]

\* compact_event, for a due event or for a retired account: the receipts of the
\* withheld recipients, then the rows go
MutantCompact(e) ==         \* drops the suppressions without a receipt
    /\ event[e] = "full"
    /\ delivery[e].st = "delivered"
    /\ event' = [event EXCEPT ![e] = "compacted"]
    /\ delivery' = [delivery EXCEPT ![e] = NoDelivery]
    /\ attempts' = [attempts EXCEPT ![e] = <<>>]
    /\ withheld' = [withheld EXCEPT ![e] = {}]
    /\ UNCHANGED <<context, note, receipt, acked, inbox, acking, work>>
Compact(e) ==
    /\ event[e] = "full"
    /\ delivery[e].st = "delivered"
    /\ event' = [event EXCEPT ![e] = "compacted"]
    /\ delivery' = [delivery EXCEPT ![e] = NoDelivery]
    /\ attempts' = [attempts EXCEPT ![e] = <<>>]
    /\ withheld' = [withheld EXCEPT ![e] = {}]
    /\ receipt' = [receipt EXCEPT ![e] = [u \in Users |-> SuppressionReceipt(e, u)]]
    /\ UNCHANGED <<context, note, acked, inbox, acking, work>>

\* _redact_document_notifications, in the transaction that deletes the document
MutantRedact(e) ==          \* does not wait for a delivery of the document
    /\ e \in DocumentEvents \ deleted
    /\ deleted' = deleted \cup {e}
    /\ note' = [note EXCEPT ![e] = [u \in Users |->
                   IF Shown(e, u) THEN [@[u] EXCEPT !.redacted = TRUE] ELSE @[u]]]
    /\ UNCHANGED <<queue, account, withheld, receipt, acked, inbox, acking, work>>
Redact(e) ==
    /\ e \in DocumentEvents \ deleted
    /\ ~DocumentLocked(e)
    /\ deleted' = deleted \cup {e}
    /\ note' = [note EXCEPT ![e] = [u \in Users |->
                   IF Shown(e, u) THEN [@[u] EXCEPT !.redacted = TRUE] ELSE @[u]]]
    /\ UNCHANGED <<queue, account, withheld, receipt, acked, inbox, acking, work>>

\* _write_permanent_receipts
PermanentReceipt(e, u) ==
    IF receipt[e][u] # "none" THEN receipt[e][u]
    ELSE IF Shown(e, u) THEN "materialized"
    ELSE IF u \in withheld[e] THEN "withheld" ELSE "none"

\* _apply_retirement_work: receipts for what was shown and what was withheld,
\* then notifications, acks and the inbox go and a tombstone stays
RetireAccount(u) ==
    /\ account[u].st = "pending_delete"
    /\ ~InboxLocked(u)
    /\ \A e \in Events : acking[e][u] # "found"
    /\ account' = [account EXCEPT ![u].st = "retired"]
    /\ receipt' = [e \in Events |-> [receipt[e] EXCEPT ![u] = PermanentReceipt(e, u)]]
    /\ note' = [e \in Events |-> [note[e] EXCEPT ![u] = NoNote]]
    /\ acked' = [e \in Events |-> acked[e] \ {u}]
    /\ inbox' = [inbox EXCEPT ![u] = [next |-> 1, through |-> 0]]
    /\ UNCHANGED <<queue, deleted, withheld, acking, work>>

-----------------------------------------------------------------------------
(* Specification *)

Init ==
    /\ event = [e \in Events |-> "none"]
    /\ delivery = [e \in Events |-> NoDelivery]
    /\ attempts = [e \in Events |-> <<>>]
    /\ account = [u \in Users |-> [st |-> "active", holds |-> TRUE, moves |-> 0]]
    /\ deleted = {}
    /\ note = [e \in Events |-> [u \in Users |-> NoNote]]
    /\ withheld = [e \in Events |-> {}]
    /\ receipt = [e \in Events |-> [u \in Users |-> "none"]]
    /\ acked = [e \in Events |-> {}]
    /\ inbox = [u \in Users |-> [next |-> 1, through |-> 0]]
    /\ acking = [e \in Events |-> [u \in Users |-> "no"]]
    /\ work = [w \in Workers |-> Idle]

WorkerStep(w) ==
    \/ Begin(w) \/ Materialize(w) \/ Commit(w)
    \/ \E permanent \in BOOLEAN : FailAndSchedule(w, permanent)

Next ==
    \/ \E e \in Events : Publish(e) \/ LeaseLapses(e) \/ Recycle(e) \/ Replay(e)
                         \/ Compact(e) \/ Redact(e)
    \/ \E u \in Users : ChangeRole(u) \/ StartDeletion(u) \/ ReadAll(u) \/ RetireAccount(u)
    \/ \E e \in Events, u \in Users :
          MarkRead(e, u) \/ AckScan(e, u) \/ AckCommit(e, u) \/ RetireDue(e, u)
    \/ \E w \in Workers : WorkerStep(w) \/ Raise(w) \/ Crash(w)
    \/ \E w \in Workers, e \in Events : Claim(w, e)

Spec == Init /\ [][Next]_vars

\* The resident workers go on claiming, delivering and recycling; the lease of
\* a delivery no worker holds passes.  Failures, crashes, replays and everything
\* users do may or may not come
Abandoned(e) ==
    /\ \A w \in Workers : ~(work[w].pc # "idle" /\ work[w].e = e)
    /\ LeaseLapses(e)

Fairness ==
    /\ \A w \in Workers : WF_vars(WorkerStep(w))
    /\ \A e \in Events :
          /\ WF_vars(\E w \in Workers : Claim(w, e))
          /\ WF_vars(Recycle(e))
          /\ WF_vars(Abandoned(e))
    /\ \A e \in Events, u \in Users : WF_vars(AckCommit(e, u))

FairSpec == Spec /\ Fairness

-----------------------------------------------------------------------------
(* Properties *)

DeliveryRow == [st : Statuses, fence : Nat, cycle : 0..MaxAttempts,
                replays : 0..MaxReplays, lapsed : BOOLEAN]
Outcome     == {"running", "delivered", "failed", "expired"}
AccountRow  == [st : {"active", "pending_delete", "retired"}, holds : BOOLEAN,
                moves : 0..MaxMoves]
NoteRow     == [seq : Nat, read : BOOLEAN, redacted : BOOLEAN]
InboxRow    == [next : Nat \ {0}, through : Nat]
Verdict     == [what : {"todo", "withhold", "existing", "show"}, seq : Nat, read : BOOLEAN]
Claims      == [pc : {"claimed", "failing"}, e : Events, fence : Nat]
Transaction == [pc : {"delivering"}, e : Events, fence : Nat, redact : BOOLEAN,
                out : [Users -> Verdict]]
WorkRecord  == {Idle} \cup Claims \cup Transaction

\* Every row has the columns of the schema, and no cycle takes more than the
\* attempts of RetryPolicy
TypeOK ==
    /\ event \in [Events -> {"none", "full", "compacted"}]
    /\ delivery \in [Events -> DeliveryRow]
    /\ attempts \in [Events -> Seq(Outcome)]
    /\ account \in [Users -> AccountRow]
    /\ deleted \in SUBSET DocumentEvents
    /\ note \in [Events -> [Users -> NoteRow]]
    /\ withheld \in [Events -> SUBSET Users]
    /\ receipt \in [Events -> [Users -> {"none", "materialized", "withheld"}]]
    /\ acked \in [Events -> SUBSET Users]
    /\ inbox \in [Users -> InboxRow]
    /\ acking \in [Events -> [Users -> {"no", "early", "found"}]]
    /\ work \in [Workers -> WorkRecord]

\* What became of the notification of e for u
Fates(e, u) ==
    {f \in {"shown", "archived", "withheld"} :
        \/ f = "shown" /\ Shown(e, u)
        \/ f = "archived" /\ receipt[e][u] = "materialized"
        \/ f = "withheld" /\ (u \in withheld[e] \/ receipt[e][u] = "withheld")}

Over(e) == delivery[e].st = "delivered" \/ event[e] = "compacted"

\* A recipient has no trace of an event before its delivery commits and exactly
\* one fate from then on, whatever retries, replays, trimming, retirement and
\* compaction do (run_consumer_and_finalize, retire_notification_by_id,
\* _write_permanent_receipts, compact_event)
EveryRecipientAccounted ==
    \A e \in Events : \A u \in Audience[e] :
        Cardinality(Fates(e, u)) = IF Over(e) THEN 1 ELSE 0

\* Retirement and materialization take the same inbox lock, and materialization
\* reads the account under it: a retired account keeps no notification
\* (_apply_retirement_work, NotificationMaterializer.materialize)
NoNoteForRetired ==
    \A e \in Events, u \in Users : account[u].st = "retired" => ~Shown(e, u)

\* A deletion and a delivery of the document exclude each other, so a
\* notification about a deleted document is redacted (_redact_document_notifications,
\* _event_redacted)
DeletedIsRedacted ==
    \A e \in deleted, u \in Users : Shown(e, u) => note[e][u].redacted

\* A notification gets a number its inbox has never given out, so no read-all
\* that came before it covers it (_materialize_new, _read_all_in)
Numbered(e, u) ==
    ~Shown(e, u) /\ note'[e][u].seq > 0 =>
        /\ note'[e][u].seq \in inbox[u].next .. inbox'[u].next - 1
        /\ note'[e][u].seq > inbox'[u].through
SequencesGrow == [][\A e \in Events, u \in Users : Numbered(e, u)]_vars

\* The materializing transaction trims the inbox it adds to: no account ever
\* has more than MAX_ONLINE_NOTIFICATIONS (_trim_over_cap)
WithinCap ==
    \A u \in Users : Cardinality({e \in Events : Shown(e, u)}) <= MaxOnline

\* An attempt is open exactly when its delivery runs on its fence: recycling,
\* failing and delivering close it with the delivery (claim_one,
\* recycle_expired_running, fail_and_schedule, run_consumer_and_finalize)
OneOpenAttempt ==
    \A e \in Events :
        /\ Len(attempts[e]) = delivery[e].fence
        /\ {i \in DOMAIN attempts[e] : attempts[e][i] = "running"} =
              IF delivery[e].st = "running" THEN {delivery[e].fence} ELSE {}

\* How an attempt ended is never rewritten: a worker whose delivery was recycled
\* under it commits nothing (the fenced updates of run_consumer_and_finalize and
\* fail_and_schedule)
HistoryOf(e) ==
    \A i \in DOMAIN attempts[e] :
        attempts[e][i] # "running" =>
            \/ event'[e] = "compacted"
            \/ i \in DOMAIN attempts'[e] /\ attempts'[e][i] = attempts[e][i]
HistoryIsFinal == [][\A e \in Events : HistoryOf(e)]_vars

\* A delivery that is due or running is settled in the end: delivered or
\* dead-lettered, whatever workers crash and leases lapse (run_once, claim_one,
\* recycle_expired_running)
DueSettles ==
    \A e \in Events :
        []<>(delivery[e].st \notin Due \cup {"running"})

\* "write the ack so the future notification is born read": a notification whose
\* event its recipient has acknowledged is read (service.py, _write_ack)
AckedIsRead ==
    \A e \in Events, u \in Users :
        u \in acked[e] /\ Shown(e, u) => note[e][u].read

\* The outbox keeps the promise made to the recipients of an event
Fate == [e \in Events |-> [u \in Users |->
            IF Fates(e, u) = {} THEN "none" ELSE CHOOSE f \in Fates(e, u) : TRUE]]
Promise == INSTANCE NotificationPromise WITH fate <- Fate
PromiseKept == Promise!Spec

\* The notes of an inbox are numbered in order and stay within its cap, a retired
\* account gets none, and the outbox implements NotificationPromise
NotesKept == [](NoNoteForRetired /\ WithinCap) /\ SequencesGrow /\ PromiseKept

=============================================================================
