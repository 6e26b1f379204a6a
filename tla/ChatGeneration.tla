--------------------------- MODULE ChatGeneration ---------------------------
(***************************************************************************)
(* The lifecycle of chat generations: the request side that creates, stops,*)
(* revokes and deletes them (generation.py, ports.py, conversations.py),   *)
(* the execution workers and the maintenance pass (worker.py), the         *)
(* subscription leases that arm the disconnect grace period (leases.py)    *)
(* and the replayable event log (events.py).                               *)
(*                                                                         *)
(* One action is one database transaction of the code, or the computation  *)
(* between two of them.  Clocks are abstracted: a lease lapses, a grace    *)
(* period ends and a deadline passes by actions of their own.              *)
(***************************************************************************)
EXTENDS Naturals, Sequences, FiniteSets

CONSTANTS
    Gens,               \* generation ids
    Workers,            \* execution worker processes
    MaxRunningPerUser,  \* generation.py: max_running_per_user
    MaxPhysical,        \* worker.py: MAX_PHYSICAL_EXECUTIONS
    MaxScopeRetries,    \* worker.py: max_scope_retries
    MaxRounds,          \* rag rounds the effort budget allows
    MaxScans,           \* bound: rows read and not yet updated by maintenance
    MaxFence,           \* bound: no provider result is lost beyond this fence
    SkipLocked          \* TRUE on PostgreSQL, FALSE on SQLite

ASSUME ConstantsAssumption ==
    /\ MaxRunningPerUser \in Nat \ {0}
    /\ MaxPhysical \in Nat \ {0}
    /\ MaxScopeRetries \in Nat
    /\ MaxRounds \in Nat
    /\ MaxScans \in Nat
    /\ MaxFence \in Nat
    /\ SkipLocked \in BOOLEAN

VARIABLES
    gen,      \* chat_generation rows
    msg,      \* status of the assistant chat_message of each generation
    exec,     \* chat_generation_execution rows, by attempt number
    log,      \* chat_generation_event rows, in event_seq order
    work,     \* the local variables of each worker process
    scanned   \* rows the maintenance pass has read as lapsed

vars == <<gen, msg, exec, log, work, scanned>>

-----------------------------------------------------------------------------
(* Rows and statuses *)

Attempts == 1..MaxPhysical

Active     == {"running", "stop_requested"}
Terminal   == {"completed", "failed", "stopped"}
GenStatus  == {"absent", "deleted"} \cup Active \cup Terminal
MsgStatus  == {"none", "generating", "completed", "failed", "stopped"}
Claimable  == {"queued", "retry_wait"}
LiveExec   == Claimable \cup {"running", "provider_reconciling"}
ExecStatus == {"none", "expired", "completed", "failed", "cancelled"} \cup LiveExec
Phase      == {"none", "progress", "pending", "provider_reconciled"}

\* progress stands for the stage, step, delta, routed and notice events
TerminalEvent == {"done", "error", "stopped"}
Event         == {"start", "progress", "stop_requested", "answer"} \cup TerminalEvent

NoGen  == [st |-> "absent", ctl |-> 0, late |-> FALSE, grace |-> FALSE]
NoExec == [st |-> "none", lapsed |-> FALSE, fence |-> 0, phase |-> "none", scope |-> 0]

Row(st, fence, phase, scope) ==
    [st |-> st, lapsed |-> FALSE, fence |-> fence, phase |-> phase, scope |-> scope]

\* the row is leased to a worker, or gives up its lease, for another status
Run(row)         == [row EXCEPT !.st = "running", !.fence = row.fence + 1]
Lapse(row, b)    == [row EXCEPT !.lapsed = b]
Checkpoint(row, phase) == [row EXCEPT !.phase = phase]
Leave(row, st)   == [row EXCEPT !.st = st, !.lapsed = FALSE]
Rescope(row)     == [row EXCEPT !.st = "retry_wait", !.lapsed = FALSE,
                               !.scope = row.scope + 1]
Expire(row, n)   == [row EXCEPT !.st = "expired", !.lapsed = FALSE, !.fence = n]
Discard(row, st) == [row EXCEPT !.st = st, !.lapsed = FALSE, !.phase = "none", !.scope = 0]

\* what a lapsed-lease scan reads of an execution row
Scan(g, e) == [g |-> g, e |-> e, fence |-> exec[g][e].fence,
               phase |-> exec[g][e].phase, scope |-> exec[g][e].scope]

Idle == [pc |-> "idle"]
Claimed(g, e) == [pc |-> "claimed", g |-> g, e |-> e, fence |-> 0, ctl |-> 0,
                  err |-> "none", rounds |-> 0]

\* the steps at which the heartbeat thread of the execution is running
Executing == {"retrieving", "rewriting", "retrieved", "calling", "drafted", "ready"}
Busy      == {"claimed", "stopping", "fencing", "failing"} \cup Executing
ErrorCode == {"none", "generation_deadline_exceeded", "generation_state_conflict",
              "provider_unavailable", "provider_result_unknown",
              "source_scope_changed"}

ActiveGens == {g \in Gens : gen[g].st \in Active}
RowsOf(g)  == {e \in Attempts : exec[g][e].st # "none"}
LiveOf(g)  == {e \in Attempts : exec[g][e].st \in LiveExec}

\* _append_terminal: a second terminal event is dropped
HasTerminal(l) == \E i \in DOMAIN l : l[i] \in TerminalEvent
AppendTerminal(l, ev) == IF HasTerminal(l) THEN l ELSE Append(l, ev)

\* consecutive progress events are kept as one
AppendProgress(l) ==
    IF l # <<>> /\ l[Len(l)] = "progress" THEN l ELSE Append(l, "progress")

-----------------------------------------------------------------------------
(* Groups of updates several transactions share *)

\* _cancel_execution_row
MutantCancelRow(g, e) ==    \* selects by generation instead of by execution
    exec' = [exec EXCEPT ![g] = [f \in Attempts |->
                IF exec[g][f].st = "running" THEN Leave(exec[g][f], "cancelled")
                                             ELSE exec[g][f]]]
CancelRow(g, e) ==
    exec' = IF exec[g][e].st = "running"
            THEN [exec EXCEPT ![g][e] = Leave(@, "cancelled")]
            ELSE exec

\* _stop_terminal_in_transaction: the execution row is cancelled whatever it was
StopInTransaction(g, e) ==
    /\ gen' = [gen EXCEPT ![g].st = "stopped"]
    /\ msg' = [msg EXCEPT ![g] = "stopped"]
    /\ exec' = [exec EXCEPT ![g][e] = Leave(@, "cancelled")]
    /\ log' = [log EXCEPT ![g] = AppendTerminal(@, "stopped")]

\* _cancel_stale_execution
CancelStale(g, e) ==
    IF gen[g].st = "stop_requested"
    THEN StopInTransaction(g, e)
    ELSE CancelRow(g, e) /\ UNCHANGED <<gen, msg, log>>

\* the writes that end a generation with status failed and an error event
MutantSilentFail(g) ==      \* forgets the event
    /\ gen' = [gen EXCEPT ![g].st = "failed"]
    /\ msg' = [msg EXCEPT ![g] = "failed"]
    /\ log' = log
FailGeneration(g) ==
    /\ gen' = [gen EXCEPT ![g].st = "failed"]
    /\ msg' = [msg EXCEPT ![g] = "failed"]
    /\ log' = [log EXCEPT ![g] = AppendTerminal(@, "error")]

\* running becomes stop_requested and every worker's control version goes stale
RequestStop(g) ==
    [gen[g] EXCEPT !.st = "stop_requested", !.ctl = gen[g].ctl + 1]

-----------------------------------------------------------------------------
(* Requests *)

\* GenerationService.ask and _create_generation; a retry of a failed
\* generation inserts the same rows under a new id
Ask(g) ==
    /\ gen[g].st = "absent"
    /\ Cardinality(ActiveGens) < MaxRunningPerUser
    /\ gen' = [gen EXCEPT ![g] = [NoGen EXCEPT !.st = "running", !.ctl = 1]]
    /\ msg' = [msg EXCEPT ![g] = "generating"]
    /\ exec' = [exec EXCEPT ![g][1] = Row("queued", 1, "none", 0)]
    /\ log' = [log EXCEPT ![g] = <<"start">>]
    /\ UNCHANGED <<work, scanned>>

\* GenerationService.stop; in every other status it changes nothing
Stop(g) ==
    /\ gen[g].st = "running"
    /\ gen' = [gen EXCEPT ![g] = RequestStop(g)]
    /\ UNCHANGED <<msg, exec, log, work, scanned>>

\* apply_revocation_effects: the leases in scope go without arming the grace
\* period, and only a running generation is rewritten
Revoke(g) ==
    /\ gen[g].st = "running"
    /\ gen' = [gen EXCEPT ![g] = RequestStop(g)]
    /\ UNCHANGED <<msg, exec, log, work, scanned>>

\* delete_conversation: everything cascades, whatever the status
Delete(g) ==
    /\ gen[g].st \in Active \cup Terminal
    /\ gen' = [gen EXCEPT ![g] = [NoGen EXCEPT !.st = "deleted"]]
    /\ msg' = [msg EXCEPT ![g] = "none"]
    /\ exec' = [exec EXCEPT ![g] = [e \in Attempts |-> NoExec]]
    /\ log' = [log EXCEPT ![g] = <<>>]
    /\ UNCHANGED <<work, scanned>>

-----------------------------------------------------------------------------
(* Subscriptions: only what they do to the disconnect deadline *)

\* create_lease: a new subscription clears the disconnect deadline
Subscribe(g) ==
    /\ gen[g].grace
    /\ gen' = [gen EXCEPT ![g].grace = FALSE]
    /\ UNCHANGED <<msg, exec, log, work, scanned>>

\* invalidate_lease of the last row: an unfinished generation is given grace
Disconnect(g) ==
    /\ gen[g].st \in Active
    /\ ~gen[g].grace
    /\ gen' = [gen EXCEPT ![g].grace = TRUE]
    /\ UNCHANGED <<msg, exec, log, work, scanned>>

\* now passes absolute_deadline_at_utc
DeadlinePasses(g) ==
    /\ gen[g].st \in Active
    /\ ~gen[g].late
    /\ gen' = [gen EXCEPT ![g].late = TRUE]
    /\ UNCHANGED <<msg, exec, log, work, scanned>>

-----------------------------------------------------------------------------
(* The worker: claiming an execution *)

Rest(w)        == work' = [work EXCEPT ![w] = Idle]
Goto(w, pc)    == work' = [work EXCEPT ![w].pc = pc]
Fails(w, code) == work' = [work EXCEPT ![w].pc = "failing", ![w].err = code]

\* _claim_execution: the status is what makes a generation claimable, so an
\* execution left behind by a finished generation is cancelled here
Claim(w, g, e) ==
    /\ work[w].pc = "idle"
    /\ exec[g][e].st \in Claimable
    /\ \A f \in Attempts : exec[g][f].st # "running"
    /\ IF gen[g].st \in Active
       THEN /\ exec' = [exec EXCEPT ![g][e] = Run(@)]
            /\ work' = [work EXCEPT ![w] = Claimed(g, e)]
       ELSE /\ exec' = [exec EXCEPT ![g][e] = Leave(@, "cancelled")]
            /\ UNCHANGED work
    /\ UNCHANGED <<gen, msg, log, scanned>>

\* _execute: the generation as it is some time after the claim committed; a
\* deleted row raises and the worker moves on
ReadGeneration(w) ==
    /\ work[w].pc = "claimed"
    /\ LET g == work[w].g IN
       CASE gen[g].st = "deleted"        -> Rest(w)
         [] gen[g].st = "stop_requested" -> Goto(w, "stopping")
         [] OTHER -> work' = [work EXCEPT ![w].pc = "fencing",
                                          ![w].ctl = gen[g].ctl]
    /\ UNCHANGED <<gen, msg, exec, log, scanned>>

\* _stop_terminal
StopTerminal(w) ==
    /\ work[w].pc = "stopping"
    /\ IF gen[work[w].g].st \in Active
       THEN StopInTransaction(work[w].g, work[w].e)
       ELSE UNCHANGED <<gen, msg, exec, log>>
    /\ Rest(w)
    /\ UNCHANGED <<scanned>>

\* _execution_fence and _load_checkpoint: the fence is read back in a
\* transaction of its own, not returned by the claim
ReadFence(w) ==
    /\ work[w].pc = "fencing"
    /\ LET row == exec[work[w].g][work[w].e] IN
       IF row.st = "none"
       THEN Rest(w)
       ELSE work' = [work EXCEPT
                        ![w].fence = row.fence,
                        ![w].pc = IF row.phase = "provider_reconciled"
                                  THEN "ready" ELSE "retrieving"]
    /\ UNCHANGED <<gen, msg, exec, log, scanned>>

\* _fence_current; on PostgreSQL the SKIP LOCKED read finds no row while the
\* heartbeat thread of the same worker holds it, which seen = FALSE stands for
Sight == IF SkipLocked THEN BOOLEAN ELSE {TRUE}

HoldsFence(w) ==
    LET row == exec[work[w].g][work[w].e] IN
    /\ row.st = "running"
    /\ row.fence = work[w].fence
    /\ gen[work[w].g].ctl = work[w].ctl

FenceCurrent(w, seen) ==
    seen /\ HoldsFence(w) /\ gen[work[w].g].st \in Active

\* _persist_checkpoint: one conditional update, no SKIP LOCKED read before it
CanPersist(w) == HoldsFence(w) /\ gen[work[w].g].st = "running"

Persist(w, phase) == 
    exec' = [exec EXCEPT ![work[w].g][work[w].e] = Checkpoint(@, phase)]

-----------------------------------------------------------------------------
(* The worker: executing *)

DeadlineStops(w) ==
    /\ work[w].pc = "retrieving"
    /\ gen[work[w].g].late
    /\ Fails(w, "generation_deadline_exceeded")
    /\ UNCHANGED <<gen, msg, exec, log, scanned>>

\* _emit_stage, and the retrieval that follows it
EmitStage(w) ==
    /\ \/ work[w].pc = "retrieving" /\ ~gen[work[w].g].late
       \/ work[w].pc = "rewriting"
    /\ \E seen \in Sight :
          IF FenceCurrent(w, seen)
          THEN /\ log' = [log EXCEPT ![work[w].g] = AppendProgress(@)]
               /\ Goto(w, "retrieved")
          ELSE Fails(w, "generation_state_conflict") /\ UNCHANGED log
    /\ UNCHANGED <<gen, msg, exec, scanned>>

\* the retrieval_complete checkpoint; it is skipped when every hit was
\* filtered by its ACL, and losing it ends the worker's run silently
PersistRetrieval(w) ==
    /\ work[w].pc = "retrieved"
    /\ \/ CanPersist(w) /\ Persist(w, "progress") /\ Goto(w, "calling")
       \/ ~CanPersist(w) /\ UNCHANGED exec /\ Rest(w)
       \/ UNCHANGED exec /\ Goto(w, "calling")
    /\ UNCHANGED <<gen, msg, log, scanned>>

\* _emit_delta is best effort: without the fence the delta is dropped
EmitDelta(w) ==
    /\ work[w].pc = "calling"
    /\ FenceCurrent(w, TRUE)
    /\ log' = [log EXCEPT ![work[w].g] = AppendProgress(@)]
    /\ UNCHANGED <<gen, msg, exec, work, scanned>>

\* _provider_call: an answer, or an error the provider is known to have given
ProviderReturns(w) ==
    /\ work[w].pc = "calling"
    /\ \/ Goto(w, "drafted")
       \/ Fails(w, "provider_unavailable")
    /\ UNCHANGED <<gen, msg, exec, log, scanned>>

\* _provider_call: the connection broke after dispatch, nobody knows the result
ProviderLost(w) ==
    /\ work[w].pc = "calling"
    /\ work[w].fence < MaxFence
    /\ IF CanPersist(w) THEN Persist(w, "pending") ELSE UNCHANGED exec
    /\ Fails(w, "provider_result_unknown")
    /\ UNCHANGED <<gen, msg, log, scanned>>

\* a rejected draft starts one more round; an exhausted tier is first upgraded
\* by _persist_effort_upgrade, which checks the fence and the status
Rewrite(w) ==
    /\ work[w].pc = "drafted"
    /\ ~gen[work[w].g].late
    /\ work[w].rounds < MaxRounds
    /\ \/ /\ work' = [work EXCEPT ![w].pc = "rewriting", ![w].rounds = work[w].rounds + 1]
          /\ UNCHANGED <<gen, msg, exec, log>>
       \/ \E seen \in Sight :
             IF FenceCurrent(w, seen) /\ gen[work[w].g].st = "running"
             THEN /\ work' = [work EXCEPT ![w].pc = "rewriting", ![w].rounds = work[w].rounds + 1]
                  /\ UNCHANGED <<gen, msg, exec, log>>
             ELSE CancelStale(work[w].g, work[w].e) /\ Rest(w)
    /\ UNCHANGED <<scanned>>

\* the generation_ready checkpoint
PersistReady(w) ==
    /\ work[w].pc = "drafted"
    /\ IF CanPersist(w)
       THEN Persist(w, "progress") /\ Goto(w, "ready")
       ELSE UNCHANGED exec /\ Rest(w)
    /\ UNCHANGED <<gen, msg, log, scanned>>

\* the three conditional checks at the head of _publish
MutantPublishAllowed(w, seen) == seen /\ exec[work[w].g][work[w].e].st = "running"
PublishAllowed(w, seen) ==
    FenceCurrent(w, seen) /\ gen[work[w].g].st = "running"

\* the public writes of a publication
Complete(g, e) ==
    /\ gen' = [gen EXCEPT ![g].st = "completed"]
    /\ msg' = [msg EXCEPT ![g] = "completed"]
    /\ exec' = [exec EXCEPT ![g][e] = Discard(@, "completed")]
    /\ log' = [log EXCEPT ![g] = AppendTerminal(Append(@, "answer"), "done")]

\* _publish: fence, scope revalidation and every public write in one transaction
Publish(w) ==
    LET g == work[w].g
        e == work[w].e
    IN
    /\ work[w].pc = "ready"
    /\ \E seen \in Sight :
          IF ~PublishAllowed(w, seen)
          THEN CancelStale(g, e) /\ Rest(w)
          ELSE \/ /\ Fails(w, "source_scope_changed")
                  /\ UNCHANGED <<gen, msg, exec, log>>
               \/ Complete(g, e) /\ Rest(w)
    /\ UNCHANGED <<scanned>>

-----------------------------------------------------------------------------
(* The worker: failing, heartbeats and crashes *)

\* scope_retry_count lives in the checkpoint, and is lost with it
MayRetryScope(w) ==
    /\ work[w].err = "source_scope_changed"
    /\ exec[work[w].g][work[w].e].scope < MaxScopeRetries

\* _fail_execution.  Nothing here compares the fencing token
Fail(w) ==
    LET g   == work[w].g
        e   == work[w].e
        row == exec[g][e]
        err == work[w].err
    IN
    /\ work[w].pc = "failing"
    /\ CASE err = "generation_state_conflict" -> CancelStale(g, e)
         [] OTHER ->
              \/ /\ gen[g].st = "stop_requested"
                 /\ StopInTransaction(g, e)
              \/ /\ gen[g].st \notin Active
                 /\ UNCHANGED <<gen, msg, exec, log>>
              \/ /\ gen[g].st = "running"
                 /\ err = "provider_result_unknown"
                 /\ exec' = IF row.st = "running"
                            THEN [exec EXCEPT ![g][e] = Leave(@, "provider_reconciling")]
                            ELSE exec
                 /\ UNCHANGED <<gen, msg, log>>
              \/ /\ gen[g].st = "running"
                 /\ MayRetryScope(w)
                 /\ exec' = IF row.st = "running"
                            THEN [exec EXCEPT ![g][e] = Rescope(@)]
                            ELSE exec
                 /\ UNCHANGED <<gen, msg, log>>
              \/ /\ gen[g].st = "running"
                 /\ err # "provider_result_unknown"
                 /\ ~MayRetryScope(w)
                 /\ FailGeneration(g)
                 /\ exec' = [exec EXCEPT ![g][e] = Discard(@, "failed")]
    /\ Rest(w)
    /\ UNCHANGED <<scanned>>

\* a worker still runs the heartbeat thread of this execution
Beating(w, g, e) ==
    /\ work[w].pc \in Executing
    /\ work[w].g = g /\ work[w].e = e /\ work[w].fence = exec[g][e].fence

\* _heartbeat_loop renews whatever the lease says, while status and fence match
Heartbeat(w) ==
    /\ work[w].pc \in Executing
    /\ LET g == work[w].g
           e == work[w].e
       IN /\ exec[g][e].st = "running" /\ exec[g][e].lapsed
          /\ Beating(w, g, e)
          /\ exec' = [exec EXCEPT ![g][e] = Lapse(@, FALSE)]
    /\ UNCHANGED <<gen, msg, log, work, scanned>>

\* lease_expires_at_utc goes by: the worker is gone, or its heartbeats fail
LeaseLapses(g, e) ==
    /\ exec[g][e].st = "running"
    /\ ~exec[g][e].lapsed
    /\ exec' = [exec EXCEPT ![g][e] = Lapse(@, TRUE)]
    /\ UNCHANGED <<gen, msg, log, work, scanned>>

\* the process dies, or an exception that is no PlatformError ends the run
Crash(w) ==
    /\ work[w].pc # "idle"
    /\ Rest(w)
    /\ UNCHANGED <<gen, msg, exec, log, scanned>>

-----------------------------------------------------------------------------
(* Maintenance *)

\* _recover_expired_executions first reads every running row and its lease ...
ReadLapsed(g, e) ==
    /\ exec[g][e].st = "running"
    /\ exec[g][e].lapsed
    /\ Scan(g, e) \notin scanned
    /\ Cardinality(scanned) < MaxScans
    /\ scanned' = scanned \cup {Scan(g, e)}
    /\ UNCHANGED <<gen, msg, exec, log, work>>

\* ... and then updates each one on its status alone: a lease the heartbeat
\* renewed in between is expired too.  The new attempt continues from what was
\* read, not from what the row holds now
MutantRecover(r) ==         \* inserts whether or not its update found the row running
    /\ r \in scanned
    /\ scanned' = scanned \ {r}
    /\ gen[r.g].st \in Active
    /\ exec' = [exec EXCEPT
                  ![r.g][r.e] = IF @.st = "running" THEN Expire(@, r.fence + 1) ELSE @,
                  ![r.g][r.e + 1] = Row("queued", r.fence + 1, r.phase, r.scope)]
    /\ UNCHANGED <<gen, msg, log, work>>
Recover(r) ==
    LET g == r.g
        e == r.e
        expired == [exec EXCEPT ![g][e] = Expire(@, r.fence + 1)]
    IN
    /\ r \in scanned
    /\ scanned' = scanned \ {r}
    /\ \/ /\ exec[g][e].st # "running"
          /\ UNCHANGED <<gen, msg, exec, log>>
       \/ /\ exec[g][e].st = "running"
          /\ gen[g].st \in Active
          /\ gen[g].late \/ Cardinality(RowsOf(g)) >= MaxPhysical
          /\ FailGeneration(g)
          /\ exec' = expired
       \/ /\ exec[g][e].st = "running"
          /\ gen[g].st \notin Active
          /\ exec' = expired
          /\ UNCHANGED <<gen, msg, log>>
       \/ /\ exec[g][e].st = "running"
          /\ gen[g].st \in Active /\ ~gen[g].late
          /\ Cardinality(RowsOf(g)) < MaxPhysical
          /\ exec' = [expired EXCEPT
                        ![g][e + 1] = Row("queued", r.fence + 1, r.phase, r.scope)]
          /\ UNCHANGED <<gen, msg, log>>
    /\ UNCHANGED <<work>>

\* _reap_disconnect_grace, once the grace period is over: a lease that turned up
\* meanwhile disarms the deadline ...
Disarm(g) ==
    /\ gen[g].st = "running"
    /\ gen[g].grace
    /\ gen' = [gen EXCEPT ![g].grace = FALSE]
    /\ UNCHANGED <<msg, exec, log, work, scanned>>

\* ... otherwise the intermediate and the final state commit together.  An
\* execution that is being reconciled is not cancelled
Reap(g) ==
    /\ gen[g].st = "running"
    /\ gen[g].grace
    /\ gen' = [gen EXCEPT ![g] = [RequestStop(g) EXCEPT !.st = "stopped"]]
    /\ msg' = [msg EXCEPT ![g] = "stopped"]
    /\ log' = [log EXCEPT ![g] = AppendTerminal(Append(@, "stop_requested"), "stopped")]
    /\ exec' = [exec EXCEPT ![g] = [e \in Attempts |->
                   IF exec[g][e].st \in Claimable \cup {"running"}
                   THEN Leave(exec[g][e], "cancelled")
                   ELSE exec[g][e]]]
    /\ UNCHANGED <<work, scanned>>

\* _expire_provider_reconciling_executions
ExpireReconciling(g, e) ==
    /\ exec[g][e].st = "provider_reconciling"
    /\ gen[g].st = "running"
    /\ gen[g].late
    /\ FailGeneration(g)
    /\ exec' = [exec EXCEPT ![g][e] = Discard(@, "failed")]
    /\ UNCHANGED <<work, scanned>>

\* _reconcile_provider_reconciling, when the adapter confirms a usage (the
\* pending response becomes publishable) or that nothing was sent; the status
\* of the generation is not looked at.  A StillUnknown answer changes nothing
Reconcile(g, e, sent) ==
    /\ exec[g][e].st = "provider_reconciling"
    /\ exec' = [exec EXCEPT
                  ![g][e] = Row("retry_wait", @.fence,
                                IF sent /\ @.phase = "pending"
                                THEN "provider_reconciled" ELSE "none", 0)]
    /\ UNCHANGED <<gen, msg, log, work, scanned>>

-----------------------------------------------------------------------------
(* Specification *)

Init ==
    /\ gen = [g \in Gens |-> NoGen]
    /\ msg = [g \in Gens |-> "none"]
    /\ exec = [g \in Gens |-> [e \in Attempts |-> NoExec]]
    /\ log = [g \in Gens |-> <<>>]
    /\ work = [w \in Workers |-> Idle]
    /\ scanned = {}

Request(g) == Ask(g) \/ Stop(g) \/ Revoke(g) \/ Delete(g)

Streaming(g) == Subscribe(g) \/ Disconnect(g)

\* what a worker does next of its own accord once it holds an execution
WorkerStep(w) ==
    \/ ReadGeneration(w) \/ StopTerminal(w) \/ ReadFence(w)
    \/ DeadlineStops(w) \/ EmitStage(w) \/ PersistRetrieval(w)
    \/ ProviderReturns(w) \/ ProviderLost(w)
    \/ Rewrite(w) \/ PersistReady(w) \/ Publish(w) \/ Fail(w)

Next ==
    \/ \E g \in Gens : Request(g) \/ Streaming(g) \/ DeadlinePasses(g) \/ Disarm(g) \/ Reap(g)
    \/ \E w \in Workers : WorkerStep(w) \/ EmitDelta(w) \/ Heartbeat(w) \/ Crash(w)
    \/ \E w \in Workers, g \in Gens, e \in Attempts : Claim(w, g, e)
    \/ \E g \in Gens, e \in Attempts :
          LeaseLapses(g, e) \/ ReadLapsed(g, e) \/ ExpireReconciling(g, e)
    \/ \E r \in scanned : Recover(r)
    \/ \E g \in Gens, e \in Attempts, sent \in BOOLEAN : Reconcile(g, e, sent)

Spec == Init /\ [][Next]_vars

\* The worker process, the maintenance loop and time all keep going.  A lease
\* nobody renews lapses, but a renewed one may lapse or not; the provider
\* adapter need never answer, requests need never come
Abandoned(g, e) ==
    /\ \A w \in Workers : ~(work[w].pc # "idle" /\ work[w].g = g /\ work[w].e = e)
    /\ LeaseLapses(g, e)

Fairness ==
    /\ \A w \in Workers : WF_vars(WorkerStep(w))
    /\ \A g \in Gens : WF_vars(DeadlinePasses(g)) /\ WF_vars(Reap(g))
    /\ \A g \in Gens, e \in Attempts :
          /\ WF_vars(\E w \in Workers : Claim(w, g, e))
          /\ WF_vars(Abandoned(g, e))
          /\ WF_vars(ReadLapsed(g, e))
          /\ WF_vars(\E r \in scanned : r.g = g /\ r.e = e /\ Recover(r))
          /\ WF_vars(ExpireReconciling(g, e))

FairSpec == Spec /\ Fairness

-----------------------------------------------------------------------------
(* Types *)

BusyRecord ==
    [pc : Busy, g : Gens, e : Attempts, fence : Nat, ctl : Nat,
     err : ErrorCode, rounds : 0..MaxRounds]
WorkRecord == [pc : {"idle"}] \cup BusyRecord

GenRow  == [st : GenStatus, ctl : Nat, late : BOOLEAN, grace : BOOLEAN]
ExecRow == [st : ExecStatus, lapsed : BOOLEAN, fence : Nat, phase : Phase,
            scope : 0..MaxScopeRetries]
ScanRow == [g : Gens, e : Attempts, fence : Nat, phase : Phase,
            scope : 0..MaxScopeRetries]

\* Every variable keeps its shape; the scope retries of one checkpoint stay within
\* max_scope_retries (worker.py: _fail_execution).
TypeOK ==
    /\ gen \in [Gens -> GenRow]
    /\ msg \in [Gens -> MsgStatus]
    /\ exec \in [Gens -> [Attempts -> ExecRow]]
    /\ log \in [Gens -> Seq(Event)]
    /\ work \in [Workers -> WorkRecord]
    /\ scanned \subseteq ScanRow

-----------------------------------------------------------------------------
(* Safety *)

\* However claims, recoveries, reconciliations, stale failures and reaps
\* interleave, a generation has at most one execution a worker could still be
\* given or be running (_claim_execution, _recover_expired_executions).
OneLiveExecution ==
    \A g \in Gens : \A e, f \in LiveOf(g) : e = f

\* A generation that has ended has exactly one terminal event, the last of its
\* log and of the kind its status says; an unfinished one has none
\* (_append_terminal and every transaction that ends a generation).
EndOfLog == [completed |-> "done", failed |-> "error", stopped |-> "stopped"]

TerminalEvents(g) == {i \in DOMAIN log[g] : log[g][i] \in TerminalEvent}

LogTellsTheEnd ==
    \A g \in Gens :
        /\ gen[g].st \in Active => TerminalEvents(g) = {}
        /\ gen[g].st \in Terminal =>
              /\ TerminalEvents(g) = {Len(log[g])}
              /\ log[g][Len(log[g])] = EndOfLog[gen[g].st]

\* What the conversation shows is what the generation is: the answer is in the
\* log, once, exactly when the generation completed, and the message row has
\* the status of the generation row.
AnswerIffCompleted ==
    \A g \in Gens :
        /\ Cardinality({i \in DOMAIN log[g] : log[g][i] = "answer"}) =
              (IF gen[g].st = "completed" THEN 1 ELSE 0)
        /\ gen[g].st \in Active => msg[g] = "generating"
        /\ gen[g].st \in Terminal => msg[g] = gen[g].st

\* Both of them: the end of a generation is shown once, and as what it was
\* (_append_terminal_event and the message row that is written with it)
EndIsShown == LogTellsTheEnd /\ AnswerIffCompleted

\* An unfinished generation always has an execution left that can end it: no
\* interleaving strands it with only expired and cancelled ones (on a database
\* whose row reads do not skip locked rows).
NeverStranded ==
    \A g \in Gens : gen[g].st \in Active => LiveOf(g) # {}

-----------------------------------------------------------------------------
(* Action properties *)

\* The end of a generation is final: no late worker, recovery, expiry or reap
\* rewrites its status, its message or its log, and only deletion removes them.
EndIsFinal ==
    [][\A g \in Gens : gen[g].st \in Terminal =>
          \/ gen'[g].st = "deleted"
          \/ /\ gen'[g].st = gen[g].st
             /\ msg'[g] = msg[g]
             /\ log'[g] = log[g]]_vars

\* Once a stop is requested no answer is published: the control version the
\* worker read before is stale, whatever it was doing (_fence_current).
NoAnswerAfterStop ==
    [][\A g \in Gens : gen[g].st = "stop_requested" => gen'[g].st # "completed"]_vars

\* A worker whose execution was taken over cannot publish, and what it does
\* cannot end the execution that took over (_fence_current, _cancel_stale_execution).
TakenOver(w) ==
    /\ work[w].pc \in Executing \cup {"failing"}
    /\ exec[work[w].g][work[w].e].st # "running"

StaleWorkerDisturbsNothing ==
    [][\A w \in Workers :
          TakenOver(w) /\ work'[w] # work[w] =>
             /\ gen'[work[w].g].st # "completed" \/ gen[work[w].g].st = "completed"
             /\ \A e \in Attempts \ {work[w].e} :
                   exec'[work[w].g][e] = exec[work[w].g][e]]_vars

\* What docs/operations.md promises of a worker that lost its lease or fencing
\* token: it does not change a terminal state.  _fail_execution writes failed
\* and the error event without comparing the token.
StaleWorkerEndsNothing ==
    [][\A w \in Workers :
          TakenOver(w) /\ work'[w] # work[w] /\ gen[work[w].g].st = "running" =>
             gen'[work[w].g].st = "running"]_vars

-----------------------------------------------------------------------------
(* Liveness *)

\* A running generation does not run for ever: workers, recovery, the reaper
\* and the expirer of unknown results end it by its deadline at the latest.
RunningEnds == \A g \in Gens : []<>(gen[g].st # "running")

Reconciling(g) == \E e \in Attempts : exec[g][e].st = "provider_reconciling"

\* A requested stop takes effect, unless the result of a provider call is still
\* being reconciled.
StopTakesEffect ==
    \A g \in Gens :
        gen[g].st = "stop_requested" /\ ~Reconciling(g) ~> gen[g].st # "stop_requested"

=============================================================================
