------------------------ MODULE ChatGenerationProofs ------------------------
(***************************************************************************)
(* Theorems about ChatGeneration for any number of generations, workers,   *)
(* attempts and retries, on either database.                               *)
(***************************************************************************)
EXTENDS ChatGeneration, FiniteSetTheorems, TLAPS

-----------------------------------------------------------------------------
(* Types *)

\* a worker that is not idle holds the record of a claimed execution
LEMMA BusyWorker ==
    ASSUME TypeOK, NEW w \in Workers, work[w].pc # "idle"
    PROVE  work[w] \in BusyRecord
BY DEF TypeOK, WorkRecord

\* the updates worker steps make to their own record keep its type
LEMMA WorkUpdates ==
    ASSUME TypeOK, NEW w \in Workers, NEW p \in Busy, NEW c \in ErrorCode
    PROVE  /\ Rest(w) => work' \in [Workers -> WorkRecord]
           /\ work[w].pc # "idle" /\ Goto(w, p) => work' \in [Workers -> WorkRecord]
           /\ work[w].pc # "idle" /\ Fails(w, c) => work' \in [Workers -> WorkRecord]
<1>1. Rest(w) => work' \in [Workers -> WorkRecord]
  BY DEF TypeOK, Rest, WorkRecord, Idle
<1>2. ASSUME work[w].pc # "idle" PROVE Goto(w, p) => work' \in [Workers -> WorkRecord]
  <2>1. work[w] \in BusyRecord BY <1>2, BusyWorker
  <2>2. [work[w] EXCEPT !.pc = p] \in BusyRecord BY <2>1 DEF BusyRecord
  <2> QED BY <2>2 DEF TypeOK, WorkRecord, Goto
<1>3. ASSUME work[w].pc # "idle" PROVE Fails(w, c) => work' \in [Workers -> WorkRecord]
  <2>1. work[w] \in BusyRecord BY <1>3, BusyWorker
  <2>2. [[work[w] EXCEPT !.pc = "failing"] EXCEPT !.err = c] \in BusyRecord
    BY <2>1 DEF BusyRecord, Busy
  <2>3. Fails(w, c) => work' = [work EXCEPT ![w] = [[work[w] EXCEPT !.pc = "failing"] EXCEPT !.err = c]]
    BY <2>1 DEF Fails, BusyRecord, TypeOK
  <2> QED BY <2>2, <2>3 DEF TypeOK, WorkRecord
<1> QED BY <1>1, <1>2, <1>3

\* a row keeps its type when some of its fields are written
LEMMA GenFields ==
    ASSUME NEW r \in GenRow, NEW st \in GenStatus, NEW n \in Nat
    PROVE  /\ [r EXCEPT !.st = st] \in GenRow
           /\ [r EXCEPT !.st = st, !.ctl = n] \in GenRow
BY DEF GenRow

LEMMA ExecFields ==
    ASSUME NEW r \in ExecRow, NEW st \in ExecStatus, NEW n \in Nat, NEW ph \in Phase
    PROVE  /\ Run(r) \in ExecRow
           /\ Leave(r, st) \in ExecRow
           /\ Discard(r, st) \in ExecRow
           /\ Expire(r, n) \in ExecRow
           /\ r.scope < MaxScopeRetries => Rescope(r) \in ExecRow
           /\ Checkpoint(r, ph) \in ExecRow
           /\ \A b \in BOOLEAN : Lapse(r, b) \in ExecRow
<1> USE ConstantsAssumption
<1>1. Run(r) \in ExecRow
  <2>1. r.fence + 1 \in Nat /\ "running" \in ExecStatus
    BY DEF ExecRow, ExecStatus, LiveExec
  <2> QED BY <2>1 DEF ExecRow, Run
<1>2. Leave(r, st) \in ExecRow BY DEF ExecRow, Leave
<1>3. Discard(r, st) \in ExecRow
  <2>1. 0 \in 0..MaxScopeRetries /\ "none" \in Phase BY DEF Phase
  <2> QED BY <2>1 DEF ExecRow, Discard
<1>4. Expire(r, n) \in ExecRow BY DEF ExecRow, Expire, ExecStatus
<1>5. ASSUME r.scope < MaxScopeRetries PROVE Rescope(r) \in ExecRow
  <2>1. r.scope + 1 \in 0..MaxScopeRetries /\ "retry_wait" \in ExecStatus
    BY <1>5 DEF ExecRow, ExecStatus, LiveExec, Claimable
  <2> QED BY <2>1 DEF ExecRow, Rescope
<1>6. Checkpoint(r, ph) \in ExecRow BY DEF ExecRow, Checkpoint
<1>7. \A b \in BOOLEAN : Lapse(r, b) \in ExecRow BY DEF ExecRow, Lapse
<1> QED BY <1>1, <1>2, <1>3, <1>4, <1>5, <1>6, <1>7

\* ... and so does a table
LEMMA Tables ==
    ASSUME TypeOK, NEW g \in Gens, NEW e \in Attempts,
           NEW gr \in GenRow, NEW er \in ExecRow, NEW m \in MsgStatus, NEW l \in Seq(Event)
    PROVE  /\ [gen EXCEPT ![g] = gr] \in [Gens -> GenRow]
           /\ [exec EXCEPT ![g][e] = er] \in [Gens -> [Attempts -> ExecRow]]
           /\ [msg EXCEPT ![g] = m] \in [Gens -> MsgStatus]
           /\ [log EXCEPT ![g] = l] \in [Gens -> Seq(Event)]
           /\ gen[g] \in GenRow /\ exec[g][e] \in ExecRow /\ log[g] \in Seq(Event)
BY DEF TypeOK

\* a log stays a sequence of events whatever is appended
LEMMA LogTypes ==
    ASSUME NEW l \in Seq(Event), NEW ev \in Event
    PROVE  /\ AppendTerminal(l, ev) \in Seq(Event)
           /\ AppendProgress(l) \in Seq(Event)
           /\ Append(l, ev) \in Seq(Event)
<1>1. \A x \in Event : Append(l, x) \in Seq(Event) OBVIOUS
<1>2. "progress" \in Event BY DEF Event
<1> QED BY <1>1, <1>2 DEF AppendTerminal, AppendProgress

\* what the literals of the actions are
LEMMA Literals ==
    /\ {"absent", "deleted", "running", "stop_requested", "completed", "failed",
        "stopped"} \subseteq GenStatus
    /\ {"none", "generating", "completed", "failed", "stopped"} \subseteq MsgStatus
    /\ {"none", "expired", "completed", "failed", "cancelled", "queued", "retry_wait",
        "running", "provider_reconciling"} \subseteq ExecStatus
    /\ {"none", "progress", "pending", "provider_reconciled"} \subseteq Phase
    /\ {"start", "progress", "stop_requested", "answer", "done", "error",
        "stopped"} \subseteq Event
BY DEF GenStatus, Active, Terminal, MsgStatus, ExecStatus, LiveExec, Claimable, Phase,
       Event, TerminalEvent

\* the four tables the shared groups of updates write
TablesTyped ==
    /\ gen \in [Gens -> GenRow]
    /\ msg \in [Gens -> MsgStatus]
    /\ exec \in [Gens -> [Attempts -> ExecRow]]
    /\ log \in [Gens -> Seq(Event)]

LEMMA SharedTypes ==
    ASSUME TypeOK, NEW g \in Gens, NEW e \in Attempts
    PROVE  /\ CancelRow(g, e) => exec' \in [Gens -> [Attempts -> ExecRow]]
           /\ FailGeneration(g) => /\ gen' \in [Gens -> GenRow]
                                   /\ msg' \in [Gens -> MsgStatus]
                                   /\ log' \in [Gens -> Seq(Event)]
           /\ StopInTransaction(g, e) => TablesTyped'
           /\ CancelStale(g, e) => TablesTyped'
<1>1. Leave(exec[g][e], "cancelled") \in ExecRow BY ExecFields, Literals DEF TypeOK
<1>2. \A st \in GenStatus : [gen[g] EXCEPT !.st = st] \in GenRow
  BY GenFields DEF TypeOK
<1>3. \A ev \in Event : AppendTerminal(log[g], ev) \in Seq(Event)
  BY LogTypes DEF TypeOK
<1>4. CancelRow(g, e) => exec' \in [Gens -> [Attempts -> ExecRow]]
  BY <1>1 DEF CancelRow, TypeOK
<1>5. ASSUME FailGeneration(g)
      PROVE  /\ gen' \in [Gens -> GenRow]
             /\ msg' \in [Gens -> MsgStatus]
             /\ log' \in [Gens -> Seq(Event)]
  BY <1>2, <1>3, <1>5, Literals DEF FailGeneration, TypeOK
<1>6. ASSUME StopInTransaction(g, e) PROVE TablesTyped'
  BY <1>1, <1>2, <1>3, <1>6, Literals DEF StopInTransaction, TypeOK, TablesTyped
<1>7. ASSUME CancelStale(g, e) PROVE TablesTyped'
  <2>1. CASE gen[g].st = "stop_requested" BY <2>1, <1>6, <1>7 DEF CancelStale
  <2>2. CASE gen[g].st # "stop_requested"
    BY <2>2, <1>4, <1>7 DEF CancelStale, TypeOK, TablesTyped
  <2> QED BY <2>1, <2>2
<1> QED BY <1>4, <1>5, <1>6, <1>7

-----------------------------------------------------------------------------
(* Every action keeps the types *)

LEMMA RequestTypes ==
    ASSUME TypeOK, NEW g \in Gens,
           Request(g) \/ Streaming(g) \/ DeadlinePasses(g) \/ Disarm(g) \/ Reap(g)
    PROVE  TypeOK'
<1>1. CASE Ask(g)
  <2>1. Row("queued", 1, "none", 0) \in ExecRow
    BY ConstantsAssumption, Literals DEF Row, ExecRow
  <2>2. [NoGen EXCEPT !.st = "running", !.ctl = 1] \in GenRow
    BY Literals DEF NoGen, GenRow
  <2>3. <<"start">> \in Seq(Event) BY Literals
  <2>4. exec' \in [Gens -> [Attempts -> ExecRow]] BY <1>1, <2>1 DEF Ask, TypeOK
  <2> QED BY <1>1, <2>2, <2>3, <2>4, Literals DEF Ask, TypeOK
<1>2. CASE Stop(g) \/ Revoke(g)
  <2>1. RequestStop(g) \in GenRow
    <3>1. gen[g].ctl + 1 \in Nat BY DEF TypeOK, GenRow
    <3> QED BY <3>1, GenFields, Literals DEF RequestStop, TypeOK
  <2> QED BY <1>2, <2>1 DEF Stop, Revoke, TypeOK
<1>3. CASE Delete(g)
  <2>1. NoExec \in ExecRow BY ConstantsAssumption, Literals DEF NoExec, ExecRow
  <2>2. [NoGen EXCEPT !.st = "deleted"] \in GenRow BY Literals DEF NoGen, GenRow
  <2> QED BY <1>3, <2>1, <2>2, Literals DEF Delete, TypeOK
<1>4. CASE Subscribe(g) BY <1>4 DEF Subscribe, TypeOK, GenRow
<1>5. CASE Disconnect(g) BY <1>5 DEF Disconnect, TypeOK, GenRow
<1>6. CASE DeadlinePasses(g) BY <1>6 DEF DeadlinePasses, TypeOK, GenRow
<1>7. CASE Disarm(g) BY <1>7 DEF Disarm, TypeOK, GenRow
<1>8. CASE Reap(g)
  <2>1. Append(log[g], "stop_requested") \in Seq(Event)
    BY LogTypes, Literals DEF TypeOK
  <2>2. AppendTerminal(Append(log[g], "stop_requested"), "stopped") \in Seq(Event)
    BY <2>1, LogTypes, Literals
  <2>3. [RequestStop(g) EXCEPT !.st = "stopped"] \in GenRow
    <3>1. gen[g].ctl + 1 \in Nat BY DEF TypeOK, GenRow
    <3>2. RequestStop(g) \in GenRow BY <3>1, GenFields, Literals DEF RequestStop, TypeOK
    <3> QED BY <3>2, GenFields, Literals
  <2>4. \A e \in Attempts : Leave(exec[g][e], "cancelled") \in ExecRow
    BY ExecFields, Literals DEF TypeOK
  <2>5. exec' \in [Gens -> [Attempts -> ExecRow]] BY <1>8, <2>4 DEF Reap, TypeOK
  <2> QED BY <1>8, <2>2, <2>3, <2>5, Literals DEF Reap, TypeOK
<1> QED BY <1>1, <1>2, <1>3, <1>4, <1>5, <1>6, <1>7, <1>8 DEF Request, Streaming

LEMMA WorkerStepTypes ==
    ASSUME TypeOK, NEW w \in Workers, WorkerStep(w)
    PROVE  TypeOK'
<1> DEFINE g == work[w].g
           e == work[w].e
<1>0. work[w].pc # "idle"
  BY DEF WorkerStep, ReadGeneration, StopTerminal, ReadFence, DeadlineStops, EmitStage,
         PersistRetrieval, ProviderReturns, ProviderLost, Rewrite, PersistReady, Publish, Fail
<1>1. work[w] \in BusyRecord BY <1>0, BusyWorker
<1>2. /\ work[w].pc # "idle" /\ g \in Gens /\ e \in Attempts
      /\ gen[g] \in GenRow /\ exec[g][e] \in ExecRow
  <2>1. g \in Gens /\ e \in Attempts BY <1>1 DEF BusyRecord
  <2> QED BY <1>0, <2>1 DEF TypeOK
<1>3. /\ Rest(w) => work' \in [Workers -> WorkRecord]
      /\ \A p \in Busy : Goto(w, p) => work' \in [Workers -> WorkRecord]
      /\ \A c \in ErrorCode : Fails(w, c) => work' \in [Workers -> WorkRecord]
  <2>1. "failing" \in Busy /\ "none" \in ErrorCode BY DEF Busy, ErrorCode
  <2> QED BY <1>2, <2>1, WorkUpdates
<1>4. \A ph \in Phase : Persist(w, ph) => exec' \in [Gens -> [Attempts -> ExecRow]]
  <2>1. \A ph \in Phase : Checkpoint(exec[g][e], ph) \in ExecRow
    BY <1>2, ExecFields, Literals
  <2> QED BY <1>2, <2>1 DEF Persist, TypeOK
<1>5. AppendProgress(log[g]) \in Seq(Event)
  BY <1>2, LogTypes, Literals DEF TypeOK
<1>6. /\ StopInTransaction(g, e) => TablesTyped'
      /\ CancelStale(g, e) => TablesTyped'
      /\ FailGeneration(g) => /\ gen' \in [Gens -> GenRow]
                              /\ msg' \in [Gens -> MsgStatus]
                              /\ log' \in [Gens -> Seq(Event)]
  BY <1>2, SharedTypes
<1>7. CASE ReadGeneration(w)
  <2>1. [work[w] EXCEPT !.pc = "fencing", !.ctl = gen[g].ctl] \in BusyRecord
    BY <1>1, <1>2 DEF BusyRecord, Busy, GenRow
  <2>2. work' \in [Workers -> WorkRecord]
    <3>1. CASE Rest(w) \/ Goto(w, "stopping") BY <1>3, <3>1 DEF Busy
    <3>2. CASE work' = [work EXCEPT ![w].pc = "fencing", ![w].ctl = gen[g].ctl]
      BY <2>1, <3>2 DEF TypeOK, WorkRecord
    <3> QED BY <1>7, <3>1, <3>2 DEF ReadGeneration
  <2> QED BY <1>7, <2>2 DEF ReadGeneration, TypeOK
<1>8. CASE StopTerminal(w)
  BY <1>3, <1>6, <1>8 DEF StopTerminal, TypeOK, TablesTyped
<1>9. CASE ReadFence(w)
  <2>1. \A p \in {"ready", "retrieving"} :
          [work[w] EXCEPT !.fence = exec[g][e].fence, !.pc = p] \in BusyRecord
    BY <1>1, <1>2 DEF BusyRecord, Busy, Executing, ExecRow
  <2>2. work' \in [Workers -> WorkRecord]
    <3>1. CASE exec[g][e].st = "none" BY <1>3, <1>9, <3>1 DEF ReadFence
    <3>2. CASE exec[g][e].st # "none"
      BY <1>9, <2>1, <3>2 DEF ReadFence, TypeOK, WorkRecord
    <3> QED BY <3>1, <3>2
  <2> QED BY <1>9, <2>2 DEF ReadFence, TypeOK
<1>10. CASE DeadlineStops(w)
  BY <1>3, <1>10 DEF DeadlineStops, TypeOK, ErrorCode
<1>11. CASE EmitStage(w)
  <2>1. CASE Goto(w, "retrieved") /\ log' = [log EXCEPT ![g] = AppendProgress(@)]
    BY <1>3, <1>5, <1>11, <2>1 DEF EmitStage, TypeOK, Busy, Executing
  <2>2. CASE Fails(w, "generation_state_conflict") /\ UNCHANGED log
    BY <1>3, <1>11, <2>2 DEF EmitStage, TypeOK, ErrorCode
  <2> QED BY <1>11, <2>1, <2>2 DEF EmitStage
<1>12. CASE PersistRetrieval(w)
  <2>1. work' \in [Workers -> WorkRecord]
    BY <1>3, <1>12 DEF PersistRetrieval, Busy, Executing
  <2>2. exec' \in [Gens -> [Attempts -> ExecRow]]
    BY <1>4, <1>12, Literals DEF PersistRetrieval, TypeOK
  <2> QED BY <1>12, <2>1, <2>2 DEF PersistRetrieval, TypeOK
<1>13. CASE ProviderReturns(w)
  BY <1>3, <1>13 DEF ProviderReturns, TypeOK, Busy, Executing, ErrorCode
<1>14. CASE ProviderLost(w)
  <2>1. work' \in [Workers -> WorkRecord] BY <1>3, <1>14 DEF ProviderLost, ErrorCode
  <2>2. exec' \in [Gens -> [Attempts -> ExecRow]]
    BY <1>4, <1>14, Literals DEF ProviderLost, TypeOK
  <2> QED BY <1>14, <2>1, <2>2 DEF ProviderLost, TypeOK
<1>15. CASE Rewrite(w)
  <2>1. [work[w] EXCEPT !.pc = "rewriting", !.rounds = work[w].rounds + 1] \in BusyRecord
    <3>1. work[w].rounds + 1 \in 0..MaxRounds
      BY <1>1, <1>15, ConstantsAssumption DEF Rewrite, BusyRecord
    <3> QED BY <1>1, <3>1 DEF BusyRecord, Busy, Executing
  <2>2. CASE CancelStale(g, e) /\ Rest(w)
    BY <1>3, <1>6, <1>15, <2>2 DEF Rewrite, TypeOK, TablesTyped
  <2>3. CASE /\ work' = [work EXCEPT ![w].pc = "rewriting",
                                     ![w].rounds = work[w].rounds + 1]
             /\ UNCHANGED <<gen, msg, exec, log>>
    BY <1>15, <2>1, <2>3 DEF Rewrite, TypeOK, WorkRecord
  <2> QED BY <1>15, <2>2, <2>3 DEF Rewrite
<1>16. CASE PersistReady(w)
  <2>1. work' \in [Workers -> WorkRecord]
    BY <1>3, <1>16 DEF PersistReady, Busy, Executing
  <2>2. exec' \in [Gens -> [Attempts -> ExecRow]]
    BY <1>4, <1>16, Literals DEF PersistReady, TypeOK
  <2> QED BY <1>16, <2>1, <2>2 DEF PersistReady, TypeOK
<1>17. CASE Publish(w)
  <2>1. CASE CancelStale(g, e) /\ Rest(w)
    BY <1>3, <1>6, <1>17, <2>1 DEF Publish, TypeOK, TablesTyped
  <2>2. CASE Fails(w, "source_scope_changed") /\ UNCHANGED <<gen, msg, exec, log>>
    BY <1>3, <1>17, <2>2 DEF Publish, TypeOK, ErrorCode
  <2>3. CASE Complete(g, e) /\ Rest(w)
    <3>1. Discard(exec[g][e], "completed") \in ExecRow BY <1>2, ExecFields, Literals
    <3>2. AppendTerminal(Append(log[g], "answer"), "done") \in Seq(Event)
      <4>1. Append(log[g], "answer") \in Seq(Event) BY <1>2, LogTypes, Literals DEF TypeOK
      <4> QED BY <4>1, LogTypes, Literals
    <3>3. [gen[g] EXCEPT !.st = "completed"] \in GenRow BY <1>2, GenFields, Literals
    <3> QED BY <1>3, <1>17, <2>3, <3>1, <3>2, <3>3, Literals DEF Publish, Complete, TypeOK
  <2> QED BY <1>17, <2>1, <2>2, <2>3 DEF Publish
<1>18. CASE Fail(w)
  <2>1. work' \in [Workers -> WorkRecord] BY <1>3, <1>18 DEF Fail
  <2>2. Leave(exec[g][e], "provider_reconciling") \in ExecRow
    BY <1>2, ExecFields, Literals
  <2>3. MayRetryScope(w) => Rescope(exec[g][e]) \in ExecRow
    BY <1>2, ExecFields, Literals DEF MayRetryScope
  <2>4. Discard(exec[g][e], "failed") \in ExecRow BY <1>2, ExecFields, Literals
  <2>5. TablesTyped'
    <3>1. CASE CancelStale(g, e) \/ StopInTransaction(g, e) BY <1>6, <3>1
    <3>2. CASE UNCHANGED <<gen, msg, exec, log>> BY <3>2 DEF TypeOK, TablesTyped
    <3>3. CASE /\ UNCHANGED <<gen, msg, log>>
               /\ \/ exec' = exec
                  \/ exec' = [exec EXCEPT ![g][e] = Leave(@, "provider_reconciling")]
                  \/ /\ MayRetryScope(w)
                     /\ exec' = [exec EXCEPT ![g][e] = Rescope(@)]
      <4>1. \A row \in ExecRow :
              [exec EXCEPT ![g][e] = row] \in [Gens -> [Attempts -> ExecRow]]
        BY <1>2 DEF TypeOK
      <4>2. exec' \in [Gens -> [Attempts -> ExecRow]]
        BY <2>2, <2>3, <3>3, <4>1 DEF TypeOK
      <4> QED BY <3>3, <4>2 DEF TypeOK, TablesTyped
    <3>4. CASE FailGeneration(g) /\ exec' = [exec EXCEPT ![g][e] = Discard(@, "failed")]
      BY <1>2, <1>6, <2>4, <3>4 DEF TypeOK, TablesTyped
    <3> QED BY <1>18, <3>1, <3>2, <3>3, <3>4 DEF Fail
  <2> QED BY <1>18, <2>1, <2>5 DEF Fail, TypeOK, TablesTyped
<1> QED BY <1>7, <1>8, <1>9, <1>10, <1>11, <1>12, <1>13, <1>14, <1>15, <1>16, <1>17, <1>18
        DEF WorkerStep

\* the rows a worker or a maintenance pass picks up and the rest of Next
LEMMA OtherTypes ==
    ASSUME TypeOK,
           \/ \E w \in Workers : EmitDelta(w) \/ Heartbeat(w) \/ Crash(w)
           \/ \E w \in Workers, g \in Gens, e \in Attempts : Claim(w, g, e)
           \/ \E g \in Gens, e \in Attempts :
                 LeaseLapses(g, e) \/ ReadLapsed(g, e) \/ ExpireReconciling(g, e)
           \/ \E r \in scanned : Recover(r)
           \/ \E g \in Gens, e \in Attempts, sent \in BOOLEAN : Reconcile(g, e, sent)
    PROVE  TypeOK'
<1>1. ASSUME NEW w \in Workers, EmitDelta(w) PROVE TypeOK'
  <2>1. work[w] \in BusyRecord BY <1>1, BusyWorker DEF EmitDelta
  <2>2. work[w].g \in Gens BY <2>1 DEF BusyRecord
  <2>3. AppendProgress(log[work[w].g]) \in Seq(Event) BY <2>2, LogTypes, Literals DEF TypeOK
  <2> QED BY <1>1, <2>3 DEF EmitDelta, TypeOK
<1>2. ASSUME NEW w \in Workers, Heartbeat(w) PROVE TypeOK'
  <2>1. work[w] \in BusyRecord BY <1>2, BusyWorker DEF Heartbeat, Executing
  <2>2. work[w].g \in Gens /\ work[w].e \in Attempts BY <2>1 DEF BusyRecord
  <2>3. Lapse(exec[work[w].g][work[w].e], FALSE) \in ExecRow
    BY <2>2, ExecFields, Literals DEF TypeOK
  <2> QED BY <1>2, <2>2, <2>3 DEF Heartbeat, TypeOK
<1>3. ASSUME NEW w \in Workers, Crash(w) PROVE TypeOK'
  BY <1>3 DEF Crash, Rest, TypeOK, WorkRecord, Idle
<1>4. ASSUME NEW w \in Workers, NEW g \in Gens, NEW e \in Attempts, Claim(w, g, e)
      PROVE TypeOK'
  <2>1. Run(exec[g][e]) \in ExecRow /\ Leave(exec[g][e], "cancelled") \in ExecRow
    BY ExecFields, Literals DEF TypeOK
  <2>2. Claimed(g, e) \in WorkRecord
    <3>1. 0 \in 0..MaxRounds BY ConstantsAssumption
    <3> QED BY <3>1 DEF Claimed, WorkRecord, BusyRecord, Busy, ErrorCode
  <2>3. exec' \in [Gens -> [Attempts -> ExecRow]]
    <3>1. \A row \in ExecRow :
            [exec EXCEPT ![g][e] = row] \in [Gens -> [Attempts -> ExecRow]]
      BY DEF TypeOK
    <3>2. \/ exec' = [exec EXCEPT ![g][e] = Run(exec[g][e])]
          \/ exec' = [exec EXCEPT ![g][e] = Leave(exec[g][e], "cancelled")]
      BY <1>4 DEF Claim
    <3> QED BY <2>1, <3>1, <3>2
  <2>4. work' \in [Workers -> WorkRecord] BY <1>4, <2>2 DEF Claim, TypeOK
  <2> QED BY <1>4, <2>3, <2>4 DEF Claim, TypeOK
<1>5. ASSUME NEW g \in Gens, NEW e \in Attempts, LeaseLapses(g, e) PROVE TypeOK'
  <2>1. Lapse(exec[g][e], TRUE) \in ExecRow BY ExecFields, Literals DEF TypeOK
  <2> QED BY <1>5, <2>1 DEF LeaseLapses, TypeOK
<1>6. ASSUME NEW g \in Gens, NEW e \in Attempts, ReadLapsed(g, e) PROVE TypeOK'
  <2>1. Scan(g, e) \in ScanRow BY DEF Scan, ScanRow, TypeOK, ExecRow
  <2> QED BY <1>6, <2>1 DEF ReadLapsed, TypeOK
<1>7. ASSUME NEW g \in Gens, NEW e \in Attempts, ExpireReconciling(g, e) PROVE TypeOK'
  <2>1. Discard(exec[g][e], "failed") \in ExecRow BY ExecFields, Literals DEF TypeOK
  <2> QED BY <1>7, <2>1, SharedTypes DEF ExpireReconciling, TypeOK
<1>8. ASSUME NEW r \in scanned, Recover(r) PROVE TypeOK'
  <2>1. /\ r.g \in Gens /\ r.e \in Attempts /\ r.fence \in Nat /\ r.fence + 1 \in Nat
        /\ r.phase \in Phase /\ r.scope \in 0..MaxScopeRetries
    BY DEF TypeOK, ScanRow
  <2>2. Expire(exec[r.g][r.e], r.fence + 1) \in ExecRow
    BY <2>1, ExecFields, Literals DEF TypeOK
  <2>3. Row("queued", r.fence + 1, r.phase, r.scope) \in ExecRow
    BY <2>1, Literals DEF Row, ExecRow
  <2> DEFINE expired == [exec EXCEPT ![r.g][r.e] = Expire(@, r.fence + 1)]
  <2>4. expired \in [Gens -> [Attempts -> ExecRow]] BY <2>1, <2>2 DEF TypeOK
  <2>5. [expired EXCEPT ![r.g][r.e + 1] = Row("queued", r.fence + 1, r.phase, r.scope)]
          \in [Gens -> [Attempts -> ExecRow]]
    BY <2>1, <2>3, <2>4
  <2>6. FailGeneration(r.g) => /\ gen' \in [Gens -> GenRow]
                              /\ msg' \in [Gens -> MsgStatus]
                              /\ log' \in [Gens -> Seq(Event)]
    BY <2>1, SharedTypes
  <2>7. TablesTyped'
    BY <1>8, <2>4, <2>5, <2>6 DEF Recover, TypeOK, TablesTyped
  <2> QED BY <1>8, <2>7 DEF Recover, TypeOK, TablesTyped
<1>9. ASSUME NEW g \in Gens, NEW e \in Attempts, NEW sent \in BOOLEAN,
             Reconcile(g, e, sent)
      PROVE TypeOK'
  <2>1. \A ph \in Phase : Row("retry_wait", exec[g][e].fence, ph, 0) \in ExecRow
    BY ConstantsAssumption, Literals DEF Row, ExecRow, TypeOK
  <2>2. exec' \in [Gens -> [Attempts -> ExecRow]]
    BY <1>9, <2>1, Literals DEF Reconcile, TypeOK
  <2> QED BY <1>9, <2>2 DEF Reconcile, TypeOK
<1> QED BY <1>1, <1>2, <1>3, <1>4, <1>5, <1>6, <1>7, <1>8, <1>9

LEMMA TypeInit == Init => TypeOK
<1> SUFFICES ASSUME Init PROVE TypeOK OBVIOUS
<1>1. NoGen \in GenRow BY Literals DEF NoGen, GenRow
<1>2. NoExec \in ExecRow BY ConstantsAssumption, Literals DEF NoExec, ExecRow
<1>3. Idle \in WorkRecord BY DEF Idle, WorkRecord
<1>4. <<>> \in Seq(Event) OBVIOUS
<1> QED BY <1>1, <1>2, <1>3, <1>4, Literals DEF Init, TypeOK

LEMMA TypeStep == TypeOK /\ [Next]_vars => TypeOK'
<1> SUFFICES ASSUME TypeOK, [Next]_vars PROVE TypeOK' OBVIOUS
<1>1. CASE UNCHANGED vars BY <1>1 DEF vars, TypeOK
<1>2. CASE Next BY <1>2, RequestTypes, WorkerStepTypes, OtherTypes DEF Next
<1> QED BY <1>1, <1>2

\* Every variable keeps its type in every behaviour, and the scope retries of a
\* checkpoint never exceed max_scope_retries (worker.py: _fail_execution).
THEOREM TypeCorrect == Spec => []TypeOK
BY TypeInit, TypeStep, PTL DEF Spec

-----------------------------------------------------------------------------
(* One live execution *)

(***************************************************************************)
(* OneLiveExecution is not inductive: recovery may only add a live row when*)
(* none is left, which is so because rows are filled in order and a live   *)
(* row is always the last one.  A late worker may write the row it claimed,*)
(* so it must also be known that this row exists as long as its generation *)
(* does.                                                                   *)
(***************************************************************************)
Unborn(g) == gen[g].st \in {"absent", "deleted"}

LiveIsLast ==
    \A g \in Gens : \A e, f \in Attempts :
        exec[g][e].st \in LiveExec /\ e < f => exec[g][f].st = "none"

UnbornHasNoRow ==
    \A g \in Gens : Unborn(g) => \A e \in Attempts : exec[g][e].st = "none"

WorkerHasRow ==
    \A w \in Workers : work[w].pc # "idle" =>
        \/ gen[work[w].g].st = "deleted"
        \/ /\ gen[work[w].g].st # "absent"
           /\ exec[work[w].g][work[w].e].st # "none"

ExecInv == TypeOK /\ LiveIsLast /\ UnbornHasNoRow /\ WorkerHasRow

\* what every step but Ask, Delete, Claim and Recover does to rows and workers
RowsKept ==
    \A g \in Gens, e \in Attempts :
        /\ exec'[g][e].st \in LiveExec => exec[g][e].st \in LiveExec
        /\ exec'[g][e].st = "none" <=> exec[g][e].st = "none"

GensKept ==
    \A g \in Gens : /\ gen'[g].st = "absent" <=> gen[g].st = "absent"
                    /\ gen'[g].st = "deleted" <=> gen[g].st = "deleted"

WorkKept ==
    \A w \in Workers : work'[w].pc # "idle" =>
        work[w].pc # "idle" /\ work'[w].g = work[w].g /\ work'[w].e = work[w].e

LEMMA KeptInv ==
    ASSUME ExecInv, TypeOK', RowsKept, GensKept, WorkKept
    PROVE  ExecInv'
<1>1. LiveIsLast' BY DEF ExecInv, LiveIsLast, RowsKept
<1>2. UnbornHasNoRow' BY DEF ExecInv, UnbornHasNoRow, Unborn, RowsKept, GensKept
<1>3. WorkerHasRow'
  <2> SUFFICES ASSUME NEW w \in Workers, work'[w].pc # "idle", gen'[work'[w].g].st # "deleted"
               PROVE  /\ gen'[work'[w].g].st # "absent"
                      /\ exec'[work'[w].g][work'[w].e].st # "none"
    BY DEF WorkerHasRow
  <2>1. work[w].pc # "idle" /\ work'[w].g = work[w].g /\ work'[w].e = work[w].e
    BY DEF WorkKept
  <2>2. work[w].g \in Gens /\ work[w].e \in Attempts
    BY <2>1, BusyWorker DEF ExecInv, BusyRecord
  <2> QED BY <2>1, <2>2 DEF ExecInv, WorkerHasRow, RowsKept, GensKept
<1> QED BY <1>1, <1>2, <1>3 DEF ExecInv

LEMMA WorkKeptBy ==
    ASSUME TypeOK, NEW w \in Workers, NEW p, NEW c
    PROVE  /\ UNCHANGED work => WorkKept
           /\ Rest(w) => WorkKept
           /\ work[w].pc # "idle" /\ Goto(w, p) => WorkKept
           /\ work[w].pc # "idle" /\ Fails(w, c) => WorkKept
<1>1. UNCHANGED work => WorkKept BY DEF WorkKept
<1>2. Rest(w) => WorkKept BY DEF Rest, WorkKept, TypeOK, Idle
<1>3. ASSUME work[w].pc # "idle" PROVE Goto(w, p) => WorkKept
  <2>1. work[w] \in BusyRecord BY <1>3, BusyWorker
  <2> QED BY <1>3, <2>1 DEF Goto, WorkKept, TypeOK, BusyRecord
<1>4. ASSUME work[w].pc # "idle" PROVE Fails(w, c) => WorkKept
  <2>1. work[w] \in BusyRecord BY <1>4, BusyWorker
  <2> QED BY <1>4, <2>1 DEF Fails, WorkKept, TypeOK, BusyRecord
<1> QED BY <1>1, <1>2, <1>3, <1>4

\* one row written with a status that is live only if the old one was
LEMMA OneRowKept ==
    ASSUME TypeOK, NEW g \in Gens, NEW e \in Attempts, NEW row,
           row.st \in LiveExec => exec[g][e].st \in LiveExec,
           row.st # "none", exec[g][e].st # "none",
           exec' = [exec EXCEPT ![g][e] = row]
    PROVE  RowsKept
BY DEF RowsKept, TypeOK

LEMMA GenKeptBy ==
    ASSUME TypeOK, NEW g \in Gens, NEW row,
           ~Unborn(g), row.st \notin {"absent", "deleted"},
           gen' = [gen EXCEPT ![g] = row]
    PROVE  GensKept
BY DEF GensKept, TypeOK, Unborn

\* the statuses the row operators write
LEMMA RowStatus ==
    ASSUME NEW r \in ExecRow
    PROVE  /\ Run(r).st = "running"
           /\ \A st : Leave(r, st).st = st
           /\ \A st : Discard(r, st).st = st
           /\ \A n : Expire(r, n).st = "expired"
           /\ Rescope(r).st = "retry_wait"
           /\ \A ph : Checkpoint(r, ph).st = r.st
           /\ \A b : Lapse(r, b).st = r.st
<1>1. Run(r).st = "running" BY DEF ExecRow, Run
<1>2. \A st : Leave(r, st).st = st BY DEF ExecRow, Leave
<1>3. \A st : Discard(r, st).st = st BY DEF ExecRow, Discard
<1>4. \A n : Expire(r, n).st = "expired" BY DEF ExecRow, Expire
<1>5. Rescope(r).st = "retry_wait" BY DEF ExecRow, Rescope
<1>6. \A ph : Checkpoint(r, ph).st = r.st BY DEF ExecRow, Checkpoint
<1>7. \A b : Lapse(r, b).st = r.st BY DEF ExecRow, Lapse
<1> QED BY <1>1, <1>2, <1>3, <1>4, <1>5, <1>6, <1>7

\* the statuses a live row may still be given
LEMMA EndStatus ==
    /\ {"cancelled", "failed", "completed", "expired", "none"} \cap LiveExec = {}
    /\ {"running", "retry_wait", "queued", "provider_reconciling"} \subseteq LiveExec
    /\ "none" \notin LiveExec
BY DEF LiveExec, Claimable

LEMMA SharedKept ==
    ASSUME TypeOK, NEW g \in Gens, NEW e \in Attempts,
           gen[g].st \in Active => exec[g][e].st # "none"
    PROVE  /\ CancelRow(g, e) => RowsKept
           /\ gen[g].st \in Active /\ FailGeneration(g) => GensKept
           /\ gen[g].st \in Active /\ StopInTransaction(g, e) => RowsKept /\ GensKept
           /\ CancelStale(g, e) => RowsKept /\ GensKept
<1>1. exec[g][e] \in ExecRow /\ gen[g] \in GenRow BY DEF TypeOK
<1>2. Leave(exec[g][e], "cancelled").st = "cancelled" BY <1>1, RowStatus
<1>4. CancelRow(g, e) => RowsKept
  <2>1. CASE exec[g][e].st = "running"
    BY <1>2, EndStatus, <2>1, OneRowKept DEF CancelRow
  <2>2. CASE exec[g][e].st # "running" BY <2>2 DEF CancelRow, RowsKept
  <2> QED BY <2>1, <2>2
<1>5. gen[g].st \in Active /\ FailGeneration(g) => GensKept
  BY <1>1 DEF FailGeneration, GensKept, TypeOK, GenRow, Active
<1>6. gen[g].st \in Active /\ StopInTransaction(g, e) => RowsKept /\ GensKept
  <2>1. gen[g].st \in Active /\ StopInTransaction(g, e) => GensKept
    BY <1>1 DEF StopInTransaction, GensKept, TypeOK, GenRow, Active
  <2>2. ASSUME gen[g].st \in Active, StopInTransaction(g, e) PROVE RowsKept
    <3>1. exec' = [exec EXCEPT ![g][e] = Leave(exec[g][e], "cancelled")]
      BY <2>2 DEF StopInTransaction
    <3> QED BY <2>2, <3>1, <1>2, EndStatus, OneRowKept
  <2> QED BY <2>1, <2>2
<1>7. CancelStale(g, e) => RowsKept /\ GensKept
  <2>1. CASE gen[g].st = "stop_requested" BY <1>6, <2>1 DEF CancelStale, Active
  <2>2. CASE gen[g].st # "stop_requested" BY <1>4, <2>2 DEF CancelStale, GensKept
  <2> QED BY <2>1, <2>2
<1> QED BY <1>4, <1>5, <1>6, <1>7

\* a worker of an unfinished generation has its row
LEMMA OwnRow ==
    ASSUME ExecInv, NEW w \in Workers, work[w].pc # "idle"
    PROVE  /\ work[w] \in BusyRecord
           /\ work[w].g \in Gens /\ work[w].e \in Attempts
           /\ gen[work[w].g].st \in Active => exec[work[w].g][work[w].e].st # "none"
<1>1. work[w] \in BusyRecord BY BusyWorker DEF ExecInv
<1> QED BY <1>1 DEF ExecInv, WorkerHasRow, Active, BusyRecord

Kept == RowsKept /\ GensKept /\ WorkKept

LEMMA WorkerStepKept ==
    ASSUME ExecInv, NEW w \in Workers, WorkerStep(w)
    PROVE  Kept
<1> DEFINE g == work[w].g
           e == work[w].e
<1>0. TypeOK BY DEF ExecInv
<1>1. /\ work[w].pc # "idle"
      /\ g \in Gens /\ e \in Attempts
      /\ gen[g].st \in Active => exec[g][e].st # "none"
  <2>1. work[w].pc # "idle"
    BY DEF WorkerStep, ReadGeneration, StopTerminal, ReadFence, DeadlineStops, EmitStage,
           PersistRetrieval, ProviderReturns, ProviderLost, Rewrite, PersistReady, Publish, Fail
  <2> QED BY <2>1, OwnRow
<1>2. /\ Rest(w) => WorkKept
      /\ \A p : Goto(w, p) => WorkKept
      /\ \A c : Fails(w, c) => WorkKept
  BY <1>0, <1>1, WorkKeptBy
<1>3. /\ UNCHANGED exec => RowsKept
      /\ UNCHANGED gen => GensKept
      /\ CancelStale(g, e) => RowsKept /\ GensKept
      /\ gen[g].st \in Active /\ FailGeneration(g) => GensKept
      /\ gen[g].st \in Active /\ StopInTransaction(g, e) => RowsKept /\ GensKept
  BY <1>0, <1>1, SharedKept DEF RowsKept, GensKept
<1>4. exec[g][e] \in ExecRow BY <1>0, <1>1 DEF TypeOK
<1>5. ASSUME NEW row, row.st \notin LiveExec \/ exec[g][e].st \in LiveExec,
             row.st # "none", exec[g][e].st # "none", exec' = [exec EXCEPT ![g][e] = row]
      PROVE  RowsKept
  BY <1>0, <1>1, <1>5, OneRowKept
<1>6. \A ph : CanPersist(w) /\ Persist(w, ph) => RowsKept
  <2> SUFFICES ASSUME NEW ph, CanPersist(w), Persist(w, ph) PROVE RowsKept OBVIOUS
  <2>1. exec[g][e].st = "running" BY DEF CanPersist, HoldsFence
  <2>2. exec' = [exec EXCEPT ![g][e] = Checkpoint(exec[g][e], ph)] BY DEF Persist
  <2>3. Checkpoint(exec[g][e], ph).st = "running" BY <1>4, <2>1, RowStatus
  <2> QED BY <1>5, <2>1, <2>2, <2>3, EndStatus
<1>7. CASE ReadGeneration(w)
  <2>1. \A c : work' = [work EXCEPT ![w].pc = "fencing", ![w].ctl = c] => WorkKept
    <3>1. work[w] \in BusyRecord BY <1>0, <1>1, BusyWorker
    <3> QED BY <1>0, <1>1, <3>1 DEF WorkKept, TypeOK, BusyRecord
  <2> QED BY <1>7, <1>2, <1>3, <2>1 DEF ReadGeneration, Kept
<1>8. CASE StopTerminal(w)
  <2>1. CASE gen[g].st \in Active BY <1>8, <1>2, <1>3, <2>1 DEF StopTerminal, Kept
  <2>2. CASE gen[g].st \notin Active BY <1>8, <1>2, <1>3, <2>2 DEF StopTerminal, Kept
  <2> QED BY <2>1, <2>2
<1>9. CASE ReadFence(w)
  <2>1. \A n, p : work' = [work EXCEPT ![w].fence = n, ![w].pc = p] => WorkKept
    <3>1. work[w] \in BusyRecord BY <1>0, <1>1, BusyWorker
    <3> QED BY <1>0, <1>1, <3>1 DEF WorkKept, TypeOK, BusyRecord
  <2> QED BY <1>9, <1>2, <1>3, <2>1 DEF ReadFence, Kept
<1>10. CASE DeadlineStops(w) BY <1>10, <1>2, <1>3 DEF DeadlineStops, Kept
<1>11. CASE EmitStage(w) BY <1>11, <1>2, <1>3 DEF EmitStage, Kept
<1>12. CASE PersistRetrieval(w)
  BY <1>12, <1>2, <1>3, <1>6 DEF PersistRetrieval, Kept
<1>13. CASE ProviderReturns(w) BY <1>13, <1>2, <1>3 DEF ProviderReturns, Kept
<1>14. CASE ProviderLost(w)
  <2>1. RowsKept
    <3>1. CASE CanPersist(w) BY <1>14, <1>6, <3>1 DEF ProviderLost
    <3>2. CASE ~CanPersist(w) BY <1>14, <1>3, <3>2 DEF ProviderLost
    <3> QED BY <3>1, <3>2
  <2> QED BY <1>14, <1>2, <1>3, <2>1 DEF ProviderLost, Kept
<1>15. CASE Rewrite(w)
  <2>1. \A n : work' = [work EXCEPT ![w].pc = "rewriting", ![w].rounds = n] => WorkKept
    <3>1. work[w] \in BusyRecord BY <1>0, <1>1, BusyWorker
    <3> QED BY <1>0, <1>1, <3>1 DEF WorkKept, TypeOK, BusyRecord
  <2> QED BY <1>15, <1>2, <1>3, <2>1 DEF Rewrite, Kept
<1>16. CASE PersistReady(w)
  <2>1. RowsKept
    <3>1. CASE CanPersist(w) BY <1>16, <1>6, <3>1 DEF PersistReady
    <3>2. CASE ~CanPersist(w) BY <1>16, <1>3, <3>2 DEF PersistReady
    <3> QED BY <3>1, <3>2
  <2>2. WorkKept BY <1>16, <1>2 DEF PersistReady
  <2> QED BY <1>16, <1>3, <2>1, <2>2 DEF PersistReady, Kept
<1>17. CASE Publish(w)
  <2>1. PICK seen \in Sight :
          IF ~PublishAllowed(w, seen)
          THEN CancelStale(g, e) /\ Rest(w)
          ELSE \/ Fails(w, "source_scope_changed") /\ UNCHANGED <<gen, msg, exec, log>>
               \/ Complete(g, e) /\ Rest(w)
    BY <1>17 DEF Publish
  <2>2. ASSUME PublishAllowed(w, seen), Complete(g, e) PROVE RowsKept /\ GensKept
    <3>1. exec[g][e].st = "running" /\ gen[g].st = "running"
      BY <2>2 DEF PublishAllowed, FenceCurrent, HoldsFence
    <3>2. exec' = [exec EXCEPT ![g][e] = Discard(exec[g][e], "completed")]
      BY <2>2 DEF Complete
    <3>3. Discard(exec[g][e], "completed").st = "completed" BY <1>4, RowStatus
    <3>4. RowsKept BY <1>5, <3>1, <3>2, <3>3, EndStatus
    <3>5. GensKept BY <1>0, <1>1, <2>2, <3>1 DEF Complete, GensKept, TypeOK, GenRow
    <3> QED BY <3>4, <3>5
  <2> QED BY <1>2, <1>3, <2>1, <2>2 DEF Kept
<1>18. CASE Fail(w)
  <2>1. WorkKept BY <1>18, <1>2 DEF Fail
  <2>2. CASE CancelStale(g, e) BY <1>3, <2>1, <2>2 DEF Kept
  <2>3. CASE gen[g].st = "stop_requested" /\ StopInTransaction(g, e)
    BY <1>3, <2>1, <2>3 DEF Kept, Active
  <2>4. CASE UNCHANGED <<gen, msg, exec, log>> BY <1>3, <2>1, <2>4 DEF Kept
  <2>5. CASE /\ UNCHANGED <<gen, msg, log>>
             /\ exec' = IF exec[g][e].st = "running"
                        THEN [exec EXCEPT ![g][e] = Leave(exec[g][e], "provider_reconciling")]
                        ELSE exec
    <3>1. Leave(exec[g][e], "provider_reconciling").st = "provider_reconciling"
      BY <1>4, RowStatus
    <3>2. CASE exec[g][e].st = "running" BY <1>3, <1>5, <2>1, <2>5, <3>1, <3>2, EndStatus DEF Kept
    <3>3. CASE exec[g][e].st # "running" BY <1>3, <2>1, <2>5, <3>3 DEF Kept
    <3> QED BY <3>2, <3>3
  <2>6. CASE /\ UNCHANGED <<gen, msg, log>>
             /\ exec' = IF exec[g][e].st = "running"
                        THEN [exec EXCEPT ![g][e] = Rescope(exec[g][e])]
                        ELSE exec
    <3>1. Rescope(exec[g][e]).st = "retry_wait" BY <1>4, RowStatus
    <3>2. CASE exec[g][e].st = "running" BY <1>3, <1>5, <2>1, <2>6, <3>1, <3>2, EndStatus DEF Kept
    <3>3. CASE exec[g][e].st # "running" BY <1>3, <2>1, <2>6, <3>3 DEF Kept
    <3> QED BY <3>2, <3>3
  <2>7. CASE /\ gen[g].st = "running" /\ FailGeneration(g)
             /\ exec' = [exec EXCEPT ![g][e] = Discard(exec[g][e], "failed")]
    <3>1. Discard(exec[g][e], "failed").st = "failed" BY <1>4, RowStatus
    <3> QED BY <1>1, <1>3, <1>5, <2>1, <2>7, <3>1, EndStatus DEF Kept, Active
  <2> QED BY <1>18, <2>2, <2>3, <2>4, <2>5, <2>6, <2>7 DEF Fail
<1> QED BY <1>7, <1>8, <1>9, <1>10, <1>11, <1>12, <1>13, <1>14, <1>15, <1>16, <1>17, <1>18
        DEF WorkerStep

\* the other steps that neither insert a row nor take one up
LEMMA OtherKept ==
    ASSUME ExecInv,
           \/ \E g \in Gens : Stop(g) \/ Revoke(g) \/ Streaming(g) \/ DeadlinePasses(g)
                              \/ Disarm(g) \/ Reap(g)
           \/ \E w \in Workers : EmitDelta(w) \/ Heartbeat(w) \/ Crash(w)
           \/ \E g \in Gens, e \in Attempts :
                 LeaseLapses(g, e) \/ ReadLapsed(g, e) \/ ExpireReconciling(g, e)
           \/ \E g \in Gens, e \in Attempts, sent \in BOOLEAN : Reconcile(g, e, sent)
    PROVE  Kept
<1>0. TypeOK BY DEF ExecInv
<1>1. /\ UNCHANGED exec => RowsKept
      /\ UNCHANGED gen => GensKept
      /\ UNCHANGED work => WorkKept
  BY DEF RowsKept, GensKept, WorkKept
<1>2. ASSUME NEW g \in Gens,
             Stop(g) \/ Revoke(g) \/ Streaming(g) \/ DeadlinePasses(g) \/ Disarm(g)
      PROVE  Kept
  <2>1. gen[g] \in GenRow BY <1>0 DEF TypeOK
  <2>2. UNCHANGED <<exec, work>>
    BY <1>2 DEF Stop, Revoke, Streaming, Subscribe, Disconnect, DeadlinePasses, Disarm
  <2>3. GensKept
    <3>1. CASE Stop(g) \/ Revoke(g)
      BY <1>0, <2>1, <3>1 DEF Stop, Revoke, RequestStop, GensKept, TypeOK, GenRow
    <3>2. CASE Streaming(g) \/ DeadlinePasses(g) \/ Disarm(g)
      BY <1>0, <2>1, <3>2
      DEF Streaming, Subscribe, Disconnect, DeadlinePasses, Disarm, GensKept, TypeOK, GenRow
    <3> QED BY <1>2, <3>1, <3>2
  <2> QED BY <1>1, <2>2, <2>3 DEF Kept
<1>3. ASSUME NEW g \in Gens, Reap(g) PROVE Kept
  <2>1. gen[g] \in GenRow BY <1>0 DEF TypeOK
  <2>2. GensKept
    BY <1>0, <1>3, <2>1 DEF Reap, RequestStop, GensKept, TypeOK, GenRow
  <2>3. \A e \in Attempts : exec[g][e] \in ExecRow BY <1>0 DEF TypeOK
  <2>4. \A e \in Attempts :
          exec'[g][e] = IF exec[g][e].st \in Claimable \cup {"running"}
                        THEN Leave(exec[g][e], "cancelled") ELSE exec[g][e]
    BY <1>0, <1>3 DEF Reap, TypeOK
  <2>5. \A h \in Gens \ {g} : exec'[h] = exec[h] BY <1>0, <1>3 DEF Reap, TypeOK
  <2>6. \A e \in Attempts : Leave(exec[g][e], "cancelled").st = "cancelled"
    BY <2>3, RowStatus
  <2>7. "none" \notin Claimable BY DEF Claimable
  <2>8. RowsKept BY <2>4, <2>5, <2>6, <2>7, EndStatus DEF RowsKept
  <2> QED BY <1>1, <1>3, <2>2, <2>8 DEF Reap, Kept
<1>4. ASSUME NEW w \in Workers, EmitDelta(w) \/ Crash(w) PROVE Kept
  BY <1>0, <1>1, <1>4, WorkKeptBy DEF EmitDelta, Crash, Kept
<1>5. ASSUME NEW w \in Workers, Heartbeat(w) PROVE Kept
  <2>1. work[w].pc # "idle" BY <1>5 DEF Heartbeat, Executing
  <2>2. work[w].g \in Gens /\ work[w].e \in Attempts BY <2>1, OwnRow
  <2>3. exec[work[w].g][work[w].e] \in ExecRow BY <1>0, <2>2 DEF TypeOK
  <2>4. /\ exec[work[w].g][work[w].e].st = "running"
        /\ Lapse(exec[work[w].g][work[w].e], FALSE).st = "running"
    <3>1. exec[work[w].g][work[w].e].st = "running" BY <1>5 DEF Heartbeat
    <3> QED BY <2>3, <3>1, RowStatus
  <2>5. RowsKept BY <1>0, <1>5, <2>2, <2>4, OneRowKept, EndStatus DEF Heartbeat
  <2> QED BY <1>1, <1>5, <2>5 DEF Heartbeat, Kept
<1>6. ASSUME NEW g \in Gens, NEW e \in Attempts, LeaseLapses(g, e) PROVE Kept
  <2>1. exec[g][e] \in ExecRow BY <1>0 DEF TypeOK
  <2>2. Lapse(exec[g][e], TRUE).st = "running" BY <1>6, <2>1, RowStatus DEF LeaseLapses
  <2>3. RowsKept BY <1>0, <1>6, <2>2, OneRowKept, EndStatus DEF LeaseLapses
  <2> QED BY <1>1, <1>6, <2>3 DEF LeaseLapses, Kept
<1>7. ASSUME NEW g \in Gens, NEW e \in Attempts, ReadLapsed(g, e) PROVE Kept
  BY <1>1, <1>7 DEF ReadLapsed, Kept
<1>8. ASSUME NEW g \in Gens, NEW e \in Attempts, ExpireReconciling(g, e) PROVE Kept
  <2>1. exec[g][e] \in ExecRow BY <1>0 DEF TypeOK
  <2>2. Discard(exec[g][e], "failed").st = "failed" BY <2>1, RowStatus
  <2>3. RowsKept BY <1>0, <1>8, <2>2, OneRowKept, EndStatus DEF ExpireReconciling
  <2>4. GensKept BY <1>0, <1>8, EndStatus, SharedKept DEF ExpireReconciling, Active
  <2> QED BY <1>1, <1>8, <2>3, <2>4 DEF ExpireReconciling, Kept
<1>9. ASSUME NEW g \in Gens, NEW e \in Attempts, NEW sent \in BOOLEAN, Reconcile(g, e, sent)
      PROVE  Kept
  <2>1. \A n, ph : Row("retry_wait", n, ph, 0).st = "retry_wait" BY DEF Row
  <2>2. PICK n, ph : exec' = [exec EXCEPT ![g][e] = Row("retry_wait", n, ph, 0)]
    BY <1>0, <1>9 DEF Reconcile, TypeOK
  <2>3. exec[g][e].st = "provider_reconciling" BY <1>9 DEF Reconcile
  <2>4. RowsKept BY <1>0, <2>1, <2>2, <2>3, OneRowKept, EndStatus
  <2> QED BY <1>1, <1>9, <2>4 DEF Reconcile, Kept
<1> QED BY <1>2, <1>3, <1>4, <1>5, <1>6, <1>7, <1>8, <1>9

LEMMA AskInv ==
    ASSUME ExecInv, TypeOK', NEW g \in Gens, Ask(g)
    PROVE  ExecInv'
<1>1. /\ gen' = [gen EXCEPT ![g] = [NoGen EXCEPT !.st = "running", !.ctl = 1]]
      /\ exec' = [exec EXCEPT ![g][1] = Row("queued", 1, "none", 0)]
      /\ gen[g].st = "absent" /\ UNCHANGED work
  BY DEF Ask
<1>2. gen'[g].st = "running" /\ \A h \in Gens \ {g} : gen'[h] = gen[h]
  BY <1>1 DEF ExecInv, TypeOK, NoGen
<1>3. 1 \in Attempts BY ConstantsAssumption DEF Attempts
<1>4. /\ exec'[g][1].st = "queued"
      /\ \A e \in Attempts \ {1} : exec'[g][e].st = "none"
      /\ \A h \in Gens \ {g} : exec'[h] = exec[h]
  BY <1>1, <1>3 DEF ExecInv, TypeOK, Row, UnbornHasNoRow, Unborn
<1>5. LiveIsLast'
  <2>1. \A e, f \in Attempts : exec'[g][e].st \in LiveExec /\ e < f => exec'[g][f].st = "none"
    BY <1>3, <1>4, EndStatus DEF Attempts
  <2> QED BY <1>4, <2>1 DEF ExecInv, LiveIsLast
<1>6. UnbornHasNoRow' BY <1>2, <1>4 DEF ExecInv, UnbornHasNoRow, Unborn
<1>7. WorkerHasRow'
  <2> SUFFICES ASSUME NEW w \in Workers, work'[w].pc # "idle", gen'[work'[w].g].st # "deleted"
               PROVE  /\ gen'[work'[w].g].st # "absent"
                      /\ exec'[work'[w].g][work'[w].e].st # "none"
    BY DEF WorkerHasRow
  <2>1. work'[w] = work[w] BY <1>1
  <2>2. work[w].g \in Gens /\ work[w].e \in Attempts BY <2>1, OwnRow
  <2>3. work[w].g # g BY <1>1, <2>1 DEF ExecInv, WorkerHasRow
  <2> QED BY <1>2, <1>4, <2>1, <2>2, <2>3 DEF ExecInv, WorkerHasRow
<1> QED BY <1>5, <1>6, <1>7 DEF ExecInv

LEMMA DeleteInv ==
    ASSUME ExecInv, TypeOK', NEW g \in Gens, Delete(g)
    PROVE  ExecInv'
<1>1. /\ gen' = [gen EXCEPT ![g] = [NoGen EXCEPT !.st = "deleted"]]
      /\ exec' = [exec EXCEPT ![g] = [e \in Attempts |-> NoExec]]
      /\ UNCHANGED work
  BY DEF Delete
<1>2. gen'[g].st = "deleted" /\ \A h \in Gens \ {g} : gen'[h] = gen[h]
  BY <1>1 DEF ExecInv, TypeOK, NoGen
<1>3. /\ \A e \in Attempts : exec'[g][e].st = "none"
      /\ \A h \in Gens \ {g} : exec'[h] = exec[h]
  BY <1>1 DEF ExecInv, TypeOK, NoExec
<1>4. LiveIsLast' BY <1>3 DEF ExecInv, LiveIsLast
<1>5. UnbornHasNoRow' BY <1>2, <1>3 DEF ExecInv, UnbornHasNoRow, Unborn
<1>6. WorkerHasRow'
  <2> SUFFICES ASSUME NEW w \in Workers, work'[w].pc # "idle", gen'[work'[w].g].st # "deleted"
               PROVE  /\ gen'[work'[w].g].st # "absent"
                      /\ exec'[work'[w].g][work'[w].e].st # "none"
    BY DEF WorkerHasRow
  <2>1. work'[w] = work[w] BY <1>1
  <2>2. work[w].g \in Gens /\ work[w].e \in Attempts BY <2>1, OwnRow
  <2> QED BY <1>2, <1>3, <2>1, <2>2 DEF ExecInv, WorkerHasRow
<1> QED BY <1>4, <1>5, <1>6 DEF ExecInv

LEMMA ClaimInv ==
    ASSUME ExecInv, TypeOK', NEW w \in Workers, NEW g \in Gens, NEW e \in Attempts,
           Claim(w, g, e)
    PROVE  ExecInv'
<1>0. TypeOK /\ exec[g][e] \in ExecRow BY DEF ExecInv, TypeOK
<1>1. exec[g][e].st \in LiveExec /\ exec[g][e].st # "none"
  BY EndStatus DEF Claim, LiveExec, Claimable
<1>2. GensKept BY DEF Claim, GensKept
<1>3. CASE gen[g].st \in Active
  <2>1. /\ exec' = [exec EXCEPT ![g][e] = Run(exec[g][e])]
        /\ work' = [work EXCEPT ![w] = Claimed(g, e)]
    BY <1>3 DEF Claim
  <2>2. Run(exec[g][e]).st = "running" BY <1>0, RowStatus
  <2>3. RowsKept BY <1>0, <1>1, <2>1, <2>2, EndStatus, OneRowKept
  <2>4. LiveIsLast' BY <2>3 DEF ExecInv, LiveIsLast, RowsKept
  <2>5. UnbornHasNoRow' BY <1>2, <2>3 DEF ExecInv, UnbornHasNoRow, Unborn, RowsKept, GensKept
  <2>6. WorkerHasRow'
    <3> SUFFICES ASSUME NEW v \in Workers, work'[v].pc # "idle", gen'[work'[v].g].st # "deleted"
                 PROVE  /\ gen'[work'[v].g].st # "absent"
                        /\ exec'[work'[v].g][work'[v].e].st # "none"
      BY DEF WorkerHasRow
    <3>1. CASE v = w
      <4>1. work'[v].g = g /\ work'[v].e = e BY <1>0, <2>1, <3>1 DEF Claimed, TypeOK
      <4> QED BY <1>1, <1>2, <1>3, <2>3, <4>1 DEF RowsKept, GensKept, Active
    <3>2. CASE v # w
      <4>1. work'[v] = work[v] BY <1>0, <2>1, <3>2 DEF TypeOK
      <4>2. work[v].g \in Gens /\ work[v].e \in Attempts BY <4>1, OwnRow
      <4> QED BY <1>2, <2>3, <4>1, <4>2 DEF ExecInv, WorkerHasRow, RowsKept, GensKept
    <3> QED BY <3>1, <3>2
  <2> QED BY <2>4, <2>5, <2>6 DEF ExecInv
<1>4. CASE gen[g].st \notin Active
  <2>1. exec' = [exec EXCEPT ![g][e] = Leave(exec[g][e], "cancelled")] /\ UNCHANGED work
    BY <1>4 DEF Claim
  <2>2. Leave(exec[g][e], "cancelled").st = "cancelled" BY <1>0, RowStatus
  <2>3. RowsKept BY <1>0, <1>1, <2>1, <2>2, EndStatus, OneRowKept
  <2>4. WorkKept BY <2>1 DEF WorkKept
  <2> QED BY <1>2, <2>3, <2>4, KeptInv
<1> QED BY <1>3, <1>4

\* recovery inserts its row behind the one it has just expired, which was the
\* last row of the generation because it was live
LEMMA RecoverInv ==
    ASSUME ExecInv, TypeOK', NEW r \in scanned, Recover(r)
    PROVE  ExecInv'
<1> DEFINE g == r.g
           e == r.e
           expired == [exec EXCEPT ![g][e] = Expire(exec[g][e], r.fence + 1)]
           added == Row("queued", r.fence + 1, r.phase, r.scope)
<1>0. TypeOK /\ g \in Gens /\ e \in Attempts /\ exec[g][e] \in ExecRow
  BY DEF ExecInv, TypeOK, ScanRow
<1>1. GensKept /\ WorkKept
  <2>1. gen[g].st \in Active /\ FailGeneration(g) => GensKept
    BY <1>0 DEF FailGeneration, GensKept, TypeOK, GenRow, Active
  <2>2. UNCHANGED gen => GensKept BY DEF GensKept
  <2>3. WorkKept BY DEF Recover, WorkKept
  <2> QED BY <2>1, <2>2, <2>3 DEF Recover
<1>2. Expire(exec[g][e], r.fence + 1).st = "expired" /\ added.st = "queued"
  BY <1>0, RowStatus DEF Row
<1>3. CASE exec[g][e].st # "running"
  <2>1. RowsKept BY <1>3 DEF Recover, RowsKept
  <2> QED BY <1>1, <2>1, KeptInv
<1>4. CASE exec[g][e].st = "running" /\ exec' = expired
  <2>1. RowsKept BY <1>0, <1>2, <1>4, EndStatus, OneRowKept
  <2> QED BY <1>1, <2>1, KeptInv
<1>5. CASE /\ exec[g][e].st = "running" /\ gen[g].st \in Active
           /\ exec' = [expired EXCEPT ![g][e + 1] = added]
           /\ UNCHANGED gen
  <2>1. \A f \in Attempts :
           exec'[g][f] = IF f = e + 1 THEN added
                         ELSE IF f = e THEN Expire(exec[g][e], r.fence + 1)
                         ELSE exec[g][f]
    BY <1>0, <1>5 DEF TypeOK, Attempts
  <2>2. \A h \in Gens \ {g} : exec'[h] = exec[h] BY <1>0, <1>5 DEF TypeOK
  <2>3. \A f \in Attempts : f > e => exec[g][f].st = "none"
    BY <1>0, <1>5, EndStatus DEF ExecInv, LiveIsLast
  <2>4. \A f \in Attempts : f < e => exec[g][f].st \notin LiveExec
    BY <1>0, <1>5, EndStatus DEF ExecInv, LiveIsLast
  <2>5. \A f \in Attempts : exec[g][f].st # "none" => exec'[g][f].st # "none"
    BY <1>2, <2>1
  <2>6. LiveIsLast'
    <3>1. ASSUME NEW f1 \in Attempts, NEW f2 \in Attempts, exec'[g][f1].st \in LiveExec, f1 < f2
          PROVE  exec'[g][f2].st = "none"
      <4>1. f1 = e + 1
        <5>1. f1 # e BY <1>2, <2>1, <3>1, EndStatus DEF Attempts
        <5>2. f1 < e => exec'[g][f1] = exec[g][f1] BY <1>0, <2>1, <5>1 DEF Attempts
        <5>3. ~(f1 < e) BY <2>4, <3>1, <5>2
        <5>4. f1 > e + 1 => exec'[g][f1] = exec[g][f1] BY <1>0, <2>1, <5>1 DEF Attempts
        <5>5. ~(f1 > e + 1) BY <1>0, <2>3, <3>1, <5>4, EndStatus DEF Attempts
        <5> QED BY <1>0, <5>1, <5>3, <5>5 DEF Attempts
      <4>2. exec'[g][f2] = exec[g][f2] /\ f2 > e BY <1>0, <2>1, <3>1, <4>1 DEF Attempts
      <4> QED BY <2>3, <4>2
    <3> QED BY <2>2, <3>1 DEF ExecInv, LiveIsLast
  <2>7. UnbornHasNoRow'
    <3> SUFFICES ASSUME NEW h \in Gens, gen'[h].st \in {"absent", "deleted"}, NEW f \in Attempts
                 PROVE  exec'[h][f].st = "none"
      BY DEF UnbornHasNoRow, Unborn
    <3>1. h # g /\ gen'[h] = gen[h] BY <1>5 DEF Active
    <3> QED BY <2>2, <3>1 DEF ExecInv, UnbornHasNoRow, Unborn
  <2>8. WorkerHasRow'
    <3> SUFFICES ASSUME NEW w \in Workers, work'[w].pc # "idle", gen'[work'[w].g].st # "deleted"
                 PROVE  /\ gen'[work'[w].g].st # "absent"
                        /\ exec'[work'[w].g][work'[w].e].st # "none"
      BY DEF WorkerHasRow
    <3>1. work'[w] = work[w] BY DEF Recover
    <3>2. work[w].g \in Gens /\ work[w].e \in Attempts BY <3>1, OwnRow
    <3>3. gen' = gen BY <1>5
    <3>4. gen[work[w].g].st # "absent" /\ exec[work[w].g][work[w].e].st # "none"
      BY <3>1, <3>3 DEF ExecInv, WorkerHasRow
    <3>5. CASE work[w].g = g BY <2>5, <3>1, <3>2, <3>3, <3>4, <3>5
    <3>6. CASE work[w].g # g BY <2>2, <3>1, <3>2, <3>3, <3>4, <3>6
    <3> QED BY <3>5, <3>6
  <2> QED BY <2>6, <2>7, <2>8 DEF ExecInv
<1> QED BY <1>3, <1>4, <1>5 DEF Recover

\* However the workers, the maintenance passes and the requests interleave, and
\* however many there are, a generation never has two executions that could run
\* (worker.py: _claim_execution, _recover_expired_executions, _reap_disconnect_grace).
THEOREM OneLive == Spec => []OneLiveExecution
<1>1. Init => ExecInv
  BY TypeInit DEF Init, ExecInv, LiveIsLast, UnbornHasNoRow, WorkerHasRow, NoExec, NoGen, Idle
<1>2. ExecInv /\ [Next]_vars => ExecInv'
  <2> SUFFICES ASSUME ExecInv, [Next]_vars PROVE ExecInv' OBVIOUS
  <2>1. TypeOK' BY TypeStep DEF ExecInv
  <2>2. CASE UNCHANGED vars
    <3>1. Kept BY <2>2 DEF vars, Kept, RowsKept, GensKept, WorkKept
    <3> QED BY <2>1, <3>1, KeptInv DEF Kept
  <2>3. CASE \E g \in Gens : Ask(g) BY <2>1, <2>3, AskInv
  <2>4. CASE \E g \in Gens : Delete(g) BY <2>1, <2>4, DeleteInv
  <2>5. CASE \E w \in Workers, g \in Gens, e \in Attempts : Claim(w, g, e)
    BY <2>1, <2>5, ClaimInv
  <2>6. CASE \E r \in scanned : Recover(r) BY <2>1, <2>6, RecoverInv
  <2>7. CASE \E w \in Workers : WorkerStep(w)
    BY <2>1, <2>7, WorkerStepKept, KeptInv DEF Kept
  <2>8. CASE \/ \E g \in Gens : Stop(g) \/ Revoke(g) \/ Streaming(g) \/ DeadlinePasses(g)
                                \/ Disarm(g) \/ Reap(g)
             \/ \E w \in Workers : EmitDelta(w) \/ Heartbeat(w) \/ Crash(w)
             \/ \E g \in Gens, e \in Attempts :
                   LeaseLapses(g, e) \/ ReadLapsed(g, e) \/ ExpireReconciling(g, e)
             \/ \E g \in Gens, e \in Attempts, sent \in BOOLEAN : Reconcile(g, e, sent)
    BY <2>1, <2>8, OtherKept, KeptInv DEF Kept
  <2>9. CASE Next
    BY <2>3, <2>4, <2>5, <2>6, <2>7, <2>8, <2>9 DEF Next, Request
  <2> QED BY <2>2, <2>9
<1>3. ExecInv => OneLiveExecution
  <2> SUFFICES ASSUME ExecInv, NEW g \in Gens, NEW e \in LiveOf(g), NEW f \in LiveOf(g)
               PROVE  e = f
    BY DEF OneLiveExecution
  <2>1. /\ e \in Attempts /\ exec[g][e].st \in LiveExec
        /\ f \in Attempts /\ exec[g][f].st \in LiveExec
    BY DEF LiveOf
  <2>2. ~(e < f) /\ ~(f < e) BY <2>1, EndStatus DEF ExecInv, LiveIsLast
  <2> QED BY <2>1, <2>2 DEF Attempts
<1> QED BY <1>1, <1>2, <1>3, PTL DEF Spec

-----------------------------------------------------------------------------
(* Ends are final *)

\* what one step may do to a generation that has ended, and to one that was
\* asked to stop
EndKept(h) ==
    /\ gen[h].st \in Terminal =>
          \/ gen'[h].st = "deleted"
          \/ gen'[h].st = gen[h].st /\ msg'[h] = msg[h] /\ log'[h] = log[h]
    /\ gen[h].st = "stop_requested" => gen'[h].st # "completed"

EndsKept == \A h \in Gens : EndKept(h)

\* a step that writes only the generation g, which has not ended
LEMMA WritesOne ==
    ASSUME NEW g \in Gens, gen[g].st \notin Terminal,
           gen[g].st = "stop_requested" => gen'[g].st # "completed",
           \A h \in Gens \ {g} : gen'[h] = gen[h] /\ msg'[h] = msg[h] /\ log'[h] = log[h]
    PROVE  EndsKept
<1> SUFFICES ASSUME NEW h \in Gens PROVE EndKept(h) BY DEF EndsKept
<1>1. CASE h = g BY <1>1 DEF EndKept
<1>2. CASE h # g BY <1>2 DEF EndKept
<1> QED BY <1>1, <1>2

LEMMA WritesNone == UNCHANGED <<gen, msg, log>> => EndsKept
BY DEF EndsKept, EndKept

LEMMA SharedEnds ==
    ASSUME TypeOK, NEW g \in Gens, NEW e \in Attempts
    PROVE  /\ gen[g].st \in Active /\ FailGeneration(g) => EndsKept
           /\ gen[g].st \in Active /\ StopInTransaction(g, e) => EndsKept
           /\ CancelStale(g, e) => EndsKept
           /\ gen[g].st = "running" /\ Complete(g, e) => EndsKept
<1>1. Active \cap Terminal = {} /\ "running" \in Active /\ "stop_requested" \in Active
  BY DEF Active, Terminal
<1>2. gen[g] \in GenRow BY DEF TypeOK
<1>3. ASSUME gen[g].st \in Active, FailGeneration(g) PROVE EndsKept
  <2>1. \A h \in Gens \ {g} : gen'[h] = gen[h] /\ msg'[h] = msg[h] /\ log'[h] = log[h]
    BY <1>3 DEF FailGeneration, TypeOK
  <2>2. gen'[g].st = "failed" BY <1>2, <1>3 DEF FailGeneration, TypeOK, GenRow
  <2> QED BY <1>1, <1>3, <2>1, <2>2, WritesOne
<1>4. ASSUME gen[g].st \in Active, StopInTransaction(g, e) PROVE EndsKept
  <2>1. \A h \in Gens \ {g} : gen'[h] = gen[h] /\ msg'[h] = msg[h] /\ log'[h] = log[h]
    BY <1>4 DEF StopInTransaction, TypeOK
  <2>2. gen'[g].st = "stopped" BY <1>2, <1>4 DEF StopInTransaction, TypeOK, GenRow
  <2> QED BY <1>1, <1>4, <2>1, <2>2, WritesOne
<1>5. ASSUME CancelStale(g, e) PROVE EndsKept
  BY <1>1, <1>4, <1>5, WritesNone DEF CancelStale
<1>6. ASSUME gen[g].st = "running", Complete(g, e) PROVE EndsKept
  <2>1. \A h \in Gens \ {g} : gen'[h] = gen[h] /\ msg'[h] = msg[h] /\ log'[h] = log[h]
    BY <1>6 DEF Complete, TypeOK
  <2> QED BY <1>1, <1>6, <2>1, WritesOne
<1> QED BY <1>3, <1>4, <1>5, <1>6

LEMMA WorkerEnds ==
    ASSUME TypeOK, NEW w \in Workers, WorkerStep(w) \/ EmitDelta(w)
    PROVE  EndsKept
<1> DEFINE g == work[w].g
           e == work[w].e
<1>1. g \in Gens /\ e \in Attempts
  <2>1. work[w].pc # "idle"
    BY DEF WorkerStep, ReadGeneration, StopTerminal, ReadFence, DeadlineStops, EmitStage,
           PersistRetrieval, ProviderReturns, ProviderLost, Rewrite, PersistReady, Publish,
           Fail, EmitDelta
  <2> QED BY <2>1, BusyWorker DEF BusyRecord
<1>2. /\ gen[g].st \in Active /\ FailGeneration(g) => EndsKept
      /\ gen[g].st \in Active /\ StopInTransaction(g, e) => EndsKept
      /\ CancelStale(g, e) => EndsKept
      /\ gen[g].st = "running" /\ Complete(g, e) => EndsKept
  BY <1>1, SharedEnds
<1>3. "running" \in Active /\ "stop_requested" \in Active /\ Active \cap Terminal = {}
  BY DEF Active, Terminal
<1>4. CASE \/ ReadGeneration(w) \/ ReadFence(w) \/ DeadlineStops(w) \/ PersistRetrieval(w)
           \/ ProviderReturns(w) \/ ProviderLost(w) \/ PersistReady(w)
  BY <1>4, WritesNone
  DEF ReadGeneration, ReadFence, DeadlineStops, PersistRetrieval, ProviderReturns,
      ProviderLost, PersistReady
<1>5. CASE StopTerminal(w) BY <1>2, <1>5, WritesNone DEF StopTerminal
<1>6. CASE EmitStage(w) \/ EmitDelta(w)
  <2>1. CASE UNCHANGED <<gen, msg, log>> BY <2>1, WritesNone
  <2>2. CASE /\ gen[g].st \in Active /\ UNCHANGED <<gen, msg>>
             /\ log' = [log EXCEPT ![g] = AppendProgress(log[g])]
    <3>1. \A h \in Gens \ {g} : log'[h] = log[h] BY <2>2 DEF TypeOK
    <3> QED BY <1>1, <1>3, <2>2, <3>1, WritesOne
  <2> QED BY <1>6, <2>1, <2>2 DEF EmitStage, EmitDelta, FenceCurrent
<1>7. CASE Rewrite(w) BY <1>2, <1>7, WritesNone DEF Rewrite
<1>8. CASE Publish(w)
  BY <1>2, <1>8, WritesNone DEF Publish, PublishAllowed
<1>9. CASE Fail(w) BY <1>2, <1>3, <1>9, WritesNone DEF Fail
<1> QED BY <1>4, <1>5, <1>6, <1>7, <1>8, <1>9 DEF WorkerStep

LEMMA RequestEnds ==
    ASSUME TypeOK, NEW g \in Gens,
           Request(g) \/ Streaming(g) \/ DeadlinePasses(g) \/ Disarm(g) \/ Reap(g)
    PROVE  EndsKept
<1>1. gen[g] \in GenRow BY DEF TypeOK
<1>2. {"running", "stop_requested", "absent"} \cap Terminal = {} /\ Active \cap Terminal = {}
  BY DEF Active, Terminal
<1>3. \A h \in Gens \ {g} : gen'[h] = gen[h] /\ msg'[h] = msg[h] /\ log'[h] = log[h]
  BY DEF Request, Ask, Stop, Revoke, Delete, Streaming, Subscribe, Disconnect,
         DeadlinePasses, Disarm, Reap, TypeOK
<1>4. CASE Ask(g)
  <2>1. gen'[g].st = "running" BY <1>4 DEF Ask, NoGen, TypeOK
  <2> QED BY <1>2, <1>3, <1>4, <2>1, WritesOne DEF Ask
<1>5. CASE Stop(g) \/ Revoke(g) \/ Disarm(g) \/ Reap(g)
  BY <1>2, <1>3, <1>5, WritesOne DEF Stop, Revoke, Disarm, Reap
<1>6. CASE Delete(g)
  <2>1. gen'[g].st = "deleted" BY <1>6 DEF Delete, NoGen, TypeOK
  <2>2. EndKept(g) BY <2>1 DEF EndKept
  <2> QED BY <1>3, <2>2 DEF EndsKept, EndKept
<1>7. CASE Subscribe(g) \/ Disconnect(g) \/ DeadlinePasses(g)
  <2>1. gen'[g].st = gen[g].st /\ msg' = msg /\ log' = log
    BY <1>1, <1>7 DEF Subscribe, Disconnect, DeadlinePasses, TypeOK, GenRow
  <2>2. EndKept(g) BY <2>1 DEF EndKept
  <2> QED BY <1>3, <2>2 DEF EndsKept, EndKept
<1> QED BY <1>4, <1>5, <1>6, <1>7 DEF Request, Streaming

LEMMA StepEnds == TypeOK /\ [Next]_vars => EndsKept
<1> SUFFICES ASSUME TypeOK, [Next]_vars PROVE EndsKept OBVIOUS
<1>1. CASE UNCHANGED vars BY <1>1, WritesNone DEF vars
<1>2. CASE \E w \in Workers : WorkerStep(w) \/ EmitDelta(w) BY <1>2, WorkerEnds
<1>3. CASE \E w \in Workers : Heartbeat(w) \/ Crash(w)
  BY <1>3, WritesNone DEF Heartbeat, Crash
<1>4. CASE \E g \in Gens : Request(g) \/ Streaming(g) \/ DeadlinePasses(g) \/ Disarm(g) \/ Reap(g)
  BY <1>4, RequestEnds
<1>5. CASE \E w \in Workers, g \in Gens, e \in Attempts : Claim(w, g, e)
  BY <1>5, WritesNone DEF Claim
<1>6. ASSUME NEW g \in Gens, NEW e \in Attempts,
             LeaseLapses(g, e) \/ ReadLapsed(g, e) \/ ExpireReconciling(g, e)
      PROVE  EndsKept
  BY <1>6, WritesNone, SharedEnds DEF LeaseLapses, ReadLapsed, ExpireReconciling, Active
<1>7. ASSUME NEW r \in scanned, Recover(r) PROVE EndsKept
  <2>1. r.g \in Gens /\ r.e \in Attempts BY DEF TypeOK, ScanRow
  <2> QED BY <1>7, <2>1, WritesNone, SharedEnds DEF Recover
<1>8. CASE \E g \in Gens, e \in Attempts, sent \in BOOLEAN : Reconcile(g, e, sent)
  BY <1>8, WritesNone DEF Reconcile
<1>9. CASE Next BY <1>2, <1>3, <1>4, <1>5, <1>6, <1>7, <1>8, <1>9 DEF Next
<1> QED BY <1>1, <1>9

\* Whatever a late worker, a recovery or the reaper still has in hand, the
\* status, the message and the log of a generation that has ended stay as they
\* are until it is deleted (worker.py: _fail_execution, _cancel_stale_execution,
\* _append_terminal).
THEOREM Final == Spec => EndIsFinal
<1>1. TypeOK /\ [Next]_vars =>
        [\A g \in Gens : gen[g].st \in Terminal =>
            \/ gen'[g].st = "deleted"
            \/ /\ gen'[g].st = gen[g].st
               /\ msg'[g] = msg[g]
               /\ log'[g] = log[g]]_vars
  BY StepEnds DEF EndsKept, EndKept
<1> QED BY <1>1, TypeCorrect, PTL DEF Spec, EndIsFinal

\* After a stop was requested no worker, however it was scheduled, completes the
\* generation (worker.py: _publish, _fence_current).
THEOREM Stopped == Spec => NoAnswerAfterStop
<1>1. TypeOK /\ [Next]_vars =>
        [\A g \in Gens : gen[g].st = "stop_requested" => gen'[g].st # "completed"]_vars
  BY StepEnds DEF EndsKept, EndKept
<1> QED BY <1>1, TypeCorrect, PTL DEF Spec, NoAnswerAfterStop

-----------------------------------------------------------------------------
(* Ends are shown *)

\* a log in which nothing has ended and nothing was answered
PutsQuiet(l) == \A i \in DOMAIN l : l[i] \notin TerminalEvent \cup {"answer"}

\* what the log and the message of a generation say, by its status
Told(g) ==
    /\ gen[g].st \in {"absent", "deleted"} => log[g] = <<>>
    /\ gen[g].st \in Active => PutsQuiet(log[g]) /\ msg[g] = "generating"
    /\ gen[g].st \in Terminal =>
         /\ msg[g] = gen[g].st /\ log[g] # <<>>
         /\ log[g][Len(log[g])] = EndOfLog[gen[g].st]
         /\ \A i \in 1..(Len(log[g]) - 1) :
              /\ log[g][i] \notin TerminalEvent
              /\ log[g][i] = "answer" <=> gen[g].st = "completed" /\ i = Len(log[g]) - 1
         /\ gen[g].st = "completed" => Len(log[g]) > 1

StoryInv == TypeOK /\ \A g \in Gens : Told(g)

\* how a generation ends, and what else a step may do to what is told of it
EndsAs(h, st, l) == gen'[h].st = st /\ msg'[h] = st /\ log'[h] = l
Ends(h) ==
    /\ gen[h].st \in Active
    /\ \/ EndsAs(h, "failed", AppendTerminal(log[h], "error"))
       \/ EndsAs(h, "stopped", AppendTerminal(log[h], "stopped"))
       \/ EndsAs(h, "stopped", AppendTerminal(Append(log[h], "stop_requested"), "stopped"))
       \/ EndsAs(h, "completed", AppendTerminal(Append(log[h], "answer"), "done"))
TellStep(h) ==
    \/ gen'[h].st = gen[h].st /\ msg'[h] = msg[h] /\ log'[h] = log[h]
    \/ gen[h].st \in Active /\ gen'[h].st \in Active /\ msg'[h] = msg[h]
         /\ log'[h] \in {log[h], AppendProgress(log[h])}
    \/ gen'[h].st = "running" /\ msg'[h] = "generating" /\ log'[h] = <<"start">>
    \/ gen'[h].st = "deleted" /\ log'[h] = <<>>
    \/ Ends(h)

\* appending to a quiet log
LEMMA QuietAppend ==
    ASSUME NEW l \in Seq(Event), NEW x \in Event, PutsQuiet(l)
    PROVE  /\ AppendTerminal(l, x) = Append(l, x)
           /\ Len(Append(l, x)) = Len(l) + 1 /\ Append(l, x)[Len(l) + 1] = x
           /\ \A i \in 1..Len(l) : Append(l, x)[i] = l[i]
           /\ x \notin TerminalEvent \cup {"answer"} => PutsQuiet(Append(l, x))
<1>1. ~ HasTerminal(l) BY DEF PutsQuiet, HasTerminal
<1>2. AppendTerminal(l, x) = Append(l, x) BY <1>1 DEF AppendTerminal
<1>3. /\ Len(Append(l, x)) = Len(l) + 1 /\ Append(l, x)[Len(l) + 1] = x
      /\ \A i \in 1..Len(l) : Append(l, x)[i] = l[i]
      /\ DOMAIN l = 1..Len(l) /\ DOMAIN Append(l, x) = 1..(Len(l) + 1) /\ Len(l) \in Nat
  OBVIOUS
<1>4. ASSUME x \notin TerminalEvent \cup {"answer"} PROVE PutsQuiet(Append(l, x))
  BY <1>3, <1>4 DEF PutsQuiet
<1> QED BY <1>2, <1>3, <1>4

LEMMA QuietProgress ==
    ASSUME NEW l \in Seq(Event), PutsQuiet(l)
    PROVE  PutsQuiet(AppendProgress(l))
BY QuietAppend DEF AppendProgress, TerminalEvent, Event

\* a quiet log that ends
LEMMA EndTold ==
    ASSUME TypeOK, NEW g \in Gens, NEW l \in Seq(Event), PutsQuiet(l), NEW st \in {"failed", "stopped"},
           EndsAs(g, st, AppendTerminal(l, EndOfLog[st]))
    PROVE  Told(g)'
<1>1. EndOfLog[st] \in Event BY DEF EndOfLog, Event, TerminalEvent
<1>2. /\ log'[g] = Append(l, EndOfLog[st]) /\ Len(log'[g]) = Len(l) + 1
      /\ log'[g][Len(l) + 1] = EndOfLog[st] /\ \A i \in 1..Len(l) : log'[g][i] = l[i]
  BY <1>1, QuietAppend DEF EndsAs
<1>3. \A i \in 1..Len(l) : log'[g][i] \notin TerminalEvent \cup {"answer"}
  BY <1>2 DEF PutsQuiet
<1>4. Len(l) \in Nat /\ log'[g] # <<>> BY <1>2
<1>5. gen'[g].st = st /\ msg'[g] = st BY DEF EndsAs
<1> QED BY <1>2, <1>3, <1>4, <1>5 DEF Told, Active, Terminal

LEMMA TellsStep ==
    ASSUME TypeOK, NEW g \in Gens, Told(g), TellStep(g)
    PROVE  Told(g)'
<1> DEFINE l == log[g]
<1>1. l \in Seq(Event) BY DEF TypeOK
<1>2. gen[g].st \in Active => PutsQuiet(l) BY DEF Told
<1>3. Active \cap Terminal = {} /\ {"absent", "deleted"} \cap (Active \cup Terminal) = {}
  BY DEF Active, Terminal
<1>4. {"start", "progress", "stop_requested", "answer", "done", "error", "stopped"} \subseteq Event
  BY DEF Event, TerminalEvent
<1>5. CASE gen'[g].st = gen[g].st /\ msg'[g] = msg[g] /\ log'[g] = l BY <1>5 DEF Told
<1>6. CASE /\ gen[g].st \in Active /\ gen'[g].st \in Active /\ msg'[g] = msg[g]
           /\ log'[g] \in {l, AppendProgress(l)}
  BY <1>1, <1>2, <1>3, <1>6, QuietProgress DEF Told
<1>7. CASE gen'[g].st = "running" /\ msg'[g] = "generating" /\ log'[g] = <<"start">>
  <2>1. PutsQuiet(<<"start">>) BY DEF PutsQuiet, TerminalEvent
  <2> QED BY <1>7, <2>1 DEF Told, Active, Terminal
<1>8. CASE gen'[g].st = "deleted" /\ log'[g] = <<>> BY <1>3, <1>8 DEF Told
<1>9. CASE Ends(g)
  <2>1. PutsQuiet(l) BY <1>2, <1>9 DEF Ends
  <2>2. EndOfLog["failed"] = "error" /\ EndOfLog["stopped"] = "stopped"
        /\ EndOfLog["completed"] = "done"
    BY DEF EndOfLog
  <2>3. CASE EndsAs(g, "failed", AppendTerminal(l, "error"))
    BY <1>1, <2>1, <2>2, <2>3, EndTold
  <2>4. CASE EndsAs(g, "stopped", AppendTerminal(l, "stopped"))
    BY <1>1, <2>1, <2>2, <2>4, EndTold
  <2>5. CASE EndsAs(g, "stopped", AppendTerminal(Append(l, "stop_requested"), "stopped"))
    <3>1. Append(l, "stop_requested") \in Seq(Event) BY <1>1, <1>4
    <3>2. "stop_requested" \notin TerminalEvent \cup {"answer"} /\ "stop_requested" \in Event
      BY <1>4 DEF TerminalEvent
    <3>3. PutsQuiet(Append(l, "stop_requested")) BY <1>1, <2>1, <3>2, QuietAppend
    <3> QED BY <2>2, <2>5, <3>1, <3>3, EndTold
  <2>6. CASE EndsAs(g, "completed", AppendTerminal(Append(l, "answer"), "done"))
    <3> DEFINE m == Append(l, "answer")
    <3>1. /\ m \in Seq(Event) /\ Len(m) = Len(l) + 1 /\ m[Len(l) + 1] = "answer"
          /\ \A i \in 1..Len(l) : m[i] = l[i]
          /\ Len(l) \in Nat /\ DOMAIN m = 1..Len(m) /\ DOMAIN l = 1..Len(l)
      BY <1>1, <1>4
    <3>2. ~ HasTerminal(m) BY <2>1, <3>1 DEF HasTerminal, PutsQuiet, TerminalEvent
    <3> HIDE DEF m
    <3>3. log'[g] = Append(m, "done") BY <2>6, <3>2 DEF EndsAs, AppendTerminal, m
    <3>4. /\ Len(log'[g]) = Len(l) + 2 /\ log'[g][Len(l) + 2] = "done"
          /\ \A i \in 1..(Len(l) + 1) : log'[g][i] = m[i]
          /\ log'[g] # <<>>
      BY <1>4, <3>1, <3>3
    <3>5. \A i \in 1..(Len(l) + 1) :
            /\ log'[g][i] \notin TerminalEvent
            /\ log'[g][i] = "answer" <=> i = Len(l) + 1
      BY <2>1, <3>1, <3>4, SMTT(30) DEF PutsQuiet, TerminalEvent
    <3>6. gen'[g].st = "completed" /\ msg'[g] = "completed" BY <2>6 DEF EndsAs
    <3> QED BY <2>2, <3>1, <3>4, <3>5, <3>6 DEF Told, Active, Terminal
  <2> QED BY <1>9, <2>3, <2>4, <2>5, <2>6 DEF Ends
<1> QED BY <1>5, <1>6, <1>7, <1>8, <1>9 DEF TellStep

Tells == \A h \in Gens : TellStep(h)

\* a step that writes only what is told of the generation g
LEMMA TellsOne ==
    ASSUME NEW g \in Gens, TellStep(g),
           \A h \in Gens \ {g} : gen'[h] = gen[h] /\ msg'[h] = msg[h] /\ log'[h] = log[h]
    PROVE  Tells
BY DEF Tells, TellStep

LEMMA TellsNone == UNCHANGED <<gen, msg, log>> => Tells
BY DEF Tells, TellStep

LEMMA SharedTells ==
    ASSUME TypeOK, NEW g \in Gens, NEW e \in Attempts
    PROVE  /\ gen[g].st \in Active /\ FailGeneration(g) => Tells
           /\ gen[g].st \in Active /\ StopInTransaction(g, e) => Tells
           /\ CancelStale(g, e) => Tells
           /\ gen[g].st = "running" /\ Complete(g, e) => Tells
<1>1. "running" \in Active /\ "stop_requested" \in Active BY DEF Active
<1>2. gen[g] \in GenRow BY DEF TypeOK
<1>3. ASSUME gen[g].st \in Active, FailGeneration(g) PROVE Tells
  <2>1. \A h \in Gens \ {g} : gen'[h] = gen[h] /\ msg'[h] = msg[h] /\ log'[h] = log[h]
    BY <1>3 DEF FailGeneration, TypeOK
  <2>2. EndsAs(g, "failed", AppendTerminal(log[g], "error"))
    BY <1>2, <1>3 DEF FailGeneration, TypeOK, GenRow, EndsAs
  <2> QED BY <1>3, <2>1, <2>2, TellsOne DEF TellStep, Ends
<1>4. ASSUME gen[g].st \in Active, StopInTransaction(g, e) PROVE Tells
  <2>1. \A h \in Gens \ {g} : gen'[h] = gen[h] /\ msg'[h] = msg[h] /\ log'[h] = log[h]
    BY <1>4 DEF StopInTransaction, TypeOK
  <2>2. EndsAs(g, "stopped", AppendTerminal(log[g], "stopped"))
    BY <1>2, <1>4 DEF StopInTransaction, TypeOK, GenRow, EndsAs
  <2> QED BY <1>4, <2>1, <2>2, TellsOne DEF TellStep, Ends
<1>5. ASSUME CancelStale(g, e) PROVE Tells
  BY <1>1, <1>4, <1>5, TellsNone DEF CancelStale
<1>6. ASSUME gen[g].st = "running", Complete(g, e) PROVE Tells
  <2>1. \A h \in Gens \ {g} : gen'[h] = gen[h] /\ msg'[h] = msg[h] /\ log'[h] = log[h]
    BY <1>6 DEF Complete, TypeOK
  <2>2. EndsAs(g, "completed", AppendTerminal(Append(log[g], "answer"), "done"))
    BY <1>2, <1>6 DEF Complete, TypeOK, GenRow, EndsAs
  <2> QED BY <1>1, <1>6, <2>1, <2>2, TellsOne DEF TellStep, Ends
<1> QED BY <1>3, <1>4, <1>5, <1>6

LEMMA WorkerTells ==
    ASSUME TypeOK, NEW w \in Workers, WorkerStep(w) \/ EmitDelta(w)
    PROVE  Tells
<1> DEFINE g == work[w].g
           e == work[w].e
<1>1. g \in Gens /\ e \in Attempts
  <2>1. work[w].pc # "idle"
    BY DEF WorkerStep, ReadGeneration, StopTerminal, ReadFence, DeadlineStops, EmitStage,
           PersistRetrieval, ProviderReturns, ProviderLost, Rewrite, PersistReady, Publish,
           Fail, EmitDelta
  <2> QED BY <2>1, BusyWorker DEF BusyRecord
<1>2. /\ gen[g].st \in Active /\ FailGeneration(g) => Tells
      /\ gen[g].st \in Active /\ StopInTransaction(g, e) => Tells
      /\ CancelStale(g, e) => Tells
      /\ gen[g].st = "running" /\ Complete(g, e) => Tells
  BY <1>1, SharedTells
<1>3. "running" \in Active /\ "stop_requested" \in Active
  BY DEF Active
<1>4. CASE \/ ReadGeneration(w) \/ ReadFence(w) \/ DeadlineStops(w) \/ PersistRetrieval(w)
           \/ ProviderReturns(w) \/ ProviderLost(w) \/ PersistReady(w)
  BY <1>4, TellsNone
  DEF ReadGeneration, ReadFence, DeadlineStops, PersistRetrieval, ProviderReturns,
      ProviderLost, PersistReady
<1>5. CASE StopTerminal(w) BY <1>2, <1>5, TellsNone DEF StopTerminal
<1>6. CASE EmitStage(w) \/ EmitDelta(w)
  <2>1. CASE UNCHANGED <<gen, msg, log>> BY <2>1, TellsNone
  <2>2. CASE /\ gen[g].st \in Active /\ UNCHANGED <<gen, msg>>
             /\ log' = [log EXCEPT ![g] = AppendProgress(log[g])]
    <3>1. \A h \in Gens \ {g} : log'[h] = log[h] BY <2>2 DEF TypeOK
    <3>2. log'[g] = AppendProgress(log[g]) BY <1>1, <2>2 DEF TypeOK
    <3>3. TellStep(g) BY <2>2, <3>2 DEF TellStep
    <3> QED BY <1>1, <2>2, <3>1, <3>3, TellsOne
  <2> QED BY <1>6, <2>1, <2>2 DEF EmitStage, EmitDelta, FenceCurrent
<1>7. CASE Rewrite(w) BY <1>2, <1>7, TellsNone DEF Rewrite
<1>8. CASE Publish(w)
  BY <1>2, <1>8, TellsNone DEF Publish, PublishAllowed
<1>9. CASE Fail(w) BY <1>2, <1>3, <1>9, TellsNone DEF Fail
<1> QED BY <1>4, <1>5, <1>6, <1>7, <1>8, <1>9 DEF WorkerStep

LEMMA RequestTells ==
    ASSUME TypeOK, NEW g \in Gens,
           Request(g) \/ Streaming(g) \/ DeadlinePasses(g) \/ Disarm(g) \/ Reap(g)
    PROVE  Tells
<1>1. gen[g] \in GenRow BY DEF TypeOK
<1>2. "running" \in Active /\ "stop_requested" \in Active BY DEF Active
<1>3. \A h \in Gens \ {g} : gen'[h] = gen[h] /\ msg'[h] = msg[h] /\ log'[h] = log[h]
  BY DEF Request, Ask, Stop, Revoke, Delete, Streaming, Subscribe, Disconnect,
         DeadlinePasses, Disarm, Reap, TypeOK
<1>4. CASE Ask(g)
  <2>1. gen'[g].st = "running" /\ msg'[g] = "generating" /\ log'[g] = <<"start">>
    BY <1>4 DEF Ask, NoGen, TypeOK
  <2> QED BY <1>3, <2>1, TellsOne DEF TellStep
<1>5. CASE Stop(g) \/ Revoke(g)
  <2>1. /\ gen[g].st = "running" /\ gen'[g].st = "stop_requested"
        /\ msg'[g] = msg[g] /\ log'[g] = log[g]
    BY <1>1, <1>5, ZenonT(40) DEF Stop, Revoke, RequestStop, TypeOK, GenRow
  <2> QED BY <1>2, <1>3, <2>1, TellsOne DEF TellStep
<1>6. CASE Delete(g)
  <2>1. gen'[g].st = "deleted" /\ log'[g] = <<>> BY <1>6 DEF Delete, NoGen, TypeOK
  <2> QED BY <1>3, <2>1, TellsOne DEF TellStep
<1>7. CASE Subscribe(g) \/ Disconnect(g) \/ DeadlinePasses(g) \/ Disarm(g)
  <2>1. gen'[g].st = gen[g].st /\ msg' = msg /\ log' = log
    BY <1>1, <1>7 DEF Subscribe, Disconnect, DeadlinePasses, Disarm, TypeOK, GenRow
  <2> QED BY <1>3, <2>1, TellsOne DEF TellStep
<1>8. CASE Reap(g)
  <2>1. RequestStop(g) = [gen[g] EXCEPT !.st = "stop_requested", !.ctl = gen[g].ctl + 1]
    BY DEF RequestStop
  <2>2. gen'[g].st = "stopped" BY <1>1, <1>8, <2>1 DEF Reap, TypeOK, GenRow
  <2>3. EndsAs(g, "stopped", AppendTerminal(Append(log[g], "stop_requested"), "stopped"))
    BY <1>8, <2>2 DEF Reap, TypeOK, EndsAs
  <2> QED BY <1>2, <1>3, <1>8, <2>3, TellsOne DEF TellStep, Ends, Reap
<1> QED BY <1>4, <1>5, <1>6, <1>7, <1>8 DEF Request, Streaming

LEMMA StepTells == TypeOK /\ [Next]_vars => Tells
<1> SUFFICES ASSUME TypeOK, [Next]_vars PROVE Tells OBVIOUS
<1>1. CASE UNCHANGED vars BY <1>1, TellsNone DEF vars
<1>2. CASE \E w \in Workers : WorkerStep(w) \/ EmitDelta(w) BY <1>2, WorkerTells
<1>3. CASE \E w \in Workers : Heartbeat(w) \/ Crash(w)
  BY <1>3, TellsNone DEF Heartbeat, Crash
<1>4. CASE \E g \in Gens : Request(g) \/ Streaming(g) \/ DeadlinePasses(g) \/ Disarm(g) \/ Reap(g)
  BY <1>4, RequestTells
<1>5. CASE \E w \in Workers, g \in Gens, e \in Attempts : Claim(w, g, e)
  BY <1>5, TellsNone DEF Claim
<1>6. ASSUME NEW g \in Gens, NEW e \in Attempts,
             LeaseLapses(g, e) \/ ReadLapsed(g, e) \/ ExpireReconciling(g, e)
      PROVE  Tells
  BY <1>6, TellsNone, SharedTells DEF LeaseLapses, ReadLapsed, ExpireReconciling, Active
<1>7. ASSUME NEW r \in scanned, Recover(r) PROVE Tells
  <2>1. r.g \in Gens /\ r.e \in Attempts BY DEF TypeOK, ScanRow
  <2> QED BY <1>7, <2>1, TellsNone, SharedTells DEF Recover
<1>8. CASE \E g \in Gens, e \in Attempts, sent \in BOOLEAN : Reconcile(g, e, sent)
  BY <1>8, TellsNone DEF Reconcile
<1>9. CASE Next BY <1>2, <1>3, <1>4, <1>5, <1>6, <1>7, <1>8, <1>9 DEF Next
<1> QED BY <1>1, <1>9

\* what the positions of the log say follows from Told
LEMMA ToldIsShown ==
    ASSUME StoryInv
    PROVE  EndIsShown
<1>1. LogTellsTheEnd
  <2> SUFFICES ASSUME NEW g \in Gens
               PROVE  /\ gen[g].st \in Active => TerminalEvents(g) = {}
                      /\ gen[g].st \in Terminal =>
                            /\ TerminalEvents(g) = {Len(log[g])}
                            /\ log[g][Len(log[g])] = EndOfLog[gen[g].st]
    BY DEF LogTellsTheEnd
  <2>1. Told(g) /\ log[g] \in Seq(Event) BY DEF StoryInv, TypeOK
  <2>2. gen[g].st \in Active => TerminalEvents(g) = {}
    BY <2>1 DEF Told, PutsQuiet, TerminalEvents
  <2>3. ASSUME gen[g].st \in Terminal
        PROVE  /\ TerminalEvents(g) = {Len(log[g])}
               /\ log[g][Len(log[g])] = EndOfLog[gen[g].st]
    <3>1. DOMAIN log[g] = 1..Len(log[g]) /\ Len(log[g]) \in Nat BY <2>1
    <3>2. log[g] # <<>> /\ log[g][Len(log[g])] = EndOfLog[gen[g].st] BY <2>1, <2>3 DEF Told
    <3>3. Len(log[g]) > 0 BY <2>1, <3>2
    <3>4. EndOfLog[gen[g].st] \in TerminalEvent
      BY <2>3 DEF EndOfLog, Terminal, TerminalEvent
    <3>5. \A i \in 1..(Len(log[g]) - 1) : log[g][i] \notin TerminalEvent BY <2>1, <2>3 DEF Told
    <3> QED BY <3>1, <3>2, <3>3, <3>4, <3>5 DEF TerminalEvents
  <2> QED BY <2>2, <2>3
<1>2. AnswerIffCompleted
  <2> SUFFICES ASSUME NEW g \in Gens
               PROVE  /\ Cardinality({i \in DOMAIN log[g] : log[g][i] = "answer"}) =
                            (IF gen[g].st = "completed" THEN 1 ELSE 0)
                      /\ gen[g].st \in Active => msg[g] = "generating"
                      /\ gen[g].st \in Terminal => msg[g] = gen[g].st
    BY DEF AnswerIffCompleted
  <2> DEFINE A == {i \in DOMAIN log[g] : log[g][i] = "answer"}
  <2>1. /\ Told(g) /\ log[g] \in Seq(Event) /\ gen[g].st \in GenStatus
        /\ DOMAIN log[g] = 1..Len(log[g]) /\ Len(log[g]) \in Nat
    BY DEF StoryInv, TypeOK, GenRow
  <2>2. EndOfLog[gen[g].st] # "answer" \/ gen[g].st \notin Terminal
    BY DEF EndOfLog, Terminal
  <2>3. CASE gen[g].st = "completed"
    <3>1. Len(log[g]) > 1 /\ log[g][Len(log[g])] # "answer"
      BY <2>1, <2>2, <2>3 DEF Told, Terminal
    <3>2. \A i \in 1..(Len(log[g]) - 1) : log[g][i] = "answer" <=> i = Len(log[g]) - 1
      BY <2>1, <2>3 DEF Told, Terminal
    <3>3. A = {Len(log[g]) - 1} BY <2>1, <3>1, <3>2
    <3> QED BY <2>1, <2>3, <3>3, FS_Singleton DEF Told, Active, Terminal
  <2>4. CASE gen[g].st # "completed"
    <3>1. A = {}
      <4>1. CASE gen[g].st \in Active BY <2>1, <4>1 DEF Told, PutsQuiet
      <4>2. CASE gen[g].st \in Terminal BY <2>1, <2>2, <2>4, <4>2 DEF Told
      <4>3. CASE gen[g].st \in {"absent", "deleted"} BY <2>1, <4>3 DEF Told
      <4> QED BY <2>1, <4>1, <4>2, <4>3 DEF GenStatus
    <3> QED BY <2>1, <2>4, <3>1, FS_EmptySet DEF Told
  <2> QED BY <2>3, <2>4
<1> QED BY <1>1, <1>2 DEF EndIsShown

\* However publications, stops, failures, recoveries, expiries and reaps race
\* for a generation, its log has one terminal event, the last one and of the kind
\* its status says, the answer is there exactly when it completed, and the
\* message row agrees (worker.py: _append_terminal_event, _publish, _fail_execution).
THEOREM Shown == Spec => []EndIsShown
<1>1. Init => StoryInv
  BY TypeInit DEF Init, StoryInv, Told, NoGen, Active, Terminal
<1>2. StoryInv /\ [Next]_vars => StoryInv'
  <2> SUFFICES ASSUME StoryInv, [Next]_vars PROVE StoryInv' OBVIOUS
  <2>1. TypeOK /\ TypeOK' BY TypeStep DEF StoryInv
  <2>2. \A g \in Gens : Told(g) /\ TellStep(g) BY <2>1, StepTells DEF StoryInv, Tells
  <2>3. \A g \in Gens : Told(g)' BY <2>1, <2>2, TellsStep
  <2> QED BY <2>1, <2>3 DEF StoryInv
<1> QED BY <1>1, <1>2, ToldIsShown, PTL DEF Spec

-----------------------------------------------------------------------------
(* A worker that was overtaken *)

\* what a step does to the generation and the attempts of the worker w
OwnRowOnly(w) ==
    \A f \in Attempts \ {work[w].e} : exec'[work[w].g][f] = exec[work[w].g][f]
NotCompleted(w) ==
    gen'[work[w].g].st # "completed" \/ gen[work[w].g].st = "completed"

\* the groups of updates touch the row they are given, and none completes
LEMMA SharedRows ==
    ASSUME TypeOK, NEW w \in Workers, work[w].pc # "idle"
    PROVE  LET g == work[w].g
               e == work[w].e
           IN  /\ CancelRow(g, e) => OwnRowOnly(w)
               /\ StopInTransaction(g, e) => OwnRowOnly(w) /\ NotCompleted(w)
               /\ CancelStale(g, e) => OwnRowOnly(w) /\ NotCompleted(w)
               /\ FailGeneration(g) => NotCompleted(w)
               /\ \A r : exec' = [exec EXCEPT ![g][e] = r] => OwnRowOnly(w)
               /\ UNCHANGED exec => OwnRowOnly(w)
               /\ UNCHANGED gen => NotCompleted(w)
<1> DEFINE g == work[w].g
           e == work[w].e
<1>1. g \in Gens /\ e \in Attempts /\ gen[g] \in GenRow
  BY BusyWorker DEF BusyRecord, TypeOK
<1>2. \A r : exec' = [exec EXCEPT ![g][e] = r] => OwnRowOnly(w)
  BY <1>1 DEF TypeOK, OwnRowOnly
<1>3. UNCHANGED exec => OwnRowOnly(w) BY DEF OwnRowOnly
<1>4. UNCHANGED gen => NotCompleted(w) BY DEF NotCompleted
<1>5. CancelRow(g, e) => OwnRowOnly(w)
  <2>1. CancelRow(g, e) => \/ exec' = [exec EXCEPT ![g][e] = Leave(exec[g][e], "cancelled")]
                           \/ UNCHANGED exec
    BY <1>1 DEF CancelRow, TypeOK
  <2> QED BY <1>2, <1>3, <2>1
<1>6. ASSUME StopInTransaction(g, e) PROVE OwnRowOnly(w) /\ NotCompleted(w)
  <2>1. exec' = [exec EXCEPT ![g][e] = Leave(exec[g][e], "cancelled")]
    BY <1>1, <1>6 DEF StopInTransaction, TypeOK
  <2>2. gen'[g].st = "stopped" BY <1>1, <1>6 DEF StopInTransaction, TypeOK, GenRow
  <2> QED BY <1>2, <2>1, <2>2 DEF NotCompleted
<1>7. CancelStale(g, e) => OwnRowOnly(w) /\ NotCompleted(w)
  BY <1>4, <1>5, <1>6 DEF CancelStale
<1>8. ASSUME FailGeneration(g) PROVE NotCompleted(w)
  <2>1. gen'[g].st = "failed" BY <1>1, <1>8 DEF FailGeneration, TypeOK, GenRow
  <2> QED BY <2>1 DEF NotCompleted
<1> QED BY <1>2, <1>3, <1>4, <1>5, <1>6, <1>7, <1>8

LEMMA OvertakenWorker ==
    ASSUME TypeOK, NEW w \in Workers, TakenOver(w), WorkerStep(w)
    PROVE  NotCompleted(w) /\ OwnRowOnly(w)
<1> DEFINE g == work[w].g
           e == work[w].e
<1>1. work[w].pc # "idle" /\ work[w].pc \in Executing \cup {"failing"} BY DEF TakenOver, Executing
<1>2. g \in Gens /\ e \in Attempts BY <1>1, BusyWorker DEF BusyRecord
<1>3. /\ StopInTransaction(g, e) => OwnRowOnly(w) /\ NotCompleted(w)
      /\ CancelStale(g, e) => OwnRowOnly(w) /\ NotCompleted(w)
      /\ FailGeneration(g) => NotCompleted(w)
      /\ \A r : exec' = [exec EXCEPT ![g][e] = r] => OwnRowOnly(w)
      /\ UNCHANGED exec => OwnRowOnly(w)
      /\ UNCHANGED gen => NotCompleted(w)
  BY <1>1, SharedRows
<1>4. ~ HoldsFence(w) BY DEF TakenOver, HoldsFence
<1>5. CASE ReadGeneration(w) \/ ReadFence(w) \/ DeadlineStops(w) \/ EmitStage(w) \/ ProviderReturns(w)
  BY <1>3, <1>5 DEF ReadGeneration, ReadFence, DeadlineStops, EmitStage, ProviderReturns
<1>6. CASE StopTerminal(w) BY <1>1, <1>6 DEF StopTerminal, Executing
<1>7. CASE PersistRetrieval(w) \/ ProviderLost(w) \/ PersistReady(w)
  BY <1>3, <1>4, <1>7 DEF PersistRetrieval, ProviderLost, PersistReady, CanPersist
<1>8. CASE Rewrite(w) BY <1>3, <1>8 DEF Rewrite
<1>9. CASE Publish(w)
  BY <1>3, <1>4, <1>9 DEF Publish, PublishAllowed, FenceCurrent
<1>10. CASE Fail(w)
  <2>1. CASE CancelStale(g, e) \/ StopInTransaction(g, e) BY <1>3, <2>1
  <2>2. CASE UNCHANGED gen /\ UNCHANGED exec BY <1>3, <2>2
  <2>3. CASE FailGeneration(g) /\ exec' = [exec EXCEPT ![g][e] = Discard(exec[g][e], "failed")]
    BY <1>3, <2>3
  <2>4. exec[g][e].st # "running" BY DEF TakenOver
  <2> QED BY <1>2, <1>10, <2>1, <2>2, <2>3, <2>4 DEF Fail, TypeOK
<1> QED BY <1>5, <1>6, <1>7, <1>8, <1>9, <1>10 DEF WorkerStep

\* only w itself changes what the worker w remembers of the execution it is at
LEMMA OwnStep ==
    ASSUME TypeOK, NEW w \in Workers, work[w].pc # "idle", work'[w] # work[w], [Next]_vars
    PROVE  WorkerStep(w) \/ Crash(w)
<1>1. work \in [Workers -> WorkRecord] BY DEF TypeOK
<1>2. ASSUME NEW v \in Workers, WorkerStep(v) \/ Crash(v) PROVE v = w
  <2> SUFFICES ASSUME v # w PROVE work'[w] = work[w] OBVIOUS
  <2>1. CASE \E r : work' = [work EXCEPT ![v] = r] BY <1>1, <2>1
  <2>2. WorkerStep(v) => \E r : work' = [work EXCEPT ![v] = r]
    BY DEF WorkerStep, ReadGeneration, StopTerminal, ReadFence, DeadlineStops, EmitStage,
         PersistRetrieval, ProviderReturns, ProviderLost, Rewrite, PersistReady, Publish, Fail,
         Rest, Goto, Fails
  <2>3. Crash(v) => \E r : work' = [work EXCEPT ![v] = r] BY DEF Crash, Rest
  <2> QED BY <1>2, <2>1, <2>2, <2>3
<1>3. ASSUME NEW v \in Workers, EmitDelta(v) \/ Heartbeat(v) PROVE FALSE
  BY <1>3 DEF EmitDelta, Heartbeat
<1>4. ASSUME NEW v \in Workers, NEW g \in Gens, NEW e \in Attempts, Claim(v, g, e) PROVE FALSE
  <2>1. v # w BY <1>4 DEF Claim
  <2> QED BY <1>1, <1>4, <2>1 DEF Claim
<1>5. ASSUME NEW g \in Gens, Request(g) \/ Streaming(g) \/ DeadlinePasses(g) \/ Disarm(g) \/ Reap(g)
      PROVE FALSE
  BY <1>5 DEF Request, Ask, Stop, Revoke, Delete, Streaming, Subscribe, Disconnect,
         DeadlinePasses, Disarm, Reap
<1>6. ASSUME NEW g \in Gens, NEW e \in Attempts,
             LeaseLapses(g, e) \/ ReadLapsed(g, e) \/ ExpireReconciling(g, e)
      PROVE  FALSE
  BY <1>6 DEF LeaseLapses, ReadLapsed, ExpireReconciling
<1>7. ASSUME NEW r \in scanned, Recover(r) PROVE FALSE
  BY <1>7 DEF Recover
<1>8. ASSUME NEW g \in Gens, NEW e \in Attempts, NEW sent \in BOOLEAN, Reconcile(g, e, sent)
      PROVE FALSE
  BY <1>8 DEF Reconcile
<1>9. ~ UNCHANGED vars BY DEF vars
<1> QED BY <1>2, <1>3, <1>4, <1>5, <1>6, <1>7, <1>8, <1>9 DEF Next

\* A worker whose execution was expired, cancelled or recovered meanwhile never
\* completes the generation, and whatever it still does leaves the attempt that
\* took over as it is (worker.py: _fence_current, _cancel_stale_execution,
\* _fail_execution).
THEOREM Undisturbed == Spec => StaleWorkerDisturbsNothing
<1>1. TypeOK /\ [Next]_vars =>
        [\A w \in Workers :
            TakenOver(w) /\ work'[w] # work[w] =>
              /\ gen'[work[w].g].st # "completed" \/ gen[work[w].g].st = "completed"
              /\ \A e \in Attempts \ {work[w].e} :
                    exec'[work[w].g][e] = exec[work[w].g][e]]_vars
  <2> SUFFICES ASSUME TypeOK, [Next]_vars, NEW w \in Workers, TakenOver(w), work'[w] # work[w]
               PROVE  NotCompleted(w) /\ OwnRowOnly(w)
    BY DEF NotCompleted, OwnRowOnly
  <2>1. work[w].pc # "idle" BY DEF TakenOver, Executing
  <2>2. CASE WorkerStep(w) BY <2>2, OvertakenWorker
  <2>3. CASE Crash(w) BY <2>3 DEF Crash, NotCompleted, OwnRowOnly
  <2> QED BY <2>1, <2>2, <2>3, OwnStep
<1> QED BY <1>1, TypeCorrect, PTL DEF Spec, StaleWorkerDisturbsNothing

=============================================================================
