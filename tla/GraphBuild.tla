------------------------------- MODULE GraphBuild -------------------------------
(***************************************************************************)
(* Builds of the public knowledge graph: the requests that create a run    *)
(* and cancel it (src/app/graph/service.py), the workers that extract,     *)
(* stage and release it (worker.py), the component stage and its release   *)
(* in the index generation (src/app/indexing/graph.py), the rows of the    *)
(* graph (store.py) and the acknowledgements of the source                 *)
(* (src/app/documents/public_graph.py).  A build stands for its run, its   *)
(* idempotency key and its target generation.                              *)
(***************************************************************************)
EXTENDS Naturals, FiniteSets

CONSTANTS Builds,        \* runs, each under the idempotency key of its request
          Creators,      \* requests that create runs
          GraphWorkers,  \* processes of the graph worker
          MaxSource,     \* bound: revisions of the public source
          GraphFaults,   \* bound: expired leases and crashes
          Gated          \* whether a release asks for a retrieval profile, as
                         \* the runtime wires it (FALSE: as the tests do)

NoBuild == "none"

ASSUME GraphAssumption ==
  /\ NoBuild \notin Builds /\ IsFiniteSet(Creators) /\ Gated \in BOOLEAN
  /\ MaxSource \in Nat \ {0} /\ GraphFaults \in Nat

VARIABLES src,      \* source_revision of the public source
          acks,     \* acknowledgements by consumer, revision and purpose
          run,      \* graph_build_runs
          gop,      \* graph_build_operations
          creator,  \* requests between the freeze and the insertion
          comp,     \* public_graph component of each target generation
          facts,    \* the attempt whose entities and relations are stored
          activeB,  \* the build of the active generation
          profile,  \* the component a retrieval release of the target froze
          gw,       \* workers
          cleanup,  \* cancelled runs whose staging is still to be discarded
          gfaults   \* faults left

graphVars == <<src, acks, run, gop, creator, comp, facts, activeB, profile, gw,
               cleanup, gfaults>>

NoComp == [state |-> "none", receipt |-> 0]
Ended == {"succeeded", "failed", "cancelled"}
Failures == {"none", "grant", "source", "provider", "conflict", "receipt", "gate"}
MaxAttempt == GraphFaults + 1
IdleBuilder == [pc |-> "idle", b |-> NoBuild, attempt |-> 0, why |-> "none"]
NoRequest == [b |-> NoBuild, rev |-> 0, active |-> NoBuild]

ComponentRows == [state : {"none", "staged", "ready", "disabled", "stale"},
               receipt : 0..MaxAttempt]

GraphTypeOK ==
  /\ src \in 1..MaxSource
  /\ acks \subseteq ({"indexing", "graph"} \X (1..MaxSource)
                      \X {"stage", "release", "discard"})
  /\ run \in [Builds -> [state : {"none", "queued", "running"} \cup Ended,
       attempt : 0..MaxAttempt, live : BOOLEAN, granted : BOOLEAN,
       rev : 0..MaxSource, receipt : 0..MaxAttempt, made : 0..Cardinality(Creators),
       notices : 0..2, failure : Failures]]
  /\ gop \in [Builds -> [state : {"none", "reserved", "done", "refused", "held"},
                         by : Creators \cup {NoBuild}]]
  /\ creator \in [Creators -> [b : Builds \cup {NoBuild}, rev : 0..MaxSource,
                               active : Builds \cup {NoBuild}]]
  /\ comp \in [Builds -> ComponentRows] /\ profile \in [Builds -> ComponentRows]
  /\ facts \in [Builds -> 0..MaxAttempt]
  /\ activeB \in Builds \cup {NoBuild}
  /\ gw \in [GraphWorkers -> [pc : {"idle", "claimed", "extracted", "activated",
       "staged", "receipted", "released", "failing", "discarding"},
       b : Builds \cup {NoBuild}, attempt : 0..MaxAttempt, why : Failures]]
  /\ cleanup \subseteq Builds
  /\ gfaults \in 0..GraphFaults

GraphInit ==
  /\ src = 1 /\ acks = {}
  /\ run = [b \in Builds |-> [state |-> "none", attempt |-> 0, live |-> FALSE,
       granted |-> FALSE, rev |-> 0, receipt |-> 0, made |-> 0, notices |-> 0,
       failure |-> "none"]]
  /\ gop = [b \in Builds |-> [state |-> "none", by |-> NoBuild]]
  /\ creator = [c \in Creators |-> NoRequest]
  /\ comp = [b \in Builds |-> NoComp] /\ profile = [b \in Builds |-> NoComp]
  /\ facts = [b \in Builds |-> 0]
  /\ activeB = NoBuild
  /\ gw = [w \in GraphWorkers |-> IdleBuilder]
  /\ cleanup = {} /\ gfaults = GraphFaults

-----------------------------------------------------------------------------
(* The public source and its consumers. *)

SourceChanges ==
  /\ src < MaxSource /\ src' = src + 1
  /\ UNCHANGED <<acks, run, gop, creator, comp, facts, activeB, profile, gw,
                 cleanup, gfaults>>

\* validate_current_head.
HeadIs(rev) == src = rev

Held(who, rev) ==
  <<who, rev, "stage">> \in acks /\ <<who, rev, "discard">> \notin acks

\* acknowledge_consumption: one acknowledgement of a consumer for a revision
\* and a purpose, whichever run it is for.
MayAck(who, rev, purpose) ==
  CASE purpose = "stage"   -> <<who, rev, "stage">> \notin acks
    [] purpose = "release" -> /\ HeadIs(rev) /\ Held(who, rev)
                              /\ <<who, rev, "release">> \notin acks
    [] purpose = "discard" -> Held(who, rev)

-----------------------------------------------------------------------------
(* Creating and cancelling a run. *)

HasActiveRun == \E b \in Builds : run[b].state \in {"queued", "running"}

\* reserve_operation: a key is free, or taken over from a request that did not
\* finish in time.
KeyFree(b) == gop[b].state \in {"none", "reserved"}

\* create: the key is reserved and the source is read without a lock.
FreezeSource(c, b) ==
  /\ creator[c] = NoRequest /\ KeyFree(b)
  /\ gop' = [gop EXCEPT ![b] = [state |-> "reserved", by |-> c]]
  /\ creator' = [creator EXCEPT ![c] = [b |-> b, rev |-> src, active |-> activeB]]
  /\ UNCHANGED <<src, acks, run, comp, facts, activeB, profile, gw, cleanup, gfaults>>

\* require_operation_reservation.
Reserved(c) == gop[creator[c].b] = [state |-> "reserved", by |-> c]

\* reserve_graph_component_stage: a staging generation with the component.
StageFree(c) ==
  /\ HeadIs(creator[c].rev) /\ activeB = creator[c].active
  /\ \A who \in {"indexing", "graph"} : MayAck(who, creator[c].rev, "stage")

\* Mutant: the absence of an active run is only looked at before the freeze.
MutantMayCreate(c) == Reserved(c) /\ StageFree(c)

MayCreate(c) == Reserved(c) /\ StageFree(c) /\ ~HasActiveRun

QueuedRun(r, rev) ==
  [r EXCEPT !.state = "queued", !.rev = rev, !.granted = TRUE, !.made = @ + 1]

CreateRun(c) ==
  LET b == creator[c].b IN
  /\ b # NoBuild /\ MayCreate(c)
  /\ run' = [run EXCEPT ![b] = QueuedRun(@, creator[c].rev)]
  /\ acks' = acks \cup {<<who, creator[c].rev, "stage">> : who \in {"indexing", "graph"}}
  /\ comp' = [comp EXCEPT ![b] = [state |-> "staged", receipt |-> 0]]
  /\ gop' = [gop EXCEPT ![b].state = "done"]
  /\ creator' = [creator EXCEPT ![c] = NoRequest]
  /\ UNCHANGED <<src, facts, activeB, profile, gw, cleanup, gfaults>>

\* The refusal is the answer of the key, unless the key was taken over.  It is
\* "held" when only an earlier acknowledgement stands in the way.
RefuseCreate(c) ==
  LET b == creator[c].b
      held == HeadIs(creator[c].rev) /\ activeB = creator[c].active /\ ~HasActiveRun
  IN
  /\ b # NoBuild /\ ~MayCreate(c)
  /\ gop' = IF Reserved(c)
            THEN [gop EXCEPT ![b].state = IF held THEN "held" ELSE "refused"]
            ELSE gop
  /\ creator' = [creator EXCEPT ![c] = NoRequest]
  /\ UNCHANGED <<src, acks, run, comp, facts, activeB, profile, gw, cleanup, gfaults>>

CreatorCrash(c) ==
  /\ creator[c] # NoRequest /\ gfaults > 0 /\ gfaults' = gfaults - 1
  /\ creator' = [creator EXCEPT ![c] = NoRequest]
  /\ UNCHANGED <<src, acks, run, gop, comp, facts, activeB, profile, gw, cleanup>>

\* A terminal state is written with its notice in one transaction.
EndedRun(r, to, why) ==
  [r EXCEPT !.state = to, !.live = FALSE, !.notices = @ + 1, !.failure = why]
EndRun(b, to, why) == run' = [run EXCEPT ![b] = EndedRun(@, to, why)]

Cancel(b) ==
  /\ run[b].state \in {"queued", "running"}
  /\ EndRun(b, "cancelled", "none")
  /\ cleanup' = cleanup \cup {b}
  /\ UNCHANGED <<src, acks, gop, creator, comp, facts, activeB, profile, gw, gfaults>>

-----------------------------------------------------------------------------
(* Discarding a component stage. *)

\* _discard_graph_resources_in_transaction: the rows go with the component,
\* and the hold of the indexing consumer with them when it is acknowledged.
Discard(b, state, acknowledge) ==
  /\ comp' = [comp EXCEPT ![b] = [state |-> state, receipt |-> 0]]
  /\ facts' = [facts EXCEPT ![b] = 0]
  /\ acks' = IF acknowledge THEN acks \cup {<<"indexing", run[b].rev, "discard">>}
             ELSE acks

\* discard_public_graph_component finds the receipt the run names, or the one
\* the generation has when the run names none.
HasReceipt(b, named) ==
  comp[b].receipt # 0 /\ (named # 0 => comp[b].receipt = named)

Discards(b, named) == HasReceipt(b, named) /\ MayAck("indexing", run[b].rev, "discard")

\* _discard_staging: then the hold of the graph consumer goes.
DiscardStaging(b, named) ==
  LET discards == Discards(b, named) IN
  /\ acks' = acks
       \cup (IF discards THEN {<<"indexing", run[b].rev, "discard">>} ELSE {})
       \cup (IF MayAck("graph", run[b].rev, "discard")
             THEN {<<"graph", run[b].rev, "discard">>} ELSE {})
  /\ comp' = IF discards THEN [comp EXCEPT ![b] = [state |-> "disabled", receipt |-> 0]]
             ELSE comp
  /\ facts' = IF discards THEN [facts EXCEPT ![b] = 0] ELSE facts

CleanUp(b) ==
  /\ b \in cleanup /\ cleanup' = cleanup \ {b}
  /\ DiscardStaging(b, run[b].receipt)
  /\ UNCHANGED <<src, run, gop, creator, activeB, profile, gw, gfaults>>

CleanUpCrash(b) ==
  /\ b \in cleanup /\ cleanup' = cleanup \ {b}
  /\ gfaults > 0 /\ gfaults' = gfaults - 1
  /\ UNCHANGED <<src, acks, run, gop, creator, comp, facts, activeB, profile, gw>>

-----------------------------------------------------------------------------
(* The worker. *)

Step(w, pc) == gw' = [gw EXCEPT ![w].pc = pc]
Rest(w) == gw' = [gw EXCEPT ![w] = IdleBuilder]
Failing(w, why) == gw' = [gw EXCEPT ![w] = [@ EXCEPT !.pc = "failing", !.why = why]]

\* The lease of the attempt: owner, fence and expiry (_require_current_lease).
HasLease(w) ==
  LET r == run[gw[w].b] IN
  r.state = "running" /\ r.attempt = gw[w].attempt /\ r.live

ClaimedRun(r) == [r EXCEPT !.state = "running", !.live = TRUE, !.attempt = @ + 1]
ClaimRun(w, b) ==
  /\ gw[w] = IdleBuilder /\ run[b].state = "queued"
  /\ run' = [run EXCEPT ![b] = ClaimedRun(@)]
  /\ gw' = [gw EXCEPT ![w] = [pc |-> "claimed", b |-> b, why |-> "none",
                               attempt |-> run[b].attempt + 1]]
  /\ UNCHANGED <<src, acks, gop, creator, comp, facts, activeB, profile, cleanup, gfaults>>

ExpireGrant(b) ==
  /\ run[b].granted /\ run' = [run EXCEPT ![b].granted = FALSE]
  /\ UNCHANGED <<src, acks, gop, creator, comp, facts, activeB, profile, gw,
                 cleanup, gfaults>>

ExpireLease(b) ==
  /\ run[b].state = "running" /\ run[b].live
  /\ gfaults > 0 /\ gfaults' = gfaults - 1
  /\ run' = [run EXCEPT ![b].live = FALSE]
  /\ UNCHANGED <<src, acks, gop, creator, comp, facts, activeB, profile, gw, cleanup>>

\* The process ends; the lease runs out.
WorkerCrash(w) ==
  /\ gw[w] # IdleBuilder /\ gfaults > 0 /\ gfaults' = gfaults - 1
  /\ run' = IF HasLease(w) THEN [run EXCEPT ![gw[w].b].live = FALSE] ELSE run
  /\ Rest(w)
  /\ UNCHANGED <<src, acks, gop, creator, comp, facts, activeB, profile, cleanup>>

\* extract: provider calls and staging rows, each under the lease.
Extract(w) ==
  /\ gw[w].pc = "claimed"
  /\ IF ~run[gw[w].b].granted THEN Failing(w, "grant")
     ELSE IF HasLease(w) THEN Step(w, "extracted") \/ Failing(w, "provider")
     ELSE Rest(w)
  /\ UNCHANGED <<src, acks, run, gop, creator, comp, facts, activeB, profile,
                 cleanup, gfaults>>

\* stage_component, first transaction: the rows replace those of the target.
ActivateFacts(w) ==
  LET b == gw[w].b IN
  /\ gw[w].pc = "extracted"
  /\ IF ~HeadIs(run[b].rev) THEN Failing(w, "source") /\ UNCHANGED facts
     ELSE IF HasLease(w)
     THEN Step(w, "activated") /\ facts' = [facts EXCEPT ![b] = gw[w].attempt]
     ELSE Rest(w) /\ UNCHANGED facts
  /\ UNCHANGED <<src, acks, run, gop, creator, comp, activeB, profile, cleanup, gfaults>>

\* The rows of the target go on every exception of the component stage.
PurgeRows(w) == facts' = [facts EXCEPT ![gw[w].b] = 0]

\* stage_public_graph_component: under the head of the source; a receipt of
\* another attempt ends the build with what it staged.
StageComponent(w) ==
  LET b == gw[w].b
      conflict == comp[b].receipt \notin {0, gw[w].attempt}
  IN
  /\ gw[w].pc = "activated"
  /\ \/ /\ ~run[b].granted
        /\ Failing(w, "grant") /\ PurgeRows(w) /\ UNCHANGED <<comp, acks>>
     \/ /\ run[b].granted /\ ~HeadIs(run[b].rev) /\ Failing(w, "source")
        /\ Discard(b, "stale", MayAck("indexing", run[b].rev, "discard"))
     \/ /\ run[b].granted /\ HeadIs(run[b].rev) /\ ~HasLease(w)
        /\ Rest(w) /\ PurgeRows(w) /\ UNCHANGED <<comp, acks>>
     \/ /\ run[b].granted /\ HeadIs(run[b].rev) /\ HasLease(w) /\ conflict
        /\ Failing(w, "conflict")
        /\ Discard(b, "disabled", MayAck("indexing", run[b].rev, "discard"))
     \/ /\ run[b].granted /\ HeadIs(run[b].rev) /\ HasLease(w) /\ ~conflict
        /\ Step(w, "staged") /\ UNCHANGED <<facts, acks>>
        /\ comp' = [comp EXCEPT ![b] = [state |-> "staged", receipt |-> gw[w].attempt]]
  /\ UNCHANGED <<src, run, gop, creator, activeB, profile, cleanup, gfaults>>

\* set_stage_receipt; an attempt that has lost its lease discards its receipt,
\* which the process still holds.
RecordReceipt(w) ==
  LET b == gw[w].b IN
  /\ gw[w].pc = "staged"
  /\ IF HasLease(w)
     THEN /\ run' = [run EXCEPT ![b].receipt = gw[w].attempt]
          /\ Step(w, "receipted") /\ UNCHANGED <<comp, facts, acks>>
     ELSE Rest(w) /\ Discard(b, "disabled", FALSE) /\ UNCHANGED run
  /\ UNCHANGED <<src, gop, creator, activeB, profile, cleanup, gfaults>>

\* A retrieval release of the target is staged and judged, for the component
\* as it is.
JudgeProfile(b) ==
  /\ Gated /\ comp[b].state = "staged" /\ profile[b] # comp[b]
  /\ profile' = [profile EXCEPT ![b] = comp[b]]
  /\ UNCHANGED <<src, acks, run, gop, creator, comp, facts, activeB, gw, cleanup, gfaults>>

Ready(b) == [comp[b] EXCEPT !.state = "ready"]

\* is_released_for_generation compares the component with the frozen one.
GateOpen(b) == Gated => profile[b] = Ready(b)

\* The head and the acknowledgement are checked inside the release.
ReleaseCurrent(b) == HeadIs(run[b].rev) /\ MayAck("indexing", run[b].rev, "release")

Mine(w) == comp[gw[w].b].receipt = gw[w].attempt

\* release_graph_component: acknowledges, marks the component ready and
\* switches the active generation in one transaction.
ReleaseComponent(w) ==
  LET b == gw[w].b IN
  /\ gw[w].pc = "receipted"
  /\ \/ ~HasLease(w) /\ Rest(w) /\ UNCHANGED <<acks, comp, facts, activeB>>
     \/ /\ HasLease(w) /\ activeB = b /\ Step(w, "released")
        /\ UNCHANGED <<acks, comp, facts, activeB>>
     \/ /\ HasLease(w) /\ activeB # b /\ ~Mine(w) /\ Failing(w, "receipt")
        /\ UNCHANGED <<acks, comp, facts, activeB>>
     \/ /\ HasLease(w) /\ activeB # b /\ Mine(w) /\ ~ReleaseCurrent(b)
        /\ Failing(w, "source") /\ UNCHANGED activeB
        /\ Discard(b, "disabled", MayAck("indexing", run[b].rev, "discard"))
     \/ /\ HasLease(w) /\ activeB # b /\ Mine(w) /\ ReleaseCurrent(b) /\ ~GateOpen(b)
        /\ Failing(w, "gate") /\ UNCHANGED <<acks, comp, facts, activeB>>
     \/ /\ HasLease(w) /\ activeB # b /\ Mine(w) /\ ReleaseCurrent(b) /\ GateOpen(b)
        /\ acks' = acks \cup {<<"indexing", run[b].rev, "release">>}
        /\ comp' = [comp EXCEPT ![b] = Ready(b)]
        /\ activeB' = b /\ Step(w, "released") /\ UNCHANGED facts
  /\ UNCHANGED <<src, run, gop, creator, profile, cleanup, gfaults>>

\* complete_succeeded: under the lease, with an acknowledgement of its own.
CompleteRun(w) ==
  LET b == gw[w].b IN
  /\ gw[w].pc = "released"
  /\ \/ ~HasLease(w) /\ Rest(w) /\ UNCHANGED <<run, acks>>
     \/ /\ HasLease(w) /\ ~MayAck("graph", run[b].rev, "release")
        /\ Failing(w, "source") /\ UNCHANGED <<run, acks>>
     \/ /\ HasLease(w) /\ MayAck("graph", run[b].rev, "release")
        /\ EndRun(b, "succeeded", "none")
        /\ acks' = acks \cup {<<"graph", run[b].rev, "release">>} /\ Rest(w)
  /\ UNCHANGED <<src, gop, creator, comp, facts, activeB, profile, cleanup, gfaults>>

\* complete_failed: only the attempt that has the lease ends the run.
FailRun(w) ==
  /\ gw[w].pc = "failing"
  /\ IF HasLease(w) THEN EndRun(gw[w].b, "failed", gw[w].why) /\ Step(w, "discarding")
     ELSE Rest(w) /\ UNCHANGED run
  /\ UNCHANGED <<src, acks, gop, creator, comp, facts, activeB, profile, cleanup, gfaults>>

\* The run the worker claimed names no receipt of its own attempt.
DiscardFailed(w) ==
  /\ gw[w].pc = "discarding" /\ Rest(w)
  /\ DiscardStaging(gw[w].b, 0)
  /\ UNCHANGED <<src, run, gop, creator, activeB, profile, cleanup, gfaults>>

Expired(b) == run[b].state = "running" /\ ~run[b].live

\* requeue_expired: the attempt is invalidated and its stage discarded in one
\* transaction.
Requeue(b) ==
  /\ Expired(b)
  /\ run' = [run EXCEPT ![b].state = "queued"]
  /\ IF HasReceipt(b, run[b].receipt) THEN Discard(b, "disabled", FALSE)
     ELSE UNCHANGED <<comp, facts, acks>>
  /\ UNCHANGED <<src, gop, creator, activeB, profile, gw, cleanup, gfaults>>

\* acquire_current_reader_lease of a query: a component of an older source is
\* marked stale and its rows go.
ReadGraph(b) ==
  /\ activeB = b /\ comp[b].state = "ready" /\ ~HeadIs(run[b].rev)
  /\ MayAck("indexing", run[b].rev, "discard")
  /\ Discard(b, "stale", TRUE)
  /\ UNCHANGED <<src, run, gop, creator, activeB, profile, gw, cleanup, gfaults>>

-----------------------------------------------------------------------------
BuildStep(w) ==
  \/ \E b \in Builds : ClaimRun(w, b)
  \/ Extract(w) \/ ActivateFacts(w) \/ StageComponent(w) \/ RecordReceipt(w)
  \/ ReleaseComponent(w) \/ CompleteRun(w) \/ FailRun(w) \/ DiscardFailed(w)

GraphNext ==
  \/ SourceChanges
  \/ \E c \in Creators : \/ \E b \in Builds : FreezeSource(c, b)
                         \/ CreateRun(c) \/ RefuseCreate(c) \/ CreatorCrash(c)
  \/ \E w \in GraphWorkers : BuildStep(w) \/ WorkerCrash(w)
  \/ \E b \in Builds :
       \/ Cancel(b) \/ CleanUp(b) \/ CleanUpCrash(b) \/ ExpireGrant(b)
       \/ ExpireLease(b) \/ JudgeProfile(b) \/ Requeue(b) \/ ReadGraph(b)

\* The scheduled job of the worker goes on: it requeues, claims and builds.
GraphSpec ==
  /\ GraphInit /\ [][GraphNext]_graphVars
  /\ \A w \in GraphWorkers : WF_graphVars(BuildStep(w))
  /\ \A b \in Builds : WF_graphVars(Requeue(b))

-----------------------------------------------------------------------------
(* Properties *)

\* One run at a time is queued or running, a key makes at most one run however
\* its requests are taken over, and a run has one notice exactly when it has
\* ended (uq of graph_build_runs, reserve_operation, publish_completed).
OneRun ==
  /\ Cardinality({b \in Builds : run[b].state \in {"queued", "running"}}) <= 1
  /\ \A b \in Builds :
       /\ run[b].made <= 1
       /\ run[b].notices = IF run[b].state \in Ended THEN 1 ELSE 0

\* It, over takeovers of keys and of leases
GraphSafe == GraphTypeOK /\ OneRun

\* A generation becomes active only by the attempt that has the lease, with
\* its own component, built from the source revision that is current then
\* (release_graph_component).
CurrentRelease ==
  activeB' # activeB =>
    /\ run[activeB'].state = "running" /\ run[activeB'].live
    /\ run[activeB'].rev = src
    /\ comp'[activeB'].receipt = run[activeB'].attempt
ReleasesCurrent == [][CurrentRelease]_graphVars

\* Over crashes and lost leases, a run that was accepted ends (run_once).
BuildsEnd ==
  \A b \in Builds : []<>(run[b].state \notin {"queued", "running"})

\* A component that was staged or released keeps the rows it was staged with,
\* whatever an attempt that lost its lease still does.
ComponentKeepsRows ==
  \A b \in Builds : comp[b].receipt # 0 => facts[b] = comp[b].receipt

\* A run whose target has a released retrieval profile is not refused for want
\* of one.
ProfileReleases ==
  \A b \in Builds : run[b].failure = "gate" => profile[b].receipt # run[b].attempt

\* A new run after one that failed is not refused for the acknowledgements the
\* failed one left.
FailedRunIsRepeated == \A b \in Builds : gop[b].state # "held"
================================================================================
