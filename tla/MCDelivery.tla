----------------------------- MODULE MCDelivery -----------------------------
(* What has to end although nobody waits for it, for TLC: the delivery of     *)
(* notifications (Outbox), the generations that answer (ChatGeneration), the  *)
(* readers of an answer (Stream), the submissions of documents (Submissions)  *)
(* and the generations of the index (Generations), checked side by side.  A   *)
(* behaviour moves one part, the others stand; each part has the fairness its *)
(* own module states.                                                         *)
EXTENDS MCOutbox, Submissions

CONSTANTS Streams, Clients, MaxEvents, MaxClicks     \* of Stream

VARIABLES part,
    gen, msg, exec, log, executing, scanned,
    chgs, pub, pubr, igen, head, pins, gcop,
    life, events, deadline, stream, leases, received, reaper

Parts == {"delivery", "generation", "submissions", "index", "streams"}

ChatWorkers == {"w1"}
Generation == INSTANCE ChatGeneration WITH
    work <- executing, Gens <- {"g1"}, Workers <- ChatWorkers, MaxRunningPerUser <- 1,
    MaxPhysical <- 2, MaxScopeRetries <- 1, MaxRounds <- 1, MaxScans <- 1, MaxFence <- 3,
    SkipLocked <- FALSE

Streaming == INSTANCE Stream

IndexGens    == {"g1", "g2", "g3"}
IndexReaders == {"r1"}
Indexing == INSTANCE Generations WITH
    Gens <- IndexGens, FirstGen <- "g1", Pubs <- {1}, DocOf <- <<"d1">>, Readers <- IndexReaders,
    MaxRevision <- 1, GcFaults <- 1, Components <- <<"sparse", "vector">>

chatVars   == <<gen, msg, exec, log, executing, scanned>>
indexVars  == <<chgs, pub, pubr, igen, head, pins, gcop>>
streamVars == <<life, events, deadline, stream, leases, received, reaper>>
allVars    == <<part, vars, chatVars, submissionVars, indexVars, streamVars>>

DeliveryInit ==
    /\ part \in Parts
    /\ Init /\ Generation!Init
    /\ SubmissionInit /\ Indexing!GenInit
    /\ Streaming!StreamInit

DeliveryNext ==
    /\ UNCHANGED part
    /\ \/ part = "delivery" /\ Next
             /\ UNCHANGED <<chatVars, submissionVars, indexVars, streamVars>>
       \/ part = "generation" /\ Generation!Next
             /\ UNCHANGED <<vars, submissionVars, indexVars, streamVars>>
       \/ part = "submissions" /\ SubmissionNext
             /\ UNCHANGED <<vars, chatVars, indexVars, streamVars>>
       \/ part = "index" /\ Indexing!GenNext
             /\ UNCHANGED <<vars, chatVars, submissionVars, streamVars>>
       \/ part = "streams" /\ Streaming!StreamNext
             /\ UNCHANGED <<vars, chatVars, submissionVars, indexVars>>

-----------------------------------------------------------------------------
(* Fairness: that of each module while its part moves *)

DeliveryFairness ==
    /\ \A w \in Workers : WF_vars(part = "delivery" /\ WorkerStep(w))
    /\ \A e \in Events :
          /\ WF_vars(part = "delivery" /\ \E w \in Workers : Claim(w, e))
          /\ WF_vars(part = "delivery" /\ Recycle(e))
          /\ WF_vars(part = "delivery" /\ Abandoned(e))
    /\ \A e \in Events, u \in Users : WF_vars(part = "delivery" /\ AckCommit(e, u))

GenerationFairness ==
    /\ \A w \in ChatWorkers : WF_chatVars(part = "generation" /\ Generation!WorkerStep(w))
    /\ \A g \in {"g1"} :
          /\ WF_chatVars(part = "generation" /\ Generation!DeadlinePasses(g))
          /\ WF_chatVars(part = "generation" /\ Generation!Reap(g))
    /\ \A g \in {"g1"}, e \in Generation!Attempts :
          /\ WF_chatVars(part = "generation" /\ \E w \in ChatWorkers : Generation!Claim(w, g, e))
          /\ WF_chatVars(part = "generation" /\ Generation!Abandoned(g, e))
          /\ WF_chatVars(part = "generation" /\ Generation!ReadLapsed(g, e))
          /\ WF_chatVars(part = "generation" /\ \E r \in scanned : r.g = g /\ r.e = e /\ Generation!Recover(r))
          /\ WF_chatVars(part = "generation" /\ Generation!ExpireReconciling(g, e))

SubmissionFairness == WF_submissionVars(part = "submissions" /\ CleanupScheduled)

IndexFairness ==
    /\ WF_indexVars(part = "index" /\ Indexing!ReconcileGenerations)
    /\ \A g \in IndexGens :
         /\ WF_indexVars(part = "index" /\ Indexing!WindowCloses(g))
         /\ WF_indexVars(part = "index" /\ Indexing!RequestGc(g))
         /\ WF_indexVars(part = "index" /\ Indexing!StartCompleteGc(g))
         /\ WF_indexVars(part = "index" /\ Indexing!PurgeComponent(g))
         /\ WF_indexVars(part = "index" /\ Indexing!FinishGc(g))
    /\ \A r \in IndexReaders : WF_indexVars(part = "index" /\ Indexing!ReleaseReference(r))

StreamFairness ==
    /\ \A s \in Streams :
          /\ WF_streamVars(part = "streams" /\ Streaming!StreamStep(s))
          /\ WF_streamVars(part = "streams" /\ Streaming!Refused(s))
    /\ WF_streamVars(part = "streams" /\ Streaming!GracePasses)
    /\ WF_streamVars(part = "streams" /\ Streaming!ReaperStep)

DeliverySpec ==
    /\ DeliveryInit /\ [][DeliveryNext]_allVars
    /\ DeliveryFairness /\ GenerationFairness /\ SubmissionFairness
    /\ IndexFairness /\ StreamFairness

-----------------------------------------------------------------------------
(* Properties of the parts, stated in their modules *)

\* A running generation ends, and a requested stop takes effect unless the result
\* of a provider call is still being reconciled; its readers get every event once
\* and the last one too, and nobody's reading is cut short for want of readers
AnswersArrive ==
    Generation!RunningEnds /\ Generation!StopTakesEffect /\ Streaming!StreamsEnd

\* The private object of a submission that has ended goes, and index generations
\* out of service are collected
CleanupEnds == PrivateObjectsGo /\ Indexing!GarbageIsCollected

=============================================================================
