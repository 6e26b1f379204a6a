------------------------------- MODULE MCCalls -------------------------------
(* The work done with providers and backends, for TLC: the ledger of the      *)
(* calls (ProviderCall), the retrieval requests (Retrieval) and the           *)
(* publication of a document's rows in two backends, one of them OpenSearch   *)
(* or Meilisearch (IndexStaging), checked side by side.  A behaviour moves    *)
(* one part, the others stand; each part has the fairness its own module      *)
(* states.                                                                    *)
EXTENDS ProviderCall, Retrieval, IndexStaging

VARIABLE part

Parts == {"calls", "retrieval", "staging"}

allVars == <<part, vars, retrievalVars, stagingVars>>

\* Each request reads for a principal of its own
OwnPrincipal == [r \in ReadRequests |-> r]

\* The backend matters to the staging alone
CallsInit ==
    /\ part \in Parts
    /\ Init /\ RetrievalInit /\ StagingInit
    /\ part # "staging" => engine = "opensearch"

CallsNext ==
    /\ UNCHANGED part
    /\ \/ part = "calls" /\ Next /\ UNCHANGED <<retrievalVars, stagingVars>>
       \/ part = "retrieval" /\ RetrievalNext /\ UNCHANGED <<vars, stagingVars>>
       \/ part = "staging" /\ StagingNext /\ UNCHANGED <<vars, retrievalVars>>

-----------------------------------------------------------------------------
(* Fairness: that of each module while its part moves *)

LedgerFairness ==
    /\ \A n \in Requests :
          /\ WF_vars(part = "calls" /\ DeadlinePasses(n))
          /\ SF_vars(part = "calls" /\ \E r \in Reconcilers : Scan(r, n))
          /\ SF_vars(part = "calls" /\ \E r \in Reconcilers : Advance(r) /\ tick[r].n = n)
    /\ WF_vars(part = "calls" /\ \E r \in Reconcilers : Confirm(r) \/ ApplyDecision(r))

ReadingFairness ==
    /\ \A r \in ReadRequests : WF_retrievalVars(part = "retrieval" /\ RequestStep(r))
    /\ WF_retrievalVars(part = "retrieval" /\ \E l \in readLeases : LeaseExpires(l))
    /\ \A d \in LibraryDocs, v \in VersionNumbers : WF_retrievalVars(part = "retrieval" /\ Purge(d, v))

PublishingFairness ==
    /\ \A a \in Attempts :
          /\ WF_stagingVars(part = "staging" /\ WorkerStep(a) /\ UNCHANGED engine)
          /\ WF_stagingVars(part = "staging" /\ Claim(a) /\ UNCHANGED engine)
    /\ WF_stagingVars(part = "staging" /\ RecoverExpired /\ UNCHANGED engine)
    /\ WF_stagingVars(part = "staging" /\ PurgeRows /\ UNCHANGED engine)
    /\ WF_stagingVars(part = "staging" /\ LeaseRunsOut /\ UNCHANGED engine)

CallsSpec ==
    /\ CallsInit /\ [][CallsNext]_allVars
    /\ LedgerFairness /\ ReadingFairness /\ PublishingFairness

-----------------------------------------------------------------------------
(* Properties of the parts, stated in their modules *)

\* A call that was sent is settled, withdrawn versions are purged, and every job
\* of the index ends
WorkEnds ==
    /\ DispatchingEnds
    /\ PurgesHappen
    /\ []<>(part = "staging" => Settled)

=============================================================================
