------------------------------ MODULE Retrieval ------------------------------
(***************************************************************************)
(* A retrieval request (RetrievalService, RetrievalRequest) against        *)
(* documents that are replaced, deleted and purged while it runs.  It      *)
(* pages through the dense and the sparse provider in two threads, asks    *)
(* the documents for the facts of every candidate                          *)
(* (DocumentsRetrievalVisibilityPort), which leases the version it reads,  *)
(* reranks, asks again, and releases the leases when it ends.              *)
(*                                                                         *)
(* A version has one lease per principal: acquiring again replaces it, and *)
(* a release only removes the reference it names.                          *)
(***************************************************************************)
EXTENDS Integers, FiniteSets

CONSTANTS
    ReadRequests,       \* retrieval requests
    PrincipalOf,        \* who makes each of them
    LibraryDocs,        \* documents
    LibraryVersions,    \* bound: versions of a document, 1..n
    RetrievalFaults     \* bound: provider failures, requests that die or outlive a lease

ASSUME RetrievalAssumption == LibraryVersions \in Nat \ {0} /\ RetrievalFaults \in Nat

VARIABLES
    library,    \* documents: lifecycle, active version and the state of the versions
    entries,    \* versions whose chunks the providers still return
    readLeases, \* document_read_leases, with the request that refers to each
    reads,      \* the requests: phase, threads still searching, hits; as history,
                \* the versions a lease of theirs ran out on
    retrievalFaults

retrievalVars == <<library, entries, readLeases, reads, retrievalFaults>>

Providers == {"dense", "sparse"}
VersionNumbers == 1..LibraryVersions
AllVersions == LibraryDocs \X VersionNumbers
\* A request with nothing in hand
Empty(phase) ==
    [phase |-> phase, searching |-> {}, failed |-> {}, hits |-> {}, lapsed |-> {}]
NoRead == Empty("none")
OpenPhases == {"searching", "reranking", "assembled"}
Open(r) == reads[r].phase \in OpenPhases

StateOf(version) == library[version[1]].versions[version[2]]
\* Visible: the facts of the active version of a document that is not being deleted
Readable(version) == /\ library[version[1]].life = "active"
                     /\ library[version[1]].active = version[2]
Leased(version) == \E l \in readLeases : l.version = version
Fault == retrievalFaults < RetrievalFaults /\ retrievalFaults' = retrievalFaults + 1

\* get_visibility_facts, _acquire_read_lease: for each readable candidate a new
\* lease of a fixed time that replaces the one its principal had
Found(versions) == {v \in versions : Readable(v)}
LeaseOf(r, version) == [principal |-> PrincipalOf[r], version |-> version, holder |-> r]
Acquire(r, versions) ==
    LET found == Found(versions)
    IN  readLeases' = {l \in readLeases : l.principal # PrincipalOf[r] \/ l.version \notin found}
                        \cup {LeaseOf(r, v) : v \in found}

\* release_read_leases: every reference the request was given, and only while
\* nobody acquired the lease again
MutantReleased(r) == {l \in readLeases : l.holder = r /\ l.version \in reads[r].hits}   \* those of its answer
Released(r) == {l \in readLeases : l.holder = r}

-----------------------------------------------------------------------------
(* A request *)

\* open_request
OpenRequest(r) ==
    /\ reads[r].phase = "none"
    /\ reads' = [reads EXCEPT ![r] = [Empty("searching") EXCEPT !.searching = Providers]]
    /\ UNCHANGED <<library, entries, readLeases, retrievalFaults>>

\* _collect_provider_hits, in the provider's thread: what is not readable is
\* dropped and replaced from the next page, until the quota is full
Collect(r, provider, page) ==
    /\ reads[r].phase = "searching" /\ provider \in reads[r].searching
    /\ Acquire(r, page)
    /\ reads' = [reads EXCEPT ![r].searching = @ \ {provider},
                              ![r].hits = @ \cup Found(page),
                              ![r].lapsed = @ \ Found(page)]
    /\ UNCHANGED <<library, entries, retrievalFaults>>

\* A provider fails, before or after the facts of a page were read: its hits
\* are lost, its leases are not
CollectFails(r, provider, page) ==
    /\ reads[r].phase = "searching" /\ provider \in reads[r].searching
    /\ Fault
    /\ Acquire(r, page)
    /\ reads' = [reads EXCEPT ![r].searching = @ \ {provider},
                              ![r].failed = @ \cup {provider},
                              ![r].lapsed = @ \ Found(page)]
    /\ UNCHANGED <<library, entries>>

\* _collect_hybrid_hits: one provider is a degraded answer, none is a failure
Merge(r) ==
    /\ reads[r].phase = "searching" /\ reads[r].searching = {}
    /\ IF reads[r].failed = Providers
       THEN /\ readLeases' = readLeases \ Released(r)
            /\ reads' = [reads EXCEPT ![r] = Empty("failed")]
       ELSE /\ reads' = [reads EXCEPT ![r].phase = "reranking"]
            /\ UNCHANGED readLeases
    /\ UNCHANGED <<library, entries, retrievalFaults>>

\* _search_with_lease after the reranker: the facts are read again
MutantStillReadable(r) == reads[r].hits         \* the hits as they were reranked
StillReadable(r) == Found(reads[r].hits)
Assemble(r) ==
    /\ reads[r].phase = "reranking"
    /\ Acquire(r, reads[r].hits)
    /\ reads' = [reads EXCEPT ![r].phase = "assembled", ![r].hits = StillReadable(r),
                              ![r].lapsed = @ \ Found(reads[r].hits)]
    /\ UNCHANGED <<library, entries, retrievalFaults>>

\* resolve_citation: a hit whose document has moved on is unavailable
Cite(r, version) ==
    /\ reads[r].phase = "assembled" /\ version \in reads[r].hits
    /\ Acquire(r, {version})
    /\ reads' = [reads EXCEPT ![r].lapsed = @ \ Found({version})]
    /\ UNCHANGED <<library, entries, retrievalFaults>>

\* __exit__
CloseRequest(r) ==
    /\ reads[r].phase = "assembled"
    /\ readLeases' = readLeases \ Released(r)
    /\ reads' = [reads EXCEPT ![r] = Empty("done")]
    /\ UNCHANGED <<library, entries, retrievalFaults>>

\* The process dies with its leases; they expire
RequestDies(r) ==
    /\ Open(r) /\ Fault
    /\ reads' = [reads EXCEPT ![r] = Empty("dead")]
    /\ UNCHANGED <<library, entries, readLeases>>

\* Nobody counts a lease whose time is over (_has_active_read_lease), and nothing
\* renews it: it may run out under a request that is still open, which a chat
\* generation keeps until it ends
MutantLeaseExpires(l) ==                        \* leases are counted whatever their time
    /\ ~Open(l.holder) /\ reads[l.holder].phase # "dead"
    /\ readLeases' = readLeases \ {l}
    /\ UNCHANGED <<library, entries, reads, retrievalFaults>>
LeaseExpires(l) ==
    /\ readLeases' = readLeases \ {l}
    /\ IF Open(l.holder)
       THEN /\ Fault
            /\ reads' = [reads EXCEPT ![l.holder].lapsed = @ \cup {l.version}]
       ELSE UNCHANGED <<reads, retrievalFaults>>
    /\ UNCHANGED <<library, entries>>

-----------------------------------------------------------------------------
(* The documents meanwhile *)

Publish(d, v) ==
    /\ library[d].life = "active" /\ v = library[d].active + 1 /\ v \in VersionNumbers
    /\ library' = [library EXCEPT ![d].active = v,
                     ![d].versions = [@ EXCEPT ![v] = "active", ![library[d].active] = "superseded"]]
    /\ entries' = entries \cup {<<d, v>>}
    /\ UNCHANGED <<readLeases, reads, retrievalFaults>>

AcceptDeletion(d) ==
    /\ library[d].life = "active"
    /\ library' = [library EXCEPT ![d].life = "deleting"]
    /\ UNCHANGED <<entries, readLeases, reads, retrievalFaults>>

\* purge of a superseded version, and of the versions of a deleted document,
\* with the document's row locked: not while anybody reads it
Unread(d, v) == IF library[d].life = "active" THEN ~Leased(<<d, v>>)
                ELSE \A w \in VersionNumbers : ~Leased(<<d, w>>)
EnterPurging(d, v) ==
    /\ \/ library[d].life = "active" /\ StateOf(<<d, v>>) = "superseded"
       \/ library[d].life = "deleting" /\ StateOf(<<d, v>>) \in {"active", "superseded"}
    /\ Unread(d, v)
    /\ library' = [library EXCEPT ![d].versions[v] = "purging"]
    /\ UNCHANGED <<entries, readLeases, reads, retrievalFaults>>
\* The cleanup targets are executed, then the version is a tombstone
FinishPurge(d, v) ==
    /\ StateOf(<<d, v>>) = "purging"
    /\ library' = [library EXCEPT ![d].versions[v] = "purged"]
    /\ entries' = entries \ {<<d, v>>}
    /\ UNCHANGED <<readLeases, reads, retrievalFaults>>

RetrievalInit ==
    /\ library = [d \in LibraryDocs |->
                    [life |-> "active", active |-> 1,
                     versions |-> [v \in VersionNumbers |-> IF v = 1 THEN "active" ELSE "none"]]]
    /\ entries = {<<d, 1>> : d \in LibraryDocs}
    /\ readLeases = {}
    /\ reads = [r \in ReadRequests |-> NoRead]
    /\ retrievalFaults = 0

RequestStep(r) ==
    \/ \E provider \in Providers, page \in SUBSET entries : Collect(r, provider, page)
    \/ Merge(r) \/ Assemble(r) \/ CloseRequest(r)
Purge(d, v) == EnterPurging(d, v) \/ FinishPurge(d, v)

RetrievalNext ==
    \/ \E r \in ReadRequests :
          \/ OpenRequest(r) \/ RequestStep(r) \/ RequestDies(r)
          \/ \E provider \in Providers, page \in SUBSET entries : CollectFails(r, provider, page)
          \/ \E version \in AllVersions : Cite(r, version)
    \/ \E l \in readLeases : LeaseExpires(l)
    \/ \E d \in LibraryDocs : \/ AcceptDeletion(d)
                              \/ \E v \in VersionNumbers : Publish(d, v) \/ Purge(d, v)

\* A request ends (its threads and the reranker answer or time out), leases
\* expire by the clock, and the purge worker runs again and again
RetrievalSpec ==
    /\ RetrievalInit /\ [][RetrievalNext]_retrievalVars
    /\ \A r \in ReadRequests : WF_retrievalVars(RequestStep(r))
    /\ WF_retrievalVars(\E l \in readLeases : LeaseExpires(l))
    /\ \A d \in LibraryDocs, v \in VersionNumbers : WF_retrievalVars(Purge(d, v))

-----------------------------------------------------------------------------
(* Properties *)

\* Documents keep their states, leases name requests and versions, hits are
\* versions (document_read_leases).
States == {"none", "active", "superseded", "purging", "purged"}
RetrievalTypeOK ==
    /\ library \in [LibraryDocs -> [life : {"active", "deleting"}, active : VersionNumbers,
                                    versions : [VersionNumbers -> States]]]
    /\ entries \subseteq AllVersions
    /\ readLeases \subseteq {LeaseOf(r, v) : r \in ReadRequests, v \in AllVersions}
    /\ reads \in [ReadRequests -> [phase : OpenPhases \cup {"none", "failed", "done", "dead"},
                                   searching : SUBSET Providers, failed : SUBSET Providers,
                                   hits : SUBSET AllVersions,
                                   lapsed : SUBSET AllVersions]]
    /\ retrievalFaults \in 0..RetrievalFaults

\* Nobody else reads in the name of its principal
Alone(r) == \A s \in ReadRequests : PrincipalOf[s] = PrincipalOf[r] => s = r

\* What a request has in hand stays whole until it ends or its lease on it runs
\* out: no version among its hits is purged under it, however often it and its
\* threads replaced their own lease, and whatever is published or deleted
\* meanwhile (_acquire_read_lease, _has_active_read_lease).
HitsAreKept ==
    \A r \in ReadRequests : Open(r) /\ Alone(r) =>
        \A version \in reads[r].hits \ reads[r].lapsed :
            StateOf(version) \notin {"purging", "purged"}

\* No lease outlives its request unless the process died: the leases of both
\* threads, of a provider that failed and of every citation are released.
NoLeaseLeft ==
    \A l \in readLeases : Open(l.holder) \/ reads[l.holder].phase = "dead"

RetrievalSafe == RetrievalTypeOK /\ HitsAreKept /\ NoLeaseLeft

\* Between the reranker and the answer the facts are read again: a step that
\* assembles an answer has only what is active at that moment, whenever a
\* document was replaced or deleted after it was found.
AssemblesReadable(r) ==
    reads[r].phase # "assembled" /\ reads'[r].phase = "assembled" =>
        \A version \in reads'[r].hits : Readable(version)
AnswersAreCurrent == [][\A r \in ReadRequests : AssemblesReadable(r)]_retrievalVars

\* Reading delays the purge of a version nobody may find any more, and never
\* prevents it.
Withdrawn(version) ==
    \/ StateOf(version) \in {"superseded", "purging"}
    \/ library[version[1]].life = "deleting" /\ StateOf(version) = "active"
PurgesHappen == \A version \in AllVersions : []<>~Withdrawn(version)

=============================================================================
