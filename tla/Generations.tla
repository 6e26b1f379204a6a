------------------------------ MODULE Generations ------------------------------
(***************************************************************************)
(* Index generations (src/app/indexing/persistence.py): publications that  *)
(* go into the active generation, staging generations that catch up with   *)
(* the change log of the documents, release, rollback and the garbage      *)
(* collection that retention hands over (src/app/retention/reconcile.py,   *)
(* gc_handoff.py).  A revision is a position in the log; a publication     *)
(* stands for one version of one document.  Public graph components are in *)
(* GraphBuild.tla: here every graph component is disabled.                 *)
(***************************************************************************)
EXTENDS Naturals, Sequences, FiniteSets, FiniteSetsExt

CONSTANTS Gens,          \* identities of generations
          FirstGen,      \* generation_initial
          Pubs,          \* publications that are processed (numbers from 1)
          DocOf,         \* the document of each publication
          Readers,       \* retrieval requests
          Components,    \* the components of a collection, in their order
          MaxRevision,   \* bound: length of the change log
          GcFaults       \* bound: failed purges of a component

NoGen == "none"
NoPub == 0

ASSUME GenerationsAssumption ==
  /\ FirstGen \in Gens /\ NoGen \notin Gens /\ NoPub \notin Pubs
  /\ MaxRevision \in Nat /\ GcFaults \in Nat /\ Components \in Seq(STRING)

VARIABLES chgs,    \* index_revisions and index_changes: the log of changes
          pub,     \* publications
          pubr,    \* the generation a publication in progress goes into
          igen,    \* index_generations with their chunks and vectors
          head,    \* index_generation_heads
          pins,    \* reference leases: the generation a request is pinned to
          gcop     \* GC findings with the progress of their operation

genVars == <<chgs, pub, pubr, igen, head, pins, gcop>>

GcSteps == 1..(Len(Components) + 1)

Revision == Len(chgs)
Docs == {DocOf[p] : p \in Pubs}
OfDoc(d) == {p \in Pubs : DocOf[p] = d}
Active == {p \in Pubs : pub[p] = "active"}

GenTypeOK ==
  /\ chgs \in Seq([kind : {"publish", "delete"}, doc : Docs, pub : Pubs \cup {NoPub}])
  /\ pub \in [Pubs -> {"none", "active", "retired", "purged"}]
  /\ pubr \in [Pubs -> Gens \cup {NoGen}]
  /\ igen \in [Gens ->
       [status : {"none", "staging", "active", "retired", "purged"},
        applied : 0..MaxRevision, caught : 0..MaxRevision \cup {-1},
        built : SUBSET Pubs, chunks : SUBSET Pubs, vectors : SUBSET Pubs,
        window : BOOLEAN]]
  /\ head \in [active : Gens, candidate : Gens \cup {NoGen}]
  /\ pins \in [Readers -> Gens \cup {NoGen}]
  /\ gcop \in [Gens -> [finding : {"none", "open", "repaired"},
        op : {"none", "blocked", "accepted", "purged"}, step : GcSteps,
        checked : BOOLEAN, faults : 0..GcFaults]]

GenInit ==
  /\ chgs = <<>>
  /\ pub = [p \in Pubs |-> "none"]
  /\ pubr = [p \in Pubs |-> NoGen]
  /\ igen = [g \in Gens |->
       [status |-> IF g = FirstGen THEN "active" ELSE "none", applied |-> 0,
        caught |-> -1, built |-> {}, chunks |-> {}, vectors |-> {},
        window |-> FALSE]]
  /\ head = [active |-> FirstGen, candidate |-> NoGen]
  /\ pins = [r \in Readers |-> NoGen]
  /\ gcop = [g \in Gens |-> [finding |-> "none", op |-> "none", step |-> 1,
                             checked |-> FALSE, faults |-> GcFaults]]

-----------------------------------------------------------------------------
(* Publications: one document operation at a time, checked against the      *)
(* active generation when it is staged and when it is published.            *)

\* process_and_stage makes an attempt for the active generation and publish
\* is refused unless that is still the active one; then it fills the stores,
\* which are outside of its transaction.
StagePublication(p) ==
  /\ pub[p] = "none" /\ \A q \in OfDoc(DocOf[p]) : pubr[q] = NoGen
  /\ pubr' = [pubr EXCEPT ![p] = head.active]
  /\ igen' = [igen EXCEPT ![head.active].vectors = @ \cup {p}]
  /\ UNCHANGED <<chgs, pub, head, pins, gcop>>

\* _append_index_change: the next revision, while its counter is held.
Logged(kind, d, p) == Append(chgs, [kind |-> kind, doc |-> d, pub |-> p])

\* The commit of the publication with its chunks.
CommitPublication(p) ==
  /\ pubr[p] # NoGen /\ Revision < MaxRevision
  /\ pub' = [q \in Pubs |->
       IF q = p THEN "active"
       ELSE IF DocOf[q] = DocOf[p] /\ pub[q] = "active" THEN "retired"
       ELSE pub[q]]
  /\ chgs' = Logged("publish", DocOf[p], p)
  /\ igen' = [igen EXCEPT ![pubr[p]].chunks = @ \cup {p}]
  /\ pubr' = [pubr EXCEPT ![p] = NoGen]
  /\ UNCHANGED <<head, pins, gcop>>

\* A crash or a refusal rolls the transaction back and leaves the stores.
AbortPublication(p) ==
  /\ pubr[p] # NoGen
  /\ pubr' = [pubr EXCEPT ![p] = NoGen]
  /\ UNCHANGED <<chgs, pub, igen, head, pins, gcop>>

\* A document is deleted: its publications leave the facts and the log says so.
DeleteDocument(d) ==
  /\ \E p \in OfDoc(d) : pub[p] = "active"
  /\ \A p \in OfDoc(d) : pubr[p] = NoGen
  /\ Revision < MaxRevision
  /\ pub' = [p \in Pubs |->
       IF p \in OfDoc(d) /\ pub[p] = "active" THEN "retired" ELSE pub[p]]
  /\ chgs' = Logged("delete", d, NoPub)
  /\ UNCHANGED <<pubr, igen, head, pins, gcop>>

\* The content of a deleted document, or of a version past its retention, is
\* erased; cleanup_resource takes it out of the stores of every generation.
PurgeContent(p) ==
  /\ pub[p] = "retired"
  /\ pub' = [pub EXCEPT ![p] = "purged"]
  /\ igen' = [g \in Gens |-> [igen[g] EXCEPT !.vectors = @ \ {p}]]
  /\ UNCHANGED <<chgs, pubr, head, pins, gcop>>

-----------------------------------------------------------------------------
(* Staging, catching up, release and rollback. *)

\* create_staging holds the revision counter: the snapshot is the facts at
\* the base revision.
Snapshot(gen) ==
  [gen EXCEPT !.status = "staging", !.applied = Revision,
              !.built = Active, !.chunks = Active, !.vectors = @ \cup Active]

CreateStaging(g) ==
  /\ igen[g].status = "none"
  /\ igen' = [igen EXCEPT ![g] = Snapshot(@)]
  /\ UNCHANGED <<chgs, pub, pubr, head, pins, gcop>>

Pending(g) == (igen[g].applied + 1)..Revision

SourceMissing(g) ==
  \E r \in Pending(g) : chgs[r].kind = "publish" /\ pub[chgs[r].pub] = "purged"

\* The publications of the log from r on that no later change of their
\* document replaces.
LastOf(g) ==
  {chgs[r].pub : r \in {r \in Pending(g) :
     /\ chgs[r].kind = "publish"
     /\ \A s \in Pending(g) : chgs[s].doc = chgs[r].doc => s <= r}}

TouchedDocs(g) == {chgs[r].doc : r \in Pending(g)}

\* Mutant: the stores are cleaned after the new version is built.
MutantCaughtUp(g) ==
  [igen[g] EXCEPT
     !.applied = Revision,
     !.built = {p \in @ : DocOf[p] \notin TouchedDocs(g)} \cup LastOf(g),
     !.chunks = {p \in @ : DocOf[p] \notin TouchedDocs(g)} \cup LastOf(g),
     !.vectors = {p \in @ : DocOf[p] \notin TouchedDocs(g)}]

\* catch_up_from_documents: every change from applied on, in order.  A change
\* drops the chunks of its document and builds the new version; the stores
\* lose only what the change names.
CaughtUp(g) ==
  LET kept(s) == {p \in s : DocOf[p] \notin TouchedDocs(g)}
      gone == {p \in Pubs : \E r \in Pending(g) :
                 chgs[r].kind = "delete" /\ DocOf[p] = chgs[r].doc}
  IN [igen[g] EXCEPT
        !.applied = Revision,
        !.caught = IF Pending(g) # {} /\ igen[g].status = "retired"
                   THEN Revision ELSE @,
        !.built = kept(@) \cup LastOf(g),
        !.chunks = kept(@) \cup LastOf(g),
        !.vectors = (@ \ gone) \cup LastOf(g)]

\* _validate_generation_content: what is built is what the facts publish.
ContentValid(gen) == gen.built = Active /\ gen.chunks = Active

Retire(gen, caught) ==
  [gen EXCEPT !.status = "retired", !.window = TRUE, !.caught = caught]

\* release: one transaction that holds the revision counter and the head.
\* What it refuses, it rolls back, also for want of a released retrieval
\* profile (Releases.tla).
ReleaseGeneration(g) ==
  LET new == CaughtUp(g) IN
  /\ igen[g].status = "staging"
  /\ ~SourceMissing(g) /\ ContentValid(new)
  /\ igen' = [igen EXCEPT ![g] = [new EXCEPT !.status = "active"],
                          ![head.active] = Retire(@, Revision)]
  /\ head' = [active |-> g, candidate |-> head.active]
  /\ UNCHANGED <<chgs, pub, pubr, pins, gcop>>

WindowCloses(g) ==
  /\ igen[g].status = "retired" /\ igen[g].window
  /\ igen' = [igen EXCEPT ![g].window = FALSE]
  /\ UNCHANGED <<chgs, pub, pubr, head, pins, gcop>>

\* rollback: the candidate of the head, inside its window, catches up with
\* the revision and passes the gates of a release; or it is refused.
Rollback(g) ==
  LET new == CaughtUp(g) IN
  /\ igen[g].status = "retired" /\ head.candidate = g /\ igen[g].window
  /\ ~SourceMissing(g) /\ new.caught = Revision /\ ContentValid(new)
  /\ igen' = [igen EXCEPT
       ![g] = [new EXCEPT !.status = "active", !.window = FALSE],
       ![head.active] = Retire(@, @.caught)]
  /\ head' = [active |-> g, candidate |-> head.active]
  /\ UNCHANGED <<chgs, pub, pubr, pins, gcop>>

-----------------------------------------------------------------------------
(* Requests are pinned to a generation by a lease. *)

AcquireReference(r) ==
  /\ pins[r] = NoGen
  /\ pins' = [pins EXCEPT ![r] = head.active]
  /\ UNCHANGED <<chgs, pub, pubr, igen, head, gcop>>

\* The request ends, or its lease expires.
ReleaseReference(r) ==
  /\ pins[r] # NoGen
  /\ pins' = [pins EXCEPT ![r] = NoGen]
  /\ UNCHANGED <<chgs, pub, pubr, igen, head, gcop>>

-----------------------------------------------------------------------------
(* Garbage collection: a reconciliation opens a finding, the hand-over      *)
(* requests the operation and drives its components.                        *)

Leased(g) == \E r \in Readers : pins[r] = g

\* gc_candidate_generations.
GcCandidate(g) ==
  /\ igen[g].status = "retired" /\ ~igen[g].window /\ ~Leased(g)
  /\ g \notin {head.active, head.candidate}

OpenFinding(op) ==
  [op EXCEPT !.finding = "open", !.op = "none", !.step = 1, !.checked = FALSE]

ReconcileGenerations ==
  /\ \E g \in Gens : GcCandidate(g) /\ gcop[g].finding # "open"
  /\ gcop' = [g \in Gens |->
       IF GcCandidate(g) /\ gcop[g].finding # "open"
       THEN OpenFinding(gcop[g]) ELSE gcop[g]]
  /\ UNCHANGED <<chgs, pub, pubr, igen, head, pins>>

\* _gc_blocking_reasons is empty.
GcEligible(g) ==
  /\ igen[g].status = "retired" /\ ~Leased(g)
  /\ ~(head.candidate = g /\ igen[g].window)

\* request_index_generation_gc: the first answer is stored under the
\* operation of the finding and repeated.
RequestGc(g) ==
  /\ gcop[g].finding = "open" /\ gcop[g].op = "none"
  /\ igen[g].status = "retired"
  /\ gcop' = [gcop EXCEPT ![g].op = IF GcEligible(g) THEN "accepted" ELSE "blocked"]
  /\ UNCHANGED <<chgs, pub, pubr, igen, head, pins>>

\* Mutant: an operation with a failed component is not taken up again.
MutantStartCompleteGc(g) ==
  /\ gcop[g].op = "accepted" /\ ~gcop[g].checked /\ GcEligible(g)
  /\ gcop[g].faults = GcFaults
  /\ gcop' = [gcop EXCEPT ![g].checked = TRUE]
  /\ UNCHANGED <<chgs, pub, pubr, igen, head, pins>>

\* complete_index_generation_gc looks again before it touches a component.
StartCompleteGc(g) ==
  /\ gcop[g].op = "accepted" /\ ~gcop[g].checked /\ GcEligible(g)
  /\ gcop' = [gcop EXCEPT ![g].checked = TRUE]
  /\ UNCHANGED <<chgs, pub, pubr, igen, head, pins>>

\* One component of one hand-over: its purge succeeds or fails, and a failed
\* one is where the next hand-over goes on.
PurgeComponent(g) ==
  /\ gcop[g].checked /\ gcop[g].step <= Len(Components)
  /\ \/ /\ gcop' = [gcop EXCEPT ![g].step = @ + 1]
        /\ igen' = IF Components[gcop[g].step] = "vector"
                   THEN [igen EXCEPT ![g].vectors = @ \ igen[g].chunks]
                   ELSE igen
     \/ /\ gcop[g].faults > 0
        /\ gcop' = [gcop EXCEPT ![g].checked = FALSE, ![g].faults = @ - 1]
        /\ UNCHANGED igen
  /\ UNCHANGED <<chgs, pub, pubr, head, pins>>

\* The last transaction looks once more and purges the generation.
FinishGc(g) ==
  /\ gcop[g].checked /\ gcop[g].step = Len(Components) + 1
  /\ IF GcEligible(g)
     THEN /\ igen' = [igen EXCEPT ![g].status = "purged", ![g].chunks = {}]
          /\ gcop' = [gcop EXCEPT ![g].op = "purged", ![g].checked = FALSE,
                                  ![g].finding = "repaired"]
     ELSE /\ gcop' = [gcop EXCEPT ![g].checked = FALSE]
          /\ UNCHANGED igen
  /\ UNCHANGED <<chgs, pub, pubr, head, pins>>

-----------------------------------------------------------------------------
GenNext ==
  \/ \E p \in Pubs : \/ StagePublication(p) \/ CommitPublication(p)
                     \/ AbortPublication(p) \/ PurgeContent(p)
  \/ \E d \in Docs : DeleteDocument(d)
  \/ \E g \in Gens :
       \/ CreateStaging(g) \/ ReleaseGeneration(g)
       \/ WindowCloses(g) \/ Rollback(g) \/ RequestGc(g)
       \/ StartCompleteGc(g) \/ PurgeComponent(g) \/ FinishGc(g)
  \/ \E r \in Readers : AcquireReference(r) \/ ReleaseReference(r)
  \/ ReconcileGenerations

\* The maintenance loop of retention goes on, failures of a component are
\* finite, windows close and leases expire.
GenSpec ==
  /\ GenInit /\ [][GenNext]_genVars
  /\ WF_genVars(ReconcileGenerations)
  /\ \A g \in Gens :
       /\ WF_genVars(WindowCloses(g)) /\ WF_genVars(RequestGc(g))
       /\ WF_genVars(StartCompleteGc(g)) /\ WF_genVars(PurgeComponent(g))
       /\ WF_genVars(FinishGc(g))
  /\ \A r \in Readers : WF_genVars(ReleaseReference(r))

-----------------------------------------------------------------------------
(* Properties *)

\* A collected generation is neither active, nor the candidate of a rollback,
\* nor pinned by a request, from the first component that is purged to the
\* last (GenerationGcCoordinator.handoff, complete_generation_gc).
CollectsUnreachable ==
  \A g \in Gens :
    (gcop[g].checked \/ igen[g].status = "purged") =>
      /\ g \notin {head.active, head.candidate}
      /\ \A r \in Readers : pins[r] # g

\* The head names the one active generation; its candidate is a generation
\* that went out of service and was never collected (_release, _rollback).
HeadIsSound ==
  /\ \A g \in Gens : igen[g].status = "active" <=> g = head.active
  /\ head.candidate # NoGen => igen[head.candidate].status = "retired"

\* Both, over every interleaving of staging, switches, collection and readers
GenerationsSafe == GenTypeOK /\ CollectsUnreachable /\ HeadIsSound

\* A switch of the active generation, by a release or by a rollback, leaves
\* out no publication that was committed before it, and every such
\* publication is in the vector store (_validate_generation_content).
WholeSwitch ==
  head'.active # head.active =>
    /\ igen'[head'.active].chunks = Active
    /\ Active \subseteq igen'[head'.active].vectors
SwitchIsWhole == [][WholeSwitch]_genVars

\* The active generation holds every active publication.
ActiveIsWhole == Active \subseteq igen[head.active].chunks

\* A generation that is out of service and not the candidate of a rollback is
\* collected, over failed purges and the leases of requests (run_gc_handoffs).
GarbageIsCollected ==
  \A g \in Gens : []<>(igen[g].status = "retired" => head.candidate = g)
================================================================================
