---------------------------- MODULE IndexStaging ----------------------------
(***************************************************************************)
(* One document version on its way into the two search backends.  The      *)
(* ingestion worker of an attempt stages rows in the vector index (dense)  *)
(* and in the keyword index (sparse); the transaction that accepts its     *)
(* receipt turns the staged rows into published ones, backend by backend,  *)
(* before it commits the publication in the register.  Neither backend is  *)
(* part of that transaction, so every failure has to be undone by a        *)
(* discard, by the worker itself or by the recovery of its expired lease.  *)
(*                                                                         *)
(* Not modelled: row order (a backend is assumed to return the rows of an  *)
(* attempt in the order of the receipt's manifest), embedding, paging.     *)
(***************************************************************************)
EXTENDS Naturals, FiniteSets

CONSTANTS
    JobAttempts,   \* automatic attempts of a job
    Chunks,        \* the chunks of the version
    StoreFaults    \* bound: failing backend calls

ASSUME StagingAssumption == JobAttempts \in Nat \ {0} /\ StoreFaults \in Nat

VARIABLES
    engine,        \* the sparse backend of the deployment, which never changes
    task,          \* the ingestion job: its state, attempt and lease
    hands,         \* what the worker of each attempt does next
    dense,         \* rows of the vector index
    sparse,        \* rows of the keyword index
    register,      \* the attempt whose publication committed, 0 if none
    document,      \* "kept", "purging", "deleted"
    storeFaults    \* backend calls that failed so far

stagingVars == <<engine, task, hands, dense, sparse, register, document, storeFaults>>

Keyword == engine = "meilisearch"

Attempts == 1..JobAttempts

RowsOf(a, status) == {[attempt |-> a, status |-> status, chunk |-> c] : c \in Chunks}

Rows == UNION {RowsOf(a, s) : a \in Attempts, s \in {"staged", "published"}}

Of(rows, a, status) == {r \in rows : r.attempt = a /\ r.status = status}

StagingTypeOK ==
    /\ engine \in {"opensearch", "meilisearch"}
    /\ task \in [state : {"queued", "running", "succeeded", "failed", "cancelled"},
                 attempt : 0..JobAttempts, lease : {"held", "expired"}]
    /\ hands \in [Attempts -> {"idle", "dense", "sparse", "undo", "receipt",
                               "publish", "retire", "keyword", "retireKeyword",
                               "commit", "revert", "failing", "gone"}]
    /\ dense \subseteq Rows /\ sparse \subseteq Rows
    /\ register \in 0..JobAttempts
    /\ document \in {"kept", "purging", "deleted"}
    /\ storeFaults \in 0..StoreFaults

StagingInit ==
    /\ engine \in {"opensearch", "meilisearch"}
    /\ task = [state |-> "queued", attempt |-> 0, lease |-> "held"]
    /\ hands = [a \in Attempts |-> "idle"]
    /\ dense = {} /\ sparse = {}
    /\ register = 0
    /\ document = "kept"
    /\ storeFaults = 0

-----------------------------------------------------------------------------
StoreFault == storeFaults < StoreFaults /\ storeFaults' = storeFaults + 1

Continue(a, step) == hands' = [hands EXCEPT ![a] = step]

\* The publication transaction holds the document's row from the receipt's
\* checks to the commit: recovery, failure and deletion wait for it.
InPublication(a) ==
    hands[a] \in {"publish", "retire", "keyword", "retireKeyword", "commit", "revert"}

Unlocked == \A a \in Attempts : ~InPublication(a)

Current(a) == task.state = "running" /\ task.attempt = a

\* Discarding takes the staged and the published rows of the attempt out of
\* the vector index; OpenSearch does the same with one query, Meilisearch
\* removes the published rows only when no staged row is left.
DiscardDense(a) == dense \ (Of(dense, a, "staged") \union Of(dense, a, "published"))

DiscardSparse(a) ==
    IF Keyword /\ Of(sparse, a, "staged") # {}
    THEN sparse \ Of(sparse, a, "staged")
    ELSE sparse \ (Of(sparse, a, "staged") \union Of(sparse, a, "published"))

\* Both backends are asked in turn; the first that fails ends the discard.
Discarded(a) ==
    /\ dense' = DiscardDense(a) /\ sparse' = DiscardSparse(a)
    /\ UNCHANGED storeFaults

DiscardFails(a) ==
    /\ StoreFault
    /\ dense' \in {dense, DiscardDense(a)}
    /\ UNCHANGED sparse

-----------------------------------------------------------------------------
Claim(a) ==
    /\ task.state = "queued" /\ document = "kept" /\ Unlocked
    /\ a = task.attempt + 1
    /\ task' = [state |-> "running", attempt |-> a, lease |-> "held"]
    /\ Continue(a, "dense")
    /\ UNCHANGED <<dense, sparse, register, document, storeFaults>>

\* A failing insert may or may not have been applied.
StageDense(a) ==
    /\ hands[a] = "dense"
    /\ \/ /\ dense' = dense \union RowsOf(a, "staged")
          /\ Continue(a, "sparse") /\ UNCHANGED storeFaults
       \/ /\ StoreFault /\ dense' \in {dense, dense \union RowsOf(a, "staged")}
          /\ Continue(a, "undo")
    /\ UNCHANGED <<task, sparse, register, document>>

\* A failing OpenSearch bulk leaves any part of its documents behind.
StageSparse(a) ==
    /\ hands[a] = "sparse"
    /\ \/ /\ sparse' = sparse \union RowsOf(a, "staged")
          /\ Continue(a, "receipt") /\ UNCHANGED storeFaults
       \/ /\ StoreFault
          /\ \E part \in SUBSET RowsOf(a, "staged") :
                /\ Keyword => part \in {{}, RowsOf(a, "staged")}
                /\ sparse' = sparse \union part
          /\ Continue(a, "undo")
    /\ UNCHANGED <<task, dense, register, document>>

\* A staging error discards what was staged before it reaches the worker loop.
UndoStaging(a) ==
    /\ hands[a] = "undo"
    /\ Discarded(a) \/ DiscardFails(a)
    /\ Continue(a, "failing")
    /\ UNCHANGED <<task, register, document>>

\* The heartbeat and the receipt's fence are checked before anything is
\* published: a worker that lost its lease stops and leaves its rows.
LosesFence(a) ==
    /\ hands[a] = "receipt"
    /\ ~Current(a) \/ task.lease = "expired"
    /\ Continue(a, "gone")
    /\ UNCHANGED <<task, dense, sparse, register, document, storeFaults>>

MayPublish(a) == Current(a) /\ task.lease = "held" /\ document = "kept"

BeginPublication(a) ==
    /\ hands[a] = "receipt" /\ Unlocked
    /\ MayPublish(a)
    /\ Continue(a, "publish")
    /\ UNCHANGED <<task, dense, sparse, register, document, storeFaults>>

PublishDense(a) ==
    /\ hands[a] = "publish"
    /\ \/ /\ dense' = dense \union RowsOf(a, "published")
          /\ Continue(a, "retire") /\ UNCHANGED storeFaults
       \/ /\ StoreFault /\ dense' \in {dense, dense \union RowsOf(a, "published")}
          /\ Continue(a, "revert")
    /\ UNCHANGED <<task, sparse, register, document>>

RetireDense(a) ==
    /\ hands[a] = "retire"
    /\ \/ /\ dense' = dense \ Of(dense, a, "staged")
          /\ Continue(a, "keyword") /\ UNCHANGED storeFaults
       \/ /\ StoreFault /\ dense' \in {dense, dense \ Of(dense, a, "staged")}
          /\ Continue(a, "revert")
    /\ UNCHANGED <<task, sparse, register, document>>

\* OpenSearch publishes what is staged with one bulk, any part of which may
\* fail; Meilisearch adds first and deletes with a second call.
PublishSparse(a) ==
    LET put == {[r EXCEPT !.status = "published"] : r \in Of(sparse, a, "staged")}
        old == Of(sparse, a, "staged")
    IN  /\ hands[a] = "keyword"
        /\ \/ /\ ~Keyword /\ sparse' = (sparse \ old) \union put
              /\ Continue(a, "commit") /\ UNCHANGED storeFaults
           \/ /\ Keyword /\ sparse' = sparse \union put
              /\ Continue(a, "retireKeyword") /\ UNCHANGED storeFaults
           \/ /\ StoreFault
              /\ \E some \in SUBSET put, left \in SUBSET old :
                    /\ Keyword => some \in {{}, put} /\ left = {}
                    /\ sparse' = (sparse \ left) \union some
              /\ Continue(a, "revert")
        /\ UNCHANGED <<task, dense, register, document>>

RetireSparse(a) ==
    /\ hands[a] = "retireKeyword"
    /\ \/ /\ sparse' = sparse \ Of(sparse, a, "staged")
          /\ Continue(a, "commit") /\ UNCHANGED storeFaults
       \/ /\ StoreFault /\ sparse' \in {sparse, sparse \ Of(sparse, a, "staged")}
          /\ Continue(a, "revert")
    /\ UNCHANGED <<task, dense, register, document>>

Commit(a) ==
    /\ hands[a] = "commit"
    /\ register' = a
    /\ task' = [task EXCEPT !.state = "succeeded"]
    /\ Continue(a, "gone")
    /\ UNCHANGED <<dense, sparse, document, storeFaults>>

\* A failed publication discards both backends, then its transaction rolls back.
RevertPublication(a) ==
    /\ hands[a] = "revert"
    /\ Discarded(a) \/ DiscardFails(a)
    /\ Continue(a, "failing")
    /\ UNCHANGED <<task, register, document>>

\* The attempts left decide between another attempt and a terminal job.

Ended == IF task.attempt < JobAttempts THEN {"queued", "failed"} ELSE {"failed"}

\* fail_job discards again inside its transaction; when that fails nothing is
\* recorded and the lease has to expire.
FailJob(a) ==
    /\ hands[a] = "failing" /\ Unlocked
    /\ \/ /\ Current(a) /\ Discarded(a)
          /\ \E state \in Ended : task' = [task EXCEPT !.state = state]
       \/ Current(a) /\ DiscardFails(a) /\ UNCHANGED task
       \/ ~Current(a) /\ UNCHANGED <<task, dense, sparse, storeFaults>>
    /\ Continue(a, "gone")
    /\ UNCHANGED <<register, document>>

-----------------------------------------------------------------------------
\* The process of a worker dies between two calls; a transaction rolls back.
WorkerDies(a) ==
    /\ hands[a] \notin {"idle", "gone"}
    /\ Continue(a, "gone")
    /\ UNCHANGED <<task, dense, sparse, register, document, storeFaults>>

LeaseRunsOut ==
    /\ task.state = "running" /\ task.lease = "held" /\ Unlocked
    /\ task' = [task EXCEPT !.lease = "expired"]
    /\ UNCHANGED <<hands, dense, sparse, register, document, storeFaults>>

\* The next claim recovers an expired attempt: it discards its rows, then
\* queues the job again or gives it up.

\* Mutant: only what is still staged is discarded.
MutantRecovered(a) ==
    /\ dense' = dense \ Of(dense, a, "staged") /\ sparse' = sparse \ Of(sparse, a, "staged")
    /\ UNCHANGED storeFaults

Recovered(a) == Discarded(a)

RecoverExpired ==
    LET a == task.attempt
    IN  /\ task.state = "running" /\ task.lease = "expired" /\ Unlocked
        /\ \/ /\ Recovered(a)
              /\ task' = [task EXCEPT !.lease = "held",
                             !.state = IF a < JobAttempts THEN "queued" ELSE "failed"]
           \/ DiscardFails(a) /\ UNCHANGED task
        /\ UNCHANGED <<hands, register, document>>

-----------------------------------------------------------------------------
\* Accepting a deletion cancels the job and discards the rows of its attempt.
DeleteDocument ==
    LET a == task.attempt
    IN  /\ document = "kept" /\ Unlocked
        /\ \/ /\ task.state = "running" /\ Discarded(a)
              /\ task' = [task EXCEPT !.state = "cancelled"] /\ document' = "purging"
           \/ /\ task.state = "running" /\ DiscardFails(a)
              /\ UNCHANGED <<task, document>>
           \/ /\ task.state # "running"
              /\ task' = [task EXCEPT !.state = IF @ = "queued" THEN "cancelled" ELSE @]
              /\ document' = "purging" /\ UNCHANGED <<dense, sparse, storeFaults>>
        /\ UNCHANGED <<hands, register>>

\* The purge deletes by document: every row of the vector index and of
\* Meilisearch, the published documents of OpenSearch.
Swept == IF Keyword THEN {} ELSE {r \in sparse : r.status = "staged"}

PurgeRows ==
    /\ document = "purging"
    /\ \/ /\ dense' = {} /\ sparse' = Swept
          /\ document' = "deleted" /\ register' = 0 /\ UNCHANGED storeFaults
       \/ /\ StoreFault /\ dense' \in {dense, {}}
          /\ UNCHANGED <<sparse, document, register>>
    /\ UNCHANGED <<task, hands>>

-----------------------------------------------------------------------------
WorkerStep(a) ==
    \/ StageDense(a) \/ StageSparse(a) \/ UndoStaging(a)
    \/ LosesFence(a) \/ BeginPublication(a)
    \/ PublishDense(a) \/ RetireDense(a) \/ PublishSparse(a) \/ RetireSparse(a)
    \/ Commit(a) \/ RevertPublication(a) \/ FailJob(a)

StagingNext ==
    /\ UNCHANGED engine
    /\ \/ \E a \in Attempts : Claim(a) \/ WorkerStep(a) \/ WorkerDies(a)
       \/ LeaseRunsOut \/ RecoverExpired
       \/ DeleteDocument \/ PurgeRows

\* A worker that lives takes its next step, workers claim what is queued, an
\* expired lease is found by the next claim, and the lease of a dead worker
\* runs out.
StagingFairness ==
    /\ \A a \in Attempts : WF_stagingVars(WorkerStep(a)) /\ WF_stagingVars(Claim(a))
    /\ WF_stagingVars(RecoverExpired) /\ WF_stagingVars(PurgeRows)
    /\ WF_stagingVars(LeaseRunsOut)

StagingSpec == StagingInit /\ [][StagingNext]_stagingVars /\ StagingFairness

-----------------------------------------------------------------------------
\* What the register calls published can be found: every chunk is in both
\* backends, whatever failed or died on the way to the commit.
PublishedIsWhole ==
    (register # 0 /\ document = "kept") =>
        /\ RowsOf(register, "published") \subseteq dense
        /\ RowsOf(register, "published") \subseteq sparse

\* A backend shows rows of a publication that never committed only while the
\* job that made them is still to be failed or recovered.  Meilisearch is left
\* out: there the rows of an interrupted publication stay (StraysArePending).
Pending(r) == task.state = "running" /\ task.attempt = r.attempt

Stray(rows) ==
    {r \in rows : r.status = "published" /\ r.attempt # register /\ document = "kept"}

StrayIsPending ==
    /\ \A r \in Stray(dense) : Pending(r)
    /\ ~Keyword => \A r \in Stray(sparse) : Pending(r)

StraysArePending == \A r \in Stray(dense \union sparse) : Pending(r)

\* A deleted document can be found in neither backend, and no worker that
\* outlived the deletion brings it back.
DeletedIsGone ==
    document = "deleted" => \A r \in dense \union sparse : r.status # "published"

\* What a publication promises of the two backends, after any sequence of
\* failing calls, dead workers and expired leases.
StagingSafe == StagingTypeOK /\ PublishedIsWhole /\ StrayIsPending /\ DeletedIsGone

\* Where every job ends, however the backends fail and the workers die:
\* StagingSpec has []<>Settled
Settled == task.state \in {"succeeded", "failed", "cancelled"}
=============================================================================
