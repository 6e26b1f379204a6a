----------------------------- MODULE Ingestion -----------------------------
(***************************************************************************)
(* Documents, their versions and the jobs that publish them: upload,       *)
(* replacement, restore and reindex (service.py), claims, leases and their *)
(* recovery (jobs.py), the worker that processes a claim and publishes its *)
(* receipt (worker.py), cancellation, failure and replay of jobs, version  *)
(* retention, deletion, and the readers that hold versions back            *)
(* (read_models.py).                                                       *)
(*                                                                         *)
(* Every transaction locks the document row first, so each is one action.  *)
(* What runs between transactions (processing, copies and erasures in the  *)
(* object store) is an action of its own.  Clocks are abstracted: a lease  *)
(* lapses by an action of its own, and the retention of a version that may *)
(* be purged counts as passed from the moment its purge starts.            *)
(***************************************************************************)
EXTENDS Integers, FiniteSets

CONSTANTS
    Contents,     \* (space, file name, content hash) triples
    Workers,      \* ingestion worker processes
    Readers,      \* principals that may hold a read lease
    Generations,  \* index generations
    MaxTries,     \* jobs.py: attempts of one replay generation, 4
    MaxDocs,      \* bound: documents
    MaxVersions,  \* bound: versions of one document
    MaxJobs,      \* bound: jobs of all documents
    MaxReplays,   \* bound: jobs that are replayed, once each
    MaxSwitches   \* bound: activations and rollbacks of an index generation

ASSUME IngestionAssumption ==
    /\ Generations # {}
    /\ MaxTries \in Nat \ {0}
    /\ MaxDocs \in Nat
    /\ MaxVersions \in Nat \ {0}
    /\ MaxJobs \in Nat \ {0}
    /\ MaxReplays \in Nat
    /\ MaxSwitches \in Nat

VARIABLES
    doc,         \* documents rows with their deletion's: op is the active operation,
                 \* 0 when none; lost says that one of its listed targets is gone
    ver,         \* document_versions rows
    job,         \* ingestion_jobs rows, with their current attempt, hold and publication
    stored,      \* versions whose original is in the object store
    erased,      \* versions whose cleanup targets are all completed
    claim,       \* upload_dedup_claims rows
    generation,  \* the active index generation
    switches,    \* how often another one was activated
    purged,      \* the index generations that were collected
    work,        \* the local state of each worker process
    lease        \* document_read_leases rows, one per principal

index == <<generation, switches, purged>>
vars  == <<doc, ver, job, stored, erased, claim, index, work, lease>>

Docs     == 1..MaxDocs         \* ids are handed out in order
Versions == 1..MaxVersions
Jobs     == 1..MaxJobs
Open     == {"pending", "running", "retry_wait"}
Over     == {"failed", "cancelled", "dead_letter"}

NoDoc     == [life |-> "absent", active |-> 0, pending |-> 0, op |-> 0,
              sealed |-> FALSE, lost |-> FALSE]
NoVersion == [st |-> "none", content |-> "none"]
NoJob     == [st |-> "none", v |-> 0, base |-> 0, tries |-> 0, fence |-> 0, lapsed |-> FALSE,
              replays |-> 0, hold |-> 0, pub |-> "none", gen |-> "none"]
NoOne     == <<0, 0>>
Idle      == [pc |-> "idle", d |-> 0, j |-> 0, fence |-> 0, src |-> 0, retry |-> FALSE]

DocRow     == [life : {"absent", "active", "pending_delete", "deleted"},
               active : 0..MaxVersions, pending : 0..MaxVersions,
               op : 0..MaxJobs, sealed : BOOLEAN, lost : BOOLEAN]
VersionRow == [st : {"none", "pending", "active", "superseded", "failed", "cancelled",
                     "purging", "purged"},
               content : Contents \cup {"none"}]
JobRow     == [st : Open \cup Over \cup {"none", "succeeded"},
               v : 0..MaxVersions, base : 0..MaxVersions, tries : 0..MaxTries, fence : Nat,
               lapsed : BOOLEAN, replays : 0..1, hold : 0..MaxVersions,
               pub : {"none", "staged", "active", "superseded"},
               gen : Generations \cup {"none"}]
Worker     == [pc : {"idle", "restoring", "copying", "copied", "claimed", "failing"},
               d : Docs \cup {0}, j : 0..MaxJobs, fence : Nat, src : 0..MaxVersions,
               retry : BOOLEAN]

TypeOK ==
    /\ doc \in [Docs -> DocRow]
    /\ ver \in [Docs -> [Versions -> VersionRow]]
    /\ job \in [Docs -> [Jobs -> JobRow]]
    /\ stored \subseteq Docs \X Versions
    /\ erased \subseteq Docs \X Versions
    /\ claim \in [Contents -> (Docs \X Versions) \cup {NoOne}]
    /\ generation \in Generations /\ switches \in 0..MaxSwitches
    /\ purged \subseteq Generations \ {generation}
    /\ work \in [Workers -> Worker]
    /\ lease \in [Readers -> (Docs \X Versions) \cup {NoOne}]

Init ==
    /\ doc = [d \in Docs |-> NoDoc]
    /\ ver = [d \in Docs |-> [v \in Versions |-> NoVersion]]
    /\ job = [d \in Docs |-> [j \in Jobs |-> NoJob]]
    /\ stored = {} /\ erased = {}
    /\ claim = [c \in Contents |-> NoOne]
    /\ generation = (CHOOSE g \in Generations : TRUE) /\ switches = 0 /\ purged = {}
    /\ work = [w \in Workers |-> Idle]
    /\ lease = [r \in Readers |-> NoOne]

-----------------------------------------------------------------------------
(* What transactions ask of the rows *)

OpenJobs(d) == {j \in Jobs : job[d][j].st \in Open}
Reindexes(d, j) == job[d][j].v = job[d][j].base

\* the next row of a table whose ids are handed out in order, within its bound
NextVersion(d, v) ==
    /\ ver[d][v].st = "none"
    /\ \A u \in 1..(v - 1) : ver[d][u].st # "none"
NextJob(d, j) ==
    /\ job[d][j].st = "none"
    /\ \A i \in 1..(j - 1) : job[d][i].st # "none"
    /\ Cardinality({p \in Docs \X Jobs : job[p[1]][p[2]].st # "none"}) < MaxJobs

\* _assert_document_writable
Writable(d) == doc[d].life = "active" /\ doc[d].op = 0

\* the claim on c belongs to another document that is not being deleted
ClaimedByOther(d, c) ==
    /\ claim[c] # NoOne
    /\ claim[c][1] # d
    /\ doc[claim[c][1]].life = "active"

Read(d, v)      == \E r \in Readers : lease[r] = <<d, v>>
HeldSource(d, v) == \E j \in OpenJobs(d) : job[d][j].hold = v

\* uq_publications_version_generation_status: superseding p would repeat a row
SupersedeClash(d, keep) ==
    \E i, k \in Jobs \ {keep} :
        /\ i # k
        /\ job[d][i].pub = "active" /\ job[d][k].pub = "superseded"
        /\ job[d][i].v = job[d][k].v /\ job[d][i].gen = job[d][k].gen
\* ... and activating j's publication would, while the old one is still active
PublishClash(d, j) ==
    \/ \E i \in Jobs \ {j} : /\ job[d][i].pub = "active"
                             /\ job[d][i].v = job[d][j].v
                             /\ job[d][i].gen = job[d][j].gen
    \/ SupersedeClash(d, j)

-----------------------------------------------------------------------------
(* Accepting work: a job, its staged publication and the document's operation *)

Submit(d, j, v, base, hold) ==
    job' = [job EXCEPT ![d][j] =
        [st |-> "pending", v |-> v, base |-> base, tries |-> 0, fence |-> 0, lapsed |-> FALSE,
         replays |-> 0, hold |-> hold, pub |-> "staged", gen |-> generation]]

\* create_initial_upload, when no claim answers "deduplicated"
Upload(d, c) ==
    /\ doc[d].life = "absent"
    /\ \A e \in 1..(d - 1) : doc[e].life # "absent"
    /\ claim[c] = NoOne
    /\ NextJob(d, 1)
    /\ doc' = [doc EXCEPT ![d] = [NoDoc EXCEPT !.life = "active", !.pending = 1, !.op = 1]]
    /\ ver' = [ver EXCEPT ![d][1] = [st |-> "pending", content |-> c]]
    /\ Submit(d, 1, 1, 0, 0)
    /\ stored' = stored \cup {<<d, 1>>}
    /\ claim' = [claim EXCEPT ![c] = <<d, 1>>]
    /\ UNCHANGED <<erased, index, work, lease>>

\* a pending version of document d, made by job j
Supply(d, j, v, c, hold) ==
    /\ NextVersion(d, v) /\ NextJob(d, j)
    /\ doc' = [doc EXCEPT ![d] = [@ EXCEPT !.pending = v, !.op = j]]
    /\ ver' = [ver EXCEPT ![d][v] = [st |-> "pending", content |-> c]]
    /\ Submit(d, j, v, doc[d].active, hold)
    /\ UNCHANGED <<erased, claim, index, work, lease>>

Replace(d, j, v, c) ==
    /\ Writable(d)
    /\ ~ ClaimedByOther(d, c)
    /\ doc[d].active # 0 => ver[d][doc[d].active].content # c
    /\ Supply(d, j, v, c, 0)
    /\ stored' = stored \cup {<<d, v>>}

\* _restore_version_locked: the worker copies the original later
Restore(d, j, v, source) ==
    /\ Writable(d)
    /\ ver[d][source].st = "superseded"
    /\ ~ ClaimedByOther(d, ver[d][source].content)
    /\ Supply(d, j, v, ver[d][source].content, source)
    /\ UNCHANGED stored

Reindex(d, j) ==
    /\ Writable(d)
    /\ doc[d].active # 0
    /\ NextJob(d, j)
    /\ doc' = [doc EXCEPT ![d].op = j]
    /\ Submit(d, j, doc[d].active, doc[d].active, 0)
    /\ UNCHANGED <<ver, stored, erased, claim, index, work, lease>>

-----------------------------------------------------------------------------
(* The end of a job's attempt, shared by fail_job, cancel_job and recovery *)

\* the job's row; its staged publication is deleted
Stop(x, state) == [x EXCEPT !.st = state, !.lapsed = FALSE,
                            !.pub = IF @ = "staged" THEN "none" ELSE @]
\* the document's row: nothing is in progress any more
MutantRelease(x, reindex) == \* takes the document off line
    [x EXCEPT !.op = 0, !.active = 0, !.pending = IF reindex THEN @ ELSE 0]
Release(x, reindex) == [x EXCEPT !.op = 0, !.pending = IF reindex THEN @ ELSE 0]

EndVersion(d, j, state) ==
    ver' = IF Reindexes(d, j) THEN ver ELSE
           [ver EXCEPT ![d][job[d][j].v].st = state]
DropClaim(d, j) ==
    claim' = IF Reindexes(d, j) THEN claim ELSE
             [c \in Contents |-> IF claim[c] = <<d, job[d][j].v>> THEN NoOne ELSE claim[c]]

\* a terminal failure or a cancellation
MutantClose(d, j, state, vstate) == \* keeps the document's pending version
    /\ job' = [job EXCEPT ![d][j] = Stop(@, state)]
    /\ doc' = [doc EXCEPT ![d] = Release(@, TRUE)]
    /\ EndVersion(d, j, vstate)
    /\ DropClaim(d, j)
Close(d, j, state, vstate) ==
    /\ job' = [job EXCEPT ![d][j] = Stop(@, state)]
    /\ doc' = [doc EXCEPT ![d] = Release(@, Reindexes(d, j))]
    /\ EndVersion(d, j, vstate)
    /\ DropClaim(d, j)

\* a running job's fence moves past its worker's token
Cancelled(x) == [Stop(x, "cancelled") EXCEPT !.fence = IF x.st = "running" THEN @ + 1 ELSE @]
CancelJob(d, j) ==
    /\ job[d][j].st \in Open
    /\ job' = [job EXCEPT ![d][j] = Cancelled(@)]
    /\ doc' = [doc EXCEPT ![d] = Release(@, Reindexes(d, j))]
    /\ EndVersion(d, j, "cancelled")
    /\ DropClaim(d, j)
    /\ UNCHANGED <<stored, erased, index, work, lease>>

\* replay_job, when _assert_replay_eligible lets it
ReplayJob(d, j) ==
    LET v == job[d][j].v IN
    /\ job[d][j].st \in Over
    /\ job[d][j].replays = 0
    /\ Cardinality({p \in Docs \X Jobs : job[p[1]][p[2]].replays # 0}) < MaxReplays
    /\ doc[d].life = "active"
    /\ doc[d].op \in {0, j}
    /\ doc[d].active = job[d][j].base
    /\ ver[d][v].st \notin {"purging", "purged"}    \* purged, or its retention has passed
    /\ job' = [job EXCEPT ![d][j] = [@ EXCEPT !.st = "pending", !.tries = 0,
                  !.replays = 1, !.pub = "staged", !.gen = generation]]
    /\ doc' = [doc EXCEPT ![d] = [@ EXCEPT !.op = j, !.pending = IF Reindexes(d, j) THEN doc[d].pending ELSE v]]
    /\ ver' = IF Reindexes(d, j) THEN ver ELSE [ver EXCEPT ![d][v].st = "pending"]
    /\ UNCHANGED <<stored, erased, claim, index, work, lease>>

-----------------------------------------------------------------------------
(* Claims and leases *)

Busy(w) == work[w].pc # "idle"

\* the attempt the worker was given is the job's current one
MutantCurrent(w) == \* the state alone
    job[work[w].d][work[w].j].st = "running"
Current(w) ==
    /\ job[work[w].d][work[w].j].st = "running"
    /\ job[work[w].d][work[w].j].fence = work[w].fence
Held(w) == Current(w) /\ ~ job[work[w].d][work[w].j].lapsed

\* DocumentsJobCoordinator.claim, its second transaction
Claimed(x) == [x EXCEPT !.st = "running", !.tries = @ + 1, !.fence = @ + 1,
                        !.pub = "staged", !.gen = generation]
Claim(w, d, j) ==
    /\ ~ Busy(w)
    /\ job[d][j].st \in {"pending", "retry_wait"}
    /\ job' = [job EXCEPT ![d][j] = Claimed(@)]
    /\ work' = [work EXCEPT ![w] = [Idle EXCEPT !.d = d, !.j = j,
                    !.pc = IF job[d][j].hold # 0 THEN "restoring" ELSE "claimed",
                    !.fence = job[d][j].fence + 1]]
    /\ UNCHANGED <<doc, ver, stored, erased, claim, index, lease>>

\* no heartbeat came in time
LeaseLapses(d, j) ==
    /\ job[d][j].st = "running" /\ ~ job[d][j].lapsed
    /\ job' = [job EXCEPT ![d][j].lapsed = TRUE]
    /\ UNCHANGED <<doc, ver, stored, erased, claim, index, work, lease>>

MutantExpired == {p \in Docs \X Jobs : \* leaves the last attempt alone
    LET x == job[p[1]][p[2]] IN x.st = "running" /\ x.lapsed /\ x.tries < MaxTries}
Expired == {p \in Docs \X Jobs : job[p[1]][p[2]].st = "running" /\ job[p[1]][p[2]].lapsed}
Exhausted == {p \in Expired : job[p[1]][p[2]].tries >= MaxTries}

\* _reclaim_expired_attempts, the first transaction of every claim
Reclaim ==
    /\ \E w \in Workers : ~ Busy(w)
    /\ Expired # {}
    /\ job' = [d \in Docs |-> [j \in Jobs |->
                 IF <<d, j>> \notin Expired THEN job[d][j]
                 ELSE Stop(job[d][j], IF <<d, j>> \in Exhausted THEN "dead_letter"
                                                                ELSE "retry_wait")]]
    /\ doc' = [d \in Docs |->
                 IF <<d, doc[d].op>> \in Exhausted
                 THEN Release(doc[d], Reindexes(d, doc[d].op)) ELSE doc[d]]
    /\ ver' = [d \in Docs |-> [v \in Versions |->
                 IF \E j \in Jobs : /\ <<d, j>> \in Exhausted
                                    /\ ~ Reindexes(d, j) /\ job[d][j].v = v
                 THEN [ver[d][v] EXCEPT !.st = "failed"]
                 ELSE ver[d][v]]]
    /\ UNCHANGED <<stored, erased, claim, index, work, lease>>

-----------------------------------------------------------------------------
(* The worker *)

Goes(w, step) == work' = [work EXCEPT ![w] = step]
At(w, pc)     == [work[w] EXCEPT !.pc = pc]
Failing(w, retry) == [work[w] EXCEPT !.pc = "failing", !.retry = retry]
rows == <<doc, ver, job, claim>>

\* copy_restore_source, before the copy: a refusal leaves the job running
CopyStart(w) ==
    LET p == work[w] IN
    /\ p.pc = "restoring"
    /\ LET source == job[p.d][p.j].hold IN
       IF /\ Current(w) /\ source # 0
          /\ ver[p.d][source].st # "purged" /\ ver[p.d][job[p.d][p.j].v].st # "purged"
       THEN Goes(w, [At(w, "copying") EXCEPT !.src = source])
       ELSE Goes(w, Idle)
    /\ UNCHANGED <<rows, stored, erased, index, lease>>

Copy(w) ==
    LET p == work[w] IN
    /\ p.pc = "copying"
    /\ IF <<p.d, p.src>> \in stored
       THEN /\ stored' = stored \cup {<<p.d, job[p.d][p.j].v>>}
            /\ Goes(w, At(w, "copied"))
       ELSE UNCHANGED stored /\ Goes(w, Failing(w, FALSE))
    /\ UNCHANGED <<rows, erased, index, lease>>

CopyFails(w) ==
    /\ work[w].pc = "copying"
    /\ Goes(w, Failing(w, TRUE))
    /\ UNCHANGED <<rows, stored, erased, index, lease>>

\* after the copy: the hold is released by the current attempt only
CopyRelease(w) ==
    /\ work[w].pc = "copied"
    /\ job' = IF Current(w) THEN [job EXCEPT ![work[w].d][work[w].j].hold = 0] ELSE job
    /\ Goes(w, [At(w, "claimed") EXCEPT !.src = 0])
    /\ UNCHANGED <<doc, ver, claim, stored, erased, index, lease>>

\* _load_processing_input or process_and_stage fails.  Processing reads only
\* what the fences protect, so its success is part of Accept.
ProcessFails(w) ==
    LET v == job[work[w].d][work[w].j].v IN
    /\ work[w].pc = "claimed"
    /\ \E retry \in BOOLEAN :
          /\ ver[work[w].d][v].st = "purged" => ~ retry
          /\ Goes(w, Failing(w, retry))
    /\ UNCHANGED <<rows, stored, erased, index, lease>>

\* LeaseHeartbeat.raise_if_inactive
Lost(w) ==
    /\ work[w].pc = "claimed"
    /\ ~ Held(w)
    /\ Goes(w, Idle)
    /\ UNCHANGED <<rows, stored, erased, index, lease>>

\* the document is as it was when the job was accepted
Unmoved(d, j) ==
    /\ doc[d].active = job[d][j].base
    /\ doc[d].pending = IF Reindexes(d, j) THEN 0 ELSE job[d][j].v

Publications(d, j) ==
    [i \in Jobs |->
        IF i = j THEN [job[d][j] EXCEPT !.st = "succeeded", !.lapsed = FALSE, !.pub = "active"]
        ELSE IF job[d][i].pub = "active" THEN [job[d][i] EXCEPT !.pub = "superseded"]
        ELSE job[d][i]]

Activated(d, v) ==
    [u \in Versions |->
        IF u = v THEN [ver[d][u] EXCEPT !.st = "active"]
        ELSE IF u = doc[d].active THEN [ver[d][u] EXCEPT !.st = "superseded"]
        ELSE ver[d][u]]

\* _replace_dedup_claim: the claim on the content, and no other
MutantClaims(d, v) == \* forgets the document's old claim
    [claim EXCEPT ![ver[d][v].content] = <<d, v>>]
Claims(d, v) ==
    [c \in Contents |-> IF c = ver[d][v].content THEN <<d, v>>
                        ELSE IF claim[c][1] = d THEN NoOne ELSE claim[c]]

Publish(d, j) ==
    LET v == job[d][j].v IN
    /\ job' = [job EXCEPT ![d] = Publications(d, j)]
    /\ doc' = [doc EXCEPT ![d] = [Release(@, FALSE) EXCEPT !.active = v]]
    /\ IF Reindexes(d, j) THEN UNCHANGED <<ver, claim>>
       ELSE ver' = [ver EXCEPT ![d] = Activated(d, v)] /\ claim' = Claims(d, v)

\* _replace_dedup_claim raises: another document was first
Duplicate(d, j) == ~ Reindexes(d, j) /\ ClaimedByOther(d, ver[d][job[d][j].v].content)

\* _process_and_publish: the receipt of a processed original is accepted or not
Accept(w) ==
    LET d == work[w].d
        j == work[w].j IN
    /\ work[w].pc = "claimed"
    /\ <<d, job[d][j].v>> \in stored
    /\ \/ /\ ~ Held(w) \/ doc[d].op # j           \* fence_conflict
          /\ UNCHANGED rows /\ Goes(w, Idle)
       \/ /\ Held(w) /\ doc[d].op = j             \* an authorization was withdrawn
          /\ UNCHANGED rows /\ Goes(w, Failing(w, FALSE))
       \/ /\ Held(w) /\ doc[d].op = j
          /\ IF job[d][j].gen # generation        \* generation_conflict
             THEN UNCHANGED rows /\ Goes(w, Failing(w, TRUE))
             ELSE IF ~ Unmoved(d, j)              \* document_version_changed
             THEN UNCHANGED rows /\ Goes(w, Failing(w, FALSE))
             ELSE IF PublishClash(d, j)           \* IntegrityError
             THEN UNCHANGED rows /\ Goes(w, Failing(w, TRUE))
             ELSE IF Duplicate(d, j)              \* duplicate_document
             THEN UNCHANGED rows /\ Goes(w, Failing(w, FALSE))
             ELSE Publish(d, j) /\ Goes(w, Idle)
    /\ UNCHANGED <<stored, erased, index, lease>>

\* fail_job: a lapsed lease does not matter, a lost fence does
Fail(w) ==
    LET d == work[w].d
        j == work[w].j IN
    /\ work[w].pc = "failing"
    /\ Goes(w, Idle)
    /\ IF ~ Current(w) THEN UNCHANGED rows
       ELSE IF work[w].retry /\ job[d][j].tries < MaxTries
       THEN job' = [job EXCEPT ![d][j] = Stop(@, "retry_wait")] /\ UNCHANGED <<doc, ver, claim>>
       ELSE Close(d, j, IF work[w].retry THEN "dead_letter" ELSE "failed", "failed")
    /\ UNCHANGED <<stored, erased, index, lease>>

\* the process dies and comes back: its attempt is left to its lease
Crash(w) ==
    /\ Busy(w)
    /\ Goes(w, Idle)
    /\ UNCHANGED <<rows, stored, erased, index, lease>>

-----------------------------------------------------------------------------
(* Readers, retention and deletion *)

Acquire(r, d, v) ==
    /\ doc[d].life = "active"
    /\ ver[d][v].st \in {"active", "superseded"}
    /\ <<d, v>> \in stored
    /\ lease' = [lease EXCEPT ![r] = <<d, v>>]
    /\ UNCHANGED <<rows, stored, erased, index, work>>

\* released, or not renewed in time
ReadEnds(r) ==
    /\ lease[r] # NoOne
    /\ lease' = [lease EXCEPT ![r] = NoOne]
    /\ UNCHANGED <<rows, stored, erased, index, work>>

MutantUnread(d, v) == \* forgets the readers
    ~ HeldSource(d, v)
Unread(d, v) == ~ Read(d, v) /\ ~ HeldSource(d, v)

\* purge_retained_versions, its first transaction
StartPurge(d, v) ==
    /\ ver[d][v].st \in {"superseded", "failed", "cancelled"}
    /\ doc[d].life = "active"
    /\ \A j \in OpenJobs(d) : job[d][j].v # v
    /\ Unread(d, v)
    /\ ver' = [ver EXCEPT ![d][v].st = "purging"]
    /\ UNCHANGED <<doc, job, stored, erased, claim, index, work, lease>>

\* _execute_cleanup_targets: the external erasure and the marks of its targets
EraseAll(d, gone) ==
    /\ \E v \in gone : <<d, v>> \notin erased
    /\ stored' = stored \ ({d} \X gone)
    /\ erased' = erased \cup ({d} \X gone)
    /\ UNCHANGED <<rows, index, work, lease>>

EraseVersion(d, v) == ver[d][v].st = "purging" /\ EraseAll(d, {v})

Known(d) == {v \in Versions : ver[d][v].st # "none"}
MutantEraseDocument(d) == \* only what was ever published
    /\ doc[d].life = "pending_delete" /\ doc[d].sealed
    /\ EraseAll(d, {v \in Known(d) : ver[d][v].st = "superseded"})
EraseDocument(d) ==
    /\ doc[d].life = "pending_delete" /\ doc[d].sealed
    /\ EraseAll(d, Known(d))

\* _tombstone_version: the versions and the holds on them
Tombstone(d, gone) ==
    /\ ver' = [ver EXCEPT ![d] = [v \in Versions |->
                 IF v \in gone THEN [ver[d][v] EXCEPT !.st = "purged"]
                               ELSE ver[d][v]]]
    /\ job' = [job EXCEPT ![d] = [j \in Jobs |->
                 IF job[d][j].hold \in gone THEN [job[d][j] EXCEPT !.hold = 0]
                                            ELSE job[d][j]]]

FinishPurge(d, v) ==
    /\ ver[d][v].st = "purging" /\ <<d, v>> \in erased
    /\ doc[d].life = "active"
    /\ Tombstone(d, {v})
    /\ UNCHANGED <<doc, stored, erased, claim, index, work, lease>>

\* delete_document; a clash of publications rolls it back
DeleteDocument(d) ==
    /\ doc[d].life = "active"
    /\ ~ SupersedeClash(d, 0)
    /\ doc' = [doc EXCEPT ![d] = [NoDoc EXCEPT !.life = "pending_delete"]]
    /\ job' = [job EXCEPT ![d] = [j \in Jobs |->
                 IF job[d][j].st \in Open THEN Stop(job[d][j], "cancelled")
                 ELSE IF job[d][j].pub = "active"
                      THEN [job[d][j] EXCEPT !.pub = "superseded"] ELSE job[d][j]]]
    /\ ver' = [ver EXCEPT ![d] = [v \in Versions |->
                 CASE ver[d][v].st = "active"  -> [ver[d][v] EXCEPT !.st = "superseded"]
                   [] ver[d][v].st = "pending" -> [ver[d][v] EXCEPT !.st = "cancelled"]
                   [] OTHER -> ver[d][v]]]
    /\ claim' = [c \in Contents |-> IF claim[c][1] = d THEN NoOne ELSE claim[c]]
    /\ UNCHANGED <<stored, erased, index, work, lease>>

\* The targets derived for the seal are as many as those stored since acceptance.
\* Rows of versions and grants stay, and their targets are all different; an
\* index generation that was collected meanwhile is not derived again.
Reconciled(d) == doc[d].sealed \/ ~ doc[d].lost

\* finalize_deletion: seal, then tombstone what has been erased, then delete;
\* a deletion that does not reconcile is refused and rolled back
FinalizeDeletion(d) ==
    LET gone == {v \in Known(d) : <<d, v>> \in erased} IN
    /\ doc[d].life = "pending_delete"
    /\ Reconciled(d)
    /\ OpenJobs(d) = {}
    /\ \A v \in Known(d) : Unread(d, v)
    /\ doc' = [doc EXCEPT ![d] = [@ EXCEPT !.sealed = TRUE,
                  !.life = IF gone = Known(d) THEN "deleted" ELSE "pending_delete"]]
    /\ Tombstone(d, gone)
    /\ UNCHANGED <<stored, erased, claim, index, work, lease>>

SwitchGeneration(g) ==
    /\ g \notin purged \cup {generation} /\ switches < MaxSwitches
    /\ generation' = g /\ switches' = switches + 1
    /\ UNCHANGED <<rows, stored, erased, purged, work, lease>>

\* deletions that may have listed a generation: of documents with an index revision
Unsealed == {d \in Docs :
    /\ doc[d].life = "pending_delete" /\ ~ doc[d].sealed
    /\ \E j \in Jobs : job[d][j].pub = "superseded"}

\* An index generation is collected, which some of these deletions had listed.
\* (The collection of one that none had listed changes nothing here.)
PurgeGeneration(g) ==
    /\ g \notin purged \cup {generation}
    /\ purged' = purged \cup {g}
    /\ \E listed \in SUBSET Unsealed \ {{}} :
          doc' = [d \in Docs |-> IF d \in listed THEN [doc[d] EXCEPT !.lost = TRUE] ELSE doc[d]]
    /\ UNCHANGED <<ver, job, claim, stored, erased, generation, switches, work, lease>>

-----------------------------------------------------------------------------
Step(w) ==
    \/ CopyStart(w) \/ Copy(w) \/ CopyFails(w) \/ CopyRelease(w)
    \/ ProcessFails(w) \/ Lost(w) \/ Accept(w) \/ Fail(w)

Next ==
    \/ \E d \in Docs :
        \/ \E c \in Contents : Upload(d, c)
        \/ \E j \in Jobs, v \in Versions :
             (\E c \in Contents : Replace(d, j, v, c)) \/ (\E s \in Versions : Restore(d, j, v, s))
        \/ \E j \in Jobs : \/ Reindex(d, j) \/ CancelJob(d, j) \/ ReplayJob(d, j)
                           \/ LeaseLapses(d, j) \/ \E w \in Workers : Claim(w, d, j)
        \/ \E v \in Versions : \/ StartPurge(d, v) \/ EraseVersion(d, v) \/ FinishPurge(d, v)
                               \/ \E r \in Readers : Acquire(r, d, v)
        \/ DeleteDocument(d) \/ EraseDocument(d) \/ FinalizeDeletion(d)
    \/ Reclaim
    \/ \E w \in Workers : Step(w) \/ Crash(w)
    \/ \E r \in Readers : ReadEnds(r)
    \/ \E g \in Generations : SwitchGeneration(g) \/ PurgeGeneration(g)

Spec == Init /\ [][Next]_vars

(***************************************************************************)
(* Fairness.  A worker that is alive goes on with its claim, and every     *)
(* claim first takes back what has expired; candidates are claimed in the  *)
(* order they were created (jobs.py), so no runnable job is passed over    *)
(* for ever.  The lease of an attempt nobody works on lapses, and so does  *)
(* a read lease once its document refuses renewals.  The retention worker  *)
(* finalizes deletions at every tick, and erasures succeed within their    *)
(* attempts.                                                               *)
(***************************************************************************)
Abandoned(d, j) == \A w \in Workers :
    ~ (work[w].d = d /\ work[w].j = j /\ work[w].fence = job[d][j].fence)

Fairness ==
    /\ \A w \in Workers : WF_vars(Step(w))
    /\ SF_vars(Reclaim)
    /\ \A d \in Docs, j \in Jobs :
         /\ SF_vars(\E w \in Workers : Claim(w, d, j))
         /\ WF_vars(Abandoned(d, j) /\ LeaseLapses(d, j))
    /\ \A r \in Readers : WF_vars(lease[r] # NoOne /\ doc[lease[r][1]].life # "active" /\ ReadEnds(r))
    /\ \A d \in Docs : WF_vars(FinalizeDeletion(d)) /\ WF_vars(EraseDocument(d))

FairSpec == Spec /\ Fairness

-----------------------------------------------------------------------------
(* Correctness *)

\* A document has at most one operation in progress and its row names it: the
\* pending version is the one that job makes, the active version the one it
\* was based on, and a document that is being deleted has nothing in progress
\* (every handler of service.py and jobs.py clears or checks
\* active_operation_job_id, some of them unconditionally).
Operates(d) ==
    /\ OpenJobs(d) = IF doc[d].op = 0 THEN {} ELSE {doc[d].op}
    /\ doc[d].pending # 0 => doc[d].op # 0
    /\ doc[d].op # 0 =>
        LET j == doc[d].op IN
        /\ job[d][j].base = doc[d].active
        /\ doc[d].pending = IF Reindexes(d, j) THEN 0 ELSE job[d][j].v
        /\ doc[d].pending # 0 => ver[d][doc[d].pending].st = "pending"
    /\ doc[d].life # "active" => doc[d].op = 0 /\ doc[d].active = 0
OneOperation == \A d \in Docs : Operates(d)

\* Whatever is published, superseded or rolled back, a document has the active
\* version its row names and no other, and exactly one active publication, of
\* that version (the publication transaction of service.py).
OneActive == \A d \in Docs :
    /\ {v \in Versions : ver[d][v].st = "active"} = {doc[d].active} \ {0}
    /\ {job[d][j].v : j \in {i \in Jobs : job[d][i].pub = "active"}} = {doc[d].active} \ {0}
    /\ Cardinality({j \in Jobs : job[d][j].pub = "active"}) <= 1

\* "A document owns exactly one effective claim" (service.py,
\* _replace_dedup_claim): two live documents never publish the same content,
\* because the active content of each is claimed for it, and a document never
\* keeps a second claim that would turn away somebody's upload.
OwnsContent == \A d \in Docs :
    /\ doc[d].active # 0 => claim[ver[d][doc[d].active].content] = <<d, doc[d].active>>
    /\ Cardinality({c \in Contents : claim[c][1] = d}) <= 1
    /\ doc[d].life # "active" => \A c \in Contents : claim[c][1] # d

\* Both of them: what a document serves is one version, its own (the publication
\* transaction and _replace_dedup_claim)
ServesItsOwn == OneActive /\ OwnsContent

\* What is in use is never purged: the version a reader holds a lease on, the
\* active version, and the source of a restore that is still to be copied
\* (retention, deletion and renewals of read leases run concurrently).
InUseIsKept ==
    /\ \A r \in Readers : lease[r] # NoOne =>
         /\ ver[lease[r][1]][lease[r][2]].st \notin {"purging", "purged"}
         /\ lease[r] \in stored
    /\ \A d \in Docs : doc[d].active # 0 => <<d, doc[d].active>> \in stored
    /\ \A d \in Docs : \A j \in OpenJobs(d) :
         job[d][j].hold # 0 /\ job[d][j].replays = 0 =>
            ver[d][job[d][j].hold].st \notin {"purging", "purged"}

\* A worker whose attempt was cancelled, taken back or given to another worker
\* changes no row any more, whichever step it is at ("the old fencing token
\* cannot update any fact", docs/operations.md).
Stale(w) == \/ job[work[w].d][work[w].j].st # "running"
            \/ job[work[w].d][work[w].j].fence # work[w].fence
StaleTokenChangesNothing == [][\A w \in Workers :
    Busy(w) /\ Stale(w) /\ work'[w] # work[w] => UNCHANGED rows]_vars

\* A live document that has been published stays published: its active version
\* only ever gives way to a newer one, and the older becomes superseded with it.
ActiveMovesForward == [][\A d \in Docs :
    doc[d].active # 0 /\ doc'[d].life = "active" /\ doc'[d].active # doc[d].active =>
        /\ doc'[d].active > doc[d].active
        /\ ver'[d][doc[d].active].st = "superseded"]_vars

\* Every job that was accepted or replayed ends: crashes, lapsed leases and
\* failures use up its attempts (jobs.py, fail_job).
JobsSettle == \A d \in Docs, j \in Jobs :
    []<>(job[d][j].st \notin Open)

\* A document whose deletion was accepted is deleted in the end, whoever was
\* reading, restoring or publishing it then (finalize_deletion).  The one thing
\* that may stop it is an index generation collected between acceptance and seal:
\* its target stays counted, so the reconciliation refuses the seal for ever.
DeletionsComplete == \A d \in Docs :
    []<>(doc[d].life # "pending_delete" \/ doc[d].lost)

\* A worker that holds its attempt and whose receipt passes every fence of
\* accept_processing_receipt can publish it: "commits publication through the
\* fenced documents transaction" (docs/operations.md).
ReadyIsPublished == \A w \in Workers :
    LET d == work[w].d
        j == work[w].j IN
    work[w].pc = "claimed" /\ Held(w) /\ doc[d].op = j /\ Unmoved(d, j)
        /\ job[d][j].gen = generation => ~ PublishClash(d, j)
=============================================================================
