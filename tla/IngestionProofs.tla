--------------------------- MODULE IngestionProofs ---------------------------
(***************************************************************************)
(* Proofs about Ingestion, for any number of documents, workers, attempts  *)
(* and index generations.                                                  *)
(***************************************************************************)
EXTENDS Ingestion, FiniteSetTheorems, TLAPS

-----------------------------------------------------------------------------
(* Types *)

\* an attempt is left to every job that waits for one
TriesLeft == \A d \in Docs, j \in Jobs :
    job[d][j].st \in {"pending", "retry_wait"} => job[d][j].tries < MaxTries
\* a job that exists is about a version
JobHasVersion == \A d \in Docs, j \in Jobs : job[d][j].st # "none" => job[d][j].v \in Versions
\* a busy worker was given a job
WorkerHasJob == \A w \in Workers : Busy(w) =>
    /\ work[w].d \in Docs /\ work[w].j \in Jobs
    /\ job[work[w].d][work[w].j].st # "none"

TypeInv == TypeOK /\ TriesLeft /\ JobHasVersion /\ WorkerHasJob

\* what a step does to the jobs keeps TypeInv: rows are typed, are about the
\* version of a job, and no job goes away
JobsGood ==
    /\ job' \in [Docs -> [Jobs -> JobRow]]
    /\ \A d \in Docs, j \in Jobs :
         /\ job'[d][j].st \in {"pending", "retry_wait"} => job'[d][j].tries < MaxTries
         /\ job'[d][j].st # "none" => job'[d][j].v \in Versions
         /\ job[d][j].st # "none" => job'[d][j].st # "none"

\* a row that may replace one of them
RowGood(x, y) ==
    /\ y \in JobRow
    /\ y.st \in {"pending", "retry_wait"} => y.tries < MaxTries
    /\ y.st # "none" => y.v \in Versions
    /\ x.st # "none" => y.st # "none"

LEMMA RowIsGood ==
    ASSUME TypeInv, NEW d \in Docs, NEW j \in Jobs
    PROVE  RowGood(job[d][j], job[d][j])
BY DEF TypeInv, TypeOK, TriesLeft, JobHasVersion, RowGood

LEMMA TableIsGood == TypeInv /\ job' = job => JobsGood
BY DEF TypeInv, TypeOK, TriesLeft, JobHasVersion, JobsGood

LEMMA OneRow ==
    ASSUME TypeInv, NEW d \in Docs, NEW j \in Jobs, NEW x, RowGood(job[d][j], x),
           job' = [job EXCEPT ![d][j] = x]
    PROVE  JobsGood
<1>1. job' \in [Docs -> [Jobs -> JobRow]] BY DEF TypeInv, TypeOK, RowGood
<1>2. ASSUME NEW e \in Docs, NEW i \in Jobs PROVE RowGood(job[e][i], job'[e][i])
  <2>1. CASE e = d /\ i = j BY <2>1 DEF TypeInv, TypeOK
  <2>2. CASE ~(e = d /\ i = j)
    <3>1. job'[e][i] = job[e][i] BY <2>2 DEF TypeInv, TypeOK
    <3> QED BY <3>1, RowIsGood
  <2> QED BY <2>1, <2>2
<1> QED BY <1>1, <1>2 DEF JobsGood, RowGood

\* the rows of one document
LEMMA OneDocument ==
    ASSUME TypeInv, NEW d \in Docs, NEW f \in [Jobs -> JobRow],
           \A j \in Jobs : RowGood(job[d][j], f[j]), job' = [job EXCEPT ![d] = f]
    PROVE  JobsGood
<1>1. job' \in [Docs -> [Jobs -> JobRow]] BY DEF TypeInv, TypeOK
<1>2. ASSUME NEW e \in Docs, NEW i \in Jobs PROVE RowGood(job[e][i], job'[e][i])
  <2>1. CASE e = d BY <2>1 DEF TypeInv, TypeOK
  <2>2. CASE e # d
    <3>1. job'[e][i] = job[e][i] BY <2>2 DEF TypeInv, TypeOK
    <3> QED BY <3>1, RowIsGood
  <2> QED BY <2>1, <2>2
<1> QED BY <1>1, <1>2 DEF JobsGood, RowGood

\* a job's row after its attempt ended
LEMMA StopIsGood ==
    ASSUME TypeInv, NEW d \in Docs, NEW j \in Jobs, NEW state \in Over \cup {"retry_wait"},
           state = "retry_wait" => job[d][j].tries < MaxTries,
           job[d][j].st # "none"
    PROVE  RowGood(job[d][j], Stop(job[d][j], state))
<1>1. job[d][j] \in JobRow /\ job[d][j].v \in Versions
  BY DEF TypeInv, TypeOK, JobHasVersion
<1> DEFINE x == job[d][j]
<1>2. (IF x.pub = "staged" THEN "none" ELSE x.pub) \in {"none", "staged", "active", "superseded"}
  BY <1>1 DEF JobRow
<1>3. Stop(x, state) \in JobRow BY <1>1, <1>2, ZenonT(40) DEF Stop, JobRow, Open, Over
<1>4. Stop(x, state).st = state /\ Stop(x, state).tries = x.tries /\ Stop(x, state).v = x.v
      /\ state # "none" /\ state # "pending"
  BY <1>1 DEF Stop, JobRow, Over
<1> QED BY <1>1, <1>3, <1>4 DEF RowGood

LEMMA CancelledIsGood ==
    ASSUME TypeInv, NEW d \in Docs, NEW j \in Jobs, job[d][j].st # "none"
    PROVE  RowGood(job[d][j], Cancelled(job[d][j]))
<1> DEFINE x == Stop(job[d][j], "cancelled")
           fence == IF job[d][j].st = "running" THEN x.fence + 1 ELSE x.fence
<1>1. RowGood(job[d][j], x) BY StopIsGood DEF Over
<1>2. x \in JobRow /\ x.fence \in Nat BY <1>1 DEF RowGood, JobRow
<1> HIDE DEF x
<1>3. fence \in Nat BY <1>2
<1>4. Cancelled(job[d][j]) = [x EXCEPT !.fence = fence] BY DEF Cancelled, x
<1> HIDE DEF fence
<1>5. /\ [x EXCEPT !.fence = fence] \in JobRow
      /\ [x EXCEPT !.fence = fence].st = x.st
      /\ [x EXCEPT !.fence = fence].tries = x.tries
      /\ [x EXCEPT !.fence = fence].v = x.v
  BY <1>2, <1>3 DEF JobRow
<1> QED BY <1>1, <1>4, <1>5 DEF RowGood

LEMMA Submitted ==
    ASSUME TypeInv, NEW d \in Docs, NEW j \in Jobs, NEW v \in Versions,
           NEW base \in 0..MaxVersions, NEW hold \in 0..MaxVersions,
           job[d][j].st = "none", Submit(d, j, v, base, hold)
    PROVE  JobsGood
<1> DEFINE x == [st |-> "pending", v |-> v, base |-> base, tries |-> 0, fence |-> 0,
           lapsed |-> FALSE, replays |-> 0, hold |-> hold, pub |-> "staged",
           gen |-> generation]
<1>1. x \in JobRow
  BY IngestionAssumption DEF JobRow, Open, Versions, TypeInv, TypeOK
<1>2. RowGood(job[d][j], x) BY <1>1, IngestionAssumption DEF RowGood
<1> QED BY <1>2, OneRow DEF Submit

LEMMA CloseIsGood ==
    ASSUME TypeInv, NEW d \in Docs, NEW j \in Jobs, NEW state \in Over,
           job[d][j].st # "none", job' = [job EXCEPT ![d][j] = Stop(@, state)]
    PROVE  JobsGood
<1>1. PICK x : x = Stop(job[d][j], state) OBVIOUS
<1>2. job' = [job EXCEPT ![d][j] = x] BY <1>1 DEF TypeInv, TypeOK
<1>3. state # "retry_wait" /\ state \in Over \cup {"retry_wait"} BY DEF Over
<1>4. RowGood(job[d][j], x) BY <1>1, <1>3, StopIsGood
<1> QED BY <1>2, <1>4, OneRow

-----------------------------------------------------------------------------
(* What each operation writes *)

\* a step of a worker, which always has a job
LEMMA WorkerJob ==
    ASSUME TypeInv, NEW w \in Workers, work[w].pc # "idle"
    PROVE  /\ work[w].d \in Docs /\ work[w].j \in Jobs
           /\ job[work[w].d][work[w].j] \in JobRow
           /\ job[work[w].d][work[w].j].st # "none"
           /\ job[work[w].d][work[w].j].v \in Versions
BY DEF TypeInv, TypeOK, WorkerHasJob, Busy, JobHasVersion

\* the operations that accept a job
Accepts(d) ==
    \/ \E c \in Contents : Upload(d, c)
    \/ \E j \in Jobs, v \in Versions :
         (\E c \in Contents : Replace(d, j, v, c)) \/ (\E s \in Versions : Restore(d, j, v, s))
    \/ \E j \in Jobs : Reindex(d, j)

LEMMA AcceptsJobs ==
    ASSUME TypeInv, NEW d \in Docs, Accepts(d)
    PROVE  JobsGood
<1> USE IngestionAssumption DEF Versions
<1>1. doc[d].active \in 0..MaxVersions BY DEF TypeInv, TypeOK, DocRow
<1>2. ASSUME NEW c \in Contents, Upload(d, c) PROVE JobsGood
  <2>1. 1 \in Versions /\ 0 \in 0..MaxVersions OBVIOUS
  <2>2. 1 \in Jobs
    BY <1>2 DEF Upload, NextJob, Jobs
  <2> QED BY <1>2, <2>1, <2>2, Submitted DEF Upload, NextJob
<1>3. ASSUME NEW j \in Jobs, NEW v \in Versions, NEW c \in Contents, Replace(d, j, v, c)
      PROVE JobsGood
  BY <1>3, <1>1, Submitted DEF Replace, Supply, NextJob
<1>4. ASSUME NEW j \in Jobs, NEW v \in Versions, NEW s \in Versions, Restore(d, j, v, s)
      PROVE JobsGood
  BY <1>4, <1>1, Submitted DEF Restore, Supply, NextJob
<1>5. ASSUME NEW j \in Jobs, Reindex(d, j) PROVE JobsGood
  BY <1>5, <1>1, Submitted DEF Reindex, NextJob
<1> QED BY <1>2, <1>3, <1>4, <1>5 DEF Accepts

LEMMA CancelJobs ==
    ASSUME TypeInv, NEW d \in Docs, NEW j \in Jobs, CancelJob(d, j)
    PROVE  JobsGood
<1>1. job[d][j].st # "none" BY DEF CancelJob, Open
<1>2. PICK x : x = Cancelled(job[d][j]) OBVIOUS
<1>3. job' = [job EXCEPT ![d][j] = x] BY <1>2 DEF CancelJob, TypeInv, TypeOK
<1>4. RowGood(job[d][j], x) BY <1>1, <1>2, CancelledIsGood
<1> QED BY <1>3, <1>4, OneRow

LEMMA ReplayJobs ==
    ASSUME TypeInv, NEW d \in Docs, NEW j \in Jobs, ReplayJob(d, j)
    PROVE  JobsGood
<1>1. 0 \in 0..MaxTries /\ 0 < MaxTries BY IngestionAssumption
<1>2. job[d][j] \in JobRow /\ job[d][j].v \in Versions /\ generation \in Generations
  BY DEF ReplayJob, TypeInv, TypeOK, JobHasVersion, Over
<1>3. PICK y : y = [job[d][j] EXCEPT !.st = "pending", !.tries = 0] OBVIOUS
<1>4. y \in JobRow /\ y.st = "pending" /\ y.tries = 0 /\ y.v \in Versions
  BY <1>1, <1>2, <1>3 DEF JobRow, Open
<1>5. PICK z : z = [y EXCEPT !.replays = 1] OBVIOUS
<1>6. z \in JobRow /\ z.st = "pending" /\ z.tries = 0 /\ z.v \in Versions
  BY <1>4, <1>5 DEF JobRow
<1>7. PICK x : x = [z EXCEPT !.pub = "staged", !.gen = generation] OBVIOUS
<1>8. x \in JobRow /\ x.st = "pending" /\ x.tries = 0 /\ x.v \in Versions
  BY <1>2, <1>6, <1>7 DEF JobRow
<1>9. RowGood(job[d][j], x) BY <1>1, <1>8 DEF RowGood
<1>10. x = [job[d][j] EXCEPT !.st = "pending", !.tries = 0, !.replays = 1,
                            !.pub = "staged", !.gen = generation]
  BY <1>3, <1>5, <1>7
<1>11. job' = [job EXCEPT ![d][j] = x] BY <1>10 DEF ReplayJob, TypeInv, TypeOK
<1> QED BY <1>9, <1>11, OneRow

LEMMA ClaimedIsGood ==
    ASSUME TypeInv, NEW d \in Docs, NEW j \in Jobs, job[d][j].st \in {"pending", "retry_wait"}
    PROVE  RowGood(job[d][j], Claimed(job[d][j]))
<1> DEFINE r == job[d][j]
<1>1. r \in JobRow /\ r.v \in Versions /\ generation \in Generations
  BY DEF TypeInv, TypeOK, JobHasVersion
<1>2. r.tries + 1 \in 0..MaxTries /\ r.fence + 1 \in Nat
  BY <1>1, IngestionAssumption DEF JobRow, TypeInv, TriesLeft
<1>3. PICK y : y = [r EXCEPT !.st = "running", !.tries = @ + 1, !.fence = @ + 1] OBVIOUS
<1>4. y \in JobRow /\ y.st = "running" /\ y.v \in Versions
  BY <1>1, <1>2, <1>3 DEF JobRow, Open
<1>5. PICK x : x = [y EXCEPT !.pub = "staged", !.gen = generation] OBVIOUS
<1>6. RowGood(r, x) BY <1>1, <1>4, <1>5 DEF RowGood, JobRow
<1>7. Claimed(r) = x BY <1>3, <1>5 DEF Claimed
<1> QED BY <1>6, <1>7

LEMMA ClaimJobs ==
    ASSUME TypeInv, NEW w \in Workers, NEW d \in Docs, NEW j \in Jobs, Claim(w, d, j)
    PROVE  JobsGood
<1>1. PICK x : x = Claimed(job[d][j]) OBVIOUS
<1>2. RowGood(job[d][j], x) BY <1>1, ClaimedIsGood DEF Claim
<1>3. job' = [job EXCEPT ![d][j] = x] BY <1>1 DEF Claim, TypeInv, TypeOK
<1> QED BY <1>2, <1>3, OneRow

LEMMA LapseJobs ==
    ASSUME TypeInv, NEW d \in Docs, NEW j \in Jobs, LeaseLapses(d, j)
    PROVE  JobsGood
<1> DEFINE x == [job[d][j] EXCEPT !.lapsed = TRUE]
<1>1. job[d][j] \in JobRow BY DEF TypeInv, TypeOK
<1>2. x \in JobRow /\ x.st = job[d][j].st /\ x.v = job[d][j].v /\ x.tries = job[d][j].tries
  BY <1>1 DEF JobRow
<1>3. RowGood(job[d][j], x) BY <1>2, RowIsGood DEF RowGood
<1>4. job' = [job EXCEPT ![d][j] = x] BY DEF LeaseLapses, TypeInv, TypeOK
<1> QED BY <1>3, <1>4, OneRow

LEMMA ReclaimJobs ==
    ASSUME TypeInv, Reclaim
    PROVE  JobsGood
<1>1. ASSUME NEW d \in Docs, NEW j \in Jobs
      PROVE  RowGood(job[d][j], job'[d][j])
  <2>1. CASE <<d, j>> \notin Expired
    BY <2>1, RowIsGood DEF Reclaim
  <2>2. CASE <<d, j>> \in Expired
    <3>1. job[d][j].st # "none" BY <2>2 DEF Expired
    <3>2. CASE <<d, j>> \in Exhausted
      <4>1. job'[d][j] = Stop(job[d][j], "dead_letter") BY <2>2, <3>2 DEF Reclaim
      <4>2. "dead_letter" \in Over \cup {"retry_wait"} BY DEF Over
      <4> QED BY <3>1, <4>1, <4>2, StopIsGood
    <3>3. CASE <<d, j>> \notin Exhausted
      <4>1. job'[d][j] = Stop(job[d][j], "retry_wait") BY <2>2, <3>3 DEF Reclaim
      <4>2. job[d][j].tries < MaxTries
        BY <2>2, <3>3, IngestionAssumption DEF Exhausted, TypeInv, TypeOK, JobRow
      <4> QED BY <3>1, <4>1, <4>2, StopIsGood
    <3> QED BY <3>2, <3>3
  <2> QED BY <2>1, <2>2
<1> QED BY <1>1 DEF JobsGood, RowGood, Reclaim

LEMMA ReleaseHoldJobs ==
    ASSUME TypeInv, NEW w \in Workers, CopyRelease(w)
    PROVE  JobsGood
<1>1. CASE Current(w)
  <2> DEFINE d == work[w].d
             j == work[w].j
             x == [job[d][j] EXCEPT !.hold = 0]
  <2>1. d \in Docs /\ j \in Jobs /\ job[d][j] \in JobRow BY WorkerJob DEF CopyRelease
  <2>2. x \in JobRow /\ x.st = job[d][j].st /\ x.v = job[d][j].v /\ x.tries = job[d][j].tries
    BY <2>1, IngestionAssumption DEF JobRow
  <2>3. RowGood(job[d][j], x) BY <2>1, <2>2, RowIsGood DEF RowGood
  <2>4. job' = [job EXCEPT ![d][j] = x] BY <1>1, <2>1 DEF CopyRelease, TypeInv, TypeOK
  <2> QED BY <2>1, <2>3, <2>4, OneRow
<1>2. CASE ~ Current(w) BY <1>2, TableIsGood DEF CopyRelease
<1> QED BY <1>1, <1>2

LEMMA PublishJobs ==
    ASSUME TypeInv, NEW d \in Docs, NEW j \in Jobs, job[d][j].st # "none", Publish(d, j)
    PROVE  JobsGood
<1>1. ASSUME NEW i \in Jobs PROVE RowGood(job[d][i], Publications(d, j)[i])
  <2>1. job[d][i] \in JobRow BY DEF TypeInv, TypeOK
  <2>2. CASE i = j
    <3>1. PICK x : x = [job[d][j] EXCEPT !.st = "succeeded", !.lapsed = FALSE, !.pub = "active"]
      OBVIOUS
    <3>2. x \in JobRow /\ x.st = "succeeded" /\ x.v = job[d][j].v
      BY <2>1, <2>2, <3>1 DEF JobRow
    <3>3. RowGood(job[d][i], x) BY <2>2, <3>2 DEF RowGood, TypeInv, JobHasVersion
    <3> QED BY <2>2, <3>1, <3>3 DEF Publications
  <2>3. CASE i # j /\ job[d][i].pub = "active"
    <3>1. PICK x : x = [job[d][i] EXCEPT !.pub = "superseded"] OBVIOUS
    <3>2. x \in JobRow /\ x.st = job[d][i].st /\ x.v = job[d][i].v /\ x.tries = job[d][i].tries
      BY <2>1, <3>1 DEF JobRow
    <3>3. RowGood(job[d][i], x) BY <3>2, RowIsGood DEF RowGood
    <3> QED BY <2>3, <3>1, <3>3 DEF Publications
  <2>4. CASE i # j /\ job[d][i].pub # "active"
    BY <2>4, RowIsGood DEF Publications
  <2> QED BY <2>2, <2>3, <2>4
<1>2. Publications(d, j) \in [Jobs -> JobRow] BY <1>1 DEF Publications, RowGood
<1> QED BY <1>1, <1>2, OneDocument DEF Publish

LEMMA AcceptJobs ==
    ASSUME TypeInv, NEW w \in Workers, Accept(w)
    PROVE  JobsGood
<1>1. CASE Publish(work[w].d, work[w].j)
  BY <1>1, WorkerJob, PublishJobs DEF Accept
<1>2. CASE UNCHANGED rows BY <1>2, TableIsGood DEF rows
<1> QED BY <1>1, <1>2 DEF Accept

LEMMA FailJobs ==
    ASSUME TypeInv, NEW w \in Workers, Fail(w)
    PROVE  JobsGood
<1> DEFINE d == work[w].d
           j == work[w].j
<1>1. d \in Docs /\ j \in Jobs /\ job[d][j] \in JobRow /\ job[d][j].st # "none"
  BY WorkerJob DEF Fail
<1>2. CASE UNCHANGED rows BY <1>2, TableIsGood DEF rows
<1>3. CASE job[d][j].tries < MaxTries /\ job' = [job EXCEPT ![d][j] = Stop(@, "retry_wait")]
  <2>1. PICK x : x = Stop(job[d][j], "retry_wait") OBVIOUS
  <2>2. job' = [job EXCEPT ![d][j] = x] BY <1>1, <1>3, <2>1 DEF TypeInv, TypeOK
  <2>3. RowGood(job[d][j], x) BY <1>1, <1>3, <2>1, StopIsGood
  <2> QED BY <1>1, <2>2, <2>3, OneRow
<1>4. ASSUME NEW state \in {"dead_letter", "failed"}, Close(d, j, state, "failed")
      PROVE  JobsGood
  BY <1>1, <1>4, CloseIsGood DEF Close, Over
<1> QED BY <1>2, <1>3, <1>4 DEF Fail

LEMMA TombstoneJobs ==
    ASSUME TypeInv, NEW d \in Docs, NEW gone, Tombstone(d, gone)
    PROVE  JobsGood
<1> DEFINE f == [j \in Jobs |-> IF job[d][j].hold \in gone THEN [job[d][j] EXCEPT !.hold = 0]
                                                            ELSE job[d][j]]
<1>1. ASSUME NEW j \in Jobs PROVE RowGood(job[d][j], f[j])
  <2>1. job[d][j] \in JobRow BY DEF TypeInv, TypeOK
  <2>2. PICK x : x = [job[d][j] EXCEPT !.hold = 0] OBVIOUS
  <2>3. x \in JobRow /\ x.st = job[d][j].st /\ x.v = job[d][j].v /\ x.tries = job[d][j].tries
    BY <2>1, <2>2, IngestionAssumption DEF JobRow
  <2>4. RowGood(job[d][j], x) BY <2>3, RowIsGood DEF RowGood
  <2> QED BY <2>2, <2>4, RowIsGood
<1>2. f \in [Jobs -> JobRow] BY <1>1 DEF RowGood
<1>3. job' = [job EXCEPT ![d] = f] BY DEF Tombstone
<1> HIDE DEF f
<1> QED BY <1>1, <1>2, <1>3, OneDocument

LEMMA DeleteJobs ==
    ASSUME TypeInv, NEW d \in Docs, DeleteDocument(d)
    PROVE  JobsGood
<1> DEFINE f == [j \in Jobs |->
                   IF job[d][j].st \in Open THEN Stop(job[d][j], "cancelled")
                   ELSE IF job[d][j].pub = "active"
                        THEN [job[d][j] EXCEPT !.pub = "superseded"] ELSE job[d][j]]
<1>1. ASSUME NEW j \in Jobs PROVE RowGood(job[d][j], f[j])
  <2>1. job[d][j] \in JobRow BY DEF TypeInv, TypeOK
  <2>2. CASE job[d][j].st \in Open
    <3>1. f[j] = Stop(job[d][j], "cancelled") BY <2>2
    <3>2. RowGood(job[d][j], Stop(job[d][j], "cancelled")) BY <2>2, StopIsGood DEF Over, Open
    <3> QED BY <3>1, <3>2
  <2>3. CASE job[d][j].st \notin Open
    <3>1. PICK x : x = [job[d][j] EXCEPT !.pub = "superseded"] OBVIOUS
    <3>2. x \in JobRow /\ x.st = job[d][j].st /\ x.v = job[d][j].v /\ x.tries = job[d][j].tries
      BY <2>1, <3>1 DEF JobRow
    <3>3. RowGood(job[d][j], x) BY <3>2, RowIsGood DEF RowGood
    <3> QED BY <2>3, <3>1, <3>3, RowIsGood
  <2> QED BY <2>2, <2>3
<1>2. f \in [Jobs -> JobRow] BY <1>1 DEF RowGood
<1>3. job' = [job EXCEPT ![d] = f] BY DEF DeleteDocument
<1> HIDE DEF f
<1> QED BY <1>1, <1>2, <1>3, OneDocument

-----------------------------------------------------------------------------
(* Type correctness *)

LEMMA ReleaseTyped ==
    ASSUME NEW x \in DocRow, NEW reindex \in BOOLEAN
    PROVE  Release(x, reindex) \in DocRow
<1>1. 0 \in 0..MaxVersions /\ 0 \in 0..MaxJobs BY IngestionAssumption
<1> QED BY <1>1 DEF Release, DocRow

LEMMA EndVersionTyped ==
    ASSUME TypeInv, NEW d \in Docs, NEW j \in Jobs, job[d][j].st # "none",
           NEW state \in {"failed", "cancelled"}, EndVersion(d, j, state)
    PROVE  ver' \in [Docs -> [Versions -> VersionRow]]
<1>1. job[d][j].v \in Versions BY DEF TypeInv, JobHasVersion
<1>2. PICK x : x = [ver[d][job[d][j].v] EXCEPT !.st = state] OBVIOUS
<1>3. ver[d][job[d][j].v] \in VersionRow BY <1>1 DEF TypeInv, TypeOK
<1>4. x \in VersionRow BY <1>2, <1>3 DEF VersionRow
<1>5. ~ Reindexes(d, j) => ver' = [ver EXCEPT ![d][job[d][j].v] = x]
  BY <1>1, <1>2 DEF EndVersion, TypeInv, TypeOK
<1> QED BY <1>1, <1>4, <1>5 DEF EndVersion, TypeInv, TypeOK

LEMMA DropClaimTyped ==
    ASSUME TypeInv, NEW d \in Docs, NEW j \in Jobs, DropClaim(d, j)
    PROVE  claim' \in [Contents -> (Docs \X Versions) \cup {NoOne}]
BY DEF DropClaim, TypeInv, TypeOK

\* the documents, versions and claims
RowsTyped ==
    /\ doc' \in [Docs -> DocRow]
    /\ ver' \in [Docs -> [Versions -> VersionRow]]
    /\ claim' \in [Contents -> (Docs \X Versions) \cup {NoOne}]

LEMMA RowsKept == TypeInv /\ UNCHANGED <<doc, ver, claim>> => RowsTyped
BY DEF TypeInv, TypeOK, RowsTyped

LEMMA EndTyped ==
    ASSUME TypeInv, NEW d \in Docs, NEW j \in Jobs, job[d][j].st # "none",
           NEW state \in {"failed", "cancelled"},
           doc' = [doc EXCEPT ![d] = Release(@, Reindexes(d, j))],
           EndVersion(d, j, state), DropClaim(d, j)
    PROVE  RowsTyped
<1>1. PICK x : x = Release(doc[d], Reindexes(d, j)) OBVIOUS
<1>2. Reindexes(d, j) \in BOOLEAN BY DEF Reindexes
<1>3. x \in DocRow BY <1>1, <1>2, ReleaseTyped DEF TypeInv, TypeOK
<1>4. doc' = [doc EXCEPT ![d] = x] BY <1>1 DEF TypeInv, TypeOK
<1> QED BY <1>3, <1>4, EndVersionTyped, DropClaimTyped DEF RowsTyped, TypeInv, TypeOK

LEMMA VersionWritten ==
    ASSUME TypeInv, NEW d \in Docs, NEW v \in Versions, NEW x \in VersionRow,
           ver' = [ver EXCEPT ![d][v] = x]
    PROVE  ver' \in [Docs -> [Versions -> VersionRow]]
BY DEF TypeInv, TypeOK

LEMMA DocumentWritten ==
    ASSUME TypeInv, NEW d \in Docs, NEW x \in DocRow, doc' = [doc EXCEPT ![d] = x]
    PROVE  doc' \in [Docs -> DocRow]
BY DEF TypeInv, TypeOK

LEMMA SupplyTyped ==
    ASSUME TypeInv, NEW d \in Docs, NEW j \in Jobs, NEW v \in Versions, NEW c \in Contents \cup {"none"},
           NEW hold, Supply(d, j, v, c, hold)
    PROVE  RowsTyped
<1>1. PICK x : x = [doc[d] EXCEPT !.pending = v, !.op = j] OBVIOUS
<1>2. doc[d] \in DocRow /\ v \in 0..MaxVersions /\ j \in 0..MaxJobs
  BY DEF TypeInv, TypeOK, Versions, Jobs
<1>3. x \in DocRow BY <1>2, <1>1 DEF DocRow
<1>4. doc' = [doc EXCEPT ![d] = x] BY <1>1 DEF Supply, TypeInv, TypeOK
<1>5. [st |-> "pending", content |-> c] \in VersionRow BY DEF VersionRow
<1>6. ver' = [ver EXCEPT ![d][v] = [st |-> "pending", content |-> c]] BY DEF Supply
<1>7. UNCHANGED claim BY DEF Supply
<1> QED BY <1>3, <1>4, <1>5, <1>6, <1>7, VersionWritten, DocumentWritten
       DEF RowsTyped, TypeInv, TypeOK

LEMMA AcceptsTyped ==
    ASSUME TypeInv, NEW d \in Docs, Accepts(d)
    PROVE  RowsTyped
<1> USE IngestionAssumption
<1>1. ASSUME NEW c \in Contents, Upload(d, c) PROVE RowsTyped
  <2>1. PICK x : x = [NoDoc EXCEPT !.life = "active", !.pending = 1, !.op = 1] OBVIOUS
  <2>2. x = [life |-> "active", active |-> 0, pending |-> 1, op |-> 1, sealed |-> FALSE,
              lost |-> FALSE]
    BY <2>1 DEF NoDoc
  <2>3. x \in DocRow BY <2>2 DEF DocRow
  <2>4. doc' = [doc EXCEPT ![d] = x] BY <1>1, <2>1 DEF Upload
  <2>5. 1 \in Versions BY DEF Versions
  <2>6. [st |-> "pending", content |-> c] \in VersionRow BY DEF VersionRow
  <2>7. ver' = [ver EXCEPT ![d][1] = [st |-> "pending", content |-> c]] BY <1>1 DEF Upload
  <2>8. claim' \in [Contents -> (Docs \X Versions) \cup {NoOne}]
    BY <1>1, <2>5 DEF Upload, TypeInv, TypeOK
  <2> QED BY <2>4, <2>5, <2>6, <2>7, <2>8, <2>3, VersionWritten, DocumentWritten DEF RowsTyped
<1>2. ASSUME NEW j \in Jobs, NEW v \in Versions, NEW c \in Contents, Replace(d, j, v, c)
      PROVE RowsTyped
  BY <1>2, SupplyTyped DEF Replace
<1>3. ASSUME NEW j \in Jobs, NEW v \in Versions, NEW s \in Versions, Restore(d, j, v, s)
      PROVE RowsTyped
  <2>1. ver[d][s].content \in Contents \cup {"none"} BY DEF TypeInv, TypeOK, VersionRow
  <2> QED BY <1>3, <2>1, SupplyTyped DEF Restore
<1>4. ASSUME NEW j \in Jobs, Reindex(d, j) PROVE RowsTyped
  <2>1. PICK x : x = [doc[d] EXCEPT !.op = j] OBVIOUS
  <2>2. doc[d] \in DocRow /\ j \in 0..MaxJobs BY DEF TypeInv, TypeOK, Jobs
  <2>3. x \in DocRow BY <2>1, <2>2 DEF DocRow
  <2>4. doc' = [doc EXCEPT ![d] = x] BY <1>4, <2>1 DEF Reindex, TypeInv, TypeOK
  <2> QED BY <1>4, <2>3, <2>4, DocumentWritten DEF RowsTyped, Reindex, TypeInv, TypeOK
<1> QED BY <1>1, <1>2, <1>3, <1>4 DEF Accepts

LEMMA ReplayTyped ==
    ASSUME TypeInv, NEW d \in Docs, NEW j \in Jobs, ReplayJob(d, j)
    PROVE  RowsTyped
<1> DEFINE v == job[d][j].v
<1>1. v \in Versions BY DEF ReplayJob, Over, TypeInv, JobHasVersion
<1>2. PICK x : x = [doc[d] EXCEPT !.op = j,
                                  !.pending = IF Reindexes(d, j) THEN doc[d].pending ELSE v]
  OBVIOUS
<1>3. doc[d] \in DocRow /\ v \in 0..MaxVersions /\ j \in 0..MaxJobs
  BY <1>1 DEF TypeInv, TypeOK, Versions, Jobs
<1>4. x \in DocRow BY <1>2, <1>3 DEF DocRow
<1>5. doc' = [doc EXCEPT ![d] = x] BY <1>2 DEF ReplayJob, TypeInv, TypeOK
<1>6. PICK y : y = [ver[d][v] EXCEPT !.st = "pending"] OBVIOUS
<1>7. ver[d][v] \in VersionRow BY <1>1 DEF TypeInv, TypeOK
<1>8. y \in VersionRow BY <1>6, <1>7 DEF VersionRow
<1>9. ver' = ver \/ ver' = [ver EXCEPT ![d][v] = y]
  BY <1>1, <1>6 DEF ReplayJob, TypeInv, TypeOK
<1>10. ver' \in [Docs -> [Versions -> VersionRow]]
  BY <1>1, <1>8, <1>9, VersionWritten DEF TypeInv, TypeOK
<1> QED BY <1>4, <1>5, <1>10, DocumentWritten DEF RowsTyped, ReplayJob, TypeInv, TypeOK

LEMMA ReclaimTyped ==
    ASSUME TypeInv, Reclaim
    PROVE  RowsTyped
<1>1. ASSUME NEW d \in Docs PROVE doc'[d] \in DocRow
  <2>1. Reindexes(d, doc[d].op) \in BOOLEAN BY DEF Reindexes
  <2>2. doc[d] \in DocRow /\ Release(doc[d], Reindexes(d, doc[d].op)) \in DocRow
    BY <2>1, ReleaseTyped DEF TypeInv, TypeOK
  <2> QED BY <2>2 DEF Reclaim
<1>2. ASSUME NEW d \in Docs, NEW v \in Versions PROVE ver'[d][v] \in VersionRow
  <2>1. ver[d][v] \in VersionRow BY DEF TypeInv, TypeOK
  <2>2. [ver[d][v] EXCEPT !.st = "failed"] \in VersionRow BY <2>1 DEF VersionRow
  <2> QED BY <2>1, <2>2 DEF Reclaim
<1> QED BY <1>1, <1>2 DEF RowsTyped, Reclaim, TypeInv, TypeOK

LEMMA PublishTyped ==
    ASSUME TypeInv, NEW d \in Docs, NEW j \in Jobs, job[d][j].st # "none", Publish(d, j)
    PROVE  RowsTyped
<1> DEFINE v == job[d][j].v
<1>1. v \in Versions /\ v \in 0..MaxVersions /\ doc[d] \in DocRow
  BY DEF TypeInv, TypeOK, JobHasVersion, Versions
<1>2. PICK y : y = Release(doc[d], FALSE) OBVIOUS
<1>3. y \in DocRow BY <1>1, <1>2, ReleaseTyped
<1>4. PICK x : x = [y EXCEPT !.active = v] OBVIOUS
<1>5. x \in DocRow BY <1>1, <1>3, <1>4 DEF DocRow
<1>6. doc' = [doc EXCEPT ![d] = x] BY <1>2, <1>4 DEF Publish, TypeInv, TypeOK
<1>7. ASSUME NEW u \in Versions PROVE Activated(d, v)[u] \in VersionRow
  <2>1. ver[d][u] \in VersionRow BY DEF TypeInv, TypeOK
  <2>2. /\ [ver[d][u] EXCEPT !.st = "active"] \in VersionRow
        /\ [ver[d][u] EXCEPT !.st = "superseded"] \in VersionRow
    BY <2>1 DEF VersionRow
  <2> QED BY <2>1, <2>2 DEF Activated
<1>8. Activated(d, v) \in [Versions -> VersionRow] BY <1>7 DEF Activated
<1>9. ver' \in [Docs -> [Versions -> VersionRow]]
  BY <1>8 DEF Publish, TypeInv, TypeOK
<1>10. claim' \in [Contents -> (Docs \X Versions) \cup {NoOne}]
  BY <1>1 DEF Publish, Claims, TypeInv, TypeOK
<1> QED BY <1>5, <1>6, <1>9, <1>10, DocumentWritten DEF RowsTyped

LEMMA TombstoneTyped ==
    ASSUME TypeInv, NEW d \in Docs, NEW gone, Tombstone(d, gone)
    PROVE  ver' \in [Docs -> [Versions -> VersionRow]]
<1>1. ASSUME NEW v \in Versions
      PROVE  ver[d][v] \in VersionRow /\ [ver[d][v] EXCEPT !.st = "purged"] \in VersionRow
  <2>1. ver[d][v] \in VersionRow BY DEF TypeInv, TypeOK
  <2> QED BY <2>1 DEF VersionRow
<1> QED BY <1>1 DEF Tombstone, TypeInv, TypeOK

LEMMA DeleteTyped ==
    ASSUME TypeInv, NEW d \in Docs, DeleteDocument(d)
    PROVE  RowsTyped
<1>1. PICK x : x = [NoDoc EXCEPT !.life = "pending_delete"] OBVIOUS
<1>2. 0 \in 0..MaxVersions /\ 0 \in 0..MaxJobs BY IngestionAssumption
<1>3. x \in DocRow BY <1>2, <1>1 DEF NoDoc, DocRow
<1>4. doc' = [doc EXCEPT ![d] = x] BY <1>1 DEF DeleteDocument
<1>5. ASSUME NEW v \in Versions
      PROVE  /\ ver[d][v] \in VersionRow
             /\ [ver[d][v] EXCEPT !.st = "superseded"] \in VersionRow
             /\ [ver[d][v] EXCEPT !.st = "cancelled"] \in VersionRow
  <2>1. ver[d][v] \in VersionRow BY DEF TypeInv, TypeOK
  <2> QED BY <2>1 DEF VersionRow
<1>6. ver' \in [Docs -> [Versions -> VersionRow]]
  BY <1>5 DEF DeleteDocument, TypeInv, TypeOK
<1>7. claim' \in [Contents -> (Docs \X Versions) \cup {NoOne}]
  BY DEF DeleteDocument, TypeInv, TypeOK
<1> QED BY <1>3, <1>4, <1>6, <1>7, DocumentWritten DEF RowsTyped

LEMMA FinalizeTyped ==
    ASSUME TypeInv, NEW d \in Docs, FinalizeDeletion(d)
    PROVE  RowsTyped
<1>1. PICK life \in {"deleted", "pending_delete"} :
        doc' = [doc EXCEPT ![d] = [@ EXCEPT !.sealed = TRUE, !.life = life]]
  BY DEF FinalizeDeletion
<1>2. PICK x : x = [doc[d] EXCEPT !.sealed = TRUE, !.life = life] OBVIOUS
<1>3. doc[d] \in DocRow BY DEF TypeInv, TypeOK
<1>4. x \in DocRow BY <1>2, <1>3 DEF DocRow
<1>5. doc' = [doc EXCEPT ![d] = x] BY <1>1, <1>2 DEF TypeInv, TypeOK
<1>6. UNCHANGED claim BY DEF FinalizeDeletion
<1>7. \E gone : Tombstone(d, gone) BY DEF FinalizeDeletion
<1> QED BY <1>4, <1>5, <1>6, <1>7, TombstoneTyped, DocumentWritten DEF RowsTyped, TypeInv, TypeOK

LEMMA StartPurgeTyped ==
    ASSUME TypeInv, NEW d \in Docs, NEW v \in Versions, StartPurge(d, v)
    PROVE  RowsTyped
<1>1. PICK x : x = [ver[d][v] EXCEPT !.st = "purging"] OBVIOUS
<1>2. ver[d][v] \in VersionRow BY DEF TypeInv, TypeOK
<1>3. x \in VersionRow BY <1>1, <1>2 DEF VersionRow
<1>4. ver' = [ver EXCEPT ![d][v] = x] BY <1>1 DEF StartPurge, TypeInv, TypeOK
<1>5. ver' \in [Docs -> [Versions -> VersionRow]] BY <1>3, <1>4, VersionWritten
<1>6. UNCHANGED <<doc, claim>> BY DEF StartPurge
<1> QED BY <1>5, <1>6 DEF RowsTyped, TypeInv, TypeOK

\* the workers' places, which a step of another actor leaves alone
WorkersGood ==
    /\ work' \in [Workers -> Worker]
    /\ \A w \in Workers : work'[w].pc # "idle" =>
         \/ work[w].pc # "idle" /\ work'[w].d = work[w].d /\ work'[w].j = work[w].j
         \/ work'[w].d \in Docs /\ work'[w].j \in Jobs /\ job[work'[w].d][work'[w].j].st # "none"

LEMMA IdleTyped == Idle \in Worker
BY IngestionAssumption DEF Idle, Worker

LEMMA WorkersKept == TypeInv /\ UNCHANGED work => WorkersGood
BY DEF TypeInv, TypeOK, WorkersGood

LEMMA Goes1 ==
    ASSUME TypeInv, NEW w \in Workers, work[w].pc # "idle", NEW x \in Worker, Goes(w, x),
           x.pc # "idle" => x.d = work[w].d /\ x.j = work[w].j
    PROVE  WorkersGood
<1>1. work' = [work EXCEPT ![w] = x] /\ work \in [Workers -> Worker]
  BY DEF Goes, TypeInv, TypeOK
<1> QED BY <1>1 DEF WorkersGood

LEMMA GoesIdle ==
    ASSUME TypeInv, NEW w \in Workers, work[w].pc # "idle", Goes(w, Idle)
    PROVE  WorkersGood
BY Goes1, IdleTyped DEF Idle

LEMMA GoesFailing ==
    ASSUME TypeInv, NEW w \in Workers, work[w].pc # "idle", NEW retry \in BOOLEAN,
           Goes(w, Failing(w, retry))
    PROVE  WorkersGood
<1>1. work[w] \in Worker BY DEF TypeInv, TypeOK
<1>2. Failing(w, retry) \in Worker /\ Failing(w, retry).d = work[w].d
      /\ Failing(w, retry).j = work[w].j
  BY <1>1 DEF Failing, Worker
<1> QED BY <1>2, Goes1

LEMMA StepWorkers ==
    ASSUME TypeInv, NEW w \in Workers, Step(w) \/ Crash(w)
    PROVE  WorkersGood
<1>1. work[w] \in Worker BY DEF TypeInv, TypeOK
<1>2. CASE CopyStart(w)
  <2>1. work[w].pc # "idle" BY <1>2 DEF CopyStart
  <2>2. CASE Goes(w, Idle) BY <2>1, <2>2, GoesIdle
  <2>3. ASSUME NEW source, source = job[work[w].d][work[w].j].hold,
               Goes(w, [At(w, "copying") EXCEPT !.src = source])
        PROVE  WorkersGood
    <3>1. source \in 0..MaxVersions BY <2>1, <2>3, WorkerJob DEF JobRow
    <3>2. PICK x : x = [At(w, "copying") EXCEPT !.src = source] OBVIOUS
    <3>3. x \in Worker /\ x.d = work[w].d /\ x.j = work[w].j
      BY <1>1, <3>1, <3>2 DEF At, Worker
    <3> QED BY <2>1, <2>3, <3>2, <3>3, Goes1
  <2> QED BY <1>2, <2>2, <2>3 DEF CopyStart
<1>3. CASE Copy(w)
  <2>1. work[w].pc # "idle" BY <1>3 DEF Copy
  <2>2. At(w, "copied") \in Worker /\ At(w, "copied").d = work[w].d
        /\ At(w, "copied").j = work[w].j
    BY <1>1 DEF At, Worker
  <2> QED BY <1>3, <2>1, <2>2, Goes1, GoesFailing DEF Copy
<1>4. CASE CopyFails(w) BY <1>4, GoesFailing DEF CopyFails
<1>5. CASE CopyRelease(w)
  <2>1. PICK x : x = [At(w, "claimed") EXCEPT !.src = 0] OBVIOUS
  <2>2. 0 \in 0..MaxVersions BY IngestionAssumption
  <2>3. x \in Worker /\ x.d = work[w].d /\ x.j = work[w].j
    BY <1>1, <2>1, <2>2 DEF At, Worker
  <2> QED BY <1>5, <2>1, <2>3, Goes1 DEF CopyRelease
<1>6. CASE ProcessFails(w) BY <1>6, GoesFailing DEF ProcessFails
<1>7. CASE Lost(w) BY <1>7, GoesIdle DEF Lost
<1>8. CASE Accept(w) BY <1>8, GoesIdle, GoesFailing DEF Accept
<1>9. CASE Fail(w) BY <1>9, GoesIdle DEF Fail
<1>10. CASE Crash(w) BY <1>10, GoesIdle DEF Crash, Busy
<1> QED BY <1>2, <1>3, <1>4, <1>5, <1>6, <1>7, <1>8, <1>9, <1>10 DEF Step

LEMMA ClaimWorkers ==
    ASSUME TypeInv, NEW w \in Workers, NEW d \in Docs, NEW j \in Jobs, Claim(w, d, j)
    PROVE  WorkersGood
<1>1. PICK pc \in {"restoring", "claimed"} :
        work' = [work EXCEPT ![w] = [Idle EXCEPT !.d = d, !.j = j, !.pc = pc,
                                         !.fence = job[d][j].fence + 1]]
  BY DEF Claim
<1>2. PICK x : x = [Idle EXCEPT !.d = d, !.j = j, !.pc = pc, !.fence = job[d][j].fence + 1]
  OBVIOUS
<1>3. job[d][j] \in JobRow BY DEF TypeInv, TypeOK
<1>4. job[d][j].fence + 1 \in Nat /\ j \in 0..MaxJobs BY <1>3 DEF JobRow, Jobs
<1>5. x = [pc |-> pc, d |-> d, j |-> j, fence |-> job[d][j].fence + 1, src |-> 0, retry |-> FALSE]
  BY <1>2 DEF Idle
<1>6. 0 \in 0..MaxVersions BY IngestionAssumption
<1>7. x \in Worker BY <1>4, <1>5, <1>6 DEF Worker
<1>8. work' = [work EXCEPT ![w] = x] /\ job[d][j].st # "none" BY <1>1, <1>2 DEF Claim
<1>9. work \in [Workers -> Worker] BY DEF TypeInv, TypeOK
<1> QED BY <1>5, <1>7, <1>8, <1>9 DEF WorkersGood

\* the tables beside the rows
RestTyped ==
    /\ stored' \subseteq Docs \X Versions /\ erased' \subseteq Docs \X Versions
    /\ generation' \in Generations /\ switches' \in 0..MaxSwitches
    /\ purged' \subseteq Generations \ {generation'}
    /\ lease' \in [Readers -> (Docs \X Versions) \cup {NoOne}]

LEMMA TypeNext ==
    ASSUME TypeInv, JobsGood, RowsTyped, WorkersGood, RestTyped
    PROVE  TypeInv'
<1>1. TypeOK' BY DEF TypeOK, JobsGood, RowsTyped, WorkersGood, RestTyped
<1>2. TriesLeft' /\ JobHasVersion' BY DEF JobsGood, TriesLeft, JobHasVersion
<1>3. WorkerHasJob' BY DEF JobsGood, WorkersGood, WorkerHasJob, Busy, TypeInv
<1> QED BY <1>1, <1>2, <1>3 DEF TypeInv

LEMMA RestKept == TypeInv /\ UNCHANGED <<stored, erased, index, lease>> => RestTyped
BY DEF TypeInv, TypeOK, RestTyped, index

\* the collection of an index generation only marks deletions
LEMMA CollectionMarks ==
    ASSUME TypeInv, NEW g \in Generations, PurgeGeneration(g)
    PROVE  /\ UNCHANGED <<ver, job, claim, stored, erased, work, lease>>
           /\ doc' \in [Docs -> DocRow]
           /\ \A d \in Docs :
                /\ doc'[d].life = doc[d].life /\ doc'[d].active = doc[d].active
                /\ doc'[d].pending = doc[d].pending /\ doc'[d].op = doc[d].op
                /\ doc'[d].sealed = doc[d].sealed
<1>1. doc \in [Docs -> DocRow] BY DEF TypeInv, TypeOK
<1>2. PICK listed \in SUBSET Docs :
        doc' = [d \in Docs |-> IF d \in listed THEN [doc[d] EXCEPT !.lost = TRUE] ELSE doc[d]]
  BY DEF PurgeGeneration, Unsealed
<1>3. ASSUME NEW d \in Docs
      PROVE  /\ doc'[d] \in DocRow
             /\ doc'[d].life = doc[d].life /\ doc'[d].active = doc[d].active
             /\ doc'[d].pending = doc[d].pending /\ doc'[d].op = doc[d].op
             /\ doc'[d].sealed = doc[d].sealed
  BY <1>1, <1>2 DEF DocRow
<1>4. UNCHANGED <<ver, job, claim, stored, erased, work, lease>> BY DEF PurgeGeneration
<1> QED BY <1>2, <1>3, <1>4

\* nothing but the tables beside the rows
LEMMA OnlyRest == TypeInv /\ RestTyped /\ UNCHANGED <<rows, work>> => TypeInv'
BY TypeNext, TableIsGood, RowsKept, WorkersKept DEF rows

LEMMA StepType ==
    ASSUME TypeInv, NEW w \in Workers, Step(w) \/ Crash(w)
    PROVE  TypeInv'
<1>1. WorkersGood BY StepWorkers
<1>2. CASE UNCHANGED rows /\ UNCHANGED <<stored, erased, index, lease>>
  BY <1>1, <1>2, TypeNext, TableIsGood, RowsKept, RestKept DEF rows
<1>3. CASE Copy(w)
  <2>1. UNCHANGED <<rows, erased, index, lease>> BY <1>3 DEF Copy
  <2>2. stored' \subseteq Docs \X Versions
    <3>1. work[w].d \in Docs /\ job[work[w].d][work[w].j].v \in Versions
      BY <1>3, WorkerJob DEF Copy
    <3>2. stored' \in {stored, stored \cup {<<work[w].d, job[work[w].d][work[w].j].v>>}}
      BY <1>3 DEF Copy
    <3>3. stored \subseteq Docs \X Versions BY DEF TypeInv, TypeOK
    <3> QED BY <3>1, <3>2, <3>3
  <2>3. RestTyped BY <2>1, <2>2 DEF RestTyped, TypeInv, TypeOK, index
  <2> QED BY <1>1, <2>1, <2>3, TypeNext, TableIsGood, RowsKept DEF rows
<1>4. CASE CopyRelease(w)
  <2>1. UNCHANGED <<doc, ver, claim, stored, erased, index, lease>> BY <1>4 DEF CopyRelease
  <2> QED BY <1>1, <1>4, <2>1, TypeNext, ReleaseHoldJobs, RowsKept, RestKept
<1>5. CASE Accept(w)
  <2>1. UNCHANGED <<stored, erased, index, lease>> BY <1>5 DEF Accept
  <2>2. CASE UNCHANGED rows BY <1>2, <2>1, <2>2
  <2>3. CASE Publish(work[w].d, work[w].j)
    BY <1>1, <1>5, <2>1, <2>3, TypeNext, AcceptJobs, PublishTyped, RestKept, WorkerJob DEF Accept
  <2> QED BY <1>5, <2>2, <2>3 DEF Accept
<1>6. CASE Fail(w)
  <2> DEFINE d == work[w].d
             j == work[w].j
  <2>1. UNCHANGED <<stored, erased, index, lease>> BY <1>6 DEF Fail
  <2>2. d \in Docs /\ j \in Jobs /\ job[d][j].st # "none" BY <1>6, WorkerJob DEF Fail
  <2>3. CASE UNCHANGED rows BY <1>2, <2>1, <2>3
  <2>4. CASE UNCHANGED <<doc, ver, claim>>
    BY <1>1, <1>6, <2>1, <2>4, TypeNext, FailJobs, RowsKept, RestKept
  <2>5. ASSUME NEW state \in {"dead_letter", "failed"}, Close(d, j, state, "failed")
        PROVE  TypeInv'
    <3>1. RowsTyped BY <2>2, <2>5, EndTyped DEF Close
    <3> QED BY <1>1, <1>6, <2>1, <3>1, TypeNext, FailJobs, RestKept
  <2> QED BY <1>6, <2>3, <2>4, <2>5 DEF Fail
<1> QED BY <1>2, <1>3, <1>4, <1>5, <1>6
       DEF Step, CopyStart, CopyFails, ProcessFails, Lost, Crash

LEMMA TypeStep ==
    ASSUME TypeInv, [Next]_vars
    PROVE  TypeInv'
<1>1. ASSUME NEW d \in Docs, Accepts(d) PROVE TypeInv'
  <2>1. UNCHANGED <<erased, index, work, lease>>
    BY <1>1 DEF Accepts, Upload, Replace, Restore, Reindex, Supply
  <2>2. stored' \subseteq Docs \X Versions
    BY <1>1, IngestionAssumption
       DEF Accepts, Upload, Replace, Restore, Reindex, TypeInv, TypeOK, Versions
  <2>3. RestTyped BY <2>1, <2>2 DEF RestTyped, TypeInv, TypeOK, index
  <2> QED BY <1>1, <2>1, <2>3, TypeNext, AcceptsJobs, AcceptsTyped, WorkersKept
<1>2. ASSUME NEW d \in Docs, NEW j \in Jobs, CancelJob(d, j) PROVE TypeInv'
  <2>1. UNCHANGED <<stored, erased, index, work, lease>> BY <1>2 DEF CancelJob
  <2>2. RowsTyped BY <1>2, EndTyped DEF CancelJob, Open
  <2> QED BY <1>2, <2>1, <2>2, TypeNext, CancelJobs, WorkersKept, RestKept
<1>3. ASSUME NEW d \in Docs, NEW j \in Jobs, ReplayJob(d, j) PROVE TypeInv'
  <2>1. UNCHANGED <<stored, erased, index, work, lease>> BY <1>3 DEF ReplayJob
  <2> QED BY <1>3, <2>1, TypeNext, ReplayJobs, ReplayTyped, WorkersKept, RestKept
<1>4. ASSUME NEW d \in Docs, NEW j \in Jobs, LeaseLapses(d, j) PROVE TypeInv'
  <2>1. UNCHANGED <<doc, ver, stored, erased, claim, index, work, lease>>
    BY <1>4 DEF LeaseLapses
  <2> QED BY <1>4, <2>1, TypeNext, LapseJobs, RowsKept, WorkersKept, RestKept
<1>5. ASSUME NEW d \in Docs, NEW j \in Jobs, NEW w \in Workers, Claim(w, d, j) PROVE TypeInv'
  <2>1. UNCHANGED <<doc, ver, stored, erased, claim, index, lease>> BY <1>5 DEF Claim
  <2> QED BY <1>5, <2>1, TypeNext, ClaimJobs, RowsKept, ClaimWorkers, RestKept
<1>6. CASE Reclaim
  <2>1. UNCHANGED <<stored, erased, index, work, lease>> BY <1>6 DEF Reclaim
  <2> QED BY <1>6, <2>1, TypeNext, ReclaimJobs, ReclaimTyped, WorkersKept, RestKept
<1>7. ASSUME NEW d \in Docs, NEW v \in Versions, StartPurge(d, v) PROVE TypeInv'
  <2>1. UNCHANGED <<job, stored, erased, index, work, lease>> BY <1>7 DEF StartPurge
  <2> QED BY <1>7, <2>1, TypeNext, TableIsGood, StartPurgeTyped, WorkersKept, RestKept
<1>8. ASSUME NEW d \in Docs, NEW v \in Versions, FinishPurge(d, v) PROVE TypeInv'
  <2>1. UNCHANGED <<doc, claim, stored, erased, index, work, lease>> BY <1>8 DEF FinishPurge
  <2>2. Tombstone(d, {v}) BY <1>8 DEF FinishPurge
  <2>3. RowsTyped BY <2>1, <2>2, TombstoneTyped DEF RowsTyped, TypeInv, TypeOK
  <2> QED BY <2>1, <2>2, <2>3, TypeNext, TombstoneJobs, WorkersKept, RestKept
<1>9. ASSUME NEW d \in Docs, DeleteDocument(d) PROVE TypeInv'
  <2>1. UNCHANGED <<stored, erased, index, work, lease>> BY <1>9 DEF DeleteDocument
  <2> QED BY <1>9, <2>1, TypeNext, DeleteJobs, DeleteTyped, WorkersKept, RestKept
<1>10. ASSUME NEW d \in Docs, FinalizeDeletion(d) PROVE TypeInv'
  <2>1. UNCHANGED <<stored, erased, claim, index, work, lease>> BY <1>10 DEF FinalizeDeletion
  <2>2. \E gone : Tombstone(d, gone) BY <1>10 DEF FinalizeDeletion
  <2>3. JobsGood BY <2>2, TombstoneJobs
  <2> QED BY <1>10, <2>1, <2>3, TypeNext, FinalizeTyped, WorkersKept, RestKept
<1>11. ASSUME NEW d \in Docs, NEW gone \in SUBSET Versions, EraseAll(d, gone) PROVE TypeInv'
  <2>1. UNCHANGED <<rows, index, work, lease>> BY <1>11 DEF EraseAll
  <2>2. stored' \subseteq Docs \X Versions /\ erased' \subseteq Docs \X Versions
    BY <1>11 DEF EraseAll, TypeInv, TypeOK
  <2>3. RestTyped BY <2>1, <2>2 DEF RestTyped, TypeInv, TypeOK, index
  <2> QED BY <2>1, <2>3, OnlyRest
<1>12. ASSUME NEW r \in Readers, NEW d \in Docs, NEW v \in Versions, Acquire(r, d, v) PROVE TypeInv'
  <2>1. UNCHANGED <<rows, stored, erased, index, work>> BY <1>12 DEF Acquire
  <2>2. RestTyped BY <1>12, <2>1 DEF Acquire, RestTyped, TypeInv, TypeOK, index
  <2> QED BY <2>1, <2>2, OnlyRest
<1>13. ASSUME NEW r \in Readers, ReadEnds(r) PROVE TypeInv'
  <2>1. UNCHANGED <<rows, stored, erased, index, work>> BY <1>13 DEF ReadEnds
  <2>2. RestTyped BY <1>13, <2>1 DEF ReadEnds, RestTyped, TypeInv, TypeOK, index
  <2> QED BY <2>1, <2>2, OnlyRest
<1>14. ASSUME NEW g \in Generations, SwitchGeneration(g) PROVE TypeInv'
  <2>1. UNCHANGED <<rows, stored, erased, work, lease>> BY <1>14 DEF SwitchGeneration
  <2>2. RestTyped
    BY <1>14, <2>1, IngestionAssumption DEF SwitchGeneration, RestTyped, TypeInv, TypeOK
  <2> QED BY <2>1, <2>2, OnlyRest
<1>15. ASSUME NEW g \in Generations, PurgeGeneration(g) PROVE TypeInv'
  <2>1. RowsTyped BY <1>15, CollectionMarks DEF RowsTyped, TypeInv, TypeOK
  <2>2. RestTyped BY <1>15 DEF PurgeGeneration, RestTyped, TypeInv, TypeOK
  <2> QED BY <1>15, <2>1, <2>2, CollectionMarks, TypeNext, TableIsGood, WorkersKept
<1>16. CASE UNCHANGED vars
  BY <1>16, OnlyRest, RestKept DEF vars, rows
<1> QED
  <2>1. ASSUME NEW d \in Docs, EraseDocument(d) PROVE TypeInv'
    BY <1>11, <2>1 DEF EraseDocument, Known
  <2>2. ASSUME NEW d \in Docs, NEW v \in Versions, EraseVersion(d, v) PROVE TypeInv'
    BY <1>11, <2>2 DEF EraseVersion
  <2> QED BY <1>1, <1>2, <1>3, <1>4, <1>5, <1>6, <1>7, <1>8, <1>9, <1>10, <1>12, <1>13, <1>14,
             <1>15, <1>16, <2>1, <2>2, StepType DEF Next, Accepts

LEMMA TypeInit == Init => TypeInv
<1> SUFFICES ASSUME Init PROVE TypeInv OBVIOUS
<1> USE IngestionAssumption DEF Init
<1>1. NoDoc \in DocRow
  BY DEF NoDoc, DocRow
<1>2. NoVersion \in VersionRow BY DEF NoVersion, VersionRow
<1>3. NoJob \in JobRow
  <2>1. 0 \in 0..MaxVersions /\ 0 \in 0..MaxTries OBVIOUS
  <2> QED BY <2>1 DEF NoJob, JobRow
<1>4. TypeOK BY <1>1, <1>2, <1>3, IdleTyped DEF TypeOK
<1> QED BY <1>4 DEF TypeInv, TriesLeft, JobHasVersion, WorkerHasJob, Busy, NoJob, Idle

\* Every row keeps its type: attempts stay within their number, rows name
\* versions and jobs that exist, and a worker always has a job of its own
\* (the tables of schema.py)
THEOREM TypeCorrect == Spec => []TypeOK
<1>1. TypeInv => TypeOK BY DEF TypeInv
<1> QED BY <1>1, TypeInit, TypeStep, PTL DEF Spec

-----------------------------------------------------------------------------
(* One operation at a time *)

\* a document's row, with the active version it names
DocInv(d) ==
    /\ Operates(d)
    /\ doc[d].active # 0 => ver[d][doc[d].active].st = "active"

OpInv == TypeInv /\ \A d \in Docs : DocInv(d)

\* the job is still open, about the same version and base
SameJob(d, i) ==
    /\ job'[d][i].st \in Open <=> job[d][i].st \in Open
    /\ job'[d][i].v = job[d][i].v /\ job'[d][i].base = job[d][i].base
\* the versions in use stay as they are
SameVersion(d, v) ==
    ver[d][v].st \in {"active", "pending"} => ver'[d][v].st = ver[d][v].st

LEMMA OpenJobsSame ==
    ASSUME NEW d \in Docs, \A i \in Jobs : SameJob(d, i)
    PROVE  /\ OpenJobs(d)' = OpenJobs(d)
           /\ \A i \in Jobs : Reindexes(d, i)' = Reindexes(d, i)
BY DEF OpenJobs, SameJob, Reindexes

\* the active job is open, its version pending or active
LEMMA Operation ==
    ASSUME TypeInv, NEW d \in Docs, DocInv(d)
    PROVE  /\ doc[d].op # 0 => doc[d].op \in OpenJobs(d) /\ doc[d].life = "active"
           /\ \A j \in OpenJobs(d) : j = doc[d].op
           /\ doc[d].op \in 0..MaxJobs /\ doc[d].active \in 0..MaxVersions
           /\ doc[d].pending \in 0..MaxVersions
BY DEF DocInv, Operates, TypeInv, TypeOK, DocRow

LEMMA SameDocument ==
    ASSUME TypeInv, NEW d \in Docs, DocInv(d),
           doc'[d].life = doc[d].life, doc'[d].active = doc[d].active,
           doc'[d].pending = doc[d].pending, doc'[d].op = doc[d].op,
           \A i \in Jobs : SameJob(d, i), \A v \in Versions : SameVersion(d, v)
    PROVE  DocInv(d)'
<1>1. OpenJobs(d)' = OpenJobs(d) BY OpenJobsSame
<1>2. doc[d].active # 0 => doc[d].active \in Versions
  BY Operation DEF Versions
<1>3. doc[d].pending # 0 => doc[d].pending \in Versions
  BY Operation DEF Versions
<1>4. doc[d].op # 0 => doc[d].op \in Jobs /\ SameJob(d, doc[d].op)
  BY Operation DEF OpenJobs
<1>5. (doc[d].active # 0 => ver[d][doc[d].active].st = "active")'
  BY <1>2 DEF DocInv, SameVersion
<1>6. Operates(d)'
  <2>1. (doc[d].op # 0 => job[d][doc[d].op].base = doc[d].active)'
    BY <1>4 DEF DocInv, Operates, SameJob
  <2>2. (doc[d].op # 0 =>
           doc[d].pending = IF Reindexes(d, doc[d].op) THEN 0 ELSE job[d][doc[d].op].v)'
    BY <1>4 DEF DocInv, Operates, SameJob, Reindexes
  <2>3. (doc[d].op # 0 /\ doc[d].pending # 0 => ver[d][doc[d].pending].st = "pending")'
    BY <1>3 DEF DocInv, Operates, SameVersion
  <2> QED BY <1>1, <2>1, <2>2, <2>3 DEF DocInv, Operates
<1> QED BY <1>5, <1>6 DEF DocInv

\* the end of the active job
LEMMA Ended ==
    ASSUME TypeInv, NEW d \in Docs, DocInv(d), NEW j \in OpenJobs(d),
           doc'[d] = Release(doc[d], Reindexes(d, j)),
           job'[d][j].st \notin Open,
           \A i \in Jobs \ {j} : SameJob(d, i),
           \A u \in Versions : Reindexes(d, j) \/ u # job[d][j].v => SameVersion(d, u)
    PROVE  DocInv(d)'
<1>1. j = doc[d].op /\ j \in Jobs /\ j # 0 /\ doc[d].life = "active"
  BY Operation DEF OpenJobs, Jobs
<1>2. OpenJobs(d)' = {} BY <1>1, Operation DEF OpenJobs, SameJob
<1>3. doc[d] \in DocRow BY DEF TypeInv, TypeOK
<1>4. /\ doc'[d].op = 0 /\ doc'[d].pending = 0 /\ doc'[d].active = doc[d].active
      /\ doc'[d].life = doc[d].life
  BY <1>1, <1>3 DEF Release, DocRow, DocInv, Operates
<1>5. doc[d].active # 0 => SameVersion(d, doc[d].active)
  <2> SUFFICES ASSUME doc[d].active # 0 PROVE SameVersion(d, doc[d].active) OBVIOUS
  <2>1. doc[d].active \in Versions BY Operation DEF Versions
  <2>2. ~ Reindexes(d, j) => job[d][j].v # doc[d].active
    BY <1>1 DEF DocInv, Operates, Reindexes
  <2> QED BY <2>1, <2>2
<1>6. Operates(d)' BY <1>1, <1>2, <1>4 DEF Operates
<1> QED BY <1>4, <1>5, <1>6 DEF DocInv, SameVersion

\* the start of a job on a document without one
LEMMA Begun ==
    ASSUME TypeInv, NEW d \in Docs, DocInv(d), NEW j \in Jobs, NEW v \in Versions,
           doc[d].op = 0, doc'[d].life = "active", doc'[d].op = j,
           doc'[d].active = doc[d].active,
           doc'[d].pending = IF v = doc[d].active THEN 0 ELSE v,
           job'[d][j].st = "pending", job'[d][j].v = v, job'[d][j].base = doc[d].active,
           \A i \in Jobs \ {j} : job'[d][i] = job[d][i],
           v # doc[d].active => ver'[d][v].st = "pending",
           \A u \in Versions \ {v} : ver'[d][u] = ver[d][u],
           v = doc[d].active => ver'[d] = ver[d]
    PROVE  DocInv(d)'
<1>1. j # 0 /\ v # 0 BY DEF Jobs, Versions
<1>2. OpenJobs(d) = {} BY DEF DocInv, Operates
<1>3. OpenJobs(d)' = {j} BY <1>2 DEF OpenJobs, Open
<1>4. Reindexes(d, j)' <=> v = doc[d].active BY DEF Reindexes
<1>5. Operates(d)' BY <1>1, <1>3, <1>4 DEF Operates
<1>6. doc[d].active # 0 => doc[d].active \in Versions BY Operation DEF Versions
<1>7. (doc[d].active # 0 => ver[d][doc[d].active].st = "active")'
  BY <1>6 DEF DocInv
<1> QED BY <1>5, <1>7 DEF DocInv

LEMMA UntouchedDocument ==
    ASSUME TypeInv, NEW d \in Docs, DocInv(d),
           doc'[d] = doc[d], ver'[d] = ver[d], job'[d] = job[d]
    PROVE  DocInv(d)'
BY SameDocument DEF SameJob, SameVersion

\* an operation on document d leaves the others alone
Only(d) == \A e \in Docs \ {d} : doc'[e] = doc[e] /\ ver'[e] = ver[e] /\ job'[e] = job[e]

LEMMA OnlyOne ==
    ASSUME OpInv, NEW d \in Docs, Only(d), DocInv(d)'
    PROVE  \A e \in Docs : DocInv(e)'
BY UntouchedDocument DEF OpInv, Only

LEMMA AcceptsOp ==
    ASSUME OpInv, NEW d \in Docs, Accepts(d)
    PROVE  \A e \in Docs : DocInv(e)'
<1> USE DEF OpInv
<1>1. /\ doc \in [Docs -> DocRow] /\ ver \in [Docs -> [Versions -> VersionRow]]
      /\ job \in [Docs -> [Jobs -> JobRow]] /\ doc[d] \in DocRow
  BY DEF TypeInv, TypeOK
<1>2. ASSUME NEW c \in Contents, Upload(d, c) PROVE DocInv(d)' /\ Only(d)
  <2>1. 1 \in Versions /\ 1 \in Jobs BY IngestionAssumption DEF Versions, Jobs
  <2>2. doc[d].op = 0 /\ doc[d].active = 0 BY <1>2 DEF Upload, DocInv, Operates
  <2>3. /\ doc'[d] = [NoDoc EXCEPT !.life = "active", !.pending = 1, !.op = 1]
        /\ ver'[d] = [ver[d] EXCEPT ![1] = [st |-> "pending", content |-> c]]
    BY <1>1, <1>2, <2>1 DEF Upload
  <2>4. /\ doc'[d].life = "active" /\ doc'[d].active = 0 /\ doc'[d].pending = 1 /\ doc'[d].op = 1
    BY <2>3 DEF NoDoc
  <2>5. /\ job'[d][1].st = "pending" /\ job'[d][1].v = 1 /\ job'[d][1].base = 0
        /\ \A i \in Jobs \ {1} : job'[d][i] = job[d][i]
    BY <1>1, <1>2, <2>1 DEF Upload, Submit
  <2>6. ver'[d][1].st = "pending" /\ \A u \in Versions \ {1} : ver'[d][u] = ver[d][u]
    BY <1>1, <2>1, <2>3
  <2>7. DocInv(d)' BY <2>1, <2>2, <2>4, <2>5, <2>6, Begun
  <2>8. Only(d) BY <1>1, <1>2 DEF Upload, Submit, Only
  <2> QED BY <2>7, <2>8
<1>3. ASSUME NEW j \in Jobs, NEW v \in Versions, NEW c, NEW hold,
             Writable(d), Supply(d, j, v, c, hold)
      PROVE  DocInv(d)' /\ Only(d)
  <2>1. doc[d].op = 0 /\ doc[d].life = "active" BY <1>3 DEF Writable
  <2>2. v # doc[d].active BY <1>3 DEF Supply, NextVersion, DocInv, Versions
  <2>3. /\ doc'[d] = [doc[d] EXCEPT !.pending = v, !.op = j]
        /\ ver'[d] = [ver[d] EXCEPT ![v] = [st |-> "pending", content |-> c]]
    BY <1>1, <1>3 DEF Supply
  <2>4. /\ doc'[d].life = "active" /\ doc'[d].active = doc[d].active
        /\ doc'[d].pending = v /\ doc'[d].op = j
    BY <1>1, <2>1, <2>3 DEF DocRow
  <2>5. /\ job'[d][j].st = "pending" /\ job'[d][j].v = v /\ job'[d][j].base = doc[d].active
        /\ \A i \in Jobs \ {j} : job'[d][i] = job[d][i]
    BY <1>1, <1>3 DEF Supply, Submit
  <2>6. ver'[d][v].st = "pending" /\ \A u \in Versions \ {v} : ver'[d][u] = ver[d][u]
    BY <1>1, <2>3
  <2>7. DocInv(d)' BY <2>1, <2>2, <2>4, <2>5, <2>6, Begun
  <2>8. Only(d) BY <1>1, <1>3 DEF Supply, Submit, Only
  <2> QED BY <2>7, <2>8
<1>4. ASSUME NEW j \in Jobs, Reindex(d, j) PROVE DocInv(d)' /\ Only(d)
  <2>1. doc[d].op = 0 /\ doc[d].life = "active" /\ doc[d].pending = 0
    BY <1>4 DEF Reindex, Writable, DocInv, Operates
  <2>2. doc[d].active \in Versions BY <1>4, Operation DEF Reindex, Versions
  <2>3. doc'[d] = [doc[d] EXCEPT !.op = j] /\ ver' = ver BY <1>1, <1>4 DEF Reindex
  <2>4. /\ doc'[d].life = "active" /\ doc'[d].active = doc[d].active
        /\ doc'[d].pending = 0 /\ doc'[d].op = j
    BY <1>1, <2>1, <2>3 DEF DocRow
  <2>5. /\ job'[d][j].st = "pending" /\ job'[d][j].v = doc[d].active
        /\ job'[d][j].base = doc[d].active
        /\ \A i \in Jobs \ {j} : job'[d][i] = job[d][i]
    BY <1>1, <1>4 DEF Reindex, Submit
  <2>6. DocInv(d)' BY <2>1, <2>2, <2>3, <2>4, <2>5, Begun
  <2>7. Only(d) BY <1>1, <1>4 DEF Reindex, Submit, Only
  <2> QED BY <2>6, <2>7
<1> QED BY <1>2, <1>3, <1>4, OnlyOne DEF Accepts, Replace, Restore

LEMMA ReplayOp ==
    ASSUME OpInv, NEW d \in Docs, NEW j \in Jobs, ReplayJob(d, j)
    PROVE  \A e \in Docs : DocInv(e)'
<1> DEFINE v == job[d][j].v
<1> USE DEF OpInv
<1>1. /\ doc \in [Docs -> DocRow] /\ ver \in [Docs -> [Versions -> VersionRow]]
      /\ job \in [Docs -> [Jobs -> JobRow]] /\ doc[d] \in DocRow
      /\ job[d][j] \in JobRow /\ v \in Versions
  BY DEF ReplayJob, Over, TypeInv, TypeOK, JobHasVersion
<1>2. doc[d].op = 0
  <2>1. j \notin OpenJobs(d) BY DEF OpenJobs, ReplayJob, Open, Over
  <2> QED BY <2>1, Operation DEF ReplayJob
<1>3. doc[d].pending = 0 /\ doc[d].life = "active" /\ job[d][j].base = doc[d].active
  BY <1>2 DEF DocInv, Operates, ReplayJob
<1>4. Reindexes(d, j) <=> v = doc[d].active BY <1>3 DEF Reindexes
<1>5. /\ doc'[d].life = "active" /\ doc'[d].active = doc[d].active /\ doc'[d].op = j
      /\ doc'[d].pending = IF v = doc[d].active THEN 0 ELSE v
  <2>1. doc'[d] = [doc[d] EXCEPT !.op = j,
                       !.pending = IF Reindexes(d, j) THEN doc[d].pending ELSE v]
    BY <1>1 DEF ReplayJob
  <2> QED BY <1>1, <1>3, <1>4, <2>1 DEF DocRow
<1>6. /\ job'[d][j].st = "pending" /\ job'[d][j].v = v /\ job'[d][j].base = doc[d].active
      /\ \A i \in Jobs \ {j} : job'[d][i] = job[d][i]
  <2>1. job'[d][j] = [job[d][j] EXCEPT !.st = "pending", !.tries = 0, !.replays = 1,
                                       !.pub = "staged", !.gen = generation]
    BY <1>1 DEF ReplayJob
  <2>2. \A i \in Jobs \ {j} : job'[d][i] = job[d][i] BY <1>1 DEF ReplayJob
  <2> QED BY <1>1, <1>3, <2>1, <2>2 DEF JobRow
<1>7. /\ v # doc[d].active => ver'[d][v].st = "pending"
      /\ \A u \in Versions \ {v} : ver'[d][u] = ver[d][u]
      /\ v = doc[d].active => ver'[d] = ver[d]
  <2>1. CASE v = doc[d].active BY <1>4, <2>1 DEF ReplayJob
  <2>2. CASE v # doc[d].active
    <3>1. ver' = [ver EXCEPT ![d][v].st = "pending"] BY <1>4, <2>2 DEF ReplayJob
    <3> QED BY <1>1, <2>2, <3>1 DEF VersionRow
  <2> QED BY <2>1, <2>2
<1>8. DocInv(d)' BY <1>1, <1>2, <1>5, <1>6, <1>7, Begun
<1>9. Only(d) BY <1>1 DEF ReplayJob, Only
<1> QED BY <1>8, <1>9, OnlyOne

\* a cancellation or a terminal failure of the active job
LEMMA CloseOp ==
    ASSUME OpInv, NEW d \in Docs, NEW j \in OpenJobs(d), NEW x,
           x.st \notin Open, job' = [job EXCEPT ![d][j] = x],
           doc' = [doc EXCEPT ![d] = Release(@, Reindexes(d, j))],
           NEW state, EndVersion(d, j, state)
    PROVE  \A e \in Docs : DocInv(e)'
<1> USE DEF OpInv
<1>1. /\ doc \in [Docs -> DocRow] /\ ver \in [Docs -> [Versions -> VersionRow]]
      /\ job \in [Docs -> [Jobs -> JobRow]] /\ j \in Jobs
  BY DEF TypeInv, TypeOK, OpenJobs
<1>2. doc'[d] = Release(doc[d], Reindexes(d, j)) BY <1>1
<1>3. job'[d][j].st \notin Open /\ \A i \in Jobs \ {j} : SameJob(d, i)
  BY <1>1 DEF SameJob
<1>4. \A u \in Versions : Reindexes(d, j) \/ u # job[d][j].v => SameVersion(d, u)
  BY <1>1 DEF EndVersion, SameVersion
<1>5. DocInv(d)' BY <1>2, <1>3, <1>4, Ended
<1>6. Only(d) BY <1>1 DEF EndVersion, Only
<1> QED BY <1>5, <1>6, OnlyOne

LEMMA CancelOp ==
    ASSUME OpInv, NEW d \in Docs, NEW j \in Jobs, CancelJob(d, j)
    PROVE  \A e \in Docs : DocInv(e)'
<1>1. j \in OpenJobs(d) BY DEF CancelJob, OpenJobs
<1>2. job \in [Docs -> [Jobs -> JobRow]] /\ job[d][j] \in JobRow BY DEF OpInv, TypeInv, TypeOK
<1>3. PICK x : x = Cancelled(job[d][j]) OBVIOUS
<1>4. x.st = "cancelled"
  BY <1>2, <1>3 DEF Cancelled, Stop, JobRow
<1>5. job' = [job EXCEPT ![d][j] = x] BY <1>2, <1>3 DEF CancelJob
<1> QED BY <1>1, <1>4, <1>5, CloseOp DEF CancelJob, Open

\* the jobs of a document change, its row and versions do not
LEMMA SameOp ==
    ASSUME OpInv, UNCHANGED doc,
           \A d \in Docs : /\ \A i \in Jobs : SameJob(d, i)
                           /\ \A v \in Versions : SameVersion(d, v)
    PROVE  \A e \in Docs : DocInv(e)'
BY SameDocument DEF OpInv

\* one job goes on, in another state or not
LEMMA OneJobGoesOn ==
    ASSUME OpInv, UNCHANGED <<doc, ver>>, NEW d \in Docs, NEW j \in Jobs, NEW x \in JobRow,
           job' = [job EXCEPT ![d][j] = x], x.v = job[d][j].v, x.base = job[d][j].base,
           x.st \in Open <=> job[d][j].st \in Open
    PROVE  \A e \in Docs : DocInv(e)'
<1>1. job \in [Docs -> [Jobs -> JobRow]] BY DEF OpInv, TypeInv, TypeOK
<1>2. ASSUME NEW e \in Docs, NEW i \in Jobs PROVE SameJob(e, i)
  BY <1>1 DEF SameJob
<1> QED BY <1>2, SameOp DEF SameVersion

LEMMA ClaimOp ==
    ASSUME OpInv, NEW w \in Workers, NEW d \in Docs, NEW j \in Jobs, Claim(w, d, j)
    PROVE  \A e \in Docs : DocInv(e)'
<1>1. job \in [Docs -> [Jobs -> JobRow]] /\ job[d][j] \in JobRow BY DEF OpInv, TypeInv, TypeOK
<1>2. PICK x : x = Claimed(job[d][j]) OBVIOUS
<1>3. x \in JobRow BY <1>2, ClaimedIsGood DEF OpInv, RowGood, Claim
<1>4. x.v = job[d][j].v /\ x.base = job[d][j].base /\ x.st = "running"
  BY <1>1, <1>2 DEF Claimed, JobRow
<1>5. job' = [job EXCEPT ![d][j] = x] BY <1>1, <1>2 DEF Claim
<1>6. UNCHANGED <<doc, ver>> BY DEF Claim
<1> QED BY <1>3, <1>4, <1>5, <1>6, OneJobGoesOn, ZenonT(40) DEF Claim, Open

LEMMA LapseOp ==
    ASSUME OpInv, NEW d \in Docs, NEW j \in Jobs, LeaseLapses(d, j)
    PROVE  \A e \in Docs : DocInv(e)'
<1>1. job \in [Docs -> [Jobs -> JobRow]] /\ job[d][j] \in JobRow BY DEF OpInv, TypeInv, TypeOK
<1>2. PICK x : x = [job[d][j] EXCEPT !.lapsed = TRUE] OBVIOUS
<1>3. x \in JobRow /\ x.v = job[d][j].v /\ x.base = job[d][j].base /\ x.st = job[d][j].st
  BY <1>1, <1>2 DEF JobRow
<1>4. job' = [job EXCEPT ![d][j] = x] BY <1>1, <1>2 DEF LeaseLapses
<1>5. UNCHANGED <<doc, ver>> BY DEF LeaseLapses
<1> QED BY <1>3, <1>4, <1>5, OneJobGoesOn

LEMMA ReclaimOp ==
    ASSUME OpInv, Reclaim
    PROVE  \A e \in Docs : DocInv(e)'
<1> SUFFICES ASSUME NEW d \in Docs PROVE DocInv(d)' OBVIOUS
<1> USE DEF OpInv
<1>1. DocInv(d) /\ \A i \in Jobs : job[d][i] \in JobRow BY DEF TypeInv, TypeOK
<1>2. \A i \in Jobs : <<d, i>> \in Expired => i = doc[d].op
  BY Operation DEF Expired, OpenJobs, Open
<1>3. ASSUME NEW i \in Jobs PROVE
        /\ <<d, i>> \notin Exhausted => SameJob(d, i)
        /\ <<d, i>> \in Exhausted => job'[d][i].st \notin Open
  <2>1. job'[d][i] = IF <<d, i>> \notin Expired THEN job[d][i]
                     ELSE Stop(job[d][i], IF <<d, i>> \in Exhausted THEN "dead_letter"
                                                                    ELSE "retry_wait")
    BY DEF Reclaim
  <2>2. \A s : /\ Stop(job[d][i], s).st = s /\ Stop(job[d][i], s).v = job[d][i].v
               /\ Stop(job[d][i], s).base = job[d][i].base
    BY <1>1 DEF Stop, JobRow
  <2>3. CASE <<d, i>> \notin Expired BY <2>1, <2>3 DEF SameJob, Exhausted
  <2>4. CASE <<d, i>> \in Expired
    <3>1. job[d][i].st = "running" BY <2>4 DEF Expired
    <3> QED BY <2>1, <2>2, <2>4, <3>1 DEF SameJob, Open
  <2> QED BY <2>3, <2>4
<1>4. ASSUME NEW u \in Versions,
             \A i \in Jobs : <<d, i>> \in Exhausted => Reindexes(d, i) \/ job[d][i].v # u
      PROVE  SameVersion(d, u)
  BY <1>4 DEF Reclaim, SameVersion
<1>5. CASE \A i \in Jobs : <<d, i>> \notin Exhausted
  <2>1. doc'[d] = doc[d]
    BY <1>5 DEF Reclaim, Exhausted, Expired
  <2> QED BY <1>1, <1>3, <1>4, <1>5, <2>1, SameDocument
<1>6. ASSUME NEW j \in Jobs, <<d, j>> \in Exhausted PROVE DocInv(d)'
  <2>1. j = doc[d].op /\ \A i \in Jobs \ {j} : <<d, i>> \notin Exhausted
    BY <1>2, <1>6 DEF Exhausted
  <2>2. j \in OpenJobs(d) BY <1>6 DEF Exhausted, Expired, OpenJobs, Open
  <2>3. doc'[d] = Release(doc[d], Reindexes(d, j)) BY <1>6, <2>1 DEF Reclaim
  <2>4. \A u \in Versions : Reindexes(d, j) \/ u # job[d][j].v => SameVersion(d, u)
    BY <1>4, <2>1
  <2> QED BY <1>1, <1>3, <1>6, <2>1, <2>2, <2>3, <2>4, Ended
<1> QED BY <1>5, <1>6

LEMMA PublishOp ==
    ASSUME OpInv, NEW d \in Docs, NEW j \in Jobs, job[d][j].st = "running", doc[d].op = j,
           Unmoved(d, j), Publish(d, j)
    PROVE  \A e \in Docs : DocInv(e)'
<1> DEFINE v == job[d][j].v
<1> USE DEF OpInv
<1>1. /\ doc \in [Docs -> DocRow] /\ ver \in [Docs -> [Versions -> VersionRow]]
      /\ job \in [Docs -> [Jobs -> JobRow]] /\ doc[d] \in DocRow /\ job[d][j] \in JobRow
      /\ v \in Versions /\ j # 0 /\ v # 0
  <2>1. v \in Versions BY DEF TypeInv, JobHasVersion
  <2>2. j # 0 /\ v # 0 BY <2>1 DEF Jobs, Versions
  <2>3. doc[d] \in DocRow /\ job[d][j] \in JobRow BY DEF TypeInv, TypeOK
  <2> QED BY <2>1, <2>2, <2>3 DEF TypeInv, TypeOK
<1>2. doc[d].life = "active" /\ OpenJobs(d) = {j}
  BY <1>1 DEF DocInv, Operates
<1>3. doc'[d] = [Release(doc[d], FALSE) EXCEPT !.active = v]
  BY <1>1 DEF Publish
<1>4. /\ doc'[d].life = "active" /\ doc'[d].op = 0 /\ doc'[d].pending = 0 /\ doc'[d].active = v
  BY <1>1, <1>2, <1>3 DEF Release, DocRow
<1>5. job'[d] = Publications(d, j) BY <1>1 DEF Publish
<1>6. ASSUME NEW i \in Jobs PROVE job'[d][i].st \notin Open
  <2>1. CASE i = j BY <1>1, <1>5, <2>1 DEF Publications, JobRow, Open
  <2>2. CASE i # j
    <3>1. job[d][i].st \notin Open /\ job[d][i] \in JobRow BY <1>1, <1>2, <2>2 DEF OpenJobs
    <3> QED BY <1>5, <2>2, <3>1 DEF Publications, JobRow
  <2> QED BY <2>1, <2>2
<1>7. OpenJobs(d)' = {} BY <1>6 DEF OpenJobs
<1>8. ver'[d][v].st = "active"
  <2>1. CASE Reindexes(d, j)
    <3>1. v = doc[d].active BY <2>1 DEF Unmoved, Reindexes
    <3> QED BY <1>1, <2>1, <3>1 DEF Publish, DocInv
  <2>2. CASE ~ Reindexes(d, j)
    <3>1. ver' = [ver EXCEPT ![d] = Activated(d, v)] BY <2>2 DEF Publish
    <3>2. ver[d][v] \in VersionRow BY <1>1
    <3> QED BY <1>1, <3>1, <3>2 DEF Activated, VersionRow
  <2> QED BY <2>1, <2>2
<1>9. DocInv(d)' BY <1>4, <1>7, <1>8 DEF DocInv, Operates
<1>10. Only(d) BY <1>1 DEF Publish, Only
<1> QED BY <1>9, <1>10, OnlyOne

LEMMA FailOp ==
    ASSUME OpInv, NEW w \in Workers, Fail(w)
    PROVE  \A e \in Docs : DocInv(e)'
<1> DEFINE d == work[w].d
           j == work[w].j
<1>1. d \in Docs /\ j \in Jobs /\ job[d][j] \in JobRow BY WorkerJob DEF Fail, OpInv
<1>2. job \in [Docs -> [Jobs -> JobRow]] BY DEF OpInv, TypeInv, TypeOK
<1>3. CASE UNCHANGED rows BY <1>3, UntouchedDocument DEF rows, OpInv
<1>4. \A s : Stop(job[d][j], s).st = s BY <1>1 DEF Stop, JobRow
<1>5. CASE /\ Current(w) /\ job[d][j].tries < MaxTries
           /\ job' = [job EXCEPT ![d][j] = Stop(@, "retry_wait")]
           /\ UNCHANGED <<doc, ver, claim>>
  <2>1. PICK x : x = Stop(job[d][j], "retry_wait") OBVIOUS
  <2>2. x \in JobRow
    <3>1. job[d][j].st # "none" BY <1>5 DEF Current
    <3> QED BY <1>1, <1>5, <2>1, <3>1, StopIsGood DEF OpInv, RowGood
  <2>3. x.v = job[d][j].v /\ x.base = job[d][j].base /\ x.st = "retry_wait"
    BY <1>1, <2>1 DEF Stop, JobRow
  <2>4. job' = [job EXCEPT ![d][j] = x] BY <1>1, <1>2, <1>5, <2>1
  <2>5. job[d][j].st = "running" BY <1>5 DEF Current
  <2> QED BY <1>1, <1>5, <2>2, <2>3, <2>4, <2>5, OneJobGoesOn DEF Open
<1>6. ASSUME NEW state \in {"dead_letter", "failed"}, Current(w), Close(d, j, state, "failed")
      PROVE  \A e \in Docs : DocInv(e)'
  <2>1. PICK x : x = Stop(job[d][j], state) OBVIOUS
  <2>2. x.st \notin Open BY <1>4, <2>1 DEF Open
  <2>3. job' = [job EXCEPT ![d][j] = x] BY <1>1, <1>2, <1>6, <2>1 DEF Close
  <2>4. j \in OpenJobs(d) BY <1>1, <1>6 DEF Current, OpenJobs, Open
  <2> QED BY <1>1, <1>6, <2>2, <2>3, <2>4, CloseOp DEF Close
<1> QED BY <1>3, <1>5, <1>6 DEF Fail

LEMMA WorkerOp ==
    ASSUME OpInv, NEW w \in Workers, Step(w) \/ Crash(w)
    PROVE  \A e \in Docs : DocInv(e)'
<1>1. CASE UNCHANGED rows BY <1>1, UntouchedDocument DEF rows, OpInv
<1>2. CASE CopyRelease(w)
  <2>1. UNCHANGED <<doc, ver, claim>> BY <1>2 DEF CopyRelease
  <2>2. CASE ~ Current(w) BY <1>1, <1>2, <2>1, <2>2 DEF CopyRelease, rows
  <2>3. CASE Current(w)
    <3> DEFINE d == work[w].d
               j == work[w].j
    <3>1. d \in Docs /\ j \in Jobs /\ job[d][j] \in JobRow
      BY <1>2, WorkerJob DEF CopyRelease, OpInv
    <3>2. PICK x : x = [job[d][j] EXCEPT !.hold = 0] OBVIOUS
    <3>3. 0 \in 0..MaxVersions BY IngestionAssumption
    <3>4. x \in JobRow /\ x.v = job[d][j].v /\ x.base = job[d][j].base /\ x.st = job[d][j].st
      BY <3>1, <3>2, <3>3 DEF JobRow
    <3>5. job' = [job EXCEPT ![d][j] = x]
      BY <1>2, <2>3, <3>1, <3>2 DEF CopyRelease, OpInv, TypeInv, TypeOK
    <3> QED BY <2>1, <3>1, <3>4, <3>5, OneJobGoesOn
  <2> QED BY <2>2, <2>3
<1>3. CASE Accept(w)
  <2> DEFINE d == work[w].d
             j == work[w].j
  <2>1. d \in Docs /\ j \in Jobs BY <1>3, WorkerJob DEF Accept, OpInv
  <2>2. CASE Held(w) /\ doc[d].op = j /\ Unmoved(d, j) /\ Publish(d, j)
    BY <2>1, <2>2, PublishOp DEF Held, Current
  <2> QED BY <1>1, <1>3, <2>2 DEF Accept
<1>4. CASE Fail(w) BY <1>4, FailOp
<1> QED BY <1>1, <1>2, <1>3, <1>4
       DEF Step, CopyStart, Copy, CopyFails, ProcessFails, Lost, Crash

LEMMA PurgeOp ==
    ASSUME OpInv, NEW d \in Docs, NEW v \in Versions, StartPurge(d, v) \/ FinishPurge(d, v)
    PROVE  \A e \in Docs : DocInv(e)'
<1> USE DEF OpInv
<1>1. /\ doc \in [Docs -> DocRow] /\ ver \in [Docs -> [Versions -> VersionRow]]
      /\ job \in [Docs -> [Jobs -> JobRow]]
  BY DEF TypeInv, TypeOK
<1>2. ver[d][v].st \notin {"active", "pending"} BY DEF StartPurge, FinishPurge
<1>3. UNCHANGED doc BY DEF StartPurge, FinishPurge
<1>4. ASSUME NEW e \in Docs, NEW i \in Jobs PROVE SameJob(e, i)
  <2>1. CASE UNCHANGED job BY <2>1 DEF SameJob
  <2>2. CASE Tombstone(d, {v})
    <3>1. job[e][i] \in JobRow BY <1>1
    <3>2. job'[e][i] \in {job[e][i], [job[e][i] EXCEPT !.hold = 0]}
      BY <1>1, <2>2 DEF Tombstone
    <3> QED BY <3>1, <3>2 DEF SameJob, JobRow
  <2> QED BY <2>1, <2>2 DEF StartPurge, FinishPurge
<1>5. ASSUME NEW e \in Docs, NEW u \in Versions PROVE SameVersion(e, u)
  <2>1. CASE e = d /\ u = v BY <1>2, <2>1 DEF SameVersion
  <2>2. CASE ~(e = d /\ u = v)
    BY <1>1, <2>2 DEF SameVersion, StartPurge, FinishPurge, Tombstone
  <2> QED BY <2>1, <2>2
<1> QED BY <1>3, <1>4, <1>5, SameOp

LEMMA DeleteOp ==
    ASSUME OpInv, NEW d \in Docs, DeleteDocument(d)
    PROVE  \A e \in Docs : DocInv(e)'
<1> USE DEF OpInv
<1>1. /\ doc \in [Docs -> DocRow] /\ ver \in [Docs -> [Versions -> VersionRow]]
      /\ job \in [Docs -> [Jobs -> JobRow]]
  BY DEF TypeInv, TypeOK
<1>2. /\ doc'[d].op = 0 /\ doc'[d].pending = 0 /\ doc'[d].active = 0
  BY <1>1 DEF DeleteDocument, NoDoc
<1>3. ASSUME NEW i \in Jobs PROVE job'[d][i].st \notin Open
  <2>1. job[d][i] \in JobRow BY <1>1
  <2>2. job'[d][i] = IF job[d][i].st \in Open THEN Stop(job[d][i], "cancelled")
                     ELSE IF job[d][i].pub = "active"
                          THEN [job[d][i] EXCEPT !.pub = "superseded"] ELSE job[d][i]
    BY <1>1 DEF DeleteDocument
  <2>3. Stop(job[d][i], "cancelled").st = "cancelled" BY <2>1 DEF Stop, JobRow
  <2>4. [job[d][i] EXCEPT !.pub = "superseded"].st = job[d][i].st BY <2>1 DEF JobRow
  <2>5. "cancelled" \notin Open BY DEF Open
  <2> QED BY <2>2, <2>3, <2>4, <2>5
<1>4. OpenJobs(d)' = {} BY <1>3 DEF OpenJobs
<1>5. DocInv(d)' BY <1>2, <1>4 DEF DocInv, Operates
<1>6. Only(d) BY <1>1 DEF DeleteDocument, Only
<1> QED BY <1>5, <1>6, OnlyOne

LEMMA FinalizeOp ==
    ASSUME OpInv, NEW d \in Docs, FinalizeDeletion(d)
    PROVE  \A e \in Docs : DocInv(e)'
<1> USE DEF OpInv
<1>1. /\ doc \in [Docs -> DocRow] /\ ver \in [Docs -> [Versions -> VersionRow]]
      /\ job \in [Docs -> [Jobs -> JobRow]] /\ doc[d] \in DocRow
  BY DEF TypeInv, TypeOK
<1>2. doc[d].op = 0 /\ doc[d].active = 0 /\ doc[d].pending = 0 /\ OpenJobs(d) = {}
  BY DEF FinalizeDeletion, DocInv, Operates
<1>3. PICK life : doc'[d] = [doc[d] EXCEPT !.sealed = TRUE, !.life = life]
  BY <1>1 DEF FinalizeDeletion
<1>4. doc'[d].op = 0 /\ doc'[d].active = 0 /\ doc'[d].pending = 0
  BY <1>1, <1>2, <1>3 DEF DocRow
<1>5. PICK gone : Tombstone(d, gone) BY DEF FinalizeDeletion
<1>6. ASSUME NEW i \in Jobs PROVE job'[d][i].st = job[d][i].st
  <2>1. job[d][i] \in JobRow BY <1>1
  <2>2. job'[d][i] \in {job[d][i], [job[d][i] EXCEPT !.hold = 0]}
    BY <1>1, <1>5 DEF Tombstone
  <2> QED BY <2>1, <2>2 DEF JobRow
<1>7. OpenJobs(d)' = {} BY <1>2, <1>6 DEF OpenJobs
<1>8. DocInv(d)' BY <1>4, <1>7 DEF DocInv, Operates
<1>9. Only(d) BY <1>1, <1>5 DEF FinalizeDeletion, Tombstone, Only
<1> QED BY <1>8, <1>9, OnlyOne

LEMMA OpStep ==
    ASSUME OpInv, [Next]_vars
    PROVE  OpInv'
<1>1. TypeInv' BY TypeStep DEF OpInv
<1>2. CASE UNCHANGED rows BY <1>1, <1>2, UntouchedDocument DEF rows, OpInv
<1>3. ASSUME NEW d \in Docs, Accepts(d) PROVE OpInv' BY <1>1, <1>3, AcceptsOp DEF OpInv
<1>4. ASSUME NEW d \in Docs, NEW j \in Jobs,
             \/ CancelJob(d, j) \/ ReplayJob(d, j) \/ LeaseLapses(d, j)
             \/ \E w \in Workers : Claim(w, d, j)
      PROVE  OpInv'
  BY <1>1, <1>4, CancelOp, ReplayOp, LapseOp, ClaimOp DEF OpInv
<1>5. ASSUME NEW d \in Docs, NEW v \in Versions, StartPurge(d, v) \/ FinishPurge(d, v)
      PROVE  OpInv'
  BY <1>1, <1>5, PurgeOp DEF OpInv
<1>6. ASSUME NEW d \in Docs, DeleteDocument(d) \/ FinalizeDeletion(d) PROVE OpInv'
  BY <1>1, <1>6, DeleteOp, FinalizeOp DEF OpInv
<1>7. CASE Reclaim BY <1>1, <1>7, ReclaimOp DEF OpInv
<1>8. ASSUME NEW w \in Workers, Step(w) \/ Crash(w) PROVE OpInv'
  BY <1>1, <1>8, WorkerOp DEF OpInv
<1>9. ASSUME NEW g \in Generations, PurgeGeneration(g) PROVE OpInv'
  BY <1>1, <1>9, CollectionMarks, SameDocument DEF OpInv, SameJob, SameVersion
<1> QED BY <1>2, <1>3, <1>4, <1>5, <1>6, <1>7, <1>8, <1>9
       DEF Next, Accepts, EraseDocument, EraseVersion, EraseAll, Acquire, ReadEnds,
           SwitchGeneration, vars, rows

LEMMA OpInit == Init => OpInv
<1> SUFFICES ASSUME Init PROVE \A d \in Docs : DocInv(d) BY TypeInit DEF OpInv
<1> QED BY DEF Init, DocInv, Operates, OpenJobs, Open, NoDoc, NoJob

\* A document never has two operations in progress, its row always names the
\* one there is, and the versions that row names are the ones that operation
\* was accepted with (every handler of service.py and jobs.py)
THEOREM OneOp == Spec => []OneOperation
<1>1. OpInv => OneOperation BY DEF OpInv, DocInv, OneOperation
<1> QED BY <1>1, OpInit, OpStep, PTL DEF Spec

-----------------------------------------------------------------------------
(* Fences *)

LEMMA StaleStep ==
    ASSUME TypeInv, [Next]_vars, NEW w \in Workers, Busy(w), Stale(w), work'[w] # work[w]
    PROVE  UNCHANGED rows
<1>1. work \in [Workers -> Worker] BY DEF TypeInv, TypeOK
<1>2. ~ Current(w) /\ ~ Held(w) BY DEF Stale, Current, Held
<1>3. CASE Step(w) \/ Crash(w)
  BY <1>2, <1>3 DEF Step, CopyStart, Copy, CopyFails, CopyRelease, ProcessFails, Lost, Accept,
     Fail, Crash, rows
<1>4. ASSUME NEW o \in Workers, o # w, Step(o) \/ Crash(o) PROVE FALSE
  <2>1. PICK x : Goes(o, x)
    BY <1>4 DEF Step, CopyStart, Copy, CopyFails, CopyRelease, ProcessFails, Lost, Accept, Fail,
       Crash
  <2> QED BY <1>1, <1>4, <2>1 DEF Goes
<1>5. ASSUME NEW o \in Workers, NEW d \in Docs, NEW j \in Jobs, Claim(o, d, j) PROVE FALSE
  <2>1. o # w BY <1>5 DEF Claim
  <2> QED BY <1>1, <1>5, <2>1 DEF Claim
<1>6. work' # work OBVIOUS
<1>7. ASSUME NEW d \in Docs, Accepts(d) PROVE FALSE
  BY <1>6, <1>7 DEF Accepts, Upload, Replace, Restore, Supply, Reindex
<1>8. ASSUME NEW d \in Docs, NEW j \in Jobs,
             CancelJob(d, j) \/ ReplayJob(d, j) \/ LeaseLapses(d, j)
      PROVE  FALSE
  BY <1>6, <1>8 DEF CancelJob, ReplayJob, LeaseLapses
<1>9. ASSUME NEW d \in Docs, NEW v \in Versions,
             \/ StartPurge(d, v) \/ EraseVersion(d, v) \/ FinishPurge(d, v)
             \/ \E r \in Readers : Acquire(r, d, v)
      PROVE  FALSE
  BY <1>6, <1>9 DEF StartPurge, EraseVersion, EraseAll, FinishPurge, Acquire
<1>10. ASSUME NEW d \in Docs, DeleteDocument(d) \/ EraseDocument(d) \/ FinalizeDeletion(d)
      PROVE  FALSE
  BY <1>6, <1>10 DEF DeleteDocument, EraseDocument, EraseAll, FinalizeDeletion
<1>11. ~ Reclaim /\ ~ (\E r \in Readers : ReadEnds(r))
       /\ ~ (\E g \in Generations : SwitchGeneration(g) \/ PurgeGeneration(g)) /\ ~ UNCHANGED vars
  BY <1>6 DEF Reclaim, ReadEnds, SwitchGeneration, PurgeGeneration, vars
<1> QED BY <1>3, <1>4, <1>5, <1>7, <1>8, <1>9, <1>10, <1>11 DEF Next, Accepts

\* A worker that lost its attempt, however it did, changes no document, version,
\* job or claim in the step it takes next (the fences of service.py)
THEOREM StaleTokens == Spec => StaleTokenChangesNothing
<1>1. TypeInv /\ [Next]_vars =>
        [\A w \in Workers : Busy(w) /\ Stale(w) /\ work'[w] # work[w] => UNCHANGED rows]_vars
  BY StaleStep
<1> QED BY <1>1, TypeInit, TypeStep, PTL DEF Spec, StaleTokenChangesNothing

-----------------------------------------------------------------------------
(* What a step does to the rows of one document *)

\* a job in the middle of its life
JobGoesOn(d, i) ==
    /\ \/ job'[d][i].st = job[d][i].st
       \/ job[d][i].st \in Open /\ job'[d][i].st \in Open
    /\ job'[d][i].v = job[d][i].v /\ job'[d][i].base = job[d][i].base
    /\ job'[d][i].replays = job[d][i].replays
    /\ job'[d][i].hold \in {job[d][i].hold, 0}
    /\ job'[d][i].pub = "active" <=> job[d][i].pub = "active"

\* nothing begins and nothing ends
GoesOn(d) ==
    /\ doc'[d] = doc[d] /\ ver'[d] = ver[d]
    /\ \A i \in Jobs : JobGoesOn(d, i)

\* job j begins, about version v
Begins(d, j, v) ==
    /\ doc[d].op = 0 /\ doc[d].life \in {"absent", "active"}
    /\ doc'[d].op = j /\ doc'[d].life = "active" /\ ~ doc'[d].sealed
    /\ doc'[d].active = doc[d].active
    /\ doc'[d].pending = IF v = doc[d].active THEN 0 ELSE v
    /\ job[d][j].st \in Over \cup {"none"}
    /\ job'[d][j].st = "pending" /\ job'[d][j].v = v /\ job'[d][j].base = doc[d].active
    /\ job'[d][j].pub = "staged"
    /\ \A i \in Jobs \ {j} : job'[d][i] = job[d][i]
    /\ \A u \in Versions \ {v} : ver'[d][u] = ver[d][u]
    /\ v = doc[d].active => ver'[d] = ver[d]
    /\ v # doc[d].active => ver'[d][v].st = "pending"

\* ... which is new, or restored from the version it holds
Supplies(d, j, v) ==
    /\ Begins(d, j, v)
    /\ NextVersion(d, v) /\ v # doc[d].active /\ ver'[d][v].content \in Contents
    /\ job[d][j].st = "none"
    /\ job'[d][j].hold # 0 => ver[d][job'[d][j].hold].st = "superseded"
\* ... which is the active one
Rebuilds(d, j) ==
    /\ Begins(d, j, doc[d].active)
    /\ doc[d].life = "active" /\ doc[d].active \in Versions
    /\ job[d][j].st = "none" /\ job'[d][j].hold = 0
\* ... which it was about before
Replays(d, j) ==
    /\ Begins(d, j, job[d][j].v)
    /\ doc[d].life = "active" /\ job[d][j].v \in Versions /\ job'[d][j].replays = 1
    /\ job[d][j].st \in Over /\ job[d][j].base = doc[d].active
    /\ ver[d][job[d][j].v].st \notin {"purging", "purged"}
    /\ ver'[d][job[d][j].v].content = ver[d][job[d][j].v].content

\* job j ends without a publication
Ends(d, j) ==
    /\ j = doc[d].op /\ doc[d].life = "active" /\ doc'[d].life = "active"
    /\ doc'[d].op = 0 /\ doc'[d].pending = 0 /\ doc'[d].active = doc[d].active
    /\ doc'[d].sealed = doc[d].sealed
    /\ job[d][j].st \in Open /\ job'[d][j].st \in Over /\ job'[d][j].pub # "active"
    /\ job'[d][j].v = job[d][j].v /\ job'[d][j].base = job[d][j].base
    /\ \A i \in Jobs \ {j} : job'[d][i] = job[d][i]
    /\ \A u \in Versions : \/ ver'[d][u] = ver[d][u]
                           \/ /\ u # doc[d].active /\ u = job[d][j].v
                              /\ ver'[d][u].st \in {"failed", "cancelled"}
                              /\ ver'[d][u].content = ver[d][u].content

\* job j ends with the publication of its version
Publishes(d, j) ==
    /\ j = doc[d].op /\ doc[d].life = "active" /\ doc'[d].life = "active"
    /\ doc'[d].op = 0 /\ doc'[d].pending = 0 /\ doc'[d].active = job[d][j].v
    /\ doc'[d].sealed = doc[d].sealed
    /\ job[d][j].base = doc[d].active
    /\ job[d][j].st = "running" /\ job'[d][j].st = "succeeded" /\ job'[d][j].pub = "active"
    /\ \A i \in Jobs : /\ job'[d][i].v = job[d][i].v /\ job'[d][i].base = job[d][i].base
                       /\ job'[d][i].hold = job[d][i].hold
                       /\ i # j => job'[d][i].st = job[d][i].st /\ job'[d][i].pub # "active"
    /\ \A u \in Versions : ver'[d][u].content = ver[d][u].content
    /\ \A u \in Versions :
         ver'[d][u].st = IF u = job[d][j].v THEN "active"
                         ELSE IF u = doc[d].active THEN "superseded" ELSE ver[d][u].st

\* everything of it ends
Deletes(d) ==
    /\ doc[d].life = "active" /\ doc'[d].life = "pending_delete"
    /\ doc'[d].active = 0 /\ doc'[d].op = 0 /\ doc'[d].pending = 0 /\ ~ doc'[d].sealed
    /\ \A i \in Jobs : /\ job'[d][i].st \notin Open /\ job'[d][i].pub # "active"
                       /\ job'[d][i].v = job[d][i].v /\ job'[d][i].base = job[d][i].base
                       /\ job'[d][i].st = "none" <=> job[d][i].st = "none"
    /\ \A u \in Versions : /\ ver'[d][u].content = ver[d][u].content
                           /\ \/ ver'[d][u].st = ver[d][u].st /\ ver[d][u].st \notin {"active", "pending"}
                              \/ ver'[d][u].st \in {"superseded", "cancelled"}
                                   /\ ver[d][u].st \in {"active", "pending"}

\* versions in gone are purged, or begin to be
Purges(d, gone) ==
    /\ \/ doc'[d].life = doc[d].life
       \/ doc[d].life = "pending_delete" /\ doc'[d].life = "deleted"
    /\ doc'[d].active = doc[d].active /\ doc'[d].op = doc[d].op /\ doc'[d].pending = doc[d].pending
    /\ \A i \in Jobs : JobGoesOn(d, i)
    /\ \A i \in OpenJobs(d) : job'[d][i].hold = 0 \/ job[d][i].hold \notin gone
    /\ \A u \in Versions \ gone : ver'[d][u] = ver[d][u]
    /\ doc'[d].sealed => \/ doc[d].sealed
                         \/ doc[d].life = "pending_delete" /\ \A u \in Known(d) : ~ Read(d, u)
    /\ \A u \in gone : /\ ver[d][u].st # "none"
                       /\ ver[d][u].st = "purging" \/ ~ Read(d, u)
                       /\ doc[d].life = "active" => ver[d][u].st \notin {"active", "pending"}
                       /\ ver'[d][u].content = ver[d][u].content
                       /\ ver'[d][u].st \in {"purging", "purged"}

DocStep(d) ==
    \/ GoesOn(d) \/ Deletes(d)
    \/ \E j \in Jobs : \/ Rebuilds(d, j) \/ Replays(d, j) \/ Ends(d, j) \/ Publishes(d, j)
                      \/ \E v \in Versions : Supplies(d, j, v)
    \/ \E gone \in SUBSET Versions : Purges(d, gone)

\* a publication that is in service belongs to a job that succeeded, and every
\* version has a content
PublishedIsOver == \A d \in Docs, j \in Jobs :
    job[d][j].pub = "active" => job[d][j].st = "succeeded"
HasContent == \A d \in Docs, v \in Versions :
    ver[d][v].st # "none" => ver[d][v].content \in Contents

\* a deletion is sealed only after it was accepted
SealedIsDeleted == \A d \in Docs : doc[d].sealed => doc[d].life \in {"pending_delete", "deleted"}

\* what has not been uploaded has no versions
AbsentIsEmpty == \A d \in Docs, v \in Versions : doc[d].life = "absent" => ver[d][v].st = "none"

\* versions are made in order, a job is about one of them, none older than its base
InOrder == \A d \in Docs, v \in Versions :
    ver[d][v].st # "none" => \A u \in 1..(v - 1) : ver[d][u].st # "none"
JobsGoForward == \A d \in Docs, j \in Jobs : job[d][j].st # "none" =>
    ver[d][job[d][j].v].st # "none" /\ job[d][j].v >= job[d][j].base

RowsInv == /\ OpInv /\ PublishedIsOver /\ HasContent /\ SealedIsDeleted /\ AbsentIsEmpty
           /\ InOrder /\ JobsGoForward

LEMMA Tables ==
    ASSUME RowsInv
    PROVE  /\ doc \in [Docs -> DocRow] /\ ver \in [Docs -> [Versions -> VersionRow]]
           /\ job \in [Docs -> [Jobs -> JobRow]]
BY DEF RowsInv, OpInv, TypeInv, TypeOK

\* what one document does leaves the others as they are
LEMMA OthersGoOn ==
    ASSUME NEW d \in Docs, Only(d), DocStep(d)
    PROVE  \A e \in Docs : DocStep(e)
<1> SUFFICES ASSUME NEW e \in Docs, e # d PROVE GoesOn(e) BY DEF DocStep
<1> QED BY DEF Only, GoesOn, JobGoesOn

LEMMA SupplyMoves ==
    ASSUME RowsInv, NEW d \in Docs, NEW j \in Jobs, NEW v \in Versions, NEW c \in Contents,
           NEW hold \in 0..MaxVersions, hold # 0 => ver[d][hold].st = "superseded",
           Writable(d), Supply(d, j, v, c, hold)
    PROVE  Supplies(d, j, v) /\ Only(d)
<1>1. /\ doc \in [Docs -> DocRow] /\ ver \in [Docs -> [Versions -> VersionRow]]
      /\ job \in [Docs -> [Jobs -> JobRow]] /\ doc[d] \in DocRow
  BY Tables
<1>2. doc[d].op = 0 /\ doc[d].life = "active" BY DEF Writable
<1>3. v # doc[d].active BY DEF Supply, NextVersion, RowsInv, OpInv, DocInv, Versions
<1>4. doc'[d] = [doc[d] EXCEPT !.pending = v, !.op = j] BY <1>1 DEF Supply
<1>5. /\ doc'[d].life = "active" /\ doc'[d].active = doc[d].active
      /\ doc'[d].pending = v /\ doc'[d].op = j /\ doc'[d].sealed = doc[d].sealed
  BY <1>1, <1>2, <1>4 DEF DocRow
<1>6. ~ doc[d].sealed BY <1>2 DEF RowsInv, SealedIsDeleted
<1>7. /\ job'[d][j].st = "pending" /\ job'[d][j].v = v /\ job'[d][j].base = doc[d].active
      /\ job'[d][j].pub = "staged" /\ job'[d][j].hold = hold
      /\ \A i \in Jobs \ {j} : job'[d][i] = job[d][i]
  BY <1>1 DEF Supply, Submit
<1>8. /\ ver'[d][v].st = "pending" /\ ver'[d][v].content = c
      /\ \A u \in Versions \ {v} : ver'[d][u] = ver[d][u]
  BY <1>1 DEF Supply
<1>9. NextVersion(d, v) /\ job[d][j].st = "none" BY DEF Supply, NextJob
<1>10. Supplies(d, j, v)
  BY <1>2, <1>3, <1>5, <1>6, <1>7, <1>8, <1>9 DEF Supplies, Begins
<1>11. Only(d) BY <1>1 DEF Supply, Submit, Only
<1> QED BY <1>10, <1>11

LEMMA AcceptsMoves ==
    ASSUME RowsInv, NEW d \in Docs, Accepts(d)
    PROVE  \A e \in Docs : DocStep(e)
<1>1. /\ doc \in [Docs -> DocRow] /\ ver \in [Docs -> [Versions -> VersionRow]]
      /\ job \in [Docs -> [Jobs -> JobRow]] /\ doc[d] \in DocRow
  BY Tables
<1>2. 0 \in 0..MaxVersions /\ Versions \subseteq 0..MaxVersions
  BY IngestionAssumption DEF Versions
<1>3. ASSUME NEW c \in Contents, Upload(d, c) PROVE Supplies(d, 1, 1) /\ Only(d)
  <2>1. 1 \in Versions /\ 1 \in Jobs BY IngestionAssumption DEF Versions, Jobs
  <2>2. doc[d].op = 0 /\ doc[d].active = 0 /\ doc[d].life = "absent"
    BY <1>3 DEF Upload, RowsInv, OpInv, DocInv, Operates
  <2>3. doc'[d] = [NoDoc EXCEPT !.life = "active", !.pending = 1, !.op = 1]
    BY <1>1, <1>3 DEF Upload
  <2>4. /\ doc'[d].life = "active" /\ doc'[d].active = 0 /\ doc'[d].pending = 1 /\ doc'[d].op = 1
        /\ doc'[d].sealed = FALSE
    BY <2>3 DEF NoDoc
  <2>5. /\ job'[d][1].st = "pending" /\ job'[d][1].v = 1 /\ job'[d][1].base = 0
        /\ job'[d][1].pub = "staged" /\ job'[d][1].hold = 0
        /\ \A i \in Jobs \ {1} : job'[d][i] = job[d][i]
    BY <1>1, <1>3, <2>1 DEF Upload, Submit
  <2>6. /\ ver'[d][1].st = "pending" /\ ver'[d][1].content = c
        /\ \A u \in Versions \ {1} : ver'[d][u] = ver[d][u]
    BY <1>1, <1>3, <2>1 DEF Upload
  <2>7. NextVersion(d, 1) /\ job[d][1].st = "none"
    BY <1>3, <2>1, <2>2 DEF NextVersion, Upload, NextJob, RowsInv, AbsentIsEmpty
  <2>8. Supplies(d, 1, 1) BY <2>1, <2>2, <2>4, <2>5, <2>6, <2>7 DEF Supplies, Begins
  <2>9. Only(d) BY <1>1, <1>3 DEF Upload, Submit, Only
  <2> QED BY <2>8, <2>9
<1>4. ASSUME NEW j \in Jobs, NEW v \in Versions, NEW c \in Contents, Replace(d, j, v, c)
      PROVE  Supplies(d, j, v) /\ Only(d)
  BY <1>2, <1>4, SupplyMoves DEF Replace
<1>5. ASSUME NEW j \in Jobs, NEW v \in Versions, NEW s \in Versions, Restore(d, j, v, s)
      PROVE  Supplies(d, j, v) /\ Only(d)
  <2>1. ver[d][s].content \in Contents BY <1>5 DEF Restore, RowsInv, HasContent
  <2>2. ver[d][s].st = "superseded" /\ Writable(d) /\ Supply(d, j, v, ver[d][s].content, s)
    BY <1>5 DEF Restore
  <2> QED BY <1>2, <2>1, <2>2, SupplyMoves
<1>6. ASSUME NEW j \in Jobs, Reindex(d, j) PROVE Rebuilds(d, j) /\ Only(d)
  <2>1. doc[d].op = 0 /\ doc[d].life = "active" /\ doc[d].pending = 0 /\ ~ doc[d].sealed
    BY <1>6 DEF Reindex, Writable, RowsInv, SealedIsDeleted, OpInv, DocInv, Operates
  <2>2. doc[d].active \in Versions BY <1>1, <1>6 DEF Reindex, Versions, DocRow
  <2>3. doc'[d] = [doc[d] EXCEPT !.op = j] /\ ver' = ver BY <1>1, <1>6 DEF Reindex
  <2>4. /\ doc'[d].life = "active" /\ doc'[d].active = doc[d].active
        /\ doc'[d].pending = 0 /\ doc'[d].op = j /\ doc'[d].sealed = doc[d].sealed
    BY <1>1, <2>1, <2>3 DEF DocRow
  <2>5. /\ job'[d][j].st = "pending" /\ job'[d][j].v = doc[d].active
        /\ job'[d][j].base = doc[d].active /\ job'[d][j].pub = "staged" /\ job'[d][j].hold = 0
        /\ \A i \in Jobs \ {j} : job'[d][i] = job[d][i]
    BY <1>1, <1>6 DEF Reindex, Submit
  <2>6. job[d][j].st = "none" BY <1>6 DEF Reindex, NextJob
  <2>7. Rebuilds(d, j) BY <2>1, <2>2, <2>3, <2>4, <2>5, <2>6 DEF Rebuilds, Begins
  <2>8. Only(d) BY <1>1, <1>6 DEF Reindex, Submit, Only
  <2> QED BY <2>7, <2>8
<1>7. 1 \in Versions /\ 1 \in Jobs BY IngestionAssumption DEF Versions, Jobs
<1>8. Only(d) /\ DocStep(d) BY <1>3, <1>4, <1>5, <1>6, <1>7 DEF Accepts, DocStep
<1> QED BY <1>8, OthersGoOn

LEMMA ReplayMoves ==
    ASSUME RowsInv, NEW d \in Docs, NEW j \in Jobs, ReplayJob(d, j)
    PROVE  \A e \in Docs : DocStep(e)
<1> DEFINE v == job[d][j].v
<1>1. /\ doc \in [Docs -> DocRow] /\ ver \in [Docs -> [Versions -> VersionRow]]
      /\ job \in [Docs -> [Jobs -> JobRow]] /\ doc[d] \in DocRow /\ job[d][j] \in JobRow
  BY Tables
<1>2. v \in Versions BY DEF ReplayJob, Over, RowsInv, OpInv, TypeInv, JobHasVersion
<1>3. doc[d].op = 0
  <2>1. j \notin OpenJobs(d) BY DEF OpenJobs, ReplayJob, Open, Over
  <2> QED BY <2>1, Operation DEF ReplayJob, RowsInv, OpInv
<1>4. /\ doc[d].pending = 0 /\ doc[d].life = "active" /\ job[d][j].base = doc[d].active
      /\ ~ doc[d].sealed
  BY <1>3 DEF RowsInv, SealedIsDeleted, OpInv, DocInv, Operates, ReplayJob
<1>5. Reindexes(d, j) <=> v = doc[d].active BY <1>4 DEF Reindexes
<1>6. /\ doc'[d].life = "active" /\ doc'[d].active = doc[d].active /\ doc'[d].op = j
      /\ doc'[d].pending = IF v = doc[d].active THEN 0 ELSE v
      /\ doc'[d].sealed = doc[d].sealed
  <2>1. doc'[d] = [doc[d] EXCEPT !.op = j,
                       !.pending = IF Reindexes(d, j) THEN doc[d].pending ELSE v]
    BY <1>1 DEF ReplayJob
  <2> QED BY <1>1, <1>4, <1>5, <2>1 DEF DocRow
<1>7. /\ job'[d][j].st = "pending" /\ job'[d][j].v = v /\ job'[d][j].base = doc[d].active
      /\ job'[d][j].pub = "staged" /\ job'[d][j].replays = 1
      /\ \A i \in Jobs \ {j} : job'[d][i] = job[d][i]
  <2>1. job'[d][j] = [job[d][j] EXCEPT !.st = "pending", !.tries = 0, !.replays = 1,
                                       !.pub = "staged", !.gen = generation]
    BY <1>1 DEF ReplayJob
  <2>2. \A i \in Jobs \ {j} : job'[d][i] = job[d][i] BY <1>1 DEF ReplayJob
  <2> QED BY <1>1, <1>4, <2>1, <2>2 DEF JobRow
<1>8. /\ v # doc[d].active => ver'[d][v].st = "pending"
      /\ ver'[d][v].content = ver[d][v].content
      /\ \A u \in Versions \ {v} : ver'[d][u] = ver[d][u]
      /\ v = doc[d].active => ver'[d] = ver[d]
  <2>1. CASE v = doc[d].active BY <1>5, <2>1 DEF ReplayJob
  <2>2. CASE v # doc[d].active
    <3>1. ver' = [ver EXCEPT ![d][v].st = "pending"] BY <1>5, <2>2 DEF ReplayJob
    <3> QED BY <1>1, <1>2, <2>2, <3>1 DEF VersionRow
  <2> QED BY <2>1, <2>2
<1>9. job[d][j].st \in Over /\ ver[d][v].st \notin {"purging", "purged"} BY DEF ReplayJob
<1>10. Replays(d, j)
  BY <1>2, <1>3, <1>4, <1>6, <1>7, <1>8, <1>9 DEF Replays, Begins
<1>11. Only(d) BY <1>1 DEF ReplayJob, Only
<1> QED BY <1>10, <1>11, OthersGoOn DEF DocStep

\* a cancellation or a terminal failure of the active job
LEMMA CloseMoves ==
    ASSUME RowsInv, NEW d \in Docs, NEW j \in OpenJobs(d), NEW x,
           x.st \in Over, x.pub # "active", x.v = job[d][j].v, x.base = job[d][j].base,
           job' = [job EXCEPT ![d][j] = x],
           doc' = [doc EXCEPT ![d] = Release(@, Reindexes(d, j))],
           NEW state \in {"failed", "cancelled"}, EndVersion(d, j, state)
    PROVE  \A e \in Docs : DocStep(e)
<1>1. /\ doc \in [Docs -> DocRow] /\ ver \in [Docs -> [Versions -> VersionRow]]
      /\ job \in [Docs -> [Jobs -> JobRow]] /\ doc[d] \in DocRow /\ j \in Jobs /\ j # 0
      /\ job[d][j].v \in Versions
  BY Tables DEF OpenJobs, Jobs, Open, RowsInv, OpInv, TypeInv, JobHasVersion
<1>2. j = doc[d].op /\ doc[d].life = "active" /\ job[d][j].st \in Open
  BY <1>1, Operation DEF RowsInv, OpInv, OpenJobs
<1>3. doc'[d] = Release(doc[d], Reindexes(d, j)) BY <1>1
<1>4. /\ doc'[d].op = 0 /\ doc'[d].pending = 0 /\ doc'[d].active = doc[d].active
      /\ doc'[d].life = doc[d].life /\ doc'[d].sealed = doc[d].sealed
  BY <1>1, <1>2, <1>3 DEF Release, DocRow, RowsInv, OpInv, DocInv, Operates
<1>5. job'[d][j] = x /\ \A i \in Jobs \ {j} : job'[d][i] = job[d][i] BY <1>1
<1>6. ASSUME NEW u \in Versions
      PROVE  \/ ver'[d][u] = ver[d][u]
             \/ /\ u # doc[d].active /\ u = job[d][j].v
                /\ ver'[d][u].st \in {"failed", "cancelled"}
                /\ ver'[d][u].content = ver[d][u].content
  <2>1. ver[d][u] \in VersionRow BY <1>1
  <2>2. ~ Reindexes(d, j) => job[d][j].v # doc[d].active
    BY <1>1, <1>2 DEF Reindexes, RowsInv, OpInv, DocInv, Operates
  <2> QED BY <1>1, <2>1, <2>2 DEF EndVersion, VersionRow
<1>7. Ends(d, j) BY <1>2, <1>4, <1>5, <1>6 DEF Ends
<1>8. Only(d) BY <1>1 DEF EndVersion, Only
<1> QED BY <1>1, <1>7, <1>8, OthersGoOn DEF DocStep

LEMMA CancelMoves ==
    ASSUME RowsInv, NEW d \in Docs, NEW j \in Jobs, CancelJob(d, j)
    PROVE  \A e \in Docs : DocStep(e)
<1>1. j \in OpenJobs(d) BY DEF CancelJob, OpenJobs
<1>2. job \in [Docs -> [Jobs -> JobRow]] /\ job[d][j] \in JobRow BY Tables
<1>3. PICK x : x = Cancelled(job[d][j]) OBVIOUS
<1>4. job[d][j].pub # "active"
  BY <1>1 DEF OpenJobs, Open, RowsInv, PublishedIsOver
<1>5. x.st = "cancelled" /\ x.v = job[d][j].v /\ x.base = job[d][j].base /\ x.pub # "active"
  BY <1>2, <1>3, <1>4 DEF Cancelled, Stop, JobRow
<1>6. job' = [job EXCEPT ![d][j] = x] BY <1>2, <1>3 DEF CancelJob
<1>7. x.st \in Over BY <1>5 DEF Over
<1> QED BY <1>1, <1>5, <1>6, <1>7, CloseMoves DEF CancelJob

LEMMA FailMoves ==
    ASSUME RowsInv, NEW w \in Workers, Fail(w)
    PROVE  \A e \in Docs : DocStep(e)
<1> DEFINE d == work[w].d
           j == work[w].j
<1>1. d \in Docs /\ j \in Jobs /\ job[d][j] \in JobRow
  BY WorkerJob DEF Fail, RowsInv, OpInv
<1>2. job \in [Docs -> [Jobs -> JobRow]] BY Tables
<1>3. \A s : /\ Stop(job[d][j], s).st = s /\ Stop(job[d][j], s).v = job[d][j].v
             /\ Stop(job[d][j], s).base = job[d][j].base
             /\ Stop(job[d][j], s).hold = job[d][j].hold
             /\ Stop(job[d][j], s).replays = job[d][j].replays
             /\ Stop(job[d][j], s).pub = "active" <=> job[d][j].pub = "active"
  BY <1>1 DEF Stop, JobRow
<1>4. CASE UNCHANGED rows BY <1>4 DEF rows, DocStep, GoesOn, JobGoesOn
<1>5. CASE /\ Current(w) /\ job' = [job EXCEPT ![d][j] = Stop(@, "retry_wait")]
           /\ UNCHANGED <<doc, ver, claim>>
  <2>1. PICK x : x = Stop(job[d][j], "retry_wait") OBVIOUS
  <2>2. job' = [job EXCEPT ![d][j] = x] BY <1>1, <1>2, <1>5, <2>1
  <2>3. /\ x.st \in Open /\ x.v = job[d][j].v /\ x.base = job[d][j].base
        /\ x.hold = job[d][j].hold /\ x.replays = job[d][j].replays
        /\ x.pub = "active" <=> job[d][j].pub = "active"
    BY <1>3, <2>1 DEF Open
  <2>5. job[d][j].st \in Open BY <1>5 DEF Current, Open
  <2> HIDE DEF d, j
  <2>4. ASSUME NEW e \in Docs, NEW i \in Jobs PROVE JobGoesOn(e, i)
    <3>1. CASE e = d /\ i = j
      <4>1. job'[e][i] = x BY <1>1, <1>2, <2>2, <3>1
      <4> QED BY <2>3, <2>5, <3>1, <4>1 DEF JobGoesOn
    <3>2. CASE ~ (e = d /\ i = j)
      <4>1. job'[e][i] = job[e][i] BY <1>1, <1>2, <2>2, <3>2
      <4> QED BY <4>1 DEF JobGoesOn
    <3> QED BY <3>1, <3>2
  <2> QED BY <1>5, <2>4 DEF DocStep, GoesOn
<1>6. ASSUME NEW state \in {"dead_letter", "failed"}, Current(w), Close(d, j, state, "failed")
      PROVE  \A e \in Docs : DocStep(e)
  <2>1. PICK x : x = Stop(job[d][j], state) OBVIOUS
  <2>2. x.st \in Over BY <1>3, <2>1 DEF Over
  <2>3. job' = [job EXCEPT ![d][j] = x] BY <1>1, <1>2, <1>6, <2>1 DEF Close
  <2>4. j \in OpenJobs(d) /\ job[d][j].pub # "active"
    BY <1>1, <1>6 DEF Current, OpenJobs, Open, RowsInv, PublishedIsOver
  <2>5. x.pub # "active" /\ x.v = job[d][j].v /\ x.base = job[d][j].base BY <1>3, <2>1, <2>4
  <2>6. doc' = [doc EXCEPT ![d] = Release(@, Reindexes(d, j))] /\ EndVersion(d, j, "failed")
    BY <1>6 DEF Close
  <2> HIDE DEF d, j
  <2> QED BY <1>1, <2>2, <2>3, <2>4, <2>5, <2>6, CloseMoves
<1> QED BY <1>4, <1>5, <1>6 DEF Fail

LEMMA PublishMoves ==
    ASSUME RowsInv, NEW d \in Docs, NEW j \in Jobs, job[d][j].st = "running", doc[d].op = j,
           Unmoved(d, j), Publish(d, j)
    PROVE  \A e \in Docs : DocStep(e)
<1> DEFINE v == job[d][j].v
<1>1. /\ doc \in [Docs -> DocRow] /\ ver \in [Docs -> [Versions -> VersionRow]]
      /\ job \in [Docs -> [Jobs -> JobRow]] /\ doc[d] \in DocRow /\ job[d][j] \in JobRow
  BY Tables
<1>2. v \in Versions /\ j # 0 BY DEF RowsInv, OpInv, TypeInv, JobHasVersion, Jobs
<1>3. doc[d].life = "active" BY <1>2 DEF RowsInv, OpInv, DocInv, Operates
<1>4. /\ doc'[d].life = "active" /\ doc'[d].op = 0 /\ doc'[d].pending = 0 /\ doc'[d].active = v
      /\ doc'[d].sealed = doc[d].sealed
  <2>1. doc'[d] = [Release(doc[d], FALSE) EXCEPT !.active = v]
    BY <1>1 DEF Publish
  <2> QED BY <1>1, <1>3, <2>1 DEF Release, DocRow
<1>5. job'[d] = Publications(d, j) BY <1>1 DEF Publish
<1>6. job[d][j].base = doc[d].active BY DEF Unmoved
<1>7. job'[d][j].st = "succeeded" /\ job'[d][j].pub = "active"
  BY <1>1, <1>5 DEF Publications, JobRow
<1>8. ASSUME NEW i \in Jobs
      PROVE  /\ job'[d][i].v = job[d][i].v /\ job'[d][i].base = job[d][i].base
             /\ job'[d][i].hold = job[d][i].hold
             /\ i # j => job'[d][i].st = job[d][i].st /\ job'[d][i].pub # "active"
  <2>1. job[d][i] \in JobRow BY <1>1
  <2> QED BY <1>5, <2>1 DEF Publications, JobRow
<1>9. ASSUME NEW u \in Versions
      PROVE  /\ ver'[d][u].content = ver[d][u].content
             /\ ver'[d][u].st = IF u = v THEN "active"
                                ELSE IF u = doc[d].active THEN "superseded" ELSE ver[d][u].st
  <2>1. ver[d][u] \in VersionRow BY <1>1
  <2>2. CASE Reindexes(d, j)
    <3>1. v = doc[d].active /\ ver' = ver BY <1>6, <2>2 DEF Reindexes, Publish
    <3>2. u = v => ver[d][u].st = "active"
      BY <1>2, <3>1 DEF RowsInv, OpInv, DocInv, Versions
    <3> QED BY <3>1, <3>2
  <2>3. CASE ~ Reindexes(d, j)
    <3>1. ver'[d] = Activated(d, v) BY <1>1, <2>3 DEF Publish
    <3> QED BY <2>1, <3>1 DEF Activated, VersionRow
  <2> QED BY <2>2, <2>3
<1>10. Publishes(d, j)
  BY <1>3, <1>4, <1>6, <1>7, <1>8, <1>9 DEF Publishes
<1>11. Only(d) BY <1>1 DEF Publish, Only
<1> QED BY <1>10, <1>11, OthersGoOn DEF DocStep

LEMMA DeleteMoves ==
    ASSUME RowsInv, NEW d \in Docs, DeleteDocument(d)
    PROVE  \A e \in Docs : DocStep(e)
<1>1. /\ doc \in [Docs -> DocRow] /\ ver \in [Docs -> [Versions -> VersionRow]]
      /\ job \in [Docs -> [Jobs -> JobRow]]
  BY Tables
<1>2. /\ doc'[d].op = 0 /\ doc'[d].pending = 0 /\ doc'[d].active = 0 /\ ~ doc'[d].sealed
      /\ doc'[d].life = "pending_delete" /\ doc[d].life = "active"
  BY <1>1 DEF DeleteDocument, NoDoc
<1>3. ASSUME NEW i \in Jobs
      PROVE  /\ job'[d][i].st \notin Open /\ job'[d][i].pub # "active"
             /\ job'[d][i].v = job[d][i].v /\ job'[d][i].base = job[d][i].base
             /\ job'[d][i].st = "none" <=> job[d][i].st = "none"
  <2>1. job[d][i] \in JobRow BY <1>1
  <2>2. job'[d][i] = IF job[d][i].st \in Open THEN Stop(job[d][i], "cancelled")
                     ELSE IF job[d][i].pub = "active"
                          THEN [job[d][i] EXCEPT !.pub = "superseded"] ELSE job[d][i]
    BY <1>1 DEF DeleteDocument
  <2>3. CASE job[d][i].st \in Open
    <3>1. job[d][i].pub # "active" BY <2>3 DEF RowsInv, PublishedIsOver, Open
    <3> QED BY <2>1, <2>2, <2>3, <3>1 DEF Stop, JobRow, Open
  <2>4. CASE job[d][i].st \notin Open BY <2>1, <2>2, <2>4 DEF JobRow
  <2> QED BY <2>3, <2>4
<1>4. ASSUME NEW u \in Versions
      PROVE  /\ ver'[d][u].content = ver[d][u].content
             /\ \/ ver'[d][u].st = ver[d][u].st /\ ver[d][u].st \notin {"active", "pending"}
                \/ ver'[d][u].st \in {"superseded", "cancelled"} /\ ver[d][u].st \in {"active", "pending"}
  <2>1. ver[d][u] \in VersionRow BY <1>1
  <2>2. ver'[d][u] = CASE ver[d][u].st = "active"  -> [ver[d][u] EXCEPT !.st = "superseded"]
                       [] ver[d][u].st = "pending" -> [ver[d][u] EXCEPT !.st = "cancelled"]
                       [] OTHER -> ver[d][u]
    BY <1>1 DEF DeleteDocument
  <2> QED BY <2>1, <2>2 DEF VersionRow
<1>5. Deletes(d) BY <1>2, <1>3, <1>4 DEF Deletes
<1>6. Only(d) BY <1>1 DEF DeleteDocument, Only
<1> QED BY <1>5, <1>6, OthersGoOn DEF DocStep

\* a tombstone clears versions and the holds on them
LEMMA TombstoneMoves ==
    ASSUME RowsInv, NEW d \in Docs, NEW gone \in SUBSET Versions, Tombstone(d, gone)
    PROVE  /\ \A i \in Jobs : JobGoesOn(d, i) /\ (job'[d][i].hold = 0 \/ job[d][i].hold \notin gone)
           /\ \A u \in Versions \ gone : ver'[d][u] = ver[d][u]
           /\ \A u \in gone : ver'[d][u].content = ver[d][u].content /\ ver'[d][u].st = "purged"
           /\ \A e \in Docs \ {d} : ver'[e] = ver[e] /\ job'[e] = job[e]
<1>1. ver \in [Docs -> [Versions -> VersionRow]] /\ job \in [Docs -> [Jobs -> JobRow]]
  BY Tables
<1>2. ASSUME NEW i \in Jobs
      PROVE  JobGoesOn(d, i) /\ (job'[d][i].hold = 0 \/ job[d][i].hold \notin gone)
  <2>1. job[d][i] \in JobRow BY <1>1
  <2>2. job'[d][i] = IF job[d][i].hold \in gone THEN [job[d][i] EXCEPT !.hold = 0] ELSE job[d][i]
    BY <1>1 DEF Tombstone
  <2> QED BY <2>1, <2>2 DEF JobGoesOn, JobRow
<1>3. ASSUME NEW u \in Versions
      PROVE  /\ u \notin gone => ver'[d][u] = ver[d][u]
             /\ u \in gone => ver'[d][u].content = ver[d][u].content /\ ver'[d][u].st = "purged"
  <2>1. ver[d][u] \in VersionRow BY <1>1
  <2>2. ver'[d][u] = IF u \in gone THEN [ver[d][u] EXCEPT !.st = "purged"] ELSE ver[d][u]
    BY <1>1 DEF Tombstone
  <2> QED BY <2>1, <2>2 DEF VersionRow
<1>4. \A e \in Docs \ {d} : ver'[e] = ver[e] /\ job'[e] = job[e] BY <1>1 DEF Tombstone
<1> QED BY <1>2, <1>3, <1>4

LEMMA PurgeMoves ==
    ASSUME RowsInv, NEW d \in Docs, NEW v \in Versions, StartPurge(d, v) \/ FinishPurge(d, v)
    PROVE  \A e \in Docs : DocStep(e)
<1>1. /\ doc \in [Docs -> DocRow] /\ ver \in [Docs -> [Versions -> VersionRow]]
      /\ job \in [Docs -> [Jobs -> JobRow]] /\ ver[d][v] \in VersionRow
  BY Tables
<1> DEFINE gone == {v}
<1>4. gone \in SUBSET Versions /\ v \in gone /\ \A u \in gone : u = v OBVIOUS
<1> HIDE DEF gone
<1>2. CASE StartPurge(d, v)
  <2>1. UNCHANGED <<doc, job>> BY <1>2 DEF StartPurge
  <2>2. /\ \A u \in Versions \ {v} : ver'[d][u] = ver[d][u]
        /\ ver'[d][v].st = "purging" /\ ver'[d][v].content = ver[d][v].content
        /\ ver[d][v].st \in {"superseded", "failed", "cancelled"}
    BY <1>1, <1>2 DEF StartPurge, VersionRow
  <2>3. \A i \in Jobs : JobGoesOn(d, i) BY <2>1 DEF JobGoesOn
  <2>4. \A i \in OpenJobs(d) : job[d][i].hold # v BY <1>2 DEF StartPurge, Unread, HeldSource
  <2>7. ~ Read(d, v) BY <1>2 DEF StartPurge, Unread
  <2>5. Purges(d, gone) BY <1>4, <2>1, <2>2, <2>3, <2>4, <2>7 DEF Purges
  <2>6. Only(d) BY <1>1, <1>2 DEF StartPurge, Only
  <2> QED BY <1>4, <2>5, <2>6, OthersGoOn DEF DocStep
<1>3. CASE FinishPurge(d, v)
  <2>1. UNCHANGED doc /\ Tombstone(d, gone) /\ ver[d][v].st = "purging"
    BY <1>3 DEF FinishPurge, gone
  <2>2. /\ \A i \in Jobs : JobGoesOn(d, i) /\ (job'[d][i].hold = 0 \/ job[d][i].hold \notin gone)
        /\ \A u \in Versions \ gone : ver'[d][u] = ver[d][u]
        /\ \A u \in gone : ver'[d][u].content = ver[d][u].content /\ ver'[d][u].st = "purged"
        /\ \A e \in Docs \ {d} : ver'[e] = ver[e] /\ job'[e] = job[e]
    BY <1>4, <2>1, TombstoneMoves
  <2>3. Purges(d, gone) BY <1>4, <2>1, <2>2 DEF Purges, OpenJobs
  <2>4. Only(d) BY <2>1, <2>2 DEF Only
  <2> QED BY <1>4, <2>3, <2>4, OthersGoOn DEF DocStep
<1> QED BY <1>2, <1>3

LEMMA FinalizeMoves ==
    ASSUME RowsInv, NEW d \in Docs, FinalizeDeletion(d)
    PROVE  \A e \in Docs : DocStep(e)
<1> DEFINE gone == {v \in Known(d) : <<d, v>> \in erased}
<1>1. doc \in [Docs -> DocRow] /\ doc[d] \in DocRow BY Tables
<1>2. doc[d].life = "pending_delete" /\ Tombstone(d, gone) /\ gone \in SUBSET Versions
  BY DEF FinalizeDeletion, Known
<1>3. PICK life \in {"deleted", "pending_delete"} :
        doc' = [doc EXCEPT ![d] = [@ EXCEPT !.sealed = TRUE, !.life = life]]
  BY DEF FinalizeDeletion
<1>4. /\ doc'[d].life = life /\ doc'[d].active = doc[d].active /\ doc'[d].op = doc[d].op
      /\ doc'[d].pending = doc[d].pending
  <2>1. doc'[d] = [doc[d] EXCEPT !.sealed = TRUE, !.life = life] BY <1>1, <1>3
  <2> QED BY <1>1, <2>1 DEF DocRow
<1>5. \A u \in Known(d) : ~ Read(d, u) BY DEF FinalizeDeletion, Unread
<1>6. \A u \in gone : ver[d][u].st # "none" /\ ~ Read(d, u) BY <1>5 DEF Known
<1> HIDE DEF gone
<1>9. /\ \A i \in Jobs : JobGoesOn(d, i) /\ (job'[d][i].hold = 0 \/ job[d][i].hold \notin gone)
      /\ \A u \in Versions \ gone : ver'[d][u] = ver[d][u]
      /\ \A u \in gone : ver'[d][u].content = ver[d][u].content /\ ver'[d][u].st = "purged"
      /\ \A e \in Docs \ {d} : ver'[e] = ver[e] /\ job'[e] = job[e]
  BY <1>2, TombstoneMoves
<1>7. Purges(d, gone) BY <1>2, <1>4, <1>5, <1>6, <1>9 DEF Purges, OpenJobs
<1>8. Only(d) BY <1>1, <1>3, <1>9 DEF Only
<1> QED BY <1>2, <1>7, <1>8, OthersGoOn DEF DocStep

\* one job goes on
LEMMA JobMoves ==
    ASSUME RowsInv, UNCHANGED <<doc, ver>>, NEW d \in Docs, NEW j \in Jobs, NEW x,
           job' = [job EXCEPT ![d][j] = x],
           x.st = job[d][j].st \/ (job[d][j].st \in Open /\ x.st \in Open),
           x.v = job[d][j].v, x.base = job[d][j].base, x.replays = job[d][j].replays,
           x.hold \in {job[d][j].hold, 0}, x.pub = "active" <=> job[d][j].pub = "active"
    PROVE  \A e \in Docs : DocStep(e)
<1>1. job \in [Docs -> [Jobs -> JobRow]] BY Tables
<1>2. ASSUME NEW e \in Docs, NEW i \in Jobs PROVE JobGoesOn(e, i)
  BY <1>1 DEF JobGoesOn
<1> QED BY <1>2 DEF DocStep, GoesOn

LEMMA ClaimMoves ==
    ASSUME RowsInv, NEW w \in Workers, NEW d \in Docs, NEW j \in Jobs, Claim(w, d, j)
    PROVE  \A e \in Docs : DocStep(e)
<1>1. job \in [Docs -> [Jobs -> JobRow]] /\ job[d][j] \in JobRow BY Tables
<1>2. PICK x : x = Claimed(job[d][j]) OBVIOUS
<1>3. job' = [job EXCEPT ![d][j] = x] /\ UNCHANGED <<doc, ver>> BY <1>1, <1>2 DEF Claim
<1>4. job[d][j].st \in Open /\ job[d][j].pub # "active"
  BY DEF Claim, Open, RowsInv, PublishedIsOver
<1>5. /\ x.st \in Open /\ x.v = job[d][j].v /\ x.base = job[d][j].base
      /\ x.replays = job[d][j].replays /\ x.hold = job[d][j].hold /\ x.pub # "active"
  BY <1>1, <1>2 DEF Claimed, JobRow, Open
<1>6. job[d][j].st \in Open /\ x.st \in Open BY <1>4, <1>5
<1>7. x.hold \in {job[d][j].hold, 0} BY <1>5
<1>8. x.pub = "active" <=> job[d][j].pub = "active" BY <1>4, <1>5
<1> QED BY <1>3, <1>5, <1>6, <1>7, <1>8, JobMoves

LEMMA LapseMoves ==
    ASSUME RowsInv, NEW d \in Docs, NEW j \in Jobs, LeaseLapses(d, j)
    PROVE  \A e \in Docs : DocStep(e)
<1>1. job \in [Docs -> [Jobs -> JobRow]] /\ job[d][j] \in JobRow BY Tables
<1>2. PICK x : x = [job[d][j] EXCEPT !.lapsed = TRUE] OBVIOUS
<1>3. job' = [job EXCEPT ![d][j] = x] /\ UNCHANGED <<doc, ver>> BY <1>1, <1>2 DEF LeaseLapses
<1>4. /\ x.st = job[d][j].st /\ x.v = job[d][j].v /\ x.base = job[d][j].base
      /\ x.replays = job[d][j].replays /\ x.hold = job[d][j].hold /\ x.pub = job[d][j].pub
  BY <1>1, <1>2 DEF JobRow
<1> QED BY <1>3, <1>4, JobMoves

LEMMA ReclaimMoves ==
    ASSUME RowsInv, Reclaim
    PROVE  \A e \in Docs : DocStep(e)
<1> SUFFICES ASSUME NEW d \in Docs PROVE GoesOn(d) \/ \E j \in Jobs : Ends(d, j) BY DEF DocStep
<1> USE DEF RowsInv, OpInv
<1>1. /\ doc[d] \in DocRow /\ \A i \in Jobs : job[d][i] \in JobRow
      /\ ver \in [Docs -> [Versions -> VersionRow]]
  BY Tables
<1>2. \A i \in Jobs : <<d, i>> \in Expired => i = doc[d].op /\ job[d][i].st \in Open
  BY Operation DEF Expired, OpenJobs, Open
<1>3. ASSUME NEW i \in Jobs PROVE
        /\ <<d, i>> \notin Expired => job'[d][i] = job[d][i]
        /\ <<d, i>> \notin Exhausted => JobGoesOn(d, i)
        /\ <<d, i>> \in Exhausted => /\ job'[d][i].st = "dead_letter" /\ job'[d][i].v = job[d][i].v
                                     /\ job'[d][i].base = job[d][i].base
                                     /\ job'[d][i].pub # "active"
  <2>1. job'[d][i] = IF <<d, i>> \notin Expired THEN job[d][i]
                     ELSE Stop(job[d][i], IF <<d, i>> \in Exhausted THEN "dead_letter"
                                                                    ELSE "retry_wait")
    BY DEF Reclaim
  <2>2. \A s : /\ Stop(job[d][i], s).st = s /\ Stop(job[d][i], s).v = job[d][i].v
               /\ Stop(job[d][i], s).base = job[d][i].base
               /\ Stop(job[d][i], s).hold = job[d][i].hold
               /\ Stop(job[d][i], s).replays = job[d][i].replays
               /\ Stop(job[d][i], s).pub = "active" <=> job[d][i].pub = "active"
    BY <1>1 DEF Stop, JobRow
  <2>3. CASE <<d, i>> \notin Expired BY <2>1, <2>3 DEF JobGoesOn, Exhausted
  <2>4. CASE <<d, i>> \in Expired
    <3>1. job[d][i].st = "running" /\ job[d][i].pub # "active"
      BY <2>4 DEF Expired, PublishedIsOver
    <3>2. CASE <<d, i>> \in Exhausted BY <2>1, <2>2, <2>4, <3>1, <3>2
    <3>3. CASE <<d, i>> \notin Exhausted
      <4>1. job'[d][i] = Stop(job[d][i], "retry_wait") BY <2>1, <2>4, <3>3
      <4> QED BY <2>2, <2>4, <3>1, <3>3, <4>1 DEF JobGoesOn, Open
    <3> QED BY <3>2, <3>3
  <2> QED BY <2>3, <2>4
<1>4. CASE \A i \in Jobs : <<d, i>> \notin Exhausted
  <2>1. doc'[d] = doc[d] BY <1>4 DEF Reclaim, Exhausted, Expired
  <2>2. ver'[d] = ver[d]
    <3>1. ver'[d] = [v \in Versions |-> ver[d][v]] BY <1>4 DEF Reclaim
    <3> QED BY <1>1, <3>1
  <2> QED BY <1>3, <1>4, <2>1, <2>2 DEF GoesOn
<1>5. ASSUME NEW j \in Jobs, <<d, j>> \in Exhausted PROVE Ends(d, j)
  <2>1. j = doc[d].op /\ job[d][j].st \in Open /\ j # 0 BY <1>2, <1>5 DEF Exhausted, Jobs
  <2>2. \A i \in Jobs \ {j} : <<d, i>> \notin Expired BY <1>2, <2>1
  <2>3. doc[d].life = "active" BY <2>1 DEF DocInv, Operates
  <2>4. doc'[d] = Release(doc[d], Reindexes(d, j)) BY <1>5, <2>1 DEF Reclaim
  <2>5. /\ doc'[d].op = 0 /\ doc'[d].pending = 0 /\ doc'[d].active = doc[d].active
        /\ doc'[d].life = "active" /\ doc'[d].sealed = doc[d].sealed
    BY <1>1, <2>1, <2>3, <2>4 DEF Release, DocRow, DocInv, Operates
  <2>6. ASSUME NEW u \in Versions
        PROVE  \/ ver'[d][u] = ver[d][u]
               \/ /\ u # doc[d].active /\ u = job[d][j].v
                  /\ ver'[d][u].st \in {"failed", "cancelled"}
                  /\ ver'[d][u].content = ver[d][u].content
    <3>1. ver[d][u] \in VersionRow BY <1>1
    <3>2. ver'[d][u] = IF ~ Reindexes(d, j) /\ job[d][j].v = u
                       THEN [ver[d][u] EXCEPT !.st = "failed"] ELSE ver[d][u]
      BY <1>5, <2>2 DEF Reclaim, Exhausted
    <3>3. ~ Reindexes(d, j) => job[d][j].v # doc[d].active
      BY <2>1 DEF Reindexes, DocInv, Operates
    <3> QED BY <3>1, <3>2, <3>3 DEF VersionRow
  <2>7. "dead_letter" \in Over BY DEF Over
  <2> QED BY <1>3, <1>5, <2>1, <2>2, <2>3, <2>5, <2>6, <2>7 DEF Ends
<1> QED BY <1>4, <1>5

LEMMA WorkerMoves ==
    ASSUME RowsInv, NEW w \in Workers, Step(w) \/ Crash(w)
    PROVE  \A e \in Docs : DocStep(e)
<1>1. CASE UNCHANGED rows BY <1>1 DEF rows, DocStep, GoesOn, JobGoesOn
<1>2. CASE CopyRelease(w)
  <2>1. UNCHANGED <<doc, ver, claim>> BY <1>2 DEF CopyRelease
  <2>2. CASE ~ Current(w) BY <1>1, <1>2, <2>1, <2>2 DEF CopyRelease, rows
  <2>3. CASE Current(w)
    <3> DEFINE d == work[w].d
               j == work[w].j
    <3>1. d \in Docs /\ j \in Jobs /\ job[d][j] \in JobRow
      BY <1>2, WorkerJob DEF CopyRelease, RowsInv, OpInv
    <3>2. PICK x : x = [job[d][j] EXCEPT !.hold = 0] OBVIOUS
    <3>3. /\ x.st = job[d][j].st /\ x.v = job[d][j].v /\ x.base = job[d][j].base
          /\ x.replays = job[d][j].replays /\ x.hold = 0 /\ x.pub = job[d][j].pub
      BY <3>1, <3>2 DEF JobRow
    <3>4. job' = [job EXCEPT ![d][j] = x]
      BY <1>2, <2>3, <3>1, <3>2, Tables DEF CopyRelease
    <3> HIDE DEF d, j
    <3> QED BY <2>1, <3>1, <3>3, <3>4, JobMoves
  <2> QED BY <2>2, <2>3
<1>3. CASE Accept(w)
  <2> DEFINE d == work[w].d
             j == work[w].j
  <2>1. d \in Docs /\ j \in Jobs BY <1>3, WorkerJob DEF Accept, RowsInv, OpInv
  <2>2. CASE Held(w) /\ doc[d].op = j /\ Unmoved(d, j) /\ Publish(d, j)
    BY <2>1, <2>2, PublishMoves DEF Held, Current
  <2> QED BY <1>1, <1>3, <2>2 DEF Accept
<1>4. CASE Fail(w) BY <1>4, FailMoves
<1> QED BY <1>1, <1>2, <1>3, <1>4
       DEF Step, CopyStart, Copy, CopyFails, ProcessFails, Lost, Crash

\* In every step each document makes one of these moves, or none
LEMMA DocumentMoves ==
    ASSUME RowsInv, [Next]_vars
    PROVE  \A e \in Docs : DocStep(e)
<1>1. CASE UNCHANGED rows BY <1>1 DEF rows, DocStep, GoesOn, JobGoesOn
<1>2. ASSUME NEW g \in Generations, PurgeGeneration(g) PROVE \A e \in Docs : DocStep(e)
  <2>1. \A e \in Docs : Purges(e, {})
    BY <1>2, CollectionMarks DEF RowsInv, OpInv, Purges, JobGoesOn
  <2> QED BY <2>1 DEF DocStep
<1> QED BY <1>1, <1>2, AcceptsMoves, CancelMoves, ReplayMoves, LapseMoves, ClaimMoves, PurgeMoves,
           DeleteMoves, FinalizeMoves, ReclaimMoves, WorkerMoves
       DEF Next, Accepts, EraseDocument, EraseVersion, EraseAll, Acquire, ReadEnds,
           SwitchGeneration, vars, rows

\* an active version is there
LEMMA ActiveIsThere ==
    ASSUME RowsInv, NEW d \in Docs
    PROVE  /\ doc[d].active # 0 => doc[d].active \in Versions
           /\ \A v \in Versions : v = doc[d].active => ver[d][v].st = "active"
           /\ \A j \in Jobs : job[d][j].st # "none" => job[d][j].v \in Versions
           /\ \A j \in Jobs : job[d][j].base \in 0..MaxVersions
           /\ doc[d].life # "active" => doc[d].op = 0 /\ doc[d].active = 0
           /\ doc[d].active \in 0..MaxVersions
<1>1. doc[d] \in DocRow /\ \A j \in Jobs : job[d][j] \in JobRow BY Tables
<1>2. doc[d].active \in 0..MaxVersions /\ \A j \in Jobs : job[d][j].base \in 0..MaxVersions
  BY <1>1 DEF DocRow, JobRow
<1>3. doc[d].active # 0 => doc[d].active \in Versions BY <1>2 DEF Versions
<1>4. \A v \in Versions : v # 0 BY DEF Versions
<1> QED BY <1>2, <1>3, <1>4
        DEF RowsInv, OpInv, DocInv, Operates, TypeInv, JobHasVersion

\* no version goes away, and one that comes is the next
LEMMA RowsOfVersions ==
    ASSUME RowsInv, NEW d \in Docs, DocStep(d)
    PROVE  /\ \A v \in Versions : ver[d][v].st # "none" => ver'[d][v].st # "none"
           /\ \A v \in Versions : ver'[d][v].st # "none" => ver'[d][v].content \in Contents
           /\ \A v \in Versions : ver'[d][v].st # "none" /\ ver[d][v].st = "none" =>
                                    NextVersion(d, v) /\ doc'[d].life = "active"
<1>1. CASE GoesOn(d) BY <1>1 DEF GoesOn, RowsInv, HasContent
<1>2. CASE Deletes(d) BY <1>2 DEF Deletes, RowsInv, HasContent
<1>3. ASSUME NEW j \in Jobs, Rebuilds(d, j)
      PROVE  ver'[d] = ver[d]
  BY <1>3 DEF Rebuilds, Begins
<1>4. ASSUME NEW j \in Jobs, Replays(d, j)
      PROVE  \A u \in Versions : /\ ver[d][u].st = "none" <=> ver'[d][u].st = "none"
                                 /\ ver'[d][u].content = ver[d][u].content
  <2>1. job[d][j].st # "none" BY <1>4 DEF Replays, Over
  <2>2. ver[d][job[d][j].v].st # "none" BY <2>1 DEF RowsInv, JobsGoForward
  <2>3. \A u \in Versions \ {job[d][j].v} : ver'[d][u] = ver[d][u]
    BY <1>4 DEF Replays, Begins
  <2>4. ver'[d][job[d][j].v].st # "none"
        /\ ver'[d][job[d][j].v].content = ver[d][job[d][j].v].content
    BY <1>4, <2>2 DEF Replays, Begins
  <2> QED BY <2>2, <2>3, <2>4
<1>5. ASSUME NEW j \in Jobs, Ends(d, j)
      PROVE  \A u \in Versions : /\ ver[d][u].st = "none" <=> ver'[d][u].st = "none"
                                 /\ ver'[d][u].content = ver[d][u].content
  <2>1. ver[d][job[d][j].v].st # "none" BY <1>5 DEF Ends, RowsInv, JobsGoForward, Open
  <2> QED BY <1>5, <2>1 DEF Ends
<1>6. ASSUME NEW j \in Jobs, Publishes(d, j)
      PROVE  \A u \in Versions : /\ ver[d][u].st = "none" <=> ver'[d][u].st = "none"
                                 /\ ver'[d][u].content = ver[d][u].content
  <2>1. ver[d][job[d][j].v].st # "none" BY <1>6 DEF Publishes, RowsInv, JobsGoForward
  <2> QED BY <1>6, <2>1, ActiveIsThere DEF Publishes
<1>7. ASSUME NEW j \in Jobs, NEW v \in Versions, Supplies(d, j, v)
      PROVE  /\ \A u \in Versions \ {v} : ver'[d][u] = ver[d][u]
             /\ NextVersion(d, v) /\ ver'[d][v].content \in Contents /\ ver'[d][v].st = "pending"
             /\ doc'[d].life = "active"
  BY <1>7 DEF Supplies, Begins
<1>8. ASSUME NEW gone \in SUBSET Versions, Purges(d, gone)
      PROVE  \A u \in Versions : /\ ver[d][u].st = "none" <=> ver'[d][u].st = "none"
                                 /\ ver'[d][u].content = ver[d][u].content
  BY <1>8 DEF Purges
<1>9. CASE \A u \in Versions : /\ ver[d][u].st = "none" <=> ver'[d][u].st = "none"
                               /\ ver'[d][u].content = ver[d][u].content
  BY <1>9 DEF RowsInv, HasContent
<1>10. CASE \E j \in Jobs, v \in Versions : Supplies(d, j, v)
  BY <1>7, <1>10 DEF RowsInv, HasContent, NextVersion
<1> QED BY <1>1, <1>2, <1>3, <1>4, <1>5, <1>6, <1>8, <1>9, <1>10 DEF DocStep

\* what a job is about stays, and a new one is about a version that is there
LEMMA RowsOfJobs ==
    ASSUME RowsInv, NEW d \in Docs, DocStep(d), NEW j \in Jobs
    PROVE  /\ job'[d][j].pub = "active" => job'[d][j].st = "succeeded"
           /\ job'[d][j].st # "none" => /\ ver'[d][job'[d][j].v].st # "none"
                                        /\ job'[d][j].v >= job'[d][j].base
<1> DEFINE Kept == /\ job'[d][j].v = job[d][j].v /\ job'[d][j].base = job[d][j].base
                   /\ job'[d][j].st # "none" => job[d][j].st # "none"
<1>1. ASSUME Kept, job'[d][j].st # "none"
      PROVE  ver'[d][job'[d][j].v].st # "none" /\ job'[d][j].v >= job'[d][j].base
  BY <1>1, ActiveIsThere, RowsOfVersions DEF RowsInv, JobsGoForward
<1>2. CASE GoesOn(d) \/ \E gone \in SUBSET Versions : Purges(d, gone)
  <2>1. JobGoesOn(d, j) BY <1>2 DEF GoesOn, Purges
  <2> QED BY <1>1, <2>1 DEF JobGoesOn, RowsInv, PublishedIsOver, Open
<1>3. CASE Deletes(d) BY <1>1, <1>3 DEF Deletes
<1>4. ASSUME NEW i \in Jobs, Ends(d, i)
      PROVE  Kept /\ (job'[d][j].pub = "active" => job'[d][j].st = "succeeded")
  BY <1>4 DEF Ends, RowsInv, PublishedIsOver, Open, Over
<1>5. ASSUME NEW i \in Jobs, Publishes(d, i)
      PROVE  Kept /\ (job'[d][j].pub = "active" => job'[d][j].st = "succeeded")
  BY <1>5 DEF Publishes, RowsInv, PublishedIsOver
<1>6. ASSUME NEW i \in Jobs, NEW v \in Versions, Begins(d, i, v), ver'[d][v].st # "none",
             v >= doc[d].active
      PROVE  /\ job'[d][j].pub = "active" => job'[d][j].st = "succeeded"
             /\ job'[d][j].st # "none" => /\ ver'[d][job'[d][j].v].st # "none"
                                          /\ job'[d][j].v >= job'[d][j].base
  <2>1. CASE j = i BY <1>6, <2>1 DEF Begins
  <2>2. CASE j # i
    <3>1. job'[d][j] = job[d][j] BY <1>6, <2>2 DEF Begins
    <3> QED BY <1>1, <3>1 DEF RowsInv, PublishedIsOver
  <2> QED BY <2>1, <2>2
<1>7. ASSUME NEW i \in Jobs, Rebuilds(d, i)
      PROVE  Begins(d, i, doc[d].active) /\ ver'[d][doc[d].active].st # "none"
  BY <1>7, ActiveIsThere DEF Rebuilds, Begins
<1>8. ASSUME NEW i \in Jobs, Replays(d, i)
      PROVE  /\ Begins(d, i, job[d][i].v) /\ job[d][i].v \in Versions
             /\ ver'[d][job[d][i].v].st # "none" /\ job[d][i].v >= doc[d].active
  BY <1>8, RowsOfVersions DEF Replays, Over, RowsInv, JobsGoForward
<1>9. ASSUME NEW i \in Jobs, NEW v \in Versions, Supplies(d, i, v)
      PROVE  Begins(d, i, v) /\ ver'[d][v].st # "none" /\ v >= doc[d].active
  <2>1. NextVersion(d, v) BY <1>9 DEF Supplies
  <2>2. ~ v < doc[d].active
    <3>1. SUFFICES ASSUME v < doc[d].active PROVE FALSE OBVIOUS
    <3>2. doc[d].active \in Versions BY <3>1, ActiveIsThere DEF Versions
    <3>3. v \in 1..(doc[d].active - 1) BY <3>1, <3>2 DEF Versions
    <3> QED BY <2>1, <3>2, <3>3, ActiveIsThere DEF RowsInv, InOrder, NextVersion
  <2>3. v \in Int /\ doc[d].active \in Int BY ActiveIsThere DEF Versions
  <2> QED BY <1>9, <2>2, <2>3 DEF Supplies, Begins
<1>10. \A a \in Int : a >= a OBVIOUS
<1>11. ASSUME NEW i \in Jobs, Rebuilds(d, i)
       PROVE  doc[d].active \in Versions /\ doc[d].active >= doc[d].active
  BY <1>10, <1>11, ActiveIsThere DEF Rebuilds, Versions
<1> QED BY <1>1, <1>2, <1>3, <1>4, <1>5, <1>6, <1>7, <1>8, <1>9, <1>11 DEF DocStep

LEMMA RowsStep ==
    ASSUME RowsInv, [Next]_vars
    PROVE  RowsInv'
<1>1. OpInv' BY OpStep DEF RowsInv
<1>2. \A d \in Docs : DocStep(d) BY DocumentMoves
<1>3. PublishedIsOver' /\ JobsGoForward' BY <1>2, RowsOfJobs DEF PublishedIsOver, JobsGoForward
<1>4. HasContent' BY <1>2, RowsOfVersions DEF HasContent
<1>5. ASSUME NEW d \in Docs
      PROVE  /\ doc'[d].sealed => doc'[d].life \in {"pending_delete", "deleted"}
             /\ doc'[d].life = "absent" => doc[d].life = "absent"
  <2>1. doc[d].sealed => doc[d].life \in {"pending_delete", "deleted"}
    BY DEF RowsInv, SealedIsDeleted
  <2>2. CASE GoesOn(d) \/ Deletes(d) BY <2>1, <2>2 DEF GoesOn, Deletes
  <2>3. ASSUME NEW j \in Jobs, \/ Rebuilds(d, j) \/ Replays(d, j) \/ Ends(d, j) \/ Publishes(d, j)
                              \/ \E v \in Versions : Supplies(d, j, v)
        PROVE  doc'[d].life = "active" /\ (doc'[d].sealed => doc[d].sealed /\ doc[d].life = "active")
    BY <2>3 DEF Rebuilds, Replays, Ends, Publishes, Supplies, Begins
  <2>4. ASSUME NEW gone \in SUBSET Versions, Purges(d, gone)
        PROVE  /\ doc'[d].life = doc[d].life \/ doc'[d].life = "deleted"
               /\ doc'[d].sealed => doc[d].sealed \/ doc[d].life = "pending_delete"
    BY <2>4 DEF Purges
  <2> QED BY <1>2, <2>1, <2>2, <2>3, <2>4 DEF DocStep
<1>6. SealedIsDeleted' BY <1>5 DEF SealedIsDeleted
<1>7. AbsentIsEmpty' BY <1>2, <1>5, RowsOfVersions DEF RowsInv, AbsentIsEmpty
<1>8. InOrder'
  <2> SUFFICES ASSUME NEW d \in Docs, NEW v \in Versions, ver'[d][v].st # "none",
                      NEW u \in 1..(v - 1)
               PROVE  ver'[d][u].st # "none"
    BY DEF InOrder
  <2>1. u \in Versions BY IngestionAssumption DEF Versions
  <2>2. ver[d][u].st # "none"
    BY <1>2, RowsOfVersions DEF RowsInv, InOrder, NextVersion
  <2> QED BY <1>2, <2>1, <2>2, RowsOfVersions
<1> QED BY <1>1, <1>3, <1>4, <1>6, <1>7, <1>8 DEF RowsInv

LEMMA RowsInit == Init => RowsInv
<1> SUFFICES ASSUME Init PROVE RowsInv OBVIOUS
<1>1. \A d \in Docs, v \in Versions : ver[d][v].st = "none" BY DEF Init, NoVersion
<1>2. \A d \in Docs, j \in Jobs : job[d][j].st = "none" /\ job[d][j].pub = "none"
  BY DEF Init, NoJob
<1>3. \A d \in Docs : ~ doc[d].sealed BY DEF Init, NoDoc
<1> QED BY <1>1, <1>2, <1>3, OpInit
        DEF RowsInv, PublishedIsOver, HasContent, SealedIsDeleted, AbsentIsEmpty, InOrder,
            JobsGoForward

LEMMA ForwardStep ==
    ASSUME RowsInv, [Next]_vars, NEW d \in Docs,
           doc[d].active # 0, doc'[d].life = "active", doc'[d].active # doc[d].active
    PROVE  doc'[d].active > doc[d].active /\ ver'[d][doc[d].active].st = "superseded"
<1>1. DocStep(d) BY DocumentMoves
<1>2. PICK j \in Jobs : Publishes(d, j)
  BY <1>1 DEF DocStep, GoesOn, Deletes, Rebuilds, Replays, Ends, Supplies, Begins, Purges
<1>3. doc[d].active \in Versions /\ job[d][j].st # "none" /\ job[d][j].v \in Versions
  BY <1>2, ActiveIsThere DEF Publishes
<1>4. job[d][j].v >= job[d][j].base BY <1>3 DEF RowsInv, JobsGoForward
<1>5. doc'[d].active = job[d][j].v /\ doc[d].active = job[d][j].base BY <1>2 DEF Publishes
<1>6. ver'[d][doc[d].active].st = "superseded" BY <1>2, <1>3, <1>5 DEF Publishes
<1> QED BY <1>3, <1>4, <1>5, <1>6 DEF Versions

\* A live document that was published goes on being so, whatever is cancelled,
\* fails, is replayed or taken back meanwhile: only a newer version takes the
\* place of its active one, and supersedes it (accept_processing_receipt)
THEOREM MovesForward == Spec => ActiveMovesForward
<1>1. RowsInv /\ [Next]_vars => [\A d \in Docs :
        doc[d].active # 0 /\ doc'[d].life = "active" /\ doc'[d].active # doc[d].active =>
            /\ doc'[d].active > doc[d].active
            /\ ver'[d][doc[d].active].st = "superseded"]_vars
  BY ForwardStep
<1> QED BY <1>1, RowsInit, RowsStep, PTL DEF Spec, ActiveMovesForward

-----------------------------------------------------------------------------
(* What a document serves *)

\* the active version and its one publication
Serves(d) ==
    /\ \A v \in Versions : ver[d][v].st = "active" => v = doc[d].active
    /\ \A j \in Jobs : job[d][j].pub = "active" => job[d][j].v = doc[d].active
    /\ \A i, j \in Jobs : job[d][i].pub = "active" /\ job[d][j].pub = "active" => i = j
    /\ doc[d].active # 0 => \E j \in Jobs : job[d][j].pub = "active"

\* its one claim
Owns(d) ==
    /\ doc[d].active # 0 => claim[ver[d][doc[d].active].content] = <<d, doc[d].active>>
    /\ \A b, c \in Contents : claim[b][1] = d /\ claim[c][1] = d => b = c
    /\ doc[d].life # "active" => \A c \in Contents : claim[c][1] # d

ServeInv == RowsInv /\ \A d \in Docs : Serves(d) /\ Owns(d)

LEMMA ServesStep ==
    ASSUME RowsInv, NEW d \in Docs, Serves(d), DocStep(d)
    PROVE  Serves(d)'
<1> DEFINE SamePubs == \A i \in Jobs : /\ job'[d][i].pub = "active" <=> job[d][i].pub = "active"
                                       /\ job[d][i].pub = "active" => job'[d][i].v = job[d][i].v
           SameActive == /\ doc'[d].active = doc[d].active
                         /\ \A u \in Versions : ver'[d][u].st = "active" => ver[d][u].st = "active"
<1>1. ASSUME SamePubs, SameActive PROVE Serves(d)' BY <1>1 DEF Serves
<1>2. ASSUME NEW j \in Jobs, NEW v \in Versions, Begins(d, j, v) PROVE SamePubs /\ SameActive
  <2>1. job[d][j].pub # "active" BY <1>2 DEF Begins, Over, RowsInv, PublishedIsOver
  <2>2. SamePubs BY <1>2, <2>1 DEF Begins
  <2>3. SameActive BY <1>2 DEF Begins
  <2> QED BY <2>2, <2>3
<1>3. CASE GoesOn(d)
  <2>1. SamePubs /\ SameActive BY <1>3 DEF GoesOn, JobGoesOn
  <2> QED BY <1>1, <2>1
<1>4. CASE Deletes(d) BY <1>4 DEF Deletes, Serves
<1>5. ASSUME NEW j \in Jobs, Ends(d, j) PROVE SamePubs /\ SameActive
  <2>1. job[d][j].pub # "active" BY <1>5 DEF Ends, Open, RowsInv, PublishedIsOver
  <2>2. SamePubs BY <1>5, <2>1 DEF Ends
  <2>3. SameActive BY <1>5 DEF Ends
  <2> QED BY <2>2, <2>3
<1>6. ASSUME NEW j \in Jobs, Publishes(d, j) PROVE Serves(d)'
  <2>1. \A i \in Jobs : i # j => job'[d][i].pub # "active" BY <1>6 DEF Publishes
  <2>2. job'[d][j].pub = "active" /\ job'[d][j].v = doc'[d].active BY <1>6 DEF Publishes
  <2>3. ASSUME NEW u \in Versions, ver'[d][u].st = "active" PROVE u = doc'[d].active
    BY <1>6, <2>3 DEF Publishes, Serves
  <2> QED BY <2>1, <2>2, <2>3 DEF Serves
<1>7. ASSUME NEW gone \in SUBSET Versions, Purges(d, gone) PROVE SamePubs /\ SameActive
  <2>1. SamePubs BY <1>7 DEF Purges, JobGoesOn
  <2>2. SameActive BY <1>7 DEF Purges
  <2> QED BY <2>1, <2>2
<1> HIDE DEF SamePubs, SameActive
<1>8. ASSUME NEW j \in Jobs, Rebuilds(d, j) PROVE SamePubs /\ SameActive
  BY <1>2, <1>8 DEF Rebuilds
<1>9. ASSUME NEW j \in Jobs, Replays(d, j) PROVE SamePubs /\ SameActive
  BY <1>2, <1>9 DEF Replays
<1>10. ASSUME NEW j \in Jobs, NEW v \in Versions, Supplies(d, j, v) PROVE SamePubs /\ SameActive
  BY <1>2, <1>10 DEF Supplies
<1> QED BY <1>1, <1>3, <1>4, <1>5, <1>6, <1>7, <1>8, <1>9, <1>10 DEF DocStep

\* the content of a version never changes
LEMMA ContentStays ==
    ASSUME RowsInv, NEW d \in Docs, DocStep(d), NEW v \in Versions, ver[d][v].st # "none"
    PROVE  ver'[d][v].content = ver[d][v].content
<1>1. CASE GoesOn(d) \/ Deletes(d) BY <1>1 DEF GoesOn, Deletes
<1>2. ASSUME NEW j \in Jobs, Rebuilds(d, j) \/ Replays(d, j)
      PROVE  ver'[d][v].content = ver[d][v].content
  BY <1>2 DEF Rebuilds, Replays, Begins
<1>3. ASSUME NEW j \in Jobs, Ends(d, j) \/ Publishes(d, j)
      PROVE  ver'[d][v].content = ver[d][v].content
  BY <1>3 DEF Ends, Publishes
<1>4. ASSUME NEW j \in Jobs, NEW u \in Versions, Supplies(d, j, u)
      PROVE  ver'[d][v].content = ver[d][v].content
  BY <1>4 DEF Supplies, Begins, NextVersion
<1>5. ASSUME NEW gone \in SUBSET Versions, Purges(d, gone)
      PROVE  ver'[d][v].content = ver[d][v].content
  BY <1>5 DEF Purges
<1> QED BY <1>1, <1>2, <1>3, <1>4, <1>5 DEF DocStep

\* what the document serves and whether it does stays, as far as claims go
Stays(e) ==
    /\ doc'[e].active = doc[e].active
    /\ doc[e].life = "active" => doc'[e].life = "active"

\* d claims c, drops the claim of v, replaces its claim by that of v, drops them
Takes(d, c) ==
    /\ doc[d].life = "absent" /\ doc'[d].life = "active" /\ doc'[d].active = 0
    /\ claim[c] = NoOne /\ claim' = [claim EXCEPT ![c] = <<d, 1>>]
Drops(d, v) ==
    /\ Stays(d) /\ v # doc[d].active
    /\ claim' = [c \in Contents |-> IF claim[c] = <<d, v>> THEN NoOne ELSE claim[c]]
Swaps(d, v) ==
    /\ doc[d].life = "active" /\ doc'[d].active = v /\ doc'[d].life = "active"
    /\ ver[d][v].st # "none" /\ claim' = Claims(d, v)
    /\ <<d, v>> \in stored /\ stored' = stored
    /\ ~ ClaimedByOther(d, ver[d][v].content)
Forgets(d) ==
    /\ doc'[d].life # "active" /\ doc'[d].active = 0
    /\ claim' = [c \in Contents |-> IF claim[c][1] = d THEN NoOne ELSE claim[c]]

ClaimStep ==
    \/ claim' = claim /\ \A e \in Docs : Stays(e)
    \/ \E d \in Docs :
         /\ \A e \in Docs \ {d} : Stays(e)
         /\ \/ \E c \in Contents : Takes(d, c)
            \/ \E v \in Versions : Drops(d, v) \/ Swaps(d, v)
            \/ Forgets(d)

LEMMA OwnsStep ==
    ASSUME ServeInv, \A e \in Docs : DocStep(e), ClaimStep, NEW e \in Docs
    PROVE  Owns(e)'
<1> DEFINE a == doc[e].active
           k == ver[e][a].content
<1>1. /\ claim \in [Contents -> (Docs \X Versions) \cup {NoOne}] /\ RowsInv /\ Owns(e)
      /\ \A d \in Docs : d # 0
  BY DEF ServeInv, RowsInv, OpInv, TypeInv, TypeOK, Docs
<1>2. a # 0 => /\ a \in Versions /\ k \in Contents /\ ver'[e][a].content = k
               /\ claim[k] = <<e, a>> /\ doc[e].life = "active"
  BY <1>1, ActiveIsThere, ContentStays DEF Owns, RowsInv, HasContent
<1> HIDE DEF a, k
<1>3. ASSUME Stays(e), a # 0 => claim'[k] = claim[k],
             \A c \in Contents : claim'[c][1] = e => claim[c][1] = e
      PROVE  Owns(e)'
  BY <1>1, <1>2, <1>3 DEF Stays, Owns, a, k
<1>4. CASE claim' = claim /\ Stays(e) BY <1>3, <1>4
<1>5. ASSUME NEW d \in Docs, NEW c \in Contents, Takes(d, c), d # e => Stays(e) PROVE Owns(e)'
  <2>1. /\ claim'[c] = <<d, 1>> /\ claim[c] = NoOne
        /\ \A b \in Contents \ {c} : claim'[b] = claim[b]
    BY <1>1, <1>5 DEF Takes
  <2>2. CASE d # e BY <1>1, <1>2, <1>3, <1>5, <2>1, <2>2 DEF NoOne
  <2>3. CASE d = e
    <3>1. \A b \in Contents : claim[b][1] # e BY <1>1, <1>5, <2>3 DEF Takes, Owns
    <3>2. \A b \in Contents : claim'[b][1] = e => b = c BY <2>1, <3>1
    <3>3. doc'[e].active = 0 /\ doc'[e].life = "active" BY <1>5, <2>3 DEF Takes
    <3> QED BY <3>2, <3>3 DEF Owns
  <2> QED BY <2>2, <2>3
<1>6. ASSUME NEW d \in Docs, NEW v \in Versions, Drops(d, v), d # e => Stays(e) PROVE Owns(e)'
  <2>1. \A b \in Contents : claim'[b] = IF claim[b] = <<d, v>> THEN NoOne ELSE claim[b]
    BY <1>6 DEF Drops
  <2>2. Stays(e) BY <1>6 DEF Drops
  <2>3. d = e => v # a BY <1>6 DEF Drops, a
  <2> QED BY <1>1, <1>2, <1>3, <2>1, <2>2, <2>3 DEF NoOne
<1>7. ASSUME NEW d \in Docs, NEW v \in Versions, Swaps(d, v), d # e => Stays(e) PROVE Owns(e)'
  <2> DEFINE n == ver[d][v].content
  <2>1. n \in Contents /\ ver'[d][v].content = n /\ ~ ClaimedByOther(d, n)
    BY <1>1, <1>7, ContentStays DEF Swaps, RowsInv, HasContent
  <2>2. \A b \in Contents : claim'[b] = IF b = n THEN <<d, v>>
                                        ELSE IF claim[b][1] = d THEN NoOne ELSE claim[b]
    BY <1>7 DEF Swaps, Claims
  <2> HIDE DEF n
  <2>3. CASE d = e
    <3>1. \A b \in Contents : claim'[b][1] = e => b = n BY <1>1, <2>2, <2>3 DEF NoOne
    <3>2. doc'[e].active = v /\ doc'[e].life = "active" BY <1>7, <2>3 DEF Swaps
    <3> QED BY <2>1, <2>2, <2>3, <3>1, <3>2 DEF Owns
  <2>4. CASE d # e
    <3>1. a # 0 => k # n
      BY <1>1, <1>2, <2>1, <2>4 DEF ClaimedByOther, NoOne
    <3>2. \A b \in Contents : claim'[b][1] = e => claim[b][1] = e
      BY <1>1, <2>2, <2>4 DEF NoOne
    <3>3. a # 0 => claim'[k] = claim[k] BY <1>2, <2>2, <2>4, <3>1
    <3> QED BY <1>3, <1>7, <2>4, <3>2, <3>3
  <2> QED BY <2>3, <2>4
<1>8. ASSUME NEW d \in Docs, Forgets(d), d # e => Stays(e) PROVE Owns(e)'
  <2>1. \A b \in Contents : claim'[b] = IF claim[b][1] = d THEN NoOne ELSE claim[b]
    BY <1>8 DEF Forgets
  <2>2. CASE d = e
    <3>1. \A b \in Contents : claim'[b][1] # e BY <1>1, <2>1, <2>2 DEF NoOne
    <3>2. doc'[e].active = 0 BY <1>8, <2>2 DEF Forgets
    <3> QED BY <3>1, <3>2 DEF Owns
  <2>3. CASE d # e
    <3>1. \A b \in Contents : claim'[b][1] = e => claim[b][1] = e BY <1>1, <2>1, <2>3 DEF NoOne
    <3>2. a # 0 => claim'[k] = claim[k] BY <1>2, <2>1, <2>3
    <3> QED BY <1>3, <1>8, <2>3, <3>1, <3>2
  <2> QED BY <2>2, <2>3
<1> QED BY <1>4, <1>5, <1>6, <1>7, <1>8 DEF ClaimStep

LEMMA OneStays ==
    ASSUME RowsInv, NEW d \in Docs, NEW x, doc' = [doc EXCEPT ![d] = x],
           x.active = doc[d].active, doc[d].life = "active" => x.life = "active"
    PROVE  \A e \in Docs : Stays(e)
<1>1. doc \in [Docs -> DocRow] BY Tables
<1> QED BY <1>1 DEF Stays

LEMMA SameStays == doc' = doc => \A e \in Docs : Stays(e)
BY DEF Stays

\* a release keeps what the document serves
LEMMA ReleaseStays ==
    ASSUME RowsInv, NEW d \in Docs, NEW reindex \in BOOLEAN
    PROVE  /\ Release(doc[d], reindex).active = doc[d].active
           /\ Release(doc[d], reindex).life = doc[d].life
<1>1. doc[d] \in DocRow BY Tables
<1> QED BY <1>1 DEF Release, DocRow

LEMMA AcceptsClaims ==
    ASSUME RowsInv, NEW d \in Docs, Accepts(d)
    PROVE  ClaimStep
<1>1. doc \in [Docs -> DocRow] /\ doc[d] \in DocRow BY Tables
<1>2. ASSUME NEW c \in Contents, Upload(d, c) PROVE ClaimStep
  <2>1. doc'[d] = [NoDoc EXCEPT !.life = "active", !.pending = 1, !.op = 1]
    BY <1>1, <1>2 DEF Upload
  <2>2. doc'[d].life = "active" /\ doc'[d].active = 0 BY <2>1 DEF NoDoc
  <2>3. Takes(d, c) BY <1>2, <2>2 DEF Upload, Takes
  <2>4. \A e \in Docs \ {d} : Stays(e) BY <1>1, <1>2 DEF Upload, Stays
  <2> QED BY <2>3, <2>4 DEF ClaimStep
<1>3. ASSUME NEW j \in Jobs, NEW v \in Versions, NEW c, NEW hold, Supply(d, j, v, c, hold)
      PROVE  ClaimStep
  <2>1. PICK x : x = [doc[d] EXCEPT !.pending = v, !.op = j] OBVIOUS
  <2>2. x.active = doc[d].active /\ x.life = doc[d].life BY <1>1, <2>1 DEF DocRow
  <2>3. doc' = [doc EXCEPT ![d] = x] /\ claim' = claim BY <1>1, <1>3, <2>1 DEF Supply
  <2> QED BY <2>2, <2>3, OneStays DEF ClaimStep
<1>4. ASSUME NEW j \in Jobs, Reindex(d, j) PROVE ClaimStep
  <2>1. PICK x : x = [doc[d] EXCEPT !.op = j] OBVIOUS
  <2>2. x.active = doc[d].active /\ x.life = doc[d].life BY <1>1, <2>1 DEF DocRow
  <2>3. doc' = [doc EXCEPT ![d] = x] /\ claim' = claim BY <1>1, <1>4, <2>1 DEF Reindex
  <2> QED BY <2>2, <2>3, OneStays DEF ClaimStep
<1> QED BY <1>2, <1>3, <1>4 DEF Accepts, Replace, Restore

\* the document is released and the claim of a version it does not serve goes
LEMMA ReleaseClaims ==
    ASSUME RowsInv, NEW d \in Docs, NEW j \in OpenJobs(d), DropClaim(d, j),
           doc' = [doc EXCEPT ![d] = Release(@, Reindexes(d, j))]
    PROVE  ClaimStep
<1>1. doc \in [Docs -> DocRow] BY Tables
<1>2. j \in Jobs /\ job[d][j].v \in Versions /\ j # 0
  BY ActiveIsThere DEF OpenJobs, Open, Jobs
<1>3. PICK x : x = Release(doc[d], Reindexes(d, j)) OBVIOUS
<1>4. doc' = [doc EXCEPT ![d] = x] BY <1>1, <1>3
<1>5. Reindexes(d, j) \in BOOLEAN BY DEF Reindexes
<1>6. \A e \in Docs : Stays(e) BY <1>3, <1>4, <1>5, ReleaseStays, OneStays
<1>7. CASE Reindexes(d, j) BY <1>6, <1>7 DEF DropClaim, ClaimStep
<1>8. CASE ~ Reindexes(d, j)
  <2>1. j = doc[d].op BY Operation DEF RowsInv, OpInv
  <2>2. job[d][j].v # doc[d].active
    BY <1>2, <1>8, <2>1 DEF Reindexes, RowsInv, OpInv, DocInv, Operates
  <2>3. Drops(d, job[d][j].v) BY <1>6, <1>8, <2>2 DEF Drops, DropClaim
  <2> QED BY <1>2, <1>6, <2>3 DEF ClaimStep
<1> QED BY <1>7, <1>8

LEMMA PublishClaims ==
    ASSUME RowsInv, NEW d \in Docs, NEW j \in Jobs, job[d][j].st = "running", doc[d].op = j,
           Unmoved(d, j), Publish(d, j), ~ Duplicate(d, j),
           <<d, job[d][j].v>> \in stored, UNCHANGED stored
    PROVE  ClaimStep
<1> DEFINE v == job[d][j].v
<1>1. doc \in [Docs -> DocRow] /\ doc[d] \in DocRow /\ j # 0 /\ v \in Versions
  BY Tables, ActiveIsThere DEF Jobs
<1>2. doc[d].life = "active" BY <1>1, ActiveIsThere
<1>3. doc'[d] = [Release(doc[d], FALSE) EXCEPT !.active = v] BY <1>1 DEF Publish
<1>4. doc'[d].active = v /\ doc'[d].life = "active" BY <1>1, <1>2, <1>3 DEF Release, DocRow
<1>5. \A e \in Docs \ {d} : Stays(e) BY <1>1 DEF Publish, Stays
<1>6. CASE Reindexes(d, j)
  <2>1. v = doc[d].active BY <1>6 DEF Unmoved, Reindexes
  <2>2. Stays(d) BY <1>4, <2>1 DEF Stays
  <2> QED BY <1>5, <1>6, <2>2 DEF Publish, ClaimStep
<1>7. CASE ~ Reindexes(d, j)
  <2>1. claim' = Claims(d, v) /\ ~ ClaimedByOther(d, ver[d][v].content)
    BY <1>7 DEF Publish, Duplicate
  <2>2. ver[d][v].st # "none" /\ <<d, v>> \in stored /\ stored' = stored
    BY DEF RowsInv, JobsGoForward
  <2> HIDE DEF v
  <2>3. Swaps(d, v) BY <1>2, <1>4, <2>1, <2>2 DEF Swaps
  <2> QED BY <1>1, <1>5, <2>3 DEF ClaimStep
<1> QED BY <1>6, <1>7

LEMMA ReclaimClaims == RowsInv /\ Reclaim => ClaimStep
<1> SUFFICES ASSUME RowsInv, Reclaim PROVE \A e \in Docs : Stays(e)
  BY DEF Reclaim, ClaimStep
<1> TAKE e \in Docs
<1>1. Reindexes(e, doc[e].op) \in BOOLEAN BY DEF Reindexes
<1>2. doc'[e] = doc[e] \/ doc'[e] = Release(doc[e], Reindexes(e, doc[e].op)) BY DEF Reclaim
<1> QED BY <1>1, <1>2, ReleaseStays DEF Stays

LEMMA WorkerClaims ==
    ASSUME RowsInv, NEW w \in Workers, Step(w) \/ Crash(w)
    PROVE  ClaimStep
<1> DEFINE d == work[w].d
           j == work[w].j
<1>1. CASE UNCHANGED <<doc, claim>> BY <1>1, SameStays DEF ClaimStep
<1>2. CASE Accept(w)
  <2>1. d \in Docs /\ j \in Jobs BY <1>2, WorkerJob DEF Accept, RowsInv, OpInv
  <2>3. <<d, job[d][j].v>> \in stored /\ UNCHANGED stored BY <1>2 DEF Accept
  <2>2. CASE Held(w) /\ doc[d].op = j /\ Unmoved(d, j) /\ ~ Duplicate(d, j) /\ Publish(d, j)
    BY <2>1, <2>2, <2>3, PublishClaims DEF Held, Current
  <2> QED BY <1>1, <1>2, <2>2 DEF Accept, rows
<1>3. CASE Fail(w)
  <2>1. d \in Docs /\ j \in Jobs BY <1>3, WorkerJob DEF Fail, RowsInv, OpInv
  <2>2. ASSUME NEW state, Current(w), Close(d, j, state, "failed") PROVE ClaimStep
    <3>1. j \in OpenJobs(d) BY <2>1, <2>2 DEF Current, OpenJobs, Open
    <3>2. DropClaim(d, j) /\ doc' = [doc EXCEPT ![d] = Release(@, Reindexes(d, j))]
      BY <2>2 DEF Close
    <3> HIDE DEF d, j
    <3> QED BY <2>1, <3>1, <3>2, ReleaseClaims
  <2> QED BY <1>1, <1>3, <2>2 DEF Fail, rows
<1> QED BY <1>1, <1>2, <1>3
       DEF Step, CopyStart, Copy, CopyFails, CopyRelease, ProcessFails, Lost, Crash, rows

LEMMA DeletionClaims ==
    ASSUME RowsInv, NEW d \in Docs, DeleteDocument(d) \/ FinalizeDeletion(d)
    PROVE  ClaimStep
<1>1. doc \in [Docs -> DocRow] /\ doc[d] \in DocRow BY Tables
<1>2. CASE DeleteDocument(d)
  <2>1. doc'[d] = [NoDoc EXCEPT !.life = "pending_delete"] BY <1>1, <1>2 DEF DeleteDocument
  <2>2. doc'[d].life # "active" /\ doc'[d].active = 0 BY <2>1 DEF NoDoc
  <2>3. Forgets(d) BY <1>2, <2>2 DEF Forgets, DeleteDocument
  <2>4. \A e \in Docs \ {d} : Stays(e) BY <1>1, <1>2 DEF DeleteDocument, Stays
  <2> QED BY <2>3, <2>4 DEF ClaimStep
<1>3. CASE FinalizeDeletion(d)
  <2>1. PICK life : doc' = [doc EXCEPT ![d] = [@ EXCEPT !.sealed = TRUE, !.life = life]]
    BY <1>3 DEF FinalizeDeletion
  <2>2. PICK x : x = [doc[d] EXCEPT !.sealed = TRUE, !.life = life] OBVIOUS
  <2>3. x.active = doc[d].active BY <1>1, <2>2 DEF DocRow
  <2>4. doc' = [doc EXCEPT ![d] = x] BY <1>1, <2>1, <2>2
  <2>5. doc[d].life # "active" /\ claim' = claim BY <1>3 DEF FinalizeDeletion
  <2> QED BY <2>3, <2>4, <2>5, OneStays DEF ClaimStep
<1> QED BY <1>2, <1>3

LEMMA ReplayClaims ==
    ASSUME RowsInv, NEW d \in Docs, NEW j \in Jobs, ReplayJob(d, j)
    PROVE  ClaimStep
<1>1. doc \in [Docs -> DocRow] /\ doc[d] \in DocRow BY Tables
<1>2. PICK pending : doc' = [doc EXCEPT ![d] = [@ EXCEPT !.op = j, !.pending = pending]]
  BY DEF ReplayJob
<1>3. PICK x : x = [doc[d] EXCEPT !.op = j, !.pending = pending] OBVIOUS
<1>4. x.active = doc[d].active /\ x.life = doc[d].life BY <1>1, <1>3 DEF DocRow
<1>5. doc' = [doc EXCEPT ![d] = x] /\ claim' = claim BY <1>1, <1>2, <1>3 DEF ReplayJob
<1> QED BY <1>4, <1>5, OneStays DEF ClaimStep

LEMMA ClaimsMove == RowsInv /\ [Next]_vars => ClaimStep
<1> SUFFICES ASSUME RowsInv, [Next]_vars PROVE ClaimStep OBVIOUS
<1>1. CASE UNCHANGED <<doc, claim>> BY <1>1, SameStays DEF ClaimStep
<1>2. ASSUME NEW d \in Docs, NEW j \in Jobs, CancelJob(d, j) PROVE ClaimStep
  BY <1>2, ReleaseClaims DEF CancelJob, OpenJobs
<1>3. ASSUME NEW g \in Generations, PurgeGeneration(g) PROVE ClaimStep
  BY <1>3, CollectionMarks DEF RowsInv, OpInv, ClaimStep, Stays
<1> QED BY ZenonT(40), <1>1, <1>2, <1>3, AcceptsClaims, ReplayClaims, DeletionClaims, ReclaimClaims, WorkerClaims
       DEF Next, Accepts, LeaseLapses, Claim, StartPurge, FinishPurge, EraseDocument,
           EraseVersion, EraseAll, Acquire, ReadEnds, SwitchGeneration, vars, rows

LEMMA ServeStep ==
    ASSUME ServeInv, [Next]_vars
    PROVE  ServeInv'
<1>1. RowsInv' BY RowsStep DEF ServeInv
<1>2. (\A d \in Docs : DocStep(d)) /\ ClaimStep BY DocumentMoves, ClaimsMove DEF ServeInv
<1>3. \A d \in Docs : Serves(d)' /\ Owns(d)' BY <1>2, ServesStep, OwnsStep DEF ServeInv
<1> QED BY <1>1, <1>3 DEF ServeInv

LEMMA ServeInit == Init => ServeInv
<1> SUFFICES ASSUME Init, NEW d \in Docs PROVE Serves(d) /\ Owns(d) BY RowsInit DEF ServeInv
<1>1. Serves(d) BY DEF Init, Serves, NoDoc, NoVersion, NoJob
<1>2. d # 0 BY DEF Docs
<1>3. Owns(d) BY <1>2 DEF Init, Owns, NoDoc, NoOne
<1> QED BY <1>1, <1>3

\* a set of at most one element
LEMMA AtMostOne ==
    ASSUME NEW S, \A a, b \in S : a = b
    PROVE  Cardinality(S) <= 1
<1>1. CASE S = {} BY <1>1, FS_EmptySet
<1>2. CASE S # {}
  <2>1. PICK a : S = {a} BY <1>2
  <2> QED BY <2>1, FS_Singleton
<1> QED BY <1>1, <1>2

LEMMA ServesIsEnough == ServeInv => ServesItsOwn
<1> SUFFICES ASSUME ServeInv, NEW d \in Docs
             PROVE  /\ {v \in Versions : ver[d][v].st = "active"} = {doc[d].active} \ {0}
                    /\ {job[d][j].v : j \in {i \in Jobs : job[d][i].pub = "active"}} =
                           {doc[d].active} \ {0}
                    /\ Cardinality({j \in Jobs : job[d][j].pub = "active"}) <= 1
                    /\ doc[d].active # 0 =>
                         claim[ver[d][doc[d].active].content] = <<d, doc[d].active>>
                    /\ Cardinality({c \in Contents : claim[c][1] = d}) <= 1
                    /\ doc[d].life # "active" => \A c \in Contents : claim[c][1] # d
  BY DEF ServesItsOwn, OneActive, OwnsContent
<1>1. RowsInv /\ Serves(d) /\ Owns(d) /\ (\A v \in Versions : v # 0) BY DEF ServeInv, Versions
<1>2. {v \in Versions : ver[d][v].st = "active"} = {doc[d].active} \ {0}
  BY <1>1, ActiveIsThere DEF Serves
<1>3. ASSUME NEW j \in Jobs, job[d][j].pub = "active"
      PROVE  job[d][j].v = doc[d].active /\ doc[d].active # 0
  BY <1>1, <1>3, ActiveIsThere DEF Serves, RowsInv, PublishedIsOver
<1>4. {job[d][j].v : j \in {i \in Jobs : job[d][i].pub = "active"}} = {doc[d].active} \ {0}
  BY <1>1, <1>3 DEF Serves
<1>5. Cardinality({j \in Jobs : job[d][j].pub = "active"}) <= 1 BY <1>1, AtMostOne DEF Serves
<1>6. Cardinality({c \in Contents : claim[c][1] = d}) <= 1 BY <1>1, AtMostOne DEF Owns
<1> QED BY <1>1, <1>2, <1>4, <1>5, <1>6 DEF Owns

\* What a document serves is one version, published once and claimed for that
\* document alone: no race of uploads, publications, cancellations and deletions
\* leaves two documents with one content, or a document with two versions
\* (accept_processing_receipt and _replace_dedup_claim)
THEOREM ServesOwn == Spec => []ServesItsOwn
<1> QED BY ServeInit, ServeStep, ServesIsEnough, PTL DEF Spec

-----------------------------------------------------------------------------
(* What is in use *)

\* a version that may be read
Kept(d, v) ==
    /\ <<d, v>> \in stored
    /\ ver[d][v].st \notin {"none", "purging", "purged"}
    /\ ~ doc[d].sealed

\* the source of a restore that has not been copied
SourceKept(d) == \A j \in OpenJobs(d) :
    job[d][j].hold # 0 /\ job[d][j].replays = 0 =>
        ver[d][job[d][j].hold].st \notin {"purging", "purged"}

UseInv ==
    /\ RowsInv
    /\ \A r \in Readers, d \in Docs, v \in Versions : lease[r] = <<d, v>> => Kept(d, v)
    /\ \A d \in Docs : doc[d].active # 0 => <<d, doc[d].active>> \in stored
    /\ \A d \in Docs : SourceKept(d)

\* only what was purged or belongs to a deletion that was sealed is erased
LEMMA StoredMoves ==
    ASSUME RowsInv, [Next]_vars, NEW d \in Docs, NEW v \in Versions,
           <<d, v>> \in stored, <<d, v>> \notin stored'
    PROVE  ver[d][v].st = "purging" \/ (doc[d].sealed /\ doc[d].life = "pending_delete")
<1>1. ASSUME NEW e \in Docs, NEW u \in Versions, EraseVersion(e, u)
      PROVE  ver[d][v].st = "purging"
  BY <1>1 DEF EraseVersion, EraseAll
<1>2. ASSUME NEW e \in Docs, EraseDocument(e)
      PROVE  doc[d].sealed /\ doc[d].life = "pending_delete"
  BY <1>2 DEF EraseDocument, EraseAll
<1>3. ASSUME NEW w \in Workers, Step(w) \/ Crash(w) PROVE FALSE
  BY <1>3
     DEF Step, CopyStart, Copy, CopyFails, CopyRelease, ProcessFails, Lost, Accept, Fail, Crash
<1>4. ASSUME NEW e \in Docs, Accepts(e) PROVE FALSE
  BY <1>4 DEF Accepts, Upload, Replace, Restore, Supply, Reindex
<1>5. ASSUME NEW e \in Docs, NEW j \in Jobs,
             \/ CancelJob(e, j) \/ ReplayJob(e, j) \/ LeaseLapses(e, j)
             \/ \E w \in Workers : Claim(w, e, j)
      PROVE  FALSE
  BY <1>5 DEF CancelJob, ReplayJob, LeaseLapses, Claim
<1>6. ASSUME NEW e \in Docs, NEW u \in Versions,
             StartPurge(e, u) \/ FinishPurge(e, u) \/ \E r \in Readers : Acquire(r, e, u)
      PROVE  FALSE
  BY <1>6 DEF StartPurge, FinishPurge, Acquire
<1>7. ~ \E e \in Docs : DeleteDocument(e) \/ FinalizeDeletion(e)
  BY DEF DeleteDocument, FinalizeDeletion
<1>8. /\ ~ Reclaim /\ ~ UNCHANGED vars /\ ~ \E r \in Readers : ReadEnds(r)
      /\ ~ \E g \in Generations : SwitchGeneration(g) \/ PurgeGeneration(g)
  BY DEF Reclaim, ReadEnds, SwitchGeneration, PurgeGeneration, vars
<1> QED BY <1>1, <1>2, <1>3, <1>4, <1>5, <1>6, <1>7, <1>8 DEF Next, Accepts

\* leases end, or begin on a version of a live document
LEMMA LeaseMoves ==
    ASSUME TypeInv, [Next]_vars, NEW r \in Readers
    PROVE  \/ lease'[r] = lease[r] \/ lease'[r] = NoOne
           \/ /\ UNCHANGED <<rows, stored>>
              /\ \E d \in Docs, v \in Versions :
                   /\ lease'[r] = <<d, v>> /\ doc[d].life = "active" /\ <<d, v>> \in stored
                   /\ ver[d][v].st \in {"active", "superseded"}
<1>1. lease \in [Readers -> (Docs \X Versions) \cup {NoOne}] BY DEF TypeInv, TypeOK
<1>2. ASSUME NEW o \in Readers, NEW d \in Docs, NEW v \in Versions, Acquire(o, d, v)
      PROVE  lease'[r] = lease[r] \/ (r = o /\ lease'[r] = <<d, v>>)
  BY <1>1, <1>2 DEF Acquire
<1>3. ASSUME NEW o \in Readers, ReadEnds(o) PROVE lease'[r] = lease[r] \/ lease'[r] = NoOne
  BY <1>1, <1>3 DEF ReadEnds
<1>4. ASSUME NEW w \in Workers, Step(w) \/ Crash(w) PROVE lease' = lease
  BY <1>4
     DEF Step, CopyStart, Copy, CopyFails, CopyRelease, ProcessFails, Lost, Accept, Fail, Crash
<1>5. ASSUME NEW e \in Docs, Accepts(e) PROVE lease' = lease
  BY <1>5 DEF Accepts, Upload, Replace, Restore, Supply, Reindex
<1>6. ASSUME NEW e \in Docs, NEW j \in Jobs,
             \/ CancelJob(e, j) \/ ReplayJob(e, j) \/ LeaseLapses(e, j)
             \/ \E w \in Workers : Claim(w, e, j)
      PROVE  lease' = lease
  BY <1>6 DEF CancelJob, ReplayJob, LeaseLapses, Claim
<1>7. ASSUME NEW e \in Docs, NEW u \in Versions,
             StartPurge(e, u) \/ EraseVersion(e, u) \/ FinishPurge(e, u)
      PROVE  lease' = lease
  BY <1>7 DEF StartPurge, EraseVersion, EraseAll, FinishPurge
<1>8. ASSUME NEW e \in Docs, DeleteDocument(e) \/ EraseDocument(e) \/ FinalizeDeletion(e)
      PROVE  lease' = lease
  BY <1>8 DEF DeleteDocument, EraseDocument, EraseAll, FinalizeDeletion
<1>9. Reclaim \/ UNCHANGED vars \/ (\E g \in Generations : SwitchGeneration(g) \/ PurgeGeneration(g))
        => lease' = lease
  BY DEF Reclaim, SwitchGeneration, PurgeGeneration, vars
<1>10. ASSUME NEW o \in Readers, NEW d \in Docs, NEW v \in Versions, Acquire(o, d, v)
       PROVE  /\ UNCHANGED <<rows, stored>> /\ doc[d].life = "active" /\ <<d, v>> \in stored
              /\ ver[d][v].st \in {"active", "superseded"}
  BY <1>10 DEF Acquire, rows
<1>11. CASE \E o \in Readers, d \in Docs, v \in Versions : Acquire(o, d, v)
  <2>1. PICK o \in Readers, d \in Docs, v \in Versions : Acquire(o, d, v) BY <1>11
  <2>2. lease'[r] = lease[r] \/ lease'[r] = <<d, v>> BY <1>2, <2>1
  <2> QED BY <1>10, <2>1, <2>2
<1> QED BY <1>3, <1>4, <1>5, <1>6, <1>7, <1>8, <1>9, <1>11 DEF Next, Accepts

\* what a reader holds is neither purged nor sealed
LEMMA ReadStays ==
    ASSUME RowsInv, NEW d \in Docs, NEW v \in Versions, DocStep(d), Read(d, v), Kept(d, v)
    PROVE  ver'[d][v].st \notin {"none", "purging", "purged"} /\ ~ doc'[d].sealed
<1>1. ver[d][v].st \notin {"none", "purging", "purged"} /\ ~ doc[d].sealed BY DEF Kept
<1>2. CASE GoesOn(d) \/ Deletes(d) BY <1>1, <1>2 DEF GoesOn, Deletes
<1>3. ASSUME NEW j \in Jobs, NEW u \in Versions, Begins(d, j, u)
      PROVE  ver'[d][v].st \notin {"none", "purging", "purged"} /\ ~ doc'[d].sealed
  BY <1>1, <1>3 DEF Begins
<1>4. ASSUME NEW j \in Jobs, Ends(d, j) \/ Publishes(d, j)
      PROVE  ver'[d][v].st \notin {"none", "purging", "purged"} /\ ~ doc'[d].sealed
  BY <1>1, <1>4 DEF Ends, Publishes
<1>5. ASSUME NEW gone \in SUBSET Versions, Purges(d, gone)
      PROVE  ver'[d][v].st \notin {"none", "purging", "purged"} /\ ~ doc'[d].sealed
  <2>1. v \notin gone BY <1>1, <1>5 DEF Purges
  <2>2. v \in Known(d) BY <1>1 DEF Known
  <2> QED BY <1>1, <1>5, <2>1, <2>2 DEF Purges
<1> QED BY <1>2, <1>3, <1>4, <1>5 DEF DocStep, Rebuilds, Replays, Supplies

LEMMA SourceStays ==
    ASSUME RowsInv, NEW d \in Docs, DocStep(d), SourceKept(d),
           job' \in [Docs -> [Jobs -> JobRow]]
    PROVE  SourceKept(d)'
<1> SUFFICES ASSUME NEW i \in Jobs, job'[d][i].st \in Open, job'[d][i].hold # 0,
                    job'[d][i].replays = 0
             PROVE  ver'[d][job'[d][i].hold].st \notin {"purging", "purged"}
  BY DEF SourceKept, OpenJobs
<1> DEFINE h == job'[d][i].hold
<1>1. /\ \A k \in Jobs : job[d][k].st \in Open => k = doc[d].op
      /\ doc[d].op # 0 => doc[d].life = "active" /\ doc[d].op \in OpenJobs(d)
      /\ i # 0
  BY Operation DEF RowsInv, OpInv, OpenJobs, Jobs
<1>2. h \in Versions
  <2>1. job'[d][i] \in JobRow OBVIOUS
  <2> QED BY <2>1 DEF JobRow, Versions
<1>3. ASSUME i \in OpenJobs(d), job[d][i].replays = 0, h = job[d][i].hold
      PROVE  ver[d][h].st \notin {"purging", "purged"}
  BY <1>3 DEF SourceKept
<1>4. CASE GoesOn(d)
  <2>1. JobGoesOn(d, i) BY <1>4 DEF GoesOn
  <2>2. i \in OpenJobs(d) /\ job[d][i].replays = 0 /\ h = job[d][i].hold
    BY <2>1 DEF JobGoesOn, OpenJobs
  <2> QED BY <1>3, <1>4, <2>2 DEF GoesOn
<1>5. ~ Deletes(d) BY DEF Deletes
<1>6. ASSUME NEW j \in Jobs, NEW v \in Versions, Begins(d, j, v) PROVE i = j
  <2>1. job[d][i].st \notin Open BY <1>1, <1>6 DEF Begins
  <2> QED BY <1>6, <2>1 DEF Begins
<1>7. ASSUME NEW j \in Jobs, Rebuilds(d, j) \/ Replays(d, j) PROVE FALSE
  <2>1. i = j BY <1>6, <1>7 DEF Rebuilds, Replays
  <2> QED BY <1>7, <2>1 DEF Rebuilds, Replays
<1>8. ASSUME NEW j \in Jobs, NEW v \in Versions, Supplies(d, j, v)
      PROVE  ver'[d][h].st \notin {"purging", "purged"}
  <2>1. i = j BY <1>6, <1>8 DEF Supplies
  <2>2. ver[d][h].st = "superseded" BY <1>8, <2>1 DEF Supplies
  <2>3. h # v BY <1>8, <2>2 DEF Supplies, NextVersion
  <2> QED BY <1>2, <1>8, <2>2, <2>3 DEF Supplies, Begins
<1>9. ASSUME NEW j \in Jobs, Ends(d, j) \/ Publishes(d, j) PROVE FALSE
  <2>1. i = j => job'[d][i].st \notin Open BY <1>9 DEF Ends, Publishes, Open, Over
  <2>2. i # j => job'[d][i].st = job[d][i].st BY <1>9 DEF Ends, Publishes
  <2> QED BY <1>1, <1>9, <2>1, <2>2 DEF Ends, Publishes
<1>10. ASSUME NEW gone \in SUBSET Versions, Purges(d, gone)
       PROVE  ver'[d][h].st \notin {"purging", "purged"}
  <2>1. JobGoesOn(d, i) BY <1>10 DEF Purges
  <2>2. i \in OpenJobs(d) /\ job[d][i].replays = 0 /\ h = job[d][i].hold
    BY <2>1 DEF JobGoesOn, OpenJobs
  <2>3. h \notin gone BY <1>10, <2>2 DEF Purges
  <2> QED BY <1>2, <1>3, <1>10, <2>2, <2>3 DEF Purges
<1> QED BY <1>4, <1>5, <1>7, <1>8, <1>9, <1>10 DEF DocStep

LEMMA UseStep ==
    ASSUME UseInv, [Next]_vars
    PROVE  UseInv'
<1>1. RowsInv /\ RowsInv' /\ (\A d \in Docs : DocStep(d)) /\ ClaimStep
  BY RowsStep, DocumentMoves, ClaimsMove DEF UseInv
<1>2. TypeInv /\ job' \in [Docs -> [Jobs -> JobRow]]
  BY <1>1 DEF RowsInv, OpInv, TypeInv, TypeOK
<1>3. \A d \in Docs : SourceKept(d)' BY <1>1, <1>2, SourceStays DEF UseInv
<1>4. ASSUME NEW r \in Readers, NEW d \in Docs, NEW v \in Versions, lease'[r] = <<d, v>>
      PROVE  Kept(d, v)'
  <2>1. <<d, v>> # NoOne BY DEF NoOne, Docs
  <2>2. CASE lease[r] = <<d, v>>
    <3>1. Kept(d, v) BY <2>2 DEF UseInv
    <3>2. Read(d, v) BY <2>2 DEF Read
    <3>3. ver'[d][v].st \notin {"none", "purging", "purged"} /\ ~ doc'[d].sealed
      BY <1>1, <3>1, <3>2, ReadStays
    <3>4. <<d, v>> \in stored' BY <1>1, <3>1, StoredMoves DEF Kept
    <3> QED BY <3>3, <3>4 DEF Kept
  <2>3. CASE lease[r] # <<d, v>>
    <3>4. /\ UNCHANGED <<rows, stored>>
          /\ \E e \in Docs, u \in Versions :
               /\ lease'[r] = <<e, u>> /\ doc[e].life = "active" /\ <<e, u>> \in stored
               /\ ver[e][u].st \in {"active", "superseded"}
      BY <1>2, <1>4, <2>1, <2>3, LeaseMoves
    <3>1. /\ UNCHANGED <<rows, stored>> /\ doc[d].life = "active" /\ <<d, v>> \in stored
          /\ ver[d][v].st \in {"active", "superseded"}
      BY <1>4, <3>4
    <3>2. ~ doc[d].sealed BY <1>1, <3>1 DEF RowsInv, SealedIsDeleted
    <3> QED BY <3>1, <3>2 DEF Kept, rows
  <2> QED BY <2>2, <2>3
<1>5. ASSUME NEW d \in Docs, doc'[d].active # 0
      PROVE  <<d, doc'[d].active>> \in stored'
  <2>1. CASE doc'[d].active = doc[d].active
    <3>1. /\ doc[d].active \in Versions /\ doc[d].life = "active"
          /\ ver[d][doc[d].active].st = "active" /\ <<d, doc[d].active>> \in stored
      BY <1>1, <1>5, <2>1, ActiveIsThere DEF UseInv
    <3> QED BY <1>1, <2>1, <3>1, StoredMoves
  <2>2. CASE doc'[d].active # doc[d].active
    <3>1. \E v \in Versions : Swaps(d, v)
      BY <1>1, <1>5, <2>2 DEF ClaimStep, Stays, Takes, Drops, Forgets
    <3> QED BY <3>1 DEF Swaps
  <2> QED BY <2>1, <2>2
<1> QED BY <1>1, <1>3, <1>4, <1>5 DEF UseInv

LEMMA UseInit == Init => UseInv
<1> SUFFICES ASSUME Init PROVE UseInv OBVIOUS
<1>1. ASSUME NEW r \in Readers, NEW d \in Docs, NEW v \in Versions PROVE lease[r] # <<d, v>>
  BY DEF Init, NoOne, Docs
<1>2. \A d \in Docs : doc[d].active = 0 /\ SourceKept(d)
  BY DEF Init, NoDoc, NoJob, SourceKept, OpenJobs, Open
<1> QED BY <1>1, <1>2, RowsInit DEF UseInv

LEMMA UseIsEnough == UseInv => InUseIsKept
<1> SUFFICES ASSUME UseInv PROVE InUseIsKept OBVIOUS
<1>1. lease \in [Readers -> (Docs \X Versions) \cup {NoOne}]
  BY DEF UseInv, RowsInv, OpInv, TypeInv, TypeOK
<1>2. ASSUME NEW r \in Readers, lease[r] # NoOne
      PROVE  /\ ver[lease[r][1]][lease[r][2]].st \notin {"purging", "purged"}
             /\ lease[r] \in stored
  <2>1. PICK d \in Docs, v \in Versions : lease[r] = <<d, v>> BY <1>1, <1>2
  <2> QED BY <2>1 DEF UseInv, Kept
<1> QED BY <1>2 DEF InUseIsKept, UseInv, SourceKept

\* Whatever retention, deletions and readers do meanwhile, the version a reader
\* holds, the one that is served and the source of a restore to be copied are
\* neither purged nor erased (purge_retained_versions, finalize_deletion)
THEOREM InUse == Spec => []InUseIsKept
<1> QED BY UseInit, UseStep, UseIsEnough, PTL DEF Spec

=============================================================================
