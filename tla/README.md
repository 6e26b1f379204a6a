# RAGqs in TLA+

RAGqs is an enterprise retrieval-augmented-generation platform: a FastAPI
service on SQLAlchemy (PostgreSQL in production, SQLite in a single node) whose
resident workers answer chat messages, ingest documents, deliver notifications
and keep the books on paid provider calls.  Almost nothing in it is a pure
function of its input.  Every long operation is a row with a status, a lease and
a fencing token, advanced by short transactions of several processes that may
crash, stall or be overtaken between any two of them.  The modules here are about
that: which orders of those transactions are possible, and what survives them.

Contents

1. Components of the system
2. Modules, and how to read them
3. Answering: `ChatGeneration`, `ChatRequests`, `Stream`, `Budget`, `Price`
4. Outbox and notifications: `Outbox`, `NotificationPromise`
5. Provider calls and their circuit: `ProviderCall`, `CallAccount`, `Circuit`
6. Documents: `Ingestion`, `Submissions`, `Quota`, `Metering`
7. The index: `Enrichment`, `IndexStaging`, `Generations`, `Releases`, `Retrieval`, `ContextAssembly`, `GraphBuild`
8. Identity: `Sessions`, `Directory`, `Accounts`
9. Upkeep: `Backup`, `Restore`, `Evaluation`, `Calibration`
10. Runs and bounds
11. Fairness
12. Proofs
13. Where the code and its documentation part
14. What is not modelled
15. Plan

## 1. Components of the system

Paths are below `src/app`.  A component's hard behaviour is what decides whether
it needs a model; the lines where it bites are the `hazards` of `PROJECT.json`.

| component | module | state | what makes it hard | what makes it correct |
|---|---|---|---|---|
| chat generations (`chat/generation.py`, `worker.py`) | `ChatGeneration` | generation, message, execution rows, event log | a worker writes minutes after it read; leases lapse under live workers; the provider's answer may be unknown | one execution can run; one terminal event, matching the end; nothing is published after a stop; every generation ends |
| chat requests (`chat/generation.py`, `conversations.py`) | `ChatRequests` | conversations, generations, idempotency keys, feedback | limits and keys are read without a lock and written later | one answer per key; the attempts at a question are a line; feedback and pairs belong to an answer |
| chat streaming (`chat/streaming.py`, `leases.py`) | `Stream` | subscription lease, grace period, the reader's last event id | disconnect against reconnect against reap | a reader sees every event once, and the last one too |
| generation budget (`usage/budget.py`, `chat/budget.py`) | `Budget` | meter, reservations, an in-memory meter per execution | executions that overlap, calls whose result stays unknown, upgrades | the meter is the sum of its reservations; a closed meter admits nothing |
| prices (`usage/price.py`, `ledger.py`) | `Price` | price versions, priced calls | a version registered or closed while calls under it are being sent | a call is charged at the price of its dispatch |
| outbox and notifications (`outbox`) | `Outbox` | event, delivery, attempt, notification, ack, receipt rows; an inbox lock per user | deliveries, acknowledgements, retirement and redaction read each other's rows without one common lock | each recipient ends with exactly one fate; a retired account has no notification; a deleted document none that shows it |
| provider calls (`usage/provider_integration.py`, `reconcile.py`) | `ProviderCall` | provider_call row, usage event, reconciliation amount | a crash between the request and its row; a late answer against a tick | served requests are billed once, unserved ones never |
| provider policy (`platform/provider.py`) | `Circuit` | in-memory circuit per provider and operation | concurrent calls, exceptions between taking the probe and handing it over | one probe at a time; never locked for good |
| documents (`documents`) | `Ingestion` | document, version, job, attempt, claim, read lease, publication, hold, deletion rows | two jobs for the same content; lost leases; retention and deletion against readers and restores | one operation per document; one active version; nobody reads a purged version; jobs and deletions end |
| submissions (`documents/submissions.py`) | `Submissions` | submission row, private object, claim, document | a review holds its row over a copy; identity changes meet it | one document per file; approved for members only; ends are announced |
| quota (`usage/quota.py`, `requests.py`) | `Quota` | append-only ledger, projection, requests | entries that wait for the projection while it is rebuilt | the projection is the sum of the ledger; requests end |
| local meters (`usage/metering.py`) | `Metering` | checkpoints, usage events | a lease that expires under a live execution | nothing reported is lost; one event per meter |
| billing (`usage/billing.py`) | none | bills, allocations | concurrent reconciliation | see 14 |
| index processing (`indexing/processing.py`, `contextual.py`) | `Enrichment` | prefix cache, usage facts | warm-up before a thread pool, partial failure | every chunk enhanced or raw; every call in the ledger |
| search backends (`indexing/service.py`, stores) | `IndexStaging` | staged and published rows of two stores | no common transaction with the register | what is registered can be found; the rest cannot |
| index generations (`indexing/persistence.py`, `retention`) | `Generations` | staged, active, retired generations, log of changes, pins | publication during a switch; collection against readers | what may be reached is not collected; a switch is whole |
| releases (`indexing/releases.py`) | `Releases` | gates, releases, component manifests | components and gates change while a release is judged | what is released met the gate it was staged under |
| retrieval (`indexing/retrieval.py`, `documents/read_models.py`) | `Retrieval`, `ContextAssembly` | read leases, hits | documents are replaced, deleted and purged under a request that may outlive its leases | hits are kept while their lease lives; answers are current and within their budget |
| public graph (`graph`, `indexing/graph.py`, `documents/public_graph.py`) | `GraphBuild` | source revisions, runs, stages, components | lost leases between stage, release and completion | one run; a released graph is current |
| sessions (`identity/service.py`) | `Sessions` | sessions, refresh chains, throttle | two tabs refresh at once; password changes against both | an ended session gives no token |
| departments (`identity/service.py`) | `Directory` | departments, members, keys | deactivation against joining, uploading, and work that was authorised before | an inactive department has no member, no upload and no pending submission |
| account deletion (`identity/service.py`) | `Accounts` | workflow, archive, avatars | files and rows without a common transaction | the tombstone comes last; no avatar is lost |
| evaluation (`evaluation`) | `Evaluation`, `Calibration` | shadow runs, suggestions; windows, pairs, default | a run that outlives its lease; votes while a window closes | a run has one judge; every vote counts once |
| backup (`backup`) | `Backup`, `Restore` | write gate, sets, sessions, repair targets | writers that cached the gate; processes that die with it closed or outlive their lease; two restores at once | one execution copies, behind its closed gate; writes resume; the newest sets survive |
| retention (`retention`) | in `Generations`, `Ingestion` | findings | hand-over between owners | as the owners |
| document previews, platform runtime, HTTP API, migrations, frontend | none | | | see 14 |

How they interact.  The API calls a service, which writes rows in one
transaction together with the outbox event that announces them; nothing is sent
directly.  Resident workers poll the tables: the execution worker claims
generations, the ingestion worker jobs, the dispatcher deliveries, and
maintenance loops take back lapsed leases.  Chat, indexing, graph and
evaluation all reach their providers through `run_provider_call_with_usage`,
which keeps the ledger, around the policy, which retries and holds the circuit.
Identity reaches the others by revoking: a revoked session ends its generations,
a change of authority invalidates submissions, a deletion refuses document
writes and retires the inbox.  Backup reaches all of them through the write gate.

## 2. Modules, and how to read them

Every component above has a module named in its row.  Beside them:

| module | what it is |
|---|---|
| `NotificationPromise` | abstract: what the outbox promises the recipients of an event |
| `CallAccount` | abstract: what the ledger promises about each request |
| `MCAnswering` | session, generation, budget and prices of a question, side by side |
| `MCRequests` | what requests share: inbox, departments, asks, releases, context, enrichment, index, graph, quota, meters |
| `MCDelivery` | what must end although nobody waits: deliveries, generations, streams, submissions, index |
| `MCCalls` | provider calls, retrieval, and publication in two kinds of backends |
| `MCUpkeep` | circuit, backup, restore, evaluation, calibration, account deletion, graph builds |
| `MCChatGeneration`, `MCIngestion`, `MCOutbox` | symmetry sets and constant-valued definitions of one component |
| `...Proofs` | theorems about the module of that name, and their proofs |

Conventions, the same in all of them.

* One action is one database transaction, or the computation between two of
  them, or one section under a `threading.Lock`.  A comment beside it names the
  function; `map` in `PROJECT.json` gives its lines.  Where the code reads in
  one transaction and writes in another, or reads before it waits for a lock, the
  action is split there, and what was read is kept in the record of the process
  (`work`, `tick`, `scanned`, `handling`, `qtx`, `creators`, ...) until it is used.
* A table is a function from ids to records.  Ids are model values, except
  where the code orders them (attempt numbers, versions, jobs, recipients).
* Clocks are left out.  A lease lapsing, a grace period ending, a deadline
  passing are actions, possible at any time the code leaves them possible.  Two
  modules count ticks because there an instant matters: `Circuit` and `Price`.
  (`Releases` has instants too, but they are only compared.)
* A crash takes away the process record and nothing else: everything else is in
  the database.  (The circuit is in memory and dies with its process, so it
  has no crash.)
* Constants that come from the code keep its names in comments; constants that
  exist only to make the state space finite are called `bound` where declared.
* Where a component depends on another that has its own module, it has the
  other's actions as it sees them: in `ChatRequests` a generation just ends, in
  `Stream` it logs events and ends, in `Accounts` a document is deleted.
* Side by side: in the five larger MC modules a constant variable `part` says
  which component moves; the others stand.  One run then asks one kind of
  question of several components.  Nothing is lost by it where the components
  share no state, and fairness is stated per part: `part = ...` is a conjunct of
  every fair action.  Where two components do share state, the state is in
  one module (a session's generations are commands in `Sessions`, the
  index publications of a document are in `Ingestion`).
* `Mutant...` definitions are plausible mistakes in the definition that
  follows: each is a change under which one property fails.  They are used by
  nothing in the specifications.

## 3. Answering

### `ChatGeneration`

**State and code.**  `gen` holds the `chat_generation` row: its status, control
version (`ctl`), whether the deadline has passed (`late`) and whether the
disconnect grace is armed.  `msg` is the status of the assistant message, `exec`
the execution rows by attempt number with lease, fencing token, phase of the
checkpoint and count of scope retries, `log` the event log by `event_seq`.
`work[w]` is the local state of a worker process: which row it claimed, the
token and control version it read, the error it is about to report.

**Requests.**  `Ask` inserts generation, message, first execution and the start
event.  `Stop` marks the generation stop_requested and raises the control
version, `Revoke` does the same for a revoked session; ending it is left to the
workers.  `Delete` removes the conversation with everything below it,
`Subscribe` and `Disconnect` move the grace period.

**Worker.**  `Claim` takes a queued or retryable row, raises its fence and so
makes every older token stale.  `ReadGeneration`, `StopTerminal` and `ReadFence`
are the reads before execution.  `EmitStage`, `PersistRetrieval`, `EmitDelta`,
`Rewrite`, `PersistReady` are fenced checkpoints; `ProviderReturns` and
`ProviderLost` the answer or its loss; `Publish` completes generation, message,
execution and log in one transaction; `Fail` is `_fail_execution` with each of
its branches.  `Heartbeat`, `LeaseLapses`, `Crash` are about the lease.

`Sight` is what a fence check sees.  On PostgreSQL it reads the execution row
with SKIP LOCKED, and the row may be locked by the worker's own heartbeat; the
check then sees no row.  `SkipLocked` selects the database.

**Maintenance.**  `ReadLapsed` reads a lapsed row; `Recover`, later, expires it
if it is still running, even when its lease was renewed in between, and queues
the next attempt with the fence and checkpoint it had read; past the deadline or
with no attempts left it fails the generation.  `Disarm` and `Reap` are the end
of the grace period.  An execution whose provider result is unknown waits in
provider_reconciling until `Reconcile` has an answer or `ExpireReconciling` fails
its generation at the deadline.

**Properties.**  `OneLiveExecution`: at most one execution can run.
`EndIsShown` is two: `LogTellsTheEnd`, exactly one terminal event, last, of the
kind the status says (readers of the stream stop at it), and
`AnswerIffCompleted`, the answer is in the log exactly when the generation is
completed, and the message says what the generation says.  `NoAnswerAfterStop`,
`StaleWorkerDisturbsNothing`: what late workers may not do.  `RunningEnds`,
`StopTakesEffect`: something always ends the generation.

**Abstracted.**  The agent graph between checkpoints is the order of its
checkpoints; stage, step, delta, routed and notice events are one `progress`
event, and repeating it is not counted.  Titles are left out.  Whole transactions
are atomic, so deadlocks between row locks are not visible here.

### `ChatRequests`

`talks` are the conversations, `asked` the generations in the order of their
creation with parent, root, attempt and profile, `answered` the idempotency rows,
`opinions` the feedback, `handling` a client's transaction between its reads and
its writes, `deployed` the profile in service.  `BeginAsk` looks up the key, the limits and the conversation without
a lock; `CommitAsk` inserts, and `RollBack` is what the unique key of a rival
makes of it.  `BeginRetry` and `CommitRetry` hold the failed generation's row;
`RetryAgain` answers a repeated retry from its key.  `Vote`, `SubmitFeedback`,
`DeleteConversation`, `Deploy` are single transactions.  The last is a deployment
that changes the profile a retry must find unchanged.

`OneAnswerPerKey`, `AttemptsFormALine`, `OneSamplePerQuestion`, `FeedbackIsEarned`
and `NoOrphans` are together `RequestsSafe`, which is part of `RequestsKept`: what
rows owe each other after any interleaving of two tabs.  `WithinRunningLimit` does not hold, see 13.
Abstracted: groups of conversations and titles; a pair is what matters of it to
retries and feedback (asked for, open, decided).

### `Stream`

`stream[s]` is the coroutine of one connection with its position in the log and
the batch it has read, the numbers of events it has still to write out; its client may be gone before it notices.  `Open` creates
the lease and clears the deadline, `Poll` reads a batch, `Deliver` writes one
event out, `Refused` is a lease that cannot be renewed.  Leaving has two steps:
`LeaveCounts` removes the lease and counts the others, `LeaveCommits` commits
what was counted, so two readers that leave at once each see the other.  The
reaper reads (`ScanGrace`), and later locks (`Reap`, `DisarmGrace`).

`EveryEventOnce`: over any number of reconnects with a last event id a client
receives each event once and in order, and never a citation click.
`ReapsOnlyAbandoned`: the reaper stops nobody's generation while a lease could
still be renewed.  `EndReachesReaders`: a client that keeps listening gets the
terminal event.  `DeadlineIsMet`: an armed deadline is not forgotten.
`StreamsStop` and `AbandonedIsReaped` do not hold, see 13.

### `Budget`

`bmeter` and `bresv` are the persistent meter and its reservations, `bexec` the
executions with the in-memory meter each of them builds and what it has in hand,
`bgen` what they see of the generation.  `Reserve`, `Settle`, `MarkUnknown`,
`UpgradeMeter` are the methods of `BudgetMeterService`, each under the meter's row
lock; `LogicalGate` and its like are the in-memory meter.  `BudgetClaim`,
`BeginRound`, `EndRound`, `BeginCall`, `Answered`, `Raised`, `TryAgain`,
`Rewritten`, `Upgrade`, `PersistUpgrade` are the worker's rounds; `BudgetCrash`,
`RecoveryExhausted` and `BudgetReconcile` the ways an execution goes.  The
persistent meter never looks at the fence, so overlapping executions share it.

`BudgetBooks`: the meter is the sum of its reservations.  `BudgetWithin`: an open
meter is within its limits, and no call has come back dearer than estimated.
`BudgetUpgradeOrder`: an upgrade reaches the meter before the generation.
`BudgetStaysClosed`: after an unknown or too dear call nothing is reserved any
more.  `BudgetSecondDraft` and `BudgetRecoveredRound` do not hold, see 13.
Abstracted: tokens are small numbers, the price of a token is linear, a reservation
is identified by what the code builds its identity from.

### `Price`

`pversions` are the versions of one provider scope, `pcalls` calls with the lock a
dispatch holds.  `LockPrice` samples the time and locks the version that covers
it; `Dispatch` checks that it still covers the time sampled after the wait, else
it tries again; `Register` and `CloseVersion` lock the scope and refuse what would
change the price of a call already sent (`PendingFrom`, `UsedFrom`).  `Complete`
prices the call by the arithmetic of a line, granularity and minimum included.

`PriceIntervals`: versions are disjoint, whatever is back-dated.  `PriceBound`: a
call is completed under the version that covered its dispatch.  `PriceCharges`: a
charge is never below its consumption, and never zero for some.

## 4. Outbox and notifications

**State and code.**  `event` is the storage state of the outbox event,
`delivery` the row of the in-app consumer, `attempts` the history of attempts
by number; the fencing token of a delivery is the number of its attempt.
`account` is what materialization reads of the user, `note`, `withheld`,
`receipt`, `acked`, `inbox` the notification tables, `work` a dispatcher's
transaction and `acking` an acknowledgement's.

**Why it is split.**  The delivery transaction reads accounts, acknowledgements
and deletions, one recipient after the other, and commits minutes or
milliseconds later.  Under READ COMMITTED others commit in between.  `Begin`
opens it, `Materialize` decides about one recipient and takes that inbox's
advisory lock until the end, `Commit` writes everything or, if the fence is
lost, nothing; `Raise` and `FailAndSchedule` are its failures.  The
acknowledgement reads in `AckScan` and writes in `AckCommit`; it takes no
inbox lock.  Every other transaction is one action, and waits for the locks it
takes in the code: `RetireAccount` for the inbox, `Redact` for deliveries of the
document.

**Properties.**  `EveryRecipientAccounted` is the centre: before the delivery
commits a recipient has no trace of the event, afterwards exactly one of
notification, archive receipt and suppression, through retry, replay,
trimming, retirement and compaction.  `NoNoteForRetired` and
`DeletedIsRedacted` are the two races with deliveries in progress.
`NotesKept` adds to the first `WithinCap` and `SequencesGrow`, which are about
concurrent materialization in one inbox, and `PromiseKept`: the
whole implements `NotificationPromise`, in which the audience of an event is
served at once and a fate, once decided, only moves from shown to archived.  The
refinement mapping is `Fate`.  `DueSettles` is the liveness of a delivery.

**Abstracted.**  One consumer, and no idempotency keys of operators' replays.
The command rows of durable retirement and compaction are left out: their
effects are the actions.  The thirty days before compaction are a guard on the
state only, so compaction comes at the earliest moment the code allows or later.

## 5. Provider calls and their circuit

### `ProviderCall`

**State and code.**  `call[n]` is the row of the `n`-th physical request of one
call, `usage` its usage event, `amount` its amount-only reconciliation row.
`wire[n]` is what the network and the provider made of it and belongs to no
table: it is what the books are compared with.  `wrapper` is the process inside
`run_provider_call_with_usage`, `tick` each process inside
`reconcile_unknown_calls`.

The wrapper prepares a row, marks it dispatching, sends, and completes the row,
marks it unsent or marks it unknown; each callback may fail (`ForgetPrepared`,
`NotReached`, `FinalizeFails`), and the process may crash anywhere.  `Crash`
also stands for a terminal write that fails: the row is left as a crash leaves
it.  A tick finds an unknown or overdue dispatching row (`Scan`), makes an
overdue one unknown (`Advance`), asks the provider (`Confirm`) and applies its
decision (`ApplyDecision`) under the row lock, by the rules of
`complete_provider_call_in_transaction`.

Three assumptions about the environment are in the model and nowhere in the
code: the provider's answer about a request is truthful; a request is not served
after the deadline that was persisted with it (`Serve`); one wrapper runs for
one call id.  The production reconciliation port answers only `StillUnknown`;
the model has every answer the port's contract allows.

**Properties.**  `BooksKept` is `LedgerAgrees`, which ties the three tables to
each other, and `NothingLeftOpen`: a wrapper that returns, however, has left no
request open.  Above all, `AccountKept`: the rows implement `CallAccount`,
in which only a served request can be billed and only one that is never served
written off.  `DispatchingEnds`: a crashed sender's row is taken over.

### `Circuit`

`circuit` is the `_Circuit` of one provider and operation, `call` each slot that
calls one after another.  The registry's three methods are one action each,
since each runs under its lock.  What is interesting lies between them: the
timestamp of a call is sampled before the lock is taken (`Start`, then `Allowed`
or `Refused`), the probe is taken by the registry and handed to the call
afterwards (`HandOff`, `HandOffFails`), and the outcome is known before it is
reported (`Outcome`, then `Report` or `ReportFails`).  `Cleanup` is
`abort_probe` in the finally clause.  `Tick` is time; `Stall` bounds how old a
sampled timestamp gets before it is used.

`ProbeExclusive`: the circuit names a probe exactly while that call is under way.
`ProbeDecides`: while a probe is out nobody else's late result changes the circuit.
`NeverLocked`: the circuit is never open for ever without a probe, and no probe is
held for ever.  The attempts inside a call are its
outcome.  The hooks by which tests replace the registry's clock or methods are
left out.

## 6. Documents

### `Ingestion`

**State and code.**  `doc` is the document row with its active version, pending
version and active operation; `ver` the versions; `job` the jobs, each with
its current attempt (number, fence, lease), the restore hold it took and the
index publication it staged.  `stored` and `erased` are the objects and the
cleanup marks, `claim` the deduplication claims, `generation` the active index
generation, `purged` those that were collected, `work` the ingestion workers and
`lease` the read leases.

**Accepting work.**  `Upload`, `Replace`, `Restore`, `Reindex` insert a version
where there is one, a job and a staged publication, and make the job the
document's operation.  `CancelJob` and `ReplayJob` are the operators' commands.

**Workers.**  `Claim` raises the fence; `CopyStart`, `Copy`, `CopyRelease` are
the restore's copy, which runs between two transactions; `Accept` is
`accept_processing_receipt` as a whole: the fences, then the version, the
claims, the publications and the document; it fails permanently for a duplicate
or a base that has moved, and for retry when the transaction hits the unique key
of publications (`PublishClash`).  `Fail` is `fail_job`, `Reclaim` the recovery
of lapsed leases, which retries or dead-letters all of them in one transaction.

**Readers, retention, deletion.**  `Acquire` and `ReadEnds` are read leases.  A
purge is three steps (`StartPurge`, `EraseVersion`, `FinishPurge`), a deletion is
accepted (`DeleteDocument`), sealed, erased and finalized (`FinalizeDeletion`,
`EraseDocument`).  The seal derives the cleanup targets once more and is refused
unless they are as many as those stored at acceptance and since (`Reconciled`).
Targets are only ever added, and all but those of index generations are derived from
rows that stay; a generation that acceptance listed and that is collected before the
seal (`PurgeGeneration`) is not derived again, and the deletion is `lost`.  Every one of these transactions locks the document row first,
which is why each can be one action.

**Properties.**  `OneOperation`: a document's row names the one open job, its
base and its pending version.  `ServesItsOwn` is `OneActive`, one active version
and one active publication, of that version, and `OwnsContent`, two live
documents never publish the same content, and no document keeps a second claim.
`InUseIsKept`: what a reader, a restore or the document itself uses is not
purged.  `ActiveMovesForward`: a published document stays published and only
moves on.  `StaleTokenChangesNothing`: a worker that lost its attempt changes no
row in whatever step it takes next.  `JobsSettle`: accepted work ends.
`DeletionsComplete`: an accepted deletion ends unless it lost a target in this way;
then the code refuses it at every tick, see 13.

**Abstracted.**  Parsing and indexing are a step that fails or not.  Retention
counts as passed from the moment a purge may start.  One erasure pass deletes
all its targets.  The client's expected version, idempotency keys, batches and
the notifications a publication sends are left out; a refusal for authorization
is a failure that may come at any time.

### `Submissions`

`subs` are the submission rows with their private object, `review[s]` the
transaction that holds a row: `BeginApproval` locks it and reads the submitter
through another connection, `CopyObject` copies the file and takes the
deduplication claim, `CommitApproval` writes document and notice, `ApprovalDies`
rolls back and leaves the copy.  `change[u]` is an identity transaction that
locks the pending rows it finds and invalidates them when it commits; a row
inserted meanwhile (`SubmitCommits`) is not among them, and `overtook` marks it.
`CleanupScheduled` removes private objects in the order of their requests: a row
has the time of its own (`requested`) and whether it was served (`cleaned`), and
`Now` is a clock that is later than every request so far.

`OneDocumentPerFile`, `ApprovedForMembers`, `PendingIsAllowed` and
`EndsAreAnnounced` are together `SubmissionsSafe`; the liveness is
`PrivateObjectsGo`.  The exception for overtaken rows in the second and third is
how far the code's locks go, not a wish.

### `Quota`

`qledger` are the committed entries, `qproj` the projection, `qtx` the
transactions.  A debit locks the projection first and is `OpenDebit` and
`CommitDebit`; reversals, supplements and credits insert a row nobody sees yet
(`ReversePages`, `Supplement`, `Approve`) and then wait (`CommitInserted`).  A rebuild
holds the projection from `OpenRebuild` to `CommitRebuild`.  Pages are counted as
the units of a set of entries (`PageUnits`).  `CreateRequest`, `Reject`,
`CancelOnReview`, `Freeze`, `RevokeAll` and the maintenance of
`ListCandidates` and `CancelListed` are the life of requests for more pages.

`QuotaBooks`: the projection is the sum of the ledger, month by month; no key is
booked twice; no more is reversed than was debited.  `QuotaApprovals`: an approved
request has the one credit it is the source of.  `QuotaRequestsEnd`: a request
that nobody may approve does not stay pending.

### `Metering`

`meter` are the rows with their lease, `reported` what each execution was told
is stored.  `Checkpoint` and `FinishExecution` are the execution's, `FindExpired`
reads, `RecoverRow` finalizes each row in a transaction of its own, with the
figures it read (`AbandonRow`) unless somebody finished it (`SkipRow`).  The lease
is never extended, so it expires under a live execution too.

`EventMatches`: a meter ends in one usage event with its figures.
`NothingReportedIsLost`: neither row nor event falls behind a checkpoint an
execution was told is stored.  `MetersEnd`.

## 7. The index

### `Enrichment`

One document through the processor: `Parse` (which may fall back to the raw
text), the plan of prefix units, `BeginUnit`, the warm-up calls one after the
other, the pool (`StartCall`, `EndCall`, at most `Concurrency` at a time), and
`FlushUsage`, which hands the facts of the unit to the ledger.  `WarmupBreaks` and
the retries of `EndCall` are the failures.  Chunk texts are their token counts.

`PlanIsSound`: the units are runs of consecutive chunks, one after the other, that
hold every chunk; none crosses a section that is kept apart, and one over the limit
is a single chunk (`SoundPlan`).
`PoolAfterWarmup`: no pool before its warm-up.  `UsageIsComplete`: the ledger
hears of every call made, failed ones too.  `EveryTargetResolved`: each chunk ends
enhanced or explicitly raw.  `ProcessingEnded` is reached however calls answer.

### `IndexStaging`

`engine` is the sparse backend of the deployment (which never changes), `dense` and
`sparse` are the rows of the two stores, `register` the attempt whose
publication committed, `task` the job, `hands[a]` what the worker of attempt `a`
does next.  A publication publishes the staged rows and retires the older ones in
one store and in the other (`PublishDense`, `RetireDense`, `PublishSparse`,
`RetireSparse`), then commits (`Commit`); none of this is in one transaction, so
each failure is undone by a discard, by `RevertPublication` or by the recovery of
an expired lease (`RecoverExpired`, which discards inside the claim).  `Keyword`
says that the backend is Meilisearch and not OpenSearch: their writers differ in
what a partial failure leaves and what a discard finds.

`PublishedIsWhole`: what the register calls published is in both stores.
`StrayIsPending`: published rows of a publication that never committed are there
only as long as their job is to be failed or recovered.  `DeletedIsGone`.
`Settled` is reached by every job.  `StraysArePending` includes Meilisearch and
does not hold, see 13.

### `Generations`

`chgs` is the log of changes by revision, `pub` the publications with the
generation they go into (`pubr`), `igen` the generations with the chunks and
vectors they hold, `head` the active generation and the candidate of a rollback,
`pins` the references of requests, `gcop` collections.  `CreateStaging` takes a
base snapshot, `CaughtUp` replays the log, `ReleaseGeneration` and `Rollback`
switch, and the collection has the steps retention hands it: `ReconcileGenerations`
finds, `RequestGc` asks, `StartCompleteGc` checks, `PurgeComponent` purges one
component after the other, `FinishGc` ends.

`CollectsUnreachable`: from the first purge to the last a collected generation is
neither active nor a candidate nor pinned.  `HeadIsSound`.  `SwitchIsWhole`: a
switch leaves out no publication committed before it.  `GarbageIsCollected`.
`ActiveIsWhole` does not hold, see 13.

### `Releases`

A release freezes the component manifest and its suite when it is staged
(`Stage`), is judged later against the gate it refers to and a baseline read
without a lock (`BeginJudgement`, `EndJudgement`), and once more by a switch;
`RegisterGate` and `ComponentsChange` come at any time.  `OneGateInForce`,
`ReleasedMeetsItsGate`, `JudgedOnItsComponents`.

### `Retrieval` and `ContextAssembly`

`Retrieval` is a request with two searching threads, its read leases (one per
version and principal, replaced when acquired again), reranking, the second
reading of the documents, citations and the release at its end, against
`Publish`, `AcceptDeletion`, `Purge` and `LeaseExpires`.  A lease lives 300 seconds
and nothing renews it, while a chat generation keeps its retrieval request open until
it ends: a lease may run out under its request, and `lapsed` are the hits whose lease
did and was not acquired again since.  `HitsAreKept`: no other version among the hits of
a request that reads alone for its principal is purged while they
are used (two that read at once share a lease, see the end of 13).  `NoLeaseLeft`: a request that ends
leaves no lease unless its process died.  `AnswersAreCurrent`: an answer is
assembled from what is active at that moment.  `PurgesHappen`: reading delays a
purge and never prevents it.

`ContextAssembly` then puts the hits together, one a step: a first pass under the
quota of items of each space, a second that fills the places left, whole parent
blocks where they fit.  `WithinBudget`, `ParentsOnce`, `QuotaPerSpace`.

### `GraphBuild`

`run`, `gop`, `acks`, `comp`, `facts`, `profile` are the rows a build touches, of
its own tables, of the index generation and of the source; `creator` a request
between freezing the source and inserting the run, `gw` the workers.  `ClaimRun`,
`Extract`, `ActivateFacts`, `StageComponent`, `RecordReceipt`, `ReleaseComponent`,
`CompleteRun` and `FailRun` are a worker's transactions; `ExpireLease`, `Requeue`
and `WorkerCrash` how another comes to follow it; `Cancel` and `CleanUp` the
operator's; `SourceChanges` the source's.  `Gated` is whether the switch asks for
a released retrieval profile, as the wired runtime does.

`OneRun`: one build is queued or running, a key makes one run, and one that has
ended has one notice.  `ReleasesCurrent`: only the attempt that holds the lease
releases, its own component, built from the revision that is current then.
`BuildsEnd`.  `ComponentKeepsRows`, `ProfileReleases` and `FailedRunIsRepeated` do
not hold, see 13.

## 8. Identity

### `Sessions`

`account`, `sessions`, `tokens`, `throttle` and `commands` are the rows; `born` of
a session is how many changes that must end all sessions the account had seen at
login.  A login reads its throttle before it waits for the account
(`LoginBegin`, `LoginSucceeds`); a refresh reads token and account in the
statement that then waits for the session's row (`RefreshRead`; then `Rotate`,
`Replay`, `ReuseDetected` or `RefreshRefused`), so it decides on a fresh session
and on what the others were before.  Everything else locks the account first.

`TokenChain`: one token of a session is current, only its predecessor can be
replayed.  `CutOff`: no session from before a password change, a change of
authority, a deletion or a revocation of all devices is usable or refreshed.
`EndsGenerations`: whatever ends a session leaves the command that ends its
generations.  `ReuseRevokes`: an old token used again ends its session, and a
refused refresh changes nothing.  `GraceHonoured` does not hold, see 13.

### `Directory`

Departments and members, the kinds of work in each department's space (`working`),
and the keys under which administrators change them.  A deactivation locks the
department, looks for members and for jobs that are not terminal (`DeactivateBegin`),
then, in another statement, for pending submissions, and commits or refuses
(`DeactivateEnd`).  Meanwhile members join and move, and work begins in two ways.  An
upload or a submission is authorised in its own transaction, which locks the
departments (`StartWork`).  A replacement, a restore, a reindex, a replay and the
approval of a submission are authorised on a connection of their own (`Authorize`):
the department is read, its lock is gone at once, and the job is committed later
(`CommitWork`), whatever happened in between.

`DirectorySafe`: a department that is inactive has no member, not even one who waits
for deletion, no upload, and no submission anybody could still approve.  Jobs of the
second way are not in it: they do come to be committed in an inactive department,
see 13.

### `Accounts`

`archive` is the workflow's record of the package together with the file on disk,
`objects` the avatars in the store, `queue` their queued cleanups, `uploads` the
`replace_avatar` calls between their put and their transaction.  `Finalize`
verifies or rebuilds the archive, deletes objects and writes rows in one
transaction; `FinalizeFails` rolls back the rows and not the files, `Tombstone`
commits.  `LoseArchive` and `CrashUpload` are the faults.

`AvatarsAccounted`: an avatar in the store is the account's, queued, or an
upload's; only a crash leaves an orphan.  `TombstoneIsLast`: a tombstone comes
after the retention period, with the package on disk as recorded, documents
deleted and no avatar left.  `DeletionEnds`: it does come once the personal
documents are gone.  `PendingEnds` and `PackageIsWhole` do not hold, see 13.

## 9. Upkeep

### `Backup`

`wgate` is the write gate, `apiOpen` what each API process has cached of it,
`write` a write it has in flight, `bproc` what each process is doing: a
resident worker or an API process that serves the manual command.  The worker
claims a window (`ClaimLatestWindow`), creates a set (`CheckCreate`,
`CreateBackupSet`), and executes the oldest set under the lease of that task
(`ExecuteBackup`): it takes the gate or adopts it (`TakeGate`), waits
(`AwaitWriteDrain`), closes it (`CloseGate`), lists what is left to copy
(`ListComponents`), copies (`CompleteComponent`, `RecordManifestObjects`) and lets
writes in again (`ReleaseGate`); `RecoverStaleGate` does so for one that died.

Three things the code does not guard are in the model as they are.  The drain waits
for the counter of its own process and for the settle delay, which is longer than a
cached view lives: `Settled` is that no view read as open is left, and says nothing
of the writes other processes let in before.  A process that cannot read the gate
takes it for open (`AdmitBlindly`).  And the lease is neither renewed nor given
back: it runs out after an execution (`LeaseEnds`) or under one (`LeaseLapses`), which
goes on all the same beside the one that adopts its set; `overrun` are the sets
to which that happened, and `write[a].behind` the set behind whose closed gate a
write came in on a stale view.  Both are history and decide nothing.

`QuietSnapshot`: a set no execution of which outlived its lease is copied by one
process, behind the gate closed for that set, and no write comes in behind it on a
stale view.  `WindowOnce`.  `SetsAreWhole`: a complete set has its three components
also when executions overlap.  `WritesResume`: whatever dies, the gate opens again and
each set is decided.  `BackupsSucceed` does not hold (run `backup_second`).  What the
snapshot is not protected from is in 13.

### `Restore`

`session` with its stage, `target`, `repair`, `maint` (the maintenance gate) and
`kept` with `sweep` (retention).  `AdvanceRestore` is one transaction of the
worker, one stage or one derived target at a time; `RetryRepairTarget` and
`RepairObject` the operator's; `RetentionCandidate` and `ProcessCleanupTarget` the
sweep's.  An operator looks at the sessions and inserts his own later (`StartRestore`,
`AcceptRestore`), and the unique index is on the status of a session, so two operators
can have two restores, of which the first to end opens the reads; `raced` (history) are
the sessions that were active beside another.  `ReadsStayClosed`: for every other
session reads stay closed until it is over, and they are never closed for one that is
over.  `FactsFirst`: facts come before derived targets, and for such a session every
object was repaired.  `NewestSurvive`: the newest sets survive.  `RestoreResumes` does
not hold, see 13.

### `Evaluation` and `Calibration`

`Evaluation`: runs, workers with the attempt and token in hand, and creators
between their read and their insert.  `RunOnce` requeues, recovers and claims;
`FinishSucceeded` writes results and end under the fence; `HandleFailure` retries;
`ReadStanding` and `Suggest` are the callback after the commit.  `ResultsAreWhole`,
`OneJudge`, `SuggestionsAreGrounded`, `ShadowRunsEnd`; `LatestDrives` does not
hold, see 13.

`Calibration`: `window`, `pair` and the default.  `CheckOpen` and `OpenWindow` are
two steps, and the suggestion they ask for is an input; `Sample`, `PublishPair`,
`Vote`, `DiscardPair`, `SweepPair` are chat's, `CloseWindow`, `CloseTick`
evaluation's.  `DeletePair` is what `delete_conversation` cascades to: the pair and
its vote go, the `collected` of the window and the default stay, so both are
stated of the votes ever cast (`VotesCast`, `Preferences`) while adoption counts
those still there (`EffectiveVotes`).  `OneOpenWindow`, `VotesCounted`,
`ClosedTakesNoSample`, `DefaultIsEarned`, `WindowsClose` (the safety of `Restore`,
`Evaluation`, `Calibration` and `Accounts` together is `UpkeepKept`); `ClosedIsSettled` does not hold, see 13.

## 10. Runs and bounds

`about` in `PROJECT.json` says what a run asks.  Where TLC is told not to report
deadlock the system may really stop: every generation has ended, or a bound of the
instance leaves nothing more to ask for.  What must not stop is then a liveness
property.

| run | parts, with what there is of each | shows |
|---|---|---|
| `chat_generation_safety` (`MCAnswering`) | one generation, two workers, two attempts, SKIP LOCKED; a budget of two efforts, two overlapping executions; three price versions, two calls; two sessions, of three and of two tokens | `OneLiveExecution`, `EndIsShown`, `NoAnswerAfterStop`, `StaleWorkerDisturbsNothing`, `SpendingKept`, `SessionsSafe`, `ClosedStaysClosed` |
| `outbox_delivery` (`MCDelivery`) | one event for a role about a document, two dispatchers, two attempts, a replay; one generation with three attempts and no SKIP LOCKED; two streams of one client; two submissions of one file; three index generations; fairness | `EveryRecipientAccounted`, `DeletedIsRedacted`, `SubmissionsSafe`, `DueSettles`, `AnswersArrive`, `CleanupEnds` |
| `outbox_inbox` (`MCRequests`) | two events, neither about a document, for one inbox that holds one; two departments, one member, two keys, one kind of work at a time; two tabs, two keys, a limit of one; two releases, two gates; five ranked hits, two spaces; four shapes of documents; index with two revisions; graph with two builds and two revisions; quota of two months, two transactions; two meters and a crashing tick; fairness of the last two and of enrichment | `NotesKept`, `DirectorySafe`, `ReleasesSafe`, `RequestsKept`, `IndexKept`, `SwitchesAreWhole`, `CountsKept`, `CountsEnd` |
| `ingestion_jobs` (`MCIngestion`) | one document, two workers, two attempts, two jobs, a replay, a switch of the index and the collection of a generation; fairness | `StaleTokenChangesNothing`, `JobsSettle`, `DeletionsComplete` |
| `ingestion_versions` (`MCIngestion`) | two documents, two contents, three versions, three jobs, one worker, one reader | `OneOperation`, `ServesItsOwn`, `InUseIsKept`, `ActiveMovesForward` |
| `provider_call_ledger` (`MCCalls`) | two physical requests, two ticks; two retrieval requests over one document, one fault or lapse of a lease; two attempts, two chunks and two faults in each pair of backends; fairness | `BooksKept`, `AccountKept`, `RetrievalSafe`, `StagingSafe`, `AnswersAreCurrent`, `WorkEnds` |
| `circuit_probe` (`MCUpkeep`) | three callers, threshold two; two backup processes, two sets, one that dies or outlives its lease, a fault; two restores of two backups by two operators; two shadow runs, two workers; two windows, two pairs, two operators; an account with an avatar, an upload and a document; two builds, two workers; fairness | `ProbeExclusive`, `ProbeDecides`, `BackupSafe`, `UpkeepKept`, `TombstoneIsLast`, `UpkeepEnds` |
| `chat_generation_stranded` | one worker, SKIP LOCKED | a violation of `NeverStranded`, see 13 |
| `chat_generation_stale_failure` | two workers | a violation of `StaleWorkerEndsNothing`, see 13 |
| `outbox_ack_race` | one event | a violation of `AckedIsRead`, see 13 |
| `ingestion_ready` | one document, one version, two jobs | a violation of `ReadyIsPublished`, see 13 |
| `backup_second` | two sets, no fault | a violation of `BackupsSucceed`, see 13 |

Distinct states of the passing runs in this order: 1.87 million, 342 thousand, 677
thousand, 251 thousand, 1.75 million, 311 thousand, 281 thousand; each takes one to
five minutes with two workers.  A property of a run that names no
definition of a component's module is a conjunction stated in the MC module, with
the definitions of sections 3 to 9 as its parts.

Why these bounds are enough to be interesting, and what each hides:

* *Generations.*  They share nothing in the model but the count of a user's
  running ones, and a worker works on one at a time: one generation has all
  races between workers.  Two workers and two attempts are an old worker, its
  successor and no attempt left after that.  Retries of scope and rounds of
  retrieval repeat a loop; one repetition visits each of its branches.
  `MaxScans` is how many rows a maintenance pass has read and not yet updated;
  `MaxFence` stops the loop of lost results and reconciliations, which the code
  stops by the deadline only.
* *Budget, prices.*  Two efforts have one upgrade; two executions are the one
  that lost its lease and its successor.  Limits are so small that each of the
  three (calls, tokens, cost) is reached first in some behaviour.  Three price
  versions allow one to be put between two.
* *Sessions.*  Two sessions show what one revocation does to another's refresh;
  the reuse of a token older than the predecessor needs three tokens, which one
  of the two has.
* *Departments.*  One member between two departments is where he joins one that is being
  deactivated; one kind of work at a time is enough for it to fall on either side of each
  look of the deactivation.
* *Asks.*  Two tabs with one key, or with two and a limit of one.  Two
  generations are an original and its retry, or two rivals.
* *Streams.*  A stream that leaves while the next one opens, and the reaper.
* *Outbox.*  Dispatchers meet in a delivery (`outbox_delivery`, two dispatchers
  and one event) or in an inbox (`outbox_inbox`, two events and one user).  A
  cap of one is reached by the first delivery and passed by the second.  Several
  recipients of one event are served by one transaction, so they race with
  nothing that one recipient does not race with; that what holds of one holds of
  all is what the proofs are for.  Two attempts instead of eight are one retry
  and the last attempt.
* *Provider calls, circuit.*  Two requests are the first and a retry; two ticks
  race with each other and with the wrapper over one row.  Three callers are a
  probe, a late call from before the opening, and one that is refused.
* *Documents.*  Two documents with two contents race for a claim in every order;
  three versions and three jobs allow upload, replacement and restore of one
  document, or each of two documents with a rival.  Attempts, replays and the
  index generation multiply this by far and concern one job, so they have a run
  of their own with two workers.
* *Submissions.*  Two of one file meet in the claim; one identity change each.
* *Quota, meters.*  Two transactions are an entry and a rebuild, or two entries;
  two months are a current and a closed one.  A tick that dies between two rows
  needs two meters.
* *Backends.*  Two chunks let a partial bulk write happen; two faults are one
  failing call and one failing repair.
* *Index.*  The generation in service, its successor and a third: a rollback, its
  candidate and one to collect.  One publication more than the first revision.
* *Graph.*  Two builds are a run and its successor under the same or another
  key; two workers an attempt that lost its lease and the next.
* *Backup.*  Two processes are an execution that outlives its lease and the one that
  adopts its set, or one that dies and its successor; two sets are the one whose gate
  stands and the one that finds it.
* *Restore.*  `KeepLast` one of two backups; two faults are a missing object and a
  stage that raises; two operators have a restore each.
* *Evaluation.*  Two runs are a stale and a current one; two operators open a
  window at once.

## 11. Fairness

Safety parts state none.  Where a part has a liveness property it has just what the
code's loops give, never the success of anything unless it says so here:

* *Chat.*  A worker process takes its next step; each claimable execution is
  claimed by some worker; a lease nobody holds lapses; deadlines pass;
  maintenance reads, recovers, reaps and expires on every tick.  A renewed lease
  may lapse or not, and the provider's reconciliation need never answer.
* *Streams.*  The server's event loop and the reaper go on; the grace passes.
* *Outbox.*  Dispatchers claim and step, recycling runs, the lease of an
  abandoned delivery lapses, an acknowledgement that began commits.  Failures,
  replays and everything users do may or may not come.
* *Provider calls.*  Deadlines pass and ticks are run for ever.  Strong fairness
  on finding and advancing a row stands for the order of candidates, least
  recently tried first: a row that others are preferred to comes first in the
  end.  An asked provider may answer "still unknown" for ever.
* *Circuit.*  Time passes; each call takes its next step, because a transport
  stops at its deadline; callers keep coming, without which no circuit is ever
  probed.
* *Documents.*  A worker takes its next step, a claimable job is claimed in the
  end although others come and go (the oldest is taken first, hence strong
  fairness), recovery runs, abandoned leases lapse, read leases of a document
  that is being deleted are not renewed, and the retention worker finalizes and
  erases at every tick.  Index generations may be collected or not.  That external erasure succeeds within its attempts is an
  assumption: the code gives up after them, and a deletion whose erasure always
  fails does not complete.
* *Submissions, quota, meters.*  The maintenance command is run again and again, a
  transaction that began ends, leases expire.
* *Retrieval, staging.*  Threads and the reranker answer or time out; a worker
  that lives steps, queued jobs are claimed, leases run out, purges run.  In
  `Enrichment` the one process goes on.
* *Index generations.*  The retention loop goes on, windows close, requests release
  their pins.  Faults of a component are finite (`GcFaults`).
* *Graph.*  The scheduled worker requeues, claims and builds.
* *Accounts.*  The deletion worker retries every workflow and every cleanup at
  each tick; its ports do not fail every time (the strong fairness on `Finalize`
  and `Tombstone`), which is an assumption.
* *Backup.*  A process that lives carries on; a tick runs each set and the
  recovery in turn, so what is possible again and again happens (strong fairness); a
  lease nobody executes under runs out and caches expire.  Writes need not end: no
  drain waits for those the model has.
* *Evaluation.*  Ticks come, leases and backoffs are times that pass, deadlines of
  windows pass.  Nothing says that a judge succeeds or that anybody votes.

## 12. Proofs

The theorems are checked by TLAPS for every value of the constants: any number
of generations, workers, events, recipients, documents, versions, prices,
sessions, backups; any cap and any number of attempts.  They assume what each
module's named assumption says (`ConstantsAssumption`, `BudgetAssumption`,
`PriceAssumption`, `SessionsAssumption`, `OutboxAssumption`,
`SubmissionAssumption`, `CallAssumption`, `RetrievalAssumption`,
`StagingAssumption`, `CircuitAssumption`, `BackupAssumption`,
`IngestionAssumption`, `DirectoryAssumption`, `GenerationsAssumption`,
`ReleasesAssumption`, `GraphAssumption`, `RestoreAssumption`, `EvaluationAssumption`,
`CalibrationAssumption`, `AccountAssumption`, `RequestsAssumption`,
`AssemblyAssumption`, `EnrichmentAssumption`, `QuotaAssumption`,
`MeteringAssumption`): bounds are natural numbers, positive where the code needs
them so; no call, process, submission, department, generation or build is named like the
absence of one, and no conversation like the target of a question that opens one;
the tokens of chunks and hits are natural numbers; recipients, sessions, backup sets,
releases and shadow runs are numbers, since the code orders them; submissions,
releases, the requests that create builds, backup sets, the resources of a restore, pairs and calibration windows are
finitely many, since the models count them; the derived stages of a restore follow
its two fact stages; audiences are sets of users; scores and limits are integers.
Fairness is never assumed.  One thing is proved under a hypothesis beyond these:
`Enriched` and `RequestsSideBySide` assume `PlansAreSound`, that the plan of each input
satisfies `SoundPlan`: the packing is a fold over the chunks, so what it computes for
every document needs induction over data.  TLC checks it for the documents of the run
(`PlanIsSound`); what the theorems add is everything that happens after the plan, in
whatever order calls are answered.

Each proof has the same shape.  Lemmas about the types of what a step writes come
first; then an inductive invariant, with one step for each action and under it one
for each part the action can disturb; the theorems follow.  Where many actions do
one of few things to the state that an invariant speaks of, that is said once
(`Goes`, `MeterStep`, `TellStep`, `InboxStep`, ...): each action is shown to be one
of them, and the invariant is shown for them.

**`ChatGenerationProofs`**: `TypeCorrect`, `OneLive`, `Final`, `Stopped`, `Shown`,
`Undisturbed`.  `OneLiveExecution` is not inductive: `Recover` inserts attempt
`e + 1` after checking only that `e` is running.  `ExecInv` adds that a live
execution is the last row of its generation (`LiveIsLast`), that a generation that
does not exist has no rows, and that a busy worker's row exists unless its
generation was deleted.  `Shown` needs a story that can be told at every status:
`StoryInv` says that an active generation has neither a terminal event nor an
answer in its log, and of an ended one which event is last and where the answer
is.  `Undisturbed` is a property of steps: `SharedRows` shows of each group of
updates whose rows it touches.

**`AnsweringProofs`**: `Spending`, `Exhausted`, `Charging`, and of the whole run
`Together` and `Closed`.  `BudgetInv` says what each place of an execution entails
of the meter and the reservations (`Accords`): who calls the provider holds what
he reserved, an upgrade under way has reached the meter.  `BooksInv` says that the
meter's counters are the sums of its reservations.  A sum over a changing set would
need induction, so `Units` counts the units of the rows, the pairs of a row and a
number below its amount: what is reserved is the cardinality of a set, and
adding a row adds a disjoint part to it (`UnitsAdd`, `UnitsRemove`).  `PriceInv`
strengthens "no two neighbours overlap" to all pairs (`Ordered`), without which the
one version that covers an instant is not unique (`OneVersion`), and binds a sent
call to the version that covers its send time; a closing or a registration that
would take that instant away is what `PendingFrom` and `UsedFrom` refuse.

**`SessionsProofs`**: `Safe`, `Reuse`.  A refresh decides on what it read before it
waited.  `ReadBefore` keeps what is still true of it: a token seen as consumed is
consumed.  `OfVersion` says that a session that lives is of the account's version,
which is why a change that raises the version cuts off them all.

**`DeliveryProofs`**: `TypeCorrect`, `OneOpen`, `History`, `Retired`, `Redacted`,
`Accounting`, `Sequences`, `Capped`, `Promised`, `Notes`, `Reviews`, `ReadOnce`,
`ReapsDeserted`, and of the whole run `SideBySide` and `ReadersSideBySide`.
`QueueInv` ties delivery rows to attempt rows and says that retries are left in
retry_wait and that only a full event is in the queue.  `RetireInv` and `RedactInv`
speak of the deliveries under way as well as of the tables: none has decided to
show a notification to a retired user, and each one about a deleted document will
redact.  `FateInv` says of every recipient which fate he has, and of every open
delivery that what it decided is still possible when it commits; `CountFates` turns
this into the cardinality of the property.  `SeqInv` says that one dispatcher at a
time has decided about an inbox, and that the number it is about to give out is the
next one; that is what the inbox's advisory lock is for.  `CapInv` counts: what a
delivery trims is the oldest of the inbox, and `Least` (every non-empty set of
numbers has a least one, from the well-founded order of finite sets) says that
there is one.  `Promised` is the refinement of `NotificationPromise`, `StrangersInv`
being what keeps users outside the audience without a fate.  `Reviews` is about
`Submissions`: `Reviewed` and `Changing` say which rows a review and an identity
change have locked, hence that nobody else ends them; the only pending rows that a
change has not are those inserted since it began (`overtook`).  `StreamInv` of
`Stream` says that what a stream has read and not written out is what comes next in
the log behind its position, without a hole (`BatchIsNext`); that a stream which is
listened to stands where its client does, and no client listens to two (`InStep`);
and that between the reaper's look and its lock a lease is made only by clearing the
deadline (`NobodyBack`).

**`CallsProofs`**: `TypeCorrect`, `Ledger`, `Closes`, `Books`, `SettledFinal`,
`AccountHolds`, `LeasesKeep`, `FreshAnswers`, `Whole`, `Work`.  `CallInv` says where
the current request can be at each step of the wrapper, that earlier ones are closed
and later ones do not exist, that a settled row cannot be sent any more and that
what a tick has found or been told stays true until it acts (`TickSound`).
`AccountHolds` is the refinement of `CallAccount`: initial states map to initial
states, every step to a step or a stutter.  `ReadInv` of `Retrieval` is the
reason why hits are kept: whoever reads alone for its principal has a lease on each
of them but those whose lease ran out (`HitsAreLeased`), and what is leased is not
purged (`LeasedIsWhole`).  `StagingInv` says what
each step of a publication finds in the backends if its worker still has the job
(`WorkersAreReady`), that only such a worker is in the publication, and that the
attempt in the register was the last (`RegisterIsFinal`).

**`UpkeepProofs`**: `TypeCorrect`, `OneProbe`, `OwnProbe`, `Quiet`, `NewestKept`,
`ClosedUntilDone`, `JudgedOnce`, `EarnedDefault`, `NoStrayAvatar`, `LastOfAll`, and of
the whole run `Upkeep`, `Kept` and `Tombstones`.
`ProbeInv` adds to `ProbeExclusive` that a call that has not been admitted has no
probe.  `Quiet` is about `Backup`, with executions that outlive their lease.  Who executes
a set has the lease unless an execution of that set outlived it (`Placed`), so one
execution of every other set is under way, and that one has the gate: closing for its
set, then closed, with the set in the making (`Held`, `GateHeld`).  A gate that closed
for such a set did so when no process saw it open, and none sees it open since
(`GateMeans`).  Neither says anything of an `overrun` set, but `SetsAreWhole` is inductive
for these too: a component that is lost takes the set with it.  A window has one backup
since it belongs to the one process that claimed it (`Claimed`).  For
restores, `TakenUp` says that retention takes up only sets behind the newest
`KeepLast`, which covers a deletion that failed and is tried again; `StagesDone`
ties the targets of a session to the stage it has reached.  `OneRestore` says that a
session that never was active beside another is the only one that is not over and has
the gate, and that the gate is closed for no session that is over, however many
operators start restores; `FactsAgreed` that behind the fact stages of such a session
every object agrees or has been repaired.  `OneJudge` of `Evaluation` counts workers
whose fence matches; it follows because no two workers have drawn one fence for a
run (`FencesDiffer`), and `Standpoint` says what each step of a worker may rely on:
a heartbeat has the row, a callback comes behind a success.  In `Calibration` a vote
is counted in the step that makes it and any other step leaves votes and counts
alone (`Standing`); a closed window takes no sample since a pair is sampled under
the lock of its open window and finalization looks for pairs (`ClosedTakesNoSample`
is inductive with `PairsPublished`).  `FinalisationInv` says what an open
finalisation of an account has checked: due, package recorded, documents gone, and
the cleanups it is about to complete are of objects that are gone.

**`IngestionProofs`**: `TypeCorrect`, `OneOp`, `StaleTokens`, `MovesForward`,
`ServesOwn`, `InUse`.  `TypeInv` adds that a job that waits has an attempt left, that
a job is about a version and that a busy worker has a job.  `OpInv` adds, for every
document, that the version its row names as active is active; without it a
replacement could be based on a version that is not.  `RowsInv` adds what the rows of
a document owe each other (a publication in service belongs to a job that
succeeded; versions are made in order, a job is never about one older than its
base), which is why `ActiveMovesForward` holds.  `ServeInv` says of each document that
nothing but its active version is active or published and that its content's claim
names it; two documents cannot publish one content because a claim names one.
`UseInv` says that what is leased is stored and not on its way out.

**`RequestsProofs`**: `Inactive`, `Unreachable`, `Switching`, `Judged`, `OneBuild`,
`Releasing`, `Asking`, `Assembled`, `Enriched`, `Quotas`, `Metered`, and of the whole
run `PartsSideBySide`, `SwitchesSideBySide`, `RequestsSideBySide`, `CountsSideBySide`.
`EmptyOnceSeen` of `Directory`
says that what a deactivation has seen of members and uploads stays true until it
commits: whoever joins or uploads needs the row it has locked.  Submissions are in it
from the commit on only, since an approval under way needs no row of the department:
it may leave its submission pending until the second look, which then refuses.  `GenInv` adds to the safety of
`Generations` what makes it inductive: what was found to be garbage is out of
service and is not the candidate of a rollback, which it can never become again
(`GarbageIsOut`), so it is enough that `StartCompleteGc` looks at the pins; and what
was built into a generation is in its vector store (`BuiltIsStored`), so a switch
that has compared the chunks with the publications finds the vectors too.
`ReleaseInv` orders the gates over all pairs and says that none leaves a gap
(`GatesInOrder`, `NoGap`), without which the one gate `GateAt` picks would not be
unique or might not be there; and that a judgement under way is about the
components its release was staged for (`JudgesWhatIsStaged`).  `GraphInv` says that two
runs that are queued or running are one (`OneLiveRun`), that a key which is not done
has made no run, and that every attempt of a run but the one that has a lease cost a
fault (`RunSound`), which bounds its attempts; `Releasing` follows since
`ReleaseComponent` alone switches, under its lease and with its own receipt.

The other half of the module is what a user asks for and what is counted for him.
`AskingInv` of `ChatRequests` says that a retry follows a failed attempt of its
question, one number higher, and no other follows that one (`InLine`), and that what
a client about to retry has read stays true until he commits (`RetriesHold`): the
attempt is still failed, unretried, of the deployed profile, and nobody else is about
to retry it, since he holds its row.  An ask holds no row, so nothing is said of one
under way; the unique key is looked at again when it commits.  `TokensFit` of
`ContextAssembly` says that each counter is the number of tokens it stands for, the
cardinality of a set of units as in `AnsweringProofs`, and `ItemsFit` that a space
goes over its quota of items only in the second pass, where there is a place left.
`EnrichmentInv` follows a document: chunks of the units behind are resolved
(`Resolution`), only an unanswered chunk of the present unit is being called
(`CallsInPlace`), and a call whose fact nobody holds is under way, broken, or of a
document that has failed (`FactsFollow`), which is why the ledger has all of them at
the end.  `QuotaInv` says what an inserted and invisible entry has read and still may
rely on (`InsertSound`): its key is free, the debit it reverses has room for it, its
request is pending; and that no two open entries have one key or reverse one debit
(`OneInserter`), which is what the lock on the debit's row is for.  `ProjectionFits` is
the projection as cardinalities of page units, and `PagesAdded` says what adding one
entry does to them.  `MeteringSafe` is inductive as it stands.

The theorems of a whole run (`Together`, `Closed`, `SideBySide`, `ReadersSideBySide`,
`Work`, `Upkeep`, `Kept`, `Tombstones`, `PartsSideBySide`, `SwitchesSideBySide`,
`RequestsSideBySide`, `CountsSideBySide`) add what "side by side" means: every step of
the composed specification is a step of the module that moves and a stutter of the
others.

Only model-checked, at the bounds of section 10:

* all liveness, `JobsSettle` to `UpkeepEnds`: the prover does not do fairness and
  ENABLED (what `AnswersArrive` says of single steps is `ReadOnce` and `ReapsDeserted`);
* that the plan of prefix units is sound (`PlanIsSound`), for the reason above.

So each safety invariant and each action property of the passing runs is stated by a
theorem.  What recursion over data computes for every input is out of the prover's
reach; no module here declares a recursive operator.

## 13. Where the code and its documentation part

Five runs end in a violation, each of one property that a document or comment of
the repository states.

* **A skipped fence strands a generation** (`chat_generation_stranded`).
  `_fence_current` (`app/chat/worker.py:3468`) reads the execution row with SKIP
  LOCKED.  While the worker's own heartbeat has the row locked the fence looks
  lost, `_cancel_stale_execution` cancels the running execution of a running
  generation, and nothing creates another: recovery looks at running executions
  only.  The generation stays running until its stream is abandoned and reaped.
* **A stale worker ends a generation** (`chat_generation_stale_failure`).
  `_fail_execution` (`app/chat/worker.py:3113`) reads the status of the generation
  and not the fencing token.  A worker whose execution was expired and replaced
  still fails the generation its successor is working on.
  `docs/operations.md:13` says it must not change a terminal state.
* **An acknowledged notification stays unread** (`outbox_ack_race`).
  `_write_ack` (`app/outbox/service.py:373`) takes no inbox lock.  A delivery that
  has read the acknowledgements and not committed, and an acknowledgement that
  finds no notification, do not see each other.  The comment at line 334 says the
  notification is then born read.
* **A reindex in an unchanged generation never publishes** (`ingestion_ready`).
  Acceptance activates the new publication before it supersedes the old one
  (`app/documents/service.py:3529`), which repeats a key that is unique
  (`schema.py:377`); the job is retried and ends in dead letter.
* **The second backup fails** (`backup_second`).  The manifest's rows are unique by
  object key over all sets, so the second set that records the same object
  conflicts and fails, without any fault.

The following are stated as definitions of their modules too, and TLC refutes
them; no run has them, because each is one step from the code to its
counterexample.

* `BudgetSecondDraft`: the reservation of a second draft repeats the identity of
  the first (`app/chat/worker.py:2518`, with `call_sequence` at 2243) and is refused
  as a conflict; the comment at 1491 says that think and deep run again.
* `BudgetRecoveredRound`: a recovered quick execution records its only round a
  second time and dies of a `ValueError` (`app/chat/budget.py:207`);
  `docs/operations.md:197` has recovery go on in the same budget.
* `GraceHonoured`: the second of two tabs that refresh with one token has read it
  before the first consumed it, waits for the session's row, and is refused
  (`app/identity/service.py`, `refresh`) where `docs/deployment.md:284` gives five
  seconds of grace.
* `PendingEnds`: nothing gives an account's personal documents a deletion the
  finalization would wait for, unless each was deleted before
  (`app/documents/service.py:4039` says that one is created per document).
* `PackageIsWhole`: a lost archive is rebuilt after the avatar and documents it
  should hold are gone; `docs/operations.md:276` has destruction halted then.
* `RestoreResumes`: a blocked restore waits for an advance that looks at open
  repairs; when the operator has repaired everything nothing advances it
  (`app/backup/worker.py:658`, and its comment above).
* `ClosedIsSettled`: a pair can become open in a window that has closed
  (`app/chat/worker.py`, where the second answer of a pair is published);
  `docs/operations.md:263` expires pairs at close.
* `LatestDrives`: the standing is read before the suggestion is written, and a
  newer run may succeed in between (`app/evaluation/service.py:671`).
* `ActiveIsWhole`: a publication that read the active generation commits into it
  after a switch (`app/indexing/service.py:328`); nothing replays it, and
  `docs/operations.md:227` takes the coverage of the active generation for granted.
* `ProfileReleases`: a graph build's target generation has no released profile at
  the moment its own release asks for one (`app/indexing/releases.py:546`), so under
  `Gated` no build can succeed; `docs/operations.md:243` says that one can.
* `ComponentKeepsRows`: an attempt that lost its lease purges the rows of the stage
  its successor recorded (`app/graph/service.py:766`).
* `FailedRunIsRepeated`: the acknowledgement a failed run left refuses its
  successor (`app/documents/public_graph.py:562`); `docs/operations.md:241` asks for
  a new run.
* `WithinRunningLimit`: running generations are counted without a lock
  (`app/chat/generation.py:247`).
* `StreamsStop`: a client that reconnects with the id of the terminal event polls
  for ever (`app/chat/streaming.py:90`).
* `AbandonedIsReaped`: two last readers that leave at once, or the lease row of a
  dead server, keep the deadline from being armed (`app/chat/leases.py:110`), against
  the comment at 140.
* `StraysArePending`: rows of an interrupted publication stay in Meilisearch.

Some guarantees of sections 6 to 9 have exceptions, because the code does not keep them
without.  In each case the property without its exception fails at once; no document
of the repository promises it in these words, except where one is quoted.

* *A deactivated department gets jobs* (exception of `DirectorySafe`).  Replacement, restore, reindex
  and replay (`app/documents/service.py:2260`, 2734, 4466, 689) and the approval of a
  submission (`app/documents/submissions.py:164`) authorise without the connection that
  locks the departments, so a deactivation may come between the authorisation and the
  commit.  The comment in `authorize_space` (`app/identity/service.py:3023`) says the window is
  closed, which is so for uploads and new submissions.
* *A deletion is blocked for ever* (exception of `DeletionsComplete`).  The seal counts the
  stored cleanup targets against those derived now (`app/documents/service.py:4196`).  An index
  generation that was listed at acceptance and collected since
  (`app/indexing/persistence.py:2168`) is stored and no longer derived; every
  `finalize_deletion` then raises deletion_cleanup_blocked.
* *Hits are purged under a long answer* (exception of `HitsAreKept`).  A read lease lives 300
  seconds (`app/documents/read_models.py:564`) and is not renewed, and chat keeps its
  request open until the generation ends (`app/chat/worker.py:847`).
* *A snapshot is copied under writes* (not in `QuietSnapshot`).  The worker drains the counter of its
  own process (`app/backup/worker.py:491`), and a resident worker serves no requests, so
  this is the settle delay: a write another process let in before, and that takes
  longer, is in flight while the provider copies.  `app/backup/write_gate.py:54` says
  snapshots are taken only after admitted writes drain.  A process that cannot read
  the gate lets writes in (`write_gate.py:48`), by intention.
* *Two executions of one set* (exception of `QuietSnapshot`, `SetsAreWhole`).  The lease of
  `backup.execute` is not renewed, and `fenced_transaction`
  (`app/platform/database.py:450`) looks at it before and after the whole execution only.  A
  copy that takes longer is adopted beside itself, against the comment at
  `app/backup/worker.py:415`; the first to end opens the gate under the
  other, and `fail_component` (`app/backup/service.py:188`) turns a set that the other
  completed into a failed one, or the other completes one that has failed and has a
  cleanup target.  A drain that times out fails the PostgreSQL component of an
  adopted set although it was copied (`worker.py:427`).
* *Two restores* (exception of `ReadsStayClosed`, `FactsFirst`).  The comment at
  `app/backup/schema.py:102` says that the database admits one active session; the unique
  index is on the status, so it admits one of each active status, and a second restore may be
  accepted while the first runs; the one that ends first opens the reads.

Read with suspicion, and not stated: the read lease of a principal's other request
ends with the first to release it when both found the same version
(`app/documents/read_models.py:557`); one object that cannot be deleted aborts the
scheduled cleanup of submissions (`submissions.py`, `cleanup_scheduled`) at every
run; a discard that fails inside the recovery of an expired lease fails every
claim (`app/documents/jobs.py:432`); a partial OpenSearch bulk write is reported as a failure of all of it
(`app/indexing/opensearch.py:251`); an exhausted meter's mark is rolled back by the
error that reports it (`app/usage/budget.py:376`); a deactivation reads members with
`scalar_one_or_none` (`app/identity/service.py:1408`), which raises for two; a
repeated `POST /chat` whose conversation was deleted fails with `.one()`
(`app/chat/generation.py:226`); registering gates takes no lock; the heartbeat of a
shadow run never extends its lease.

## 14. What is not modelled

`components` in `PROJECT.json` lists every part, and its note says what of a
modelled part is left out.

* *Billing* (`usage/billing.py`).  Its projection lookup compares a nullable key
  with `IS` (`billing.py:501`), which PostgreSQL refuses for a text value.  The
  concurrent reconciliation worth a model therefore never runs there, and on SQLite
  writers are serialized.
* *Data transformation*: parsing, chunking, embedding, fusion and scores, judge's
  metrics, tree search and routing have no order of events to get wrong that is
  not in their callers.
* *Input and output*: previews, HTTP, the frontend, migrations, the wire formats of
  external stores, the content of a snapshot, the restore of PostgreSQL itself.
* *Records under a unique key in one transaction*: retrieval usage,
  preferences, titles.
* *Platform runtime*: wiring and configuration.  The one thing of it that
  decides behaviour, whether the release of a graph is gated, is the constant
  `Gated`.

Inside the modelled components the order of row locks (deadlocks between
transactions of two modules), several consumers of an event, and operators'
idempotency keys are left out, as the sections above say.

## 15. Plan

What would add most, in this order.

1. To model: the row locks of heartbeat, fence, cancellation, reaper and expirer
   of chat as steps of their own, for deadlock; the adjustments of usage made by
   operators; upload batches.
2. A plan of prefix units stated as a function of the chunks already packed, so that
   the induction over chunks becomes an invariant of steps and `PlansAreSound` a
   theorem.
