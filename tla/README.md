# RayRAG in TLA+

RayRAG (`src/`) is a single-process RAG server: documents are uploaded, parsed,
embedded and indexed by background workers, dialogues are kept in memories and
distilled there, agents run canvases that may stop to ask their user, and all of
it is used over HTTP.  Its state lives in memory behind locks and is written
through to JSON files; there is no database transaction anywhere, only
compensation, write-ahead rows and leases.  This directory models the parts where
that is hard to get right, model-checks them with TLC on small instances, and
proves the central safety properties with TLAPS for every value of the constants.

* [The system](#the-system): inventory of the components
* [Modules](#modules): which module models what, and how
* [Runs](#runs): what TLC checks, with which bounds, and what it shows
* [Proofs](#proofs): what is proved, from what, and along which argument
* [Where the code and its comments disagree](#where-the-code-and-its-comments-disagree)
* [Limits](#limits), what is [not modelled](#not-modelled), and [what is left](#what-is-left)

## The system

| Component | State | Operations | What makes it hard | What makes it correct | Here |
| --- | --- | --- | --- | --- | --- |
| TaskExecutor (`task_executor.rs`) | channel, semaphore, four atomic counters, `current` map | submit, spawn, shutdown, management loop, `run_one` | submitters, loop and workers update counters, permits and channel in separate steps; retries race shutdown; handlers unwind | permits conserved, tasks delivered once, drained before exit, counters right | `TaskExecutor` |
| TaskQueue (`api/features.rs`) | task rows (status, lease, attempts, cancel flag), the task file | push, stage/publish/discard, claim, renew, report, reject, cancel, recovery at start | leases expire under running workers, writes fail, the process restarts | one live row and one lease owner per document, bounded attempts, settled stays settled, file agrees | `TaskQueue`, `TaskLifecycle` |
| Commit of a document (`server.rs`, `document.rs`, `chunks.rs`, `kb.rs`) | document row, index, index file, graph, knowledge base totals | commit, delete, upload, reparse, reset, chunk edits | several stores without a transaction; data read before the lock and used under it | all or nothing, stores agree, no chunks of deleted documents | `DocumentCommit` |
| Document ingestion (`server.rs`, `document.rs`) | run status of documents, both worker pools, the queue | dispatcher, executor handler, `process_document`, upload, parse, stop, cancel, reset, delete | two pools feed one worker function; requests change rows and status in separate steps | stale workers do not commit, done means indexed, pending rows settle | `DocumentIngestion` |
| Memory extraction (`server.rs`, `features.rs`, `stores.rs`) | memories, messages, their task rows | add a dialogue, dispatch, extract, commit, reconcile, delete, clear, cancel | write-ahead row and message are different stores; a retry of a commit that happened; ids that are handed out again | no message without its task, no extraction twice or into a deleted memory | `MemoryTasks` |
| Agent conversations (`agent_checkpoint.rs`, `features.rs`) | one checkpoint per conversation, with a claim; the registered streaming run | claim, go on, pause again, answer, release, cancel, clean up | claims expire under a running agent; saving, telling the client and deleting are separate steps | a claim is honoured, a token given to a client keeps working, a conversation comes free again | `AgentSessions` |
| Agent runtime (`agent.rs`) | the compiled canvas, cursors, selected sets, Loop and Parallel frames, the checkpoint | compile, step, branch, iterate, fan out, pause, resume, fail | order, branches and nested frames must survive a pause; several items run and pause at once | each selected component once, an answer to its own question, checkpoints only grow | `AgentCanvas`, `AgentWorkflow` |
| Snapshot persistence, vector mirror, accounts, data sources, research harness, chat channels, parsing and compilation, retrieval, HTTP interface, native bindings | | | | | [not modelled](#not-modelled) |

How they interact.  A request inserts the document (`DocStore`), counts it in
the knowledge base and pushes a row into the TaskQueue.  The row is then started
by whichever comes first: the dispatcher, which wakes up every five seconds or
is notified and lists what `pending_at` offers, or the TaskExecutor, to which
the same row was submitted.  Both run `process_document`: claim the row, parse,
renew the lease, take `document_commit_lock`, check the lease once more, write
index, mirror, graph, totals and row, and report the outcome to the queue.
Deletions and chunk edits take the same lock; cancellations and retries go
through the queue, status changes through `DocStore`.  A dialogue posted to a
memory goes through the same queue: its row is staged, the raw message saved
under `memory_commit_lock`, the row published, and a dispatched worker saves what
it extracted under that lock.  A request that runs an agent claims the checkpoint
of its conversation, if there is one, runs the compiled canvas from there, and
saves a new checkpoint or the answer.  Every store saves its file under its own
lock and puts the old contents back when that fails.

## Modules

| Module | Role |
| --- | --- |
| `TaskExecutor`, `TaskExecutorProofs`, `MCTaskExecutor` | the in-process executor |
| `TaskLifecycle` | what a task queue promises |
| `TaskQueue`, `TaskQueueProofs`, `MCTaskQueue` | the durable queue; implements `TaskLifecycle` |
| `DocumentCommit`, `DocumentCommitProofs`, `MCDocumentCommit` | the stores a document is written to |
| `DocumentIngestion`, `DocumentIngestionProofs`, `MCDocumentIngestion` | requests and worker pools over `TaskQueue` |
| `MemoryTasks`, `MemoryTasksProofs`, `MCMemoryTasks` | dialogues of memories over `TaskQueue` |
| `AgentSessions`, `AgentSessionsProofs`, `MCAgentSessions` | checkpoints and runs of an agent |
| `AgentCanvas` | compilation of a canvas, as operators |
| `AgentWorkflow`, `AgentWorkflowProofs`, `MCAgentWorkflow` | the scheduler of compiled canvases |

**TaskExecutor** models `task_executor.rs` up to the sync tasks.  `place[j]`
follows a submission from the submitting thread through channel and loop into its
worker; each atomic counter update is an action (`CountPending`, `Dequeue`,
`Charge`, `Tally`, `Uncharge`), as is each critical section of `run_one`.
`uncounted` holds the sends whose `fetch_add` has not happened yet, because
`submit` counts after it sends.  Counters wrap modulo `CounterModulus`, as
`AtomicU64` does.  A handler returns, fails for good or to be retried, or unwinds.

**TaskQueue** models every operation of `TaskQueue` that production code calls.
Each runs under `save_lock`, so it is one action; `Persist` is
`mutate_if_changed`, with the outcome of the file write as a parameter.  Time is a
number of ticks left on a lease.  `leases` holds the leases whose workers have not
finished, superseded ones included: what makes stale workers visible.  `issued`
and `granted` are history variables.  **TaskLifecycle** is the abstract promise (a
task waits, is worked on at most `Limit` times, and once settled stays settled);
`TaskQueue` implements it with `phase` computed from the row and `attempts` from
`granted`.

**DocumentCommit**: one action is one write of one store.  `lock` is the record of
what the function under `document_commit_lock` computed on entry (delta, previous
index), `req` what each request read earlier, so a stale read stays stale.
An upload goes through the steps of `register_document_upload_with_options` and of
`queue_document_processing`: once `UploadPush` has published the row of the queue a
worker may commit the document, and when the status cannot be written
(`UploadStatus`) the task is cancelled, the document's row removed and the count taken
back, whether or not a commit came in between.  `RestoreIndex` (one document, of
commits and deletions), `RestoreSnapshot` (the whole index, of edits), `RestoreGraph`
and `RestoreCounts` are the compensation functions.  Chunks are counted, not told
apart.  `Alone` names the requests that the instance
lets nothing interleave with.

**DocumentIngestion** composes the requests and both worker pools over
`Queue == INSTANCE TaskQueue`.  Each permit of a pool is a slot with a program
counter; what a worker read (`is_cancelled`, `can_retry`, the lease) is kept from
one action to the next.  Chunks are named by the lease token under which they were
parsed, so that "old over new" is visible: `installed` is the token of the last ones
put into the index, `found` whether a deletion or reset has left them there.  A parse
that panics (`Unwind`) gives its permit back and leaves the lease to run out.  The
commit is one step here: that it
is all or nothing is `DocumentCommit`'s `AllOrNothing`.

**MemoryTasks** composes `add_memory_message`, `process_memory_task`, the
reconciliation of staged rows and the deletions over the same `TaskQueue` (with no
documents).  The message store and the memory store are one variable each, since
they publish nothing that is not written.  A message carries the row whose dialogue
it holds (`from`), the message it was extracted from (`source`) and its id, which
`next_message_id` computes from what is stored: an id that was lost before the save
is given out again.  `boot` holds the rows the first dispatch after a start still
has to reconcile, `evicted` (history) the rows whose own message a full memory let
go.  `memory_commit_lock` is held by whoever is at a place named in `LockFree`.

**AgentSessions** models `agent_complete_inner` with `AgentCheckpointStore` and
`AgentRunRegistry`.  A request's `at` is the store call it makes next, so that a
failed write, an expired claim, a dropped stream or a crash can come between any
two.  A run keeps its own view of its lease (`left`) beside that of the store.
`told` and `consumed` are history: the tokens clients were given, and those a run
that had claimed them used up.

**AgentCanvas** holds the pure part of `AgentWorkflow::from_value`: which components
a Loop or Parallel takes as its body and the topological order of the rest and of
each body.  **AgentWorkflow** runs a compiled canvas (`Plans` are the records
`Compile` makes).  `run` and `saved` are positions: the frame of the outer order
(index and selected set), that of a Loop's body with its iteration, those of a
Parallel's items, each with a runtime of its own that `ParallelEnds` merges.
`began` and `again` are history: the places whose effects the line of runs of this
conversation has had, once or twice.  What a component computes is left open except
for the branch it selects and the inputs a question takes.

The **MC modules** give the constants their values.  Definitions whose comment
starts with *Mutant* are plausible bugs of the definition below them; no
specification uses them.  With each put in its definition's place, the property it
belongs to is violated.
## Runs

State counts are of one full run.  Wherever time or failure is unbounded in the
code, the bound is a constant of the module.

| Run | Instance | Distinct states | Question |
| --- | --- | --- | --- |
| `executor` | three submissions (two of one id), two permits, one retry, panics, shutdown at any point, counters modulo 8 | 129,156 | Are permits, channel and counters right under every interleaving, does every queued task settle, and does shutdown's wait end? |
| `queue` | two rows, a document and a memory, two attempts, leases of two ticks, failing writes, restarts | 46,364 | Is the queue safe, does it implement its lifecycle, and does a pending row settle or strand? |
| `commit` | two documents, two requests and a commit at once, chunk edits alone, failing writes | 183,634 | Do the stores agree whenever nobody is at work, also after an upload was undone that a worker had committed, and is a commit all or nothing? |
| `commit_faults` | one document, crashes between any two writes, invalid chunks, reparse and reset | 164,431 | Can a deleted document leave chunks or a graph? |
| `commit_revived` | a chunk edit and a deletion at once, nothing failing | violation | Do deleted chunks stay deleted? |
| `ingestion_safety` | two rows of one document, a dispatched and an executor worker, every request one after the other, one attempt, failing writes, panicking parses, restarts | 663,104 up to symmetry | Do stale workers stay out of the index and the queue, and does done mean indexed? |
| `ingestion_liveness` | the same with two requests at once that upload, reparse and delete, panicking parses | 612,067 | Does every pending row settle or strand? |
| `memory` | two dialogues, two requests at once of which one posts and the other posts, deletes and clears, two attempts, failing writes, restarts | 745,891 up to symmetry | Does each kept dialogue have its row, is it extracted at most once, by its own row unless it was evicted, and never into a deleted memory? |
| `memory_liveness` | one request after the other that posts or cancels, failing writes, restarts | 107,683 | Does a staged row get published or discarded, and then settle or strand? |
| `agent` | one conversation, two requests at once, two canvases, two tokens, failing writes, restarts | 675,510 | Is a claim honoured, does a token keep working, does a conversation come free again? |
| `workflow` | four canvases: a branch that joins, a Loop that asks, a concurrent and an ungrouped sequential Parallel of up to three items | 8,561 | Does each component run once over any pauses and failures, and does each answer reach its question? |
| `workflow_inputs` | the Loop, answered in `inputs` | violation | Does each iteration ask its own question? |

**Why the bounds are enough.**  Two rows and two workers are what a race needs:
one stale and one fresh.  Two attempts let a lease be lost and taken over and the
last attempt be lost, too; the executor's third submission lets one wait in the
channel while two run.  Two chunks tell "replaced" from "added", two documents
tell a total from a count; `MaxTotal` only stops a total that is growing wrongly.
A lease of two ticks in `queue` distinguishes a renewed lease from one that was
not; where renewals are not what is asked, one tick does.  A memory of two messages
is full after one dialogue and one child, so a second dialogue evicts; `MaxId` 2
lets an id be lost and given out again.  Two tokens let a resumed run pause again,
and the third stay out; two canvases are what "changed in between" needs.  Three
items are one that goes first and two that run at once.  `ingestion_safety` has a
single attempt: with two, and with two requests at once, failures and restarts are
beyond what a full search can do in minutes.  So one worker takes over from another
there only with a newer row, not with a second claim of the same one: that is for
`queue`, which has two attempts, and for the theorems, which have any number.  Beyond
the runs, its properties held with two attempts and all faults for uploads, parses and
deletions (all 611,689 states), and in the first 5 million states for all requests;
those of `memory` held for three dialogues to depth 51 (9 million states).

**Fairness.**  *Executor:* tokio polls what was spawned, threads run, handlers
return; nothing obliges a client to submit or to shut down.  *Queue:* time passes,
the dispatcher (which wakes up periodically) claims what is offered, and a worker
comes to its end; `Report(l, s, TRUE)` and `Claim(t, TRUE)` assume that a write does
not fail for ever, since a retry of either is always possible.  *Ingestion:* a row
on offer is dispatched while a permit is free, a worker goes on, and its parse is
taken to end or to unwind (the heartbeat gives up a worker without a lease, but nothing bounds a
parse that blocks); requests and the executor's loop are not assumed to proceed.
*Memories:* time passes and a request under way goes on; a claim, a worker's step, a
dispatch and a reconciliation that is possible again and again happens (strong
fairness): the dispatcher comes back every five seconds, and a write may fail any
number of times but not for ever.  *Agent:* only that time passes; no client has to
ask, no model has to answer, and a conversation comes free all the same because a
claim runs out.  *Workflow:* a run that can go on is polled.  `DocumentCommit` has
no fairness and no temporal property.

**Deadlock** is checked in `memory`, `memory_liveness`, `agent`, `workflow`
and `workflow_inputs`.  It is not in the others, where a server whose clients ask
nothing (the instances have a limited number of rows and documents) and whose rows
are settled does stop.

**What the properties say.**  The ones that relate the most state:

* `StatusAgrees` (executor): at every moment the backlog and running counters are,
  modulo their width, the numbers of jobs there, and `current` shows no other.
* `OneLiveRowPerDocument`, `OneOwnerPerDocument`: whatever is cancelled, expired,
  reclaimed or recovered, one worker per document passes the lease check.
* `FileCurrent`: the file and the rows differ at most in the priority of a running
  row, which `push_document_unique` raises in memory only.
* `StaleReportIgnored`: a late report does not touch the row of the next worker.
* `AllOrNothing`, `NoOrphans`: compensation restores each store, and nothing survives
  its document.
* `TotalsAgree`: the chunk total of the knowledge base is the number of chunks in the
  index, those that an undone upload left there included.  `IndexAgrees`: the row of a
  document counts its chunks, unless such an upload removed the row.
* `UsesQueue`: every interleaving of `DocumentIngestion` is one `TaskQueue`
  allows, so what is proved of the queue holds inside the system.
* `NewestWins`: a claim's chunks are never replaced by those of an older claim, and
  removed chunks come back only with a newer one.
* `DoneMeansInstalled`: when a row becomes done, the last chunks put into the index of
  its document are those of its own claim; they may have been removed since, but a
  commit that failed or never was is not reported done.
* `RawHasTask`, `ExtractsOwnDialogue`, `ExtractedOnce`, `ClearedStaysClear`: the
  write-ahead row, the message, its children and the memory agree through crashes,
  lost reports and ids given out twice.
* `LeaseHonoured`, `PromisesKept`, `OneStream`, `StaysResumable`: a claimed
  checkpoint is its claimant's, an unclaimed one is not lost.
* `ExactlyOnce`, `OwnAnswers`, `CheckpointGrows`, `RunEnds`: a run cut in pieces by
  pauses and failures does what one in a single piece does.

## Proofs

Checked by TLAPS for all values of the constants, under the named assumptions of
the modules (`MaxRetries` and `LeaseTicks` positive, documents and memories
disjoint, finitely many jobs, documents and requests, a positive counter width, and
the like).

| Theorem | Says |
| --- | --- |
| `TaskExecutorProofs!TypeCorrect` | types; in particular attempts never pass `max_retries` |
| `TaskExecutorProofs!PermitsSafe` | permits plus permit-owning workers equal the pool |
| `TaskExecutorProofs!ConcurrencyBounded` | at most max(`max_concurrent`, 1) handlers run |
| `TaskExecutorProofs!TasksDeliveredOnce` | a job is in the channel exactly while it is queued, and once; the loop leaves nothing behind |
| `TaskExecutorProofs!StatusIsTrue` | the counters of a status are what goes on, modulo their width |
| `TaskQueueProofs!TypeCorrect` | types |
| `TaskQueueProofs!OneLiveRow` | at most one live row per document |
| `TaskQueueProofs!OneOwner` | at most one lease owner per document |
| `TaskQueueProofs!ClaimsAreBounded` | at most `max_retries` claims, over restarts and failed writes |
| `TaskQueueProofs!FileIsCurrent` | the file is what is in memory |
| `TaskQueueProofs!SettledRowsSafe` | leases only on running rows; cancelled rows stay out |
| `TaskQueueProofs!StaleReportsIgnored` | a worker that lost its lease changes no row when it reports |
| `TaskQueueProofs!Refinement` | `TaskQueue` implements `TaskLifecycle` |
| `DocumentCommitProofs!TypeCorrect` | types |
| `DocumentCommitProofs!CommitsAtomic` | a commit or deletion is all or nothing, where only writes fail |
| `DocumentCommitProofs!NoOrphansLeft` | nothing of a deleted document is left, where no chunk is edited by hand |
| `DocumentCommitProofs!TotalsAreSums` | between operations the chunk total is the number of chunks in the index, where only writes fail, no count is released and edits are made alone; uploads undone after a commit are covered |
| `DocumentCommitProofs!RowsCountTheIndex` | under the same premises, each row that no failed upload removed counts the chunks the index has, and the file is the index |
| `AgentSessionsProofs!TypeCorrect` | types |
| `AgentSessionsProofs!LeasesHonoured` | while a lease lasts nobody else touches the checkpoint |
| `AgentSessionsProofs!StreamsReplaced` | one streaming run was not told to stop, and it is the registered one |
| `AgentSessionsProofs!TokensKept` | a token a client was told is the checkpoint's until it is used up |
| `AgentWorkflowProofs!TypeCorrect` | types |
| `AgentWorkflowProofs!ExecutesOnce` | a selected component runs once over any pauses and failures, in plans whose edges go forward |
| `AgentWorkflowProofs!AnswersStayOwn` | a resumed question takes its own answer, where users answer in `resume_data` |
| `AgentWorkflowProofs!CheckpointsGrow` | a new checkpoint has all of the one it replaces and the answer to its question |
| `DocumentIngestionProofs!TypeCorrect` | types |
| `DocumentIngestionProofs!QueueRespected` | requests and workers use the queue as `TaskQueue` assumes |
| `DocumentIngestionProofs!NewestChunksWin` | chunks are never replaced by those of an older claim, nor brought back but by a newer one |
| `DocumentIngestionProofs!DoneIsInstalled` | a row becomes done only after its own claim's chunks were put into the index, and none since |
| `MemoryTasksProofs!MemorySound` | the lock, the rows, workers, requests, messages and memories fit together |
| `MemoryTasksProofs!TypeCorrect` | types |
| `MemoryTasksProofs!DialoguesExtractedOnce` | a dialogue is extracted at most once |
| `MemoryTasksProofs!RawMessagesHaveTasks` | a saved dialogue of a memory that is there has its row |
| `MemoryTasksProofs!ClearedMemoriesStayClear` | no extraction puts messages into a memory that was cleared |
| `MemoryTasksProofs!ChildrenOfTheirDialogue` | children hang below the message of their own dialogue unless it was evicted, where reconciliations' writes do not fail |

*Executor.*  `PermitsConserved` is inductive with the type invariant.  The lemma
`CountMove` says how the number of permit owners changes when one job moves; each
action is then a move within, into or out of `WithPermit`.  `DeliveredOnce` needs one
conjunct more: the loop exits only after the sender is gone, or a later send could
never be received.  `StatusAgrees` is inductive with the types: each action moves one
job at most into or out of the backlog and the executions (`CountMove` again), and
`CounterFollows` says that `fetch_add` and `fetch_sub`, which wrap, keep a counter
congruent to what it counts.  The provers know of `%` only that a division leaves a
remainder (`Remainder`, `RemainderUnique`); the rest is derived from that.

*Queue.*  None of the properties is inductive alone.  `QueueInv` adds

* `RowInv`, per row: `retry` equals the number of leases granted (which turns the
  bound on a stored counter into one on the history), a pending row has an attempt
  left, staged rows are of memories, only running rows carry a lease, cancelled
  rows are settled;
* `FileCurrent`, because `Restart` replaces the rows by those of the file, and
  the invariant of the rows must be one of the file as well;
* `LeasesInv`: a token names one lease, because each is newer than all before.

`NewTaskRow`, `UnleasedRow`, `CancelledRow`, `RecoveredRow` say what each
transformation of a row preserves; `Rewrite` and `RewriteRow` lift that to any
action that persists changed rows or puts them back, so that an action's step is
its row lemma.  `OneOwner` follows from the invariant: two owners hold running
rows of one document, thus the same row, thus the same token.  `Refinement`
classifies how each row moves (`RowMoveIsLifecycle`) and shows that all rows move
so in one step, a restart and a cancellation of several rows included.

*Commit.*  `AllOrNothing` compares the stores before and after the lock was held.
`Written` says what has been written at each stage between: the index is the old
one or the computed one (`IndexWritten`), so is the graph (`GraphsWritten`), the
stages come in order (`InTurn`), and no commit touches another document's chunks
(`OwnDocumentOnly`).  It assumes that nothing but writes fail, since a crash in
between loses the compensation.  `NoOrphans` needs the opposite weakening, no edits
(`NoEdits`), since `commit_revived` refutes it otherwise; `Buried` then adds that a
commit under way keeps out of deleted documents (`KeepsOut`) and that a deletion
takes the chunks before the row (`DeletesFirst`).

`TotalsAgree` and `IndexAgrees` speak of moments when nobody is at work; `Balanced`
says what holds at all others.  While a function writes, the total counts the index as
it was before, or as it will be after it (`TotalCounted`, `CountedIndex`), the rows are
those before or after it (`RowsCount`), and what it computed when it took the lock is
still so (`LockKnows`), because an edit is the only request there is (`EditsAlone`) and
nothing takes the count of a document away (`NothingReleased`).  The last two are the
premises `EditsMadeAlone` and `NoReleases`, those of the instance `commit`, and they
cannot be dropped: with a reparse, or with two edits at once, the code's totals do
drift (below).  An undone write is covered: `Written`, the invariant of `AllOrNothing`,
says what it restores.  So is an upload that takes its row back after a worker has
committed the document: it changes neither the index nor the total, and only the row no
longer counts its chunks.  The sum is a
recursive function over sets, whose equation needs an induction on their size;
`NatSetInduction` states it for a set of numbers where the library has a predicate, and
`SumsExist`, `SumIsSums`, `SumUpdate` and `SumBounds` are all that is used of sums.

*Agent conversations.*  `LeaseKnown`: the lease a run thinks it has is the store's,
for as long as it lasts.  `Promises` adds to `PromisesKept` what makes it inductive:
the claim a run holds is on the token it resumed (`ClaimFits`), a run that is about
to tell a token has its checkpoint in place (`TellsPending`), and a checkpoint whose
token was told to nobody is some run's own (`UntoldOwned`).

*Ingestion.*  `Sound` is one half of the argument: types, the invariant of the
queue's rows (`RowsSound`), and that every lease (`LeasesSound`), report
(`ReportsSound`) and request (`RequestsSound`) that workers and handlers carry from
an earlier step is one `TaskQueue` could have given out.  From it each action is one
of the queue's, which is `QueueRespected`; `TaskQueueProofs`' safety theorems use
`Init` and `Next` alone, so they hold of the composed system.  `Ordered` is the
other half: chunks are never newer than the last claim of their document
(`ChunksSound`), a worker past the lock has the newest claim (`CommitsSound`), and
one about to report success has put in the last chunks of its document
(`SuccessSound`), and one that has still to install has a token that no chunks have
(`Unspent`), which is what makes chunks that come back strictly newer.  `RowMove`
says what a step may do to a row, so that `NextSteady` treats the steps that only
move rows at once and leaves claiming, locking, installing and settling to be
proved one by one.  The theorems of an instantiated module cannot be cited by name,
so the lemmas about rows are stated again there.

*Memories.*  The invariant `Sound` says that one worker or request holds the lock
(`LockSound`); that what a worker saw when it got the lock, a live memory and no
children, is still so when it saves (`WorkersSound`); that a row staged for a dialogue
is of no other message until that is saved (`RequestsSound`); and what messages have to
do with rows and memories (`MessagesSound`).  No conjunct is inductive without the
others: that a dialogue has one child at most needs that nobody else saves or deletes
while a worker holds the lock, and that a discarded row has no dialogue needs that ids
are not given out while their message is there, across restarts too (`Greatest`).
`Moves` says what a step may do to rows, ids, memories, messages and whoever moves; each
action is shown to move so once, and `SoundMoved` derives the invariant of the next
state from that alone.

`ExtractsOwnDialogue` is about ids, which `next_message_id` gives out again after a
restart.  `Owned` follows each of them: an id is that of one message, or of one request
or worker that is about to save with it (`OwnIds`); the id a row is staged for is given
to nobody else before the row is reconciled, which is what `Serving` is for
(`StagedOwn`, `Booting`); an open row, a worker that saves, a request that publishes and
a child have their dialogue in the store, or it was evicted (`RowsBacked`,
`ActorsBacked`, `ChildrenBacked`); and a memory is emptied only after its rows were
cancelled (`ClearedRows`).  Most steps are `Calm`: they save nothing, come no nearer to
saving and open no row.  The premise is that reconciliations' writes do not fail, as in
the instance `memory`: a row that could not be discarded stays staged for an id that is
given out again, and the property then fails (`features.rs:5216` below; TLC finds it
with "reconcile" among the faults).  Eviction is in the property for a like reason.

*Workflows.*  `PositionsSound` says where runs and checkpoints can be: a macro's frame
stands at the macro, a checkpoint at a selected UserFillUp.  `RequestSound` and
`ResumeSound` give the two later properties: until a resumed run has given its answer
it is the checkpoint itself, but for the query and an item that failed
(`AnswerPending`), so that only a step to the place that was asked can take the answer;
after that it has no query left.  `Once` is about paths: a position has been behind its
cursors only, in the frames of a Loop and of each item too, and everywhere there that is
selected (`Orderly`).  A step to the place under a cursor is thus a step to a new one.
That no component selects one behind the cursor is what `Ordered` says of the plans: the
edges go forward in the outer order and in each body, and bodies are disjoint.  It is a
premise of the theorem and what `canvas_topological_order` is for; `workflow` checks the
property with the plans `AgentCanvas` compiles, and finds it violated when they are
ordered by component name.

*Only model-checked:* liveness (no prover here reasons about ENABLED and fairness),
and that the orders of `AgentCanvas`, a recursive definition, are `Ordered`.

## Where the code and its comments disagree

With a run that shows it:

* `commit_revived`: `search.rs:225` "Remove all chunks belonging to a document."
  A chunk edit that copied the index before the deletion writes the copy after.
* `workflow_inputs`: `agent.rs:1948` "A resume payload belongs only to the paused
  node".  An answer in `inputs` stays in the input of the resumed run, and each later
  question with a field of that name takes it (6645).

Seen while modelling, without a run of their own:

*Executor and queue*

* `task_executor.rs:142`: `max_retries` bounds the retries, a task runs one time
  more; `:252`: entries are never removed from `current`; `:460`: a retry in its
  backoff at shutdown is dropped and stays pending.
* `features.rs:4947` "Workers atomically claim pending or lease-expired tasks".  A
  row whose last attempt lost its lease is neither claimed (5333) nor failed before
  the next restart, and reparse requests keep being answered with it.  The liveness
  properties name it as the way out (`Stranded`).

*Documents*

* `document.rs:1916` "so the totals never double-count".  A reparse (1966) releases
  the count while the chunks stay in the index; a deletion before the next commit
  subtracts them again, and a release between the delta and the row of a commit is
  counted twice.  The document total drifts when two deletions of one document,
  or a deletion and an upload, run at once: the subtraction stops at zero.
* `document.rs:2340` "The document row survives the chunk removal".  A redo (2338)
  calls `delete_document_data`, which removes row and file with the chunks.
* `server.rs:2218`: the document is marked UNSTARTED after its row is visible to
  the dispatcher, so the RUNNING or DONE of a quick worker is overwritten.
* `server.rs:2335`, `2554`: a cancelled row's worker marks the document CANCELLED
  after a newer row's worker has made it DONE.
* `document.rs:1340-1368`: a reset writes the status first and removes the chunks
  later; a commit in between leaves DONE without chunks.
* `server.rs:2083`: the undo of an upload removes the document's row and takes it out of
  the document total, not the chunks a quick worker may have committed: they stay in
  the index and in the chunk total, and no row is left to delete them by
  (`TotalsAgree` holds, and `IndexAgrees` leaves such rows out).
* `server.rs:7173` "the two worker paths never process the same task concurrently":
  they do after a lease has expired under a worker that is still going.
* `chunks.rs:455`: a chunk edit stores a count computed from a row it read before
  its await; two concurrent edits of one document count one chunk only.

*Memories*

* `features.rs:3727`: the memory is looked up before the lock (3783) is taken: a
  dialogue saved after a deletion in between is the raw message of a deleted memory.
* Clearing all memories deletes the messages of those it listed first, and every
  memory that is there when it deletes: one created in between leaves its messages.
* `joint_services.rs:131` "Raw message id this extracted message derives from".  When
  the raw message of a row that waits is evicted (`joint_services.rs:604`), a restart
  starts from the highest id that is left (387) and may give the same id to another
  dialogue; the children of the row that waited then hang below that one.
  `ExtractsOwnDialogue` names eviction as the only way there.
* `features.rs:5216`: a reconciliation that fails leaves its row staged; when a
  message lost in the crash had the id that the next dialogue gets, the row is
  published for that one.

*Agent*

* `features.rs:8607`: a resume that is dropped, or whose model cannot be resolved,
  leaves the checkpoint claimed for the fifteen minutes of the lease.  A deleted
  conversation leaves its checkpoint for ever.
* `docs/advanced.md:438` says a second concurrent claim gets HTTP 409.  A claim runs
  out under a run that takes longer than its lease, and then a second run resumes the
  same checkpoint; only one of them can delete it.
* `features.rs:8927`: the answer is recorded before the checkpoint is deleted; after a
  crash in between the conversation can be resumed once more.
* `agent.rs:3033`: each Parallel item starts from a copy of the runtime, so that every
  item may take the query, which is there once.

*Data sources* (`api/data_source_mgr.rs`)

* `:859` "a failed sync must leave a trace here".  A connector that cannot be created,
  or a GitLab fetch that fails (984-1000), returns before the status and the log are
  written, and the source stays `running`; a refused knowledge base (1037) is not
  logged.  A Stop during a synchronisation is overwritten at its end, nothing
  recovers `running` at a restart, and `connect` (1126) writes back, after an await,
  the whole record it read before.

## Limits

*Abstracted:* progress values, messages, timestamps and logging; the order in
which pending rows are offered (priority and its aging); the contents of chunks,
graphs, messages and files; the path of the uploaded file, which exists while its
document does; what an extraction finds and a component computes, as far as nothing
but a choice depends on it.  A file is written entirely or not at all
(`atomic_write` renames).

*Not covered by a model that covers the rest:* a second failure while a failed
commit or upload is undone; a refused submit to the executor, which refuses only after
a shutdown, and the server calls none (`server.rs:2253`); a panic anywhere but in a
parse; two concurrent deletions of one document's total; deleting a whole
knowledge base; chunk feedback; the other `run` values `ingest_documents` writes
through; `push` and `push_with_priority`, which tests alone call; single-message
edits and searches of memories, and dialogues posted to several memories at once
(they are done one after the other); the validation of a checkpoint against its
canvas (one with the same fingerprint passes); agents of several users, whose
checkpoints are keyed apart.

## Not modelled

* *Snapshot persistence* (`persistence.rs`): one sequential function per file.  The
  other models take a write to succeed or fail as a whole; a PostgreSQL mirror that
  refuses after the local write, or is behind after a crash, is outside of them.
* *Vector mirror* (`store/mod.rs`): a copy written beside the index that no query
  reads, so its contents reach nothing the other components do.  `DocumentCommit`
  knows it as a write that may be refused.
* *Accounts* (`auth.rs`, `password_reset.rs`, `captcha.rs`, `oauth_config.rs`): one
  lock per store, and one read, check and write under it for each operation.
* *Data source synchronisation*: what is hard about it is listed above; the
  connectors fetch and parse.
* *Sync tasks and caches of the executor file*, *research harness*
  (`advanced_rag/`): sequential, and used by tests only or decided by model answers.
* *Chat channels, parsing and compilation, retrieval, HTTP interface, native
  bindings*: I/O with other systems, pure transformation, floating-point scoring,
  routing and formatting.

The modelled code is a small part of the 300,000 lines of the repository, and must
stay so: most of these are parsers of file formats and model output, clients of
providers, pages and settings, without steps that interleave or fail half-way.

## What is left

1. `DataSourceSync` (overlapping synchronisations, stops, restarts), and
   `SnapshotPersistence` as a register with accepted and refused writes beneath the
   stores' variables.
2. Priority aging in `pending_at` as an operator checked against its definition.
