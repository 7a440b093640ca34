-------------------------- MODULE DocumentIngestion --------------------------
(***************************************************************************)
(* How a document gets from its upload into the index: the requests that   *)
(* queue, stop, reset and delete it, the dispatcher and the TaskExecutor   *)
(* that both feed process_document with the rows of the task queue, and    *)
(* the workers that run it under a lease.                                  *)
(*                                                                         *)
(* The queue is TaskQueue, each of whose operations is one step; the run   *)
(* status of a document, its chunks and the queue are different stores,    *)
(* and everything happens between two steps of one worker or request.      *)
(* What one commit or deletion writes under document_commit_lock is one    *)
(* step here, or nothing: DocumentCommit shows its writes to be so.  The   *)
(* chunks are known by the lease token under which they were parsed.       *)
(*                                                                         *)
(* Left out: the priorities of rows, progress messages, the path of the    *)
(* uploaded file (it is there while the document is), the metrics of the   *)
(* executor (TaskExecutor), a refused submit to it (only a shutdown makes  *)
(* it refuse, and the server calls none), memory tasks, knowledge base     *)
(* deletion.                                                               *)
(***************************************************************************)
EXTENDS Integers, FiniteSets

CONSTANTS
    Tasks, Docs, MaxRetries, LeaseTicks,    \* those of TaskQueue
    Handlers,       \* concurrent HTTP requests
    DispatcherSlots, ExecutorSlots,     \* the permits of the two worker pools
    Requests,       \* the requests that are made
    Faults          \* the faults that occur: "write", "panic", "restart"

ASSUME MaxRetriesAssumption == MaxRetries \in Nat \ {0}
ASSUME LeaseTicksAssumption == LeaseTicks \in Nat \ {0}
ASSUME SlotsDisjoint == DispatcherSlots \cap ExecutorSlots = {}
ASSUME RequestsAssumption ==
    Requests \subseteq {"upload", "parse", "stop", "cancel", "delete", "redo", "reset"}
ASSUME FaultsAssumption == Faults \subseteq {"write", "panic", "restart"}

VARIABLES
    tasks, disk, leases, issued, granted,   \* those of TaskQueue
    docs,           \* state and run status of each document
    installed,      \* lease token of the last chunks put into the index, 0 for none
    found,          \* whether the index still holds them
    submitted,      \* rows submitted to the TaskExecutor and not yet taken
    worker,         \* the execution of process_document on each permit
    req             \* what each request does next

queueVars == <<tasks, disk, leases, issued, granted>>
vars == <<queueVars, docs, installed, found, submitted, worker, req>>

Queue == INSTANCE TaskQueue WITH Memories <- {}

NoChunks == 0

RunStatus == {"UNSTARTED", "RUNNING", "DONE", "FAILED", "CANCELLED"}

Slots == DispatcherSlots \cup ExecutorSlots

Worker == [lease : Queue!Lease,
           at : {"vet", "check", "claim", "begin", "parse", "renew", "commit",
                 "install", "settle", "retry", "report", "mark"},
           outcome : {"none", "ok", "retryable", "permanent"} \cup Queue!Status]

Free == [at |-> "free"]

Idle == [kind |-> "none"]

Request == [kind : {"upload", "parse", "stop", "cancel", "delete", "redo", "reset"},
            doc : Docs, task : Tasks \cup {Queue!NoToken},
            at : {"push", "status", "revoke", "undo", "cancel", "look", "mark", "remove"}]

Init ==
    /\ Queue!Init
    /\ docs = [d \in Docs |-> [state |-> "absent", run |-> "UNSTARTED"]]
    /\ installed = [d \in Docs |-> NoChunks]
    /\ found = [d \in Docs |-> FALSE]
    /\ submitted = {}
    /\ worker = [s \in Slots |-> Free]
    /\ req = [h \in Handlers |-> Idle]

Present(d) == docs[d].state = "present"

\* A write fails only in the instances with write faults.
Write(ok) == ok \/ "write" \in Faults

\* update_status, which does nothing about a row that is gone.
Marked(d, run, ok) ==
    IF ok /\ Present(d) THEN [docs EXCEPT ![d].run = run] ELSE docs

\* document_commit_lock is held by a worker that is about to install chunks.
LockFree == \A s \in Slots : worker[s].at # "install"

-----------------------------------------------------------------------------
(* Workers *)

NewWorker(t, at) ==
    [at |-> at, outcome |-> "none",
     lease |-> [task |-> t, token |-> Queue!NoToken, attempt |-> 0]]

Lease(s) == worker[s].lease
Row(s) == tasks[Lease(s).task]
Doc(s) == Row(s).subject

Move(s, at) == worker' = [worker EXCEPT ![s].at = at]

\* The worker goes on knowing how its work came out.
Conclude(s, at, outcome) ==
    worker' = [worker EXCEPT ![s].at = at, ![s].outcome = outcome]

Leave(s) == worker' = [worker EXCEPT ![s] = Free]

\* dispatch_pending_document_tasks: a row that pending_at lists and no other
\* dispatched worker is active on.  One thread dispatches.
Dispatch(s, t) ==
    /\ worker[s] = Free
    /\ Queue!Claimable(tasks[t])
    /\ \A r \in DispatcherSlots : worker[r] # Free =>
          Lease(r).task # t /\ worker[r].at # "vet"
    /\ worker' = [worker EXCEPT ![s] = NewWorker(t, "vet")]
    /\ UNCHANGED <<queueVars, docs, installed, found, submitted, req>>

\* Mutant: the row of a missing document is left alone.
VetSilently(s, ok) ==
    /\ worker[s].at = "vet"
    /\ Write(ok)
    /\ IF Present(Doc(s)) THEN Move(s, "check") ELSE Leave(s)
    /\ UNCHANGED <<queueVars, docs, installed, found, submitted, req>>

\* The document is looked up; a row without one is rejected.
Vet(s, ok) ==
    /\ worker[s].at = "vet"
    /\ Write(ok)
    /\ IF Present(Doc(s))
       THEN Move(s, "check") /\ UNCHANGED queueVars
       ELSE Leave(s) /\ Queue!Reject(Lease(s).task, ok)
    /\ UNCHANGED <<docs, installed, found, submitted, req>>

\* The executor takes a submission; document_executor_handler looks the
\* document up.
Take(s, t) ==
    /\ worker[s] = Free
    /\ t \in submitted
    /\ submitted' = submitted \ {t}
    /\ worker' = IF Present(tasks[t].subject)
                 THEN [worker EXCEPT ![s] = NewWorker(t, "check")]
                 ELSE worker
    /\ UNCHANGED <<queueVars, docs, installed, found, req>>

\* process_document: a cancelled row is only marked.
Check(s) ==
    /\ worker[s].at = "check"
    /\ IF Row(s).cancel THEN Conclude(s, "mark", "cancelled") ELSE Move(s, "claim")
    /\ UNCHANGED <<queueVars, docs, installed, found, submitted, req>>

\* The row is claimed, or the worker leaves.
Claim(s, ok) ==
    /\ worker[s].at = "claim"
    /\ Write(ok)
    /\ IF Queue!Claimable(Row(s))
       THEN /\ Queue!Claim(Lease(s).task, ok)
            /\ IF ok THEN worker' = [worker EXCEPT ![s].at = "begin",
                                                  ![s].lease.token = issued + 1,
                                                  ![s].lease.attempt = Row(s).retry + 1]
                     ELSE Leave(s)
       ELSE Leave(s) /\ UNCHANGED queueVars
    /\ UNCHANGED <<docs, installed, found, submitted, req>>

\* The document is shown as running.
Begin(s, ok) ==
    /\ worker[s].at = "begin"
    /\ Write(ok)
    /\ docs' = Marked(Doc(s), "RUNNING", ok)
    /\ Move(s, "parse")
    /\ UNCHANGED <<queueVars, installed, found, submitted, req>>

\* The parse ends, well or in an error that may be retried or not.
Parse(s, outcome) ==
    /\ worker[s].at = "parse"
    /\ IF outcome = "ok" THEN Move(s, "renew") ELSE Conclude(s, "settle", outcome)
    /\ UNCHANGED <<queueVars, docs, installed, found, submitted, req>>

\* The parse panics: its permit comes back, its lease runs out.
Unwind(s) ==
    /\ worker[s].at = "parse"
    /\ "panic" \in Faults
    /\ Queue!Abandon(Lease(s))
    /\ Leave(s)
    /\ UNCHANGED <<docs, installed, found, submitted, req>>

\* The heartbeat of a parse; a worker that cannot renew its lease gives up.
Heartbeat(s, ok) ==
    /\ worker[s].at = "parse"
    /\ Write(ok)
    /\ IF Queue!Owns(Lease(s)) THEN Queue!Renew(Lease(s), ok) ELSE UNCHANGED queueVars
    /\ IF Queue!Owns(Lease(s)) /\ ok THEN UNCHANGED worker
                                     ELSE Conclude(s, "settle", "retryable")
    /\ UNCHANGED <<docs, installed, found, submitted, req>>

\* After the parse the worker sees that it is not cancelled and still owns its
\* lease, and renews it for the commit.
RenewForCommit(s, ok) ==
    /\ worker[s].at = "renew"
    /\ Write(ok)
    /\ IF Queue!Owns(Lease(s)) THEN Queue!Renew(Lease(s), ok) ELSE UNCHANGED queueVars
    /\ IF Queue!Owns(Lease(s)) /\ ok THEN Move(s, "commit")
                                     ELSE Conclude(s, "settle", "retryable")
    /\ UNCHANGED <<docs, installed, found, submitted, req>>

\* Mutant: the lease was checked before the lock was taken.
MayCommitUnleased(s) == Present(Doc(s))

\* What commit_indexed_document checks once it has document_commit_lock.
MayCommit(s) == Queue!Owns(Lease(s)) /\ Present(Doc(s))

Lock(s) ==
    /\ worker[s].at = "commit"
    /\ LockFree
    /\ IF MayCommit(s) THEN Move(s, "install") ELSE Conclude(s, "settle", "retryable")
    /\ UNCHANGED <<queueVars, docs, installed, found, submitted, req>>

\* Mutant: the error of the commit is dropped.
InstallUnreported(s, ok) ==
    /\ worker[s].at = "install"
    /\ Write(ok)
    /\ LET d == Doc(s)
       IN  IF ok /\ Present(d)
           THEN /\ installed' = [installed EXCEPT ![d] = Lease(s).token]
                /\ found' = [found EXCEPT ![d] = TRUE]
                /\ docs' = Marked(d, "DONE", TRUE)
           ELSE UNCHANGED <<installed, found, docs>>
    /\ Conclude(s, "settle", "ok")
    /\ UNCHANGED <<queueVars, submitted, req>>

\* The chunks replace those of the document and mark_indexed marks it done, or
\* all is undone: a store failed, or the document has disappeared.
Install(s, ok) ==
    /\ worker[s].at = "install"
    /\ Write(ok)
    /\ LET d == Doc(s)
       IN  IF ok /\ Present(d)
           THEN /\ installed' = [installed EXCEPT ![d] = Lease(s).token]
                /\ found' = [found EXCEPT ![d] = TRUE]
                /\ docs' = Marked(d, "DONE", TRUE)
                /\ Conclude(s, "settle", "ok")
           ELSE Conclude(s, "settle", "retryable") /\ UNCHANGED <<installed, found, docs>>
    /\ UNCHANGED <<queueVars, submitted, req>>

\* is_cancelled decides first what the worker reports of an error.
Settle(s) ==
    /\ worker[s].at = "settle"
    /\ CASE worker[s].outcome = "ok" -> Conclude(s, "report", "done")
         [] worker[s].outcome # "ok" /\ Row(s).cancel -> Conclude(s, "report", "cancelled")
         [] worker[s].outcome = "retryable" /\ ~Row(s).cancel -> Move(s, "retry")
         [] OTHER -> Conclude(s, "report", "failed")
    /\ UNCHANGED <<queueVars, docs, installed, found, submitted, req>>

\* Then can_retry, another read of the queue.
Retry(s) ==
    /\ worker[s].at = "retry"
    /\ Conclude(s, "report", IF Queue!CanRetry(Row(s)) THEN "pending" ELSE "failed")
    /\ UNCHANGED <<queueVars, docs, installed, found, submitted, req>>

\* Mutant: the lease is not checked.
ReportAlways(s, ok) ==
    /\ worker[s].at = "report"
    /\ Write(ok)
    /\ Queue!Persist([tasks EXCEPT ![Lease(s).task] = Queue!Unleased(@, worker[s].outcome)], ok)
    /\ leases' = leases \ {Lease(s)}
    /\ IF worker[s].outcome # "done" THEN Move(s, "mark") ELSE Leave(s)
    /\ UNCHANGED <<issued, granted, docs, installed, found, submitted, req>>

\* update_claimed.  The document is marked when the report of a retry or a
\* failure was accepted and written, and after a cancellation in any case.
Report(s, ok) ==
    /\ worker[s].at = "report"
    /\ Write(ok)
    /\ LET holds == Queue!Holds(Lease(s))
       IN  /\ Queue!Persist([tasks EXCEPT ![Lease(s).task] =
                    IF holds THEN Queue!Unleased(@, worker[s].outcome) ELSE @], ok)
           /\ leases' = leases \ {Lease(s)}
           /\ IF \/ worker[s].outcome = "cancelled"
                 \/ worker[s].outcome \in {"pending", "failed"} /\ holds /\ ok
              THEN Move(s, "mark") ELSE Leave(s)
    /\ UNCHANGED <<issued, granted, docs, installed, found, submitted, req>>

\* Mutant: the status of the row is written as the run status.
MarkAsReported(s, ok) ==
    /\ worker[s].at = "mark"
    /\ Write(ok)
    /\ docs' = Marked(Doc(s), worker[s].outcome, ok)
    /\ Leave(s)
    /\ UNCHANGED <<queueVars, installed, found, submitted, req>>

\* The document is shown as cancelled, failed or, before a retry, unstarted.
Mark(s, ok) ==
    /\ worker[s].at = "mark"
    /\ Write(ok)
    /\ docs' = Marked(Doc(s), CASE worker[s].outcome = "cancelled" -> "CANCELLED"
                                [] worker[s].outcome = "failed" -> "FAILED"
                                [] OTHER -> "UNSTARTED", ok)
    /\ Leave(s)
    /\ UNCHANGED <<queueVars, installed, found, submitted, req>>

-----------------------------------------------------------------------------
(* Requests *)

\* A request that queues a row is made while there is a row left to queue.
Start(h, kind, d, at) ==
    /\ kind \in Requests
    /\ req[h] = Idle
    /\ at = "push" => \E t \in Tasks : tasks[t].status = "none"
    /\ req' = [req EXCEPT ![h] = [kind |-> kind, doc |-> d, task |-> Queue!NoToken,
                                  at |-> at]]

Go(h, at) == req' = [req EXCEPT ![h].at = at]

Finish(h) == req' = [req EXCEPT ![h] = Idle]

At(h, at) == req[h] # Idle /\ req[h].at = at

\* register_document_upload_with_options: the row of the document is inserted.
Upload(h, d) ==
    /\ docs[d].state = "absent"
    /\ Start(h, "upload", d, "push")
    /\ docs' = [docs EXCEPT ![d].state = "present"]
    /\ UNCHANGED <<queueVars, installed, found, submitted, worker>>

\* The requests that look the document up first, and then go on.
Accept(h, d) ==
    /\ Present(d)
    /\ \/ Start(h, "parse", d, "push")
       \/ Start(h, "stop", d, "cancel")
       \/ Start(h, "cancel", d, "cancel")
       \/ Start(h, "delete", d, "remove")
       \/ Start(h, "redo", d, "remove")
       \/ Start(h, "reset", d, "status")
    /\ UNCHANGED <<queueVars, docs, installed, found, submitted, worker>>

\* queue_document_processing: a live row of the document is submitted again,
\* or a new one is queued.  An upload that fails is undone.
Push(h, t, ok) ==
    /\ At(h, "push")
    /\ Write(ok)
    /\ LET d == req[h].doc
       IN  IF Queue!Reusable(tasks[t], d)
           THEN /\ submitted' = submitted \cup {t}
                /\ Finish(h)
                /\ UNCHANGED queueVars
           ELSE /\ Queue!PushDocument(d, t, 0, ok)
                /\ req' = [req EXCEPT ![h] =
                     IF ok THEN [@ EXCEPT !.task = t, !.at = "status"]
                     ELSE IF @.kind = "upload" THEN [@ EXCEPT !.at = "undo"] ELSE Idle]
                /\ UNCHANGED submitted
    /\ UNCHANGED <<docs, installed, found, worker>>

\* The document with a new row is shown as unstarted and the row submitted; if
\* the status cannot be written the row is cancelled.
QueuedStatus(h, ok) ==
    /\ At(h, "status") /\ req[h].kind # "reset"
    /\ Write(ok)
    /\ docs' = Marked(req[h].doc, "UNSTARTED", ok)
    /\ IF ok THEN submitted' = submitted \cup {req[h].task} /\ Finish(h)
             ELSE UNCHANGED submitted /\ Go(h, "revoke")
    /\ UNCHANGED <<queueVars, installed, found, worker>>

\* request_cancel of a row, if it is not settled yet.
CancelRow(t, ok) ==
    IF Queue!Cancelled(tasks[t]) # tasks[t] THEN Queue!RequestCancel(t, ok)
                                            ELSE UNCHANGED queueVars

Revoke(h, ok) ==
    /\ At(h, "revoke")
    /\ Write(ok)
    /\ CancelRow(req[h].task, ok)
    /\ IF req[h].kind = "upload" THEN Go(h, "undo") ELSE Finish(h)
    /\ UNCHANGED <<docs, installed, found, submitted, worker>>

\* docs.delete of a failed upload.
Undo(h, ok) ==
    /\ At(h, "undo")
    /\ Write(ok)
    /\ docs' = IF ok /\ Present(req[h].doc)
               THEN [docs EXCEPT ![req[h].doc].state = "undone"] ELSE docs
    /\ Finish(h)
    /\ UNCHANGED <<queueVars, installed, found, submitted, worker>>

\* cancel_document: every live row of the document.
CancelRows(d, ok) ==
    IF \E t \in Tasks : tasks[t].subject = d /\ Queue!Cancelled(tasks[t]) # tasks[t]
    THEN Queue!CancelSubject(d, ok) ELSE UNCHANGED queueVars

\* stop_parse_documents, and the end of a deletion.
CancelDocument(h, ok) ==
    /\ At(h, "cancel") /\ req[h].kind # "cancel"
    /\ Write(ok)
    /\ CancelRows(req[h].doc, ok)
    /\ IF req[h].kind = "stop" /\ ok THEN Go(h, "mark") ELSE Finish(h)
    /\ UNCHANGED <<docs, installed, found, submitted, worker>>

\* cancel_task of one row.
CancelTask(h, t, ok) ==
    /\ At(h, "cancel") /\ req[h].kind = "cancel"
    /\ tasks[t].subject = req[h].doc
    /\ Write(ok)
    /\ CancelRow(t, ok)
    /\ IF ok /\ Queue!Cancelled(tasks[t]) # tasks[t] THEN Go(h, "look") ELSE Finish(h)
    /\ UNCHANGED <<docs, installed, found, submitted, worker>>

\* It marks the document only if that is shown as waiting or running.
Look(h) ==
    /\ At(h, "look")
    /\ LET d == req[h].doc
       IN  IF Present(d) /\ docs[d].run \in {"UNSTARTED", "RUNNING"}
           THEN Go(h, "mark") ELSE Finish(h)
    /\ UNCHANGED <<queueVars, docs, installed, found, submitted, worker>>

MarkCancelled(h, ok) ==
    /\ At(h, "mark")
    /\ Write(ok)
    /\ docs' = Marked(req[h].doc, "CANCELLED", ok)
    /\ Finish(h)
    /\ UNCHANGED <<queueVars, installed, found, submitted, worker>>

\* delete_document_data under document_commit_lock.  A redo goes on to look the
\* document up and ends, because it is gone.
Delete(h, ok) ==
    /\ At(h, "remove") /\ req[h].kind # "reset"
    /\ LockFree
    /\ Write(ok)
    /\ LET d == req[h].doc
       IN  IF ok /\ Present(d)
           THEN /\ found' = [found EXCEPT ![d] = FALSE]
                /\ docs' = [docs EXCEPT ![d].state = "deleted"]
                /\ Go(h, "cancel")
           ELSE Finish(h) /\ UNCHANGED <<found, docs>>
    /\ UNCHANGED <<queueVars, installed, submitted, worker>>

\* reset_document_for_reparse: the status first, the chunks later.
ResetStatus(h, ok) ==
    /\ At(h, "status") /\ req[h].kind = "reset"
    /\ Write(ok)
    /\ docs' = Marked(req[h].doc, "UNSTARTED", ok)
    /\ IF ok /\ Present(req[h].doc) THEN Go(h, "remove") ELSE Finish(h)
    /\ UNCHANGED <<queueVars, installed, found, submitted, worker>>

ResetChunks(h, ok) ==
    /\ At(h, "remove") /\ req[h].kind = "reset"
    /\ LockFree
    /\ Write(ok)
    /\ found' = IF ok THEN [found EXCEPT ![req[h].doc] = FALSE] ELSE found
    /\ Finish(h)
    /\ UNCHANGED <<queueVars, docs, installed, submitted, worker>>

-----------------------------------------------------------------------------
(* Time and restarts *)

Tick == Queue!Tick /\ UNCHANGED <<docs, installed, found, submitted, worker, req>>

\* The process ends and the next one loads the files.
Restart ==
    /\ "restart" \in Faults
    /\ Queue!Restart
    /\ submitted' = {}
    /\ worker' = [s \in Slots |-> Free]
    /\ req' = [h \in Handlers |-> Idle]
    /\ UNCHANGED <<docs, installed, found>>

-----------------------------------------------------------------------------

Step(s, ok) ==
    \/ Vet(s, ok) \/ Claim(s, ok) \/ Begin(s, ok) \/ RenewForCommit(s, ok)
    \/ Install(s, ok) \/ Report(s, ok) \/ Mark(s, ok)
    \/ Check(s) \/ Lock(s) \/ Settle(s) \/ Retry(s)
    \/ \E outcome \in {"ok", "retryable", "permanent"} : Parse(s, outcome)

Serve(h, ok) ==
    \/ QueuedStatus(h, ok) \/ Revoke(h, ok) \/ Undo(h, ok)
    \/ CancelDocument(h, ok) \/ Look(h) \/ MarkCancelled(h, ok)
    \/ Delete(h, ok) \/ ResetStatus(h, ok) \/ ResetChunks(h, ok)
    \/ \E t \in Tasks : Push(h, t, ok) \/ CancelTask(h, t, ok)

Next ==
    \/ \E s \in DispatcherSlots, t \in Tasks : Dispatch(s, t)
    \/ \E s \in ExecutorSlots, t \in Tasks : Take(s, t)
    \/ \E s \in Slots, ok \in BOOLEAN : Step(s, ok) \/ Heartbeat(s, ok)
    \/ \E s \in Slots : Unwind(s)
    \/ \E h \in Handlers, d \in Docs : Upload(h, d) \/ Accept(h, d)
    \/ \E h \in Handlers, ok \in BOOLEAN : Serve(h, ok)
    \/ Tick
    \/ Restart

\* The dispatcher, which wakes up every few seconds, starts a worker for a row
\* while it has a permit, a worker goes on and its parse ends, and time passes.
\* Nothing is asked of the requests, nor of the executor's loop.
Fairness ==
    /\ \A t \in Tasks : WF_vars(\E s \in DispatcherSlots : Dispatch(s, t))
    /\ \A s \in Slots : WF_vars(\E ok \in BOOLEAN : Step(s, ok))
    /\ WF_vars(Tick)

Spec == Init /\ [][Next]_vars /\ Fairness

-----------------------------------------------------------------------------
(* Properties *)

\* Every variable has its type.
TypeOK ==
    /\ Queue!TypeOK
    /\ docs \in [Docs -> [state : {"absent", "present", "deleted", "undone"},
                          run : RunStatus]]
    /\ installed \in [Docs -> Nat]
    /\ found \in [Docs -> BOOLEAN]
    /\ submitted \subseteq Tasks
    /\ worker \in [Slots -> Worker \cup {Free}]
    /\ req \in [Handlers -> Request \cup {Idle}]

\* What the workers and requests do to the queue, with all they read before
\* they call it, is what TaskQueue assumes of its callers.
UsesQueue == Queue!Init /\ [][Queue!Next]_queueVars

\* Chunks are never replaced by those of an older claim, whichever workers
\* wake up late, and chunks that a deletion or a reset removed come back only
\* with a newer claim than they were of.
NewestWins ==
    [][\A d \in Docs :
          /\ installed'[d] >= installed[d]
          /\ found'[d] /\ ~found[d] => installed'[d] > installed[d]]_vars

\* A row becomes done only when the last chunks installed of its document are
\* those of the very claim that it is under.  They may have been removed since.
DoneMeansInstalled ==
    [][\A t \in Tasks : tasks'[t].status = "done" /\ tasks[t].status # "done" =>
          installed[tasks[t].subject] = tasks[t].token]_vars

\* Every pending row settles or is left stranded, a row that was queued for a
\* document deleted at the same time included.
PendingSettles == Queue!PendingSettles

=============================================================================
