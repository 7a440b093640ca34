---------------------------- MODULE MemoryTasks ----------------------------
(***************************************************************************)
(* How a dialogue posted to a memory is kept and its extraction done:      *)
(* add_memory_message stages a row of the task queue, saves the raw        *)
(* message and publishes the row; a dispatched worker extracts and saves   *)
(* the children of the message; the dispatcher reconciles the rows that a  *)
(* crash or a failed write left staged; memories are deleted and cleared.  *)
(*                                                                         *)
(* The queue is TaskQueue; a row and its dialogue are the same thing here, *)
(* so that a message names the row whose dialogue it holds.  The message   *)
(* store and the memory store restore their contents when their file       *)
(* cannot be written, so each is one variable, which a restart keeps.      *)
(* memory_commit_lock is held by whoever is at a place named in LockFree.  *)
(*                                                                         *)
(* Every message has size one.  Which messages a full memory evicts        *)
(* depends on dates the extraction made up and on what users forgot: any.  *)
(* An extraction finds one child or none; a memory of raw messages only is *)
(* one whose extractions find nothing.  The kinds of extraction errors are *)
(* those retryable_memory_error tells apart.  Left out: several memories   *)
(* in one request, which are done one after the other; search and edits    *)
(* of messages; document rows, which other permits work on.                *)
(***************************************************************************)
EXTENDS Integers, FiniteSets, FiniteSetsExt

CONSTANTS
    Tasks, Memories, MaxRetries, LeaseTicks,    \* those of TaskQueue
    Handlers,   \* concurrent HTTP requests
    Slots,      \* permits of the dispatcher
    Budget,     \* memory_size, in messages
    MaxId,      \* bound: no message id above this one is given to a request
    Requests,   \* the requests that each handler makes
    Faults      \* the faults: "write", "reconcile" (that of a reconciliation), "restart"

ASSUME MaxRetriesAssumption == MaxRetries \in Nat \ {0}
ASSUME LeaseTicksAssumption == LeaseTicks \in Nat \ {0}
ASSUME BudgetAssumption == Budget \in Nat \ {0}
ASSUME MaxIdAssumption == MaxId \in Nat
ASSUME RequestsAssumption ==
    Requests \in [Handlers -> SUBSET {"add", "delete", "clear", "cancel"}]
ASSUME FaultsAssumption == Faults \subseteq {"write", "reconcile", "restart"}

VARIABLES
    tasks, disk, leases, issued, granted,   \* those of TaskQueue
    memories,   \* MemoryStore: whether each memory is there
    messages,   \* MemoryMessageService
    nextId,     \* next_message_id
    digest,     \* Task.digest: the message the row is about
    evicted,    \* history: the rows whose raw message was evicted
    boot,       \* rows the first dispatch of this process has yet to reconcile
    worker,     \* process_memory_task on each permit
    req         \* what each request does next

queueVars == <<tasks, disk, leases, issued, granted>>
vars == <<queueVars, memories, messages, nextId, digest, evicted, boot, worker, req>>

Queue == INSTANCE TaskQueue WITH Docs <- {}

\* "cleared" memories were deleted and their messages, too.
MemoryState == {"absent", "live", "deleted", "cleared"}

\* source is 0 for a raw message.
Message == [id : Nat, memory : Memories, source : Nat, from : Tasks]

Worker == [at : {"claim", "look", "extract", "commit", "save", "progress",
                 "settle", "report"},
           lease : Queue!Lease, id : Nat,
           outcome : {"none", "ok", "retryable", "permanent"} \cup Queue!Status]

Request ==
    [kind : {"add"}, at : {"embed", "stage", "save", "discard", "publish"},
     memory : Memories, id : Nat, task : Tasks \cup {Queue!NoToken}]
    \cup [kind : {"delete"}, at : {"cancel", "row", "messages"}, memory : Memories]
    \cup [kind : {"clear"}, at : {"lock", "cancel", "messages", "rows"},
          left : SUBSET Memories, memory : Memories \cup {Queue!NoToken}]

Free == [at |-> "free"]

Idle == [at |-> "idle"]

Live(m) == memories[m] = "live"

Init ==
    /\ Queue!Init
    /\ memories = [m \in Memories |-> "absent"]
    /\ messages = {}
    /\ nextId = 1
    /\ digest = [t \in Tasks |-> 0]
    /\ evicted = {}
    /\ boot = {}
    /\ worker = [s \in Slots |-> Free]
    /\ req = [h \in Handlers |-> Idle]

\* A write fails only in the instances with write faults.
Write(ok) == ok \/ "write" \in Faults

\* memory_commit_lock.  A deletion takes it with its first write.
LockFree ==
    /\ \A s \in Slots : worker[s].at \notin {"save", "progress"}
    /\ \A h \in Handlers :
        req[h].at \notin {"save", "discard", "publish", "row", "messages", "rows"}
        /\ ~(req[h].at = "cancel" /\ req[h].kind = "clear")

Of(m) == {x \in messages : x.memory = m}

Raw(m, n) == {x \in Of(m) : x.id = n}

Children(m, n) == {x \in Of(m) : x.source = n}

\* save_messages_with_budget: what the store may hold afterwards.
Saved(x) ==
    LET overflow == Cardinality(Of(x.memory)) + 1 - Budget
        others == {y \in messages : y.memory # x.memory \/ y.id # x.id}
    IN  IF overflow <= 0 THEN {others \cup {x}}
        ELSE {(others \ oldest) \cup {x} : oldest \in kSubset(overflow, Of(x.memory))}

Save(x) ==
    /\ messages' \in Saved(x)
    /\ evicted' = evicted \cup {y.from : y \in {z \in messages \ messages' : z.source = 0}}

-----------------------------------------------------------------------------
(* Requests *)

Go(h, at) == req' = [req EXCEPT ![h].at = at]

Finish(h) == req' = [req EXCEPT ![h] = Idle]

\* Mutant: the server listens before the first dispatch is through.
ServingEarly == TRUE

\* start_document_task_dispatcher dispatches once before the server listens.
Serving == boot = {}

Start(h, kind, r) ==
    /\ kind \in Requests[h]
    /\ Serving
    /\ req[h] = Idle
    /\ req' = [req EXCEPT ![h] = r]

CreateMemory(m) ==
    /\ Serving
    /\ memories[m] = "absent"
    /\ memories' = [memories EXCEPT ![m] = "live"]
    /\ UNCHANGED <<queueVars, messages, nextId, digest, evicted, boot, worker, req>>

\* add_memory_message: the memory is looked up, then the dialogue embedded.
StartAdd(h, m) ==
    /\ Live(m)
    /\ \E t \in Tasks : tasks[t].status = "none"
    /\ Start(h, "add", [kind |-> "add", at |-> "embed", memory |-> m, id |-> 0,
                        task |-> Queue!NoToken])
    /\ UNCHANGED <<queueVars, memories, messages, nextId, digest, evicted, boot, worker>>

\* The message gets its id, or the embedding failed.
Embed(h, ok) ==
    /\ req[h].at = "embed"
    /\ IF ok THEN /\ nextId <= MaxId
                  /\ nextId' = nextId + 1
                  /\ req' = [req EXCEPT ![h].at = "stage", ![h].id = nextId]
             ELSE Finish(h) /\ UNCHANGED nextId
    /\ UNCHANGED <<queueVars, memories, messages, digest, evicted, boot, worker>>

\* The row of the dialogue is staged under memory_commit_lock.
Stage(h, t, ok) ==
    /\ req[h].at = "stage"
    /\ LockFree
    /\ Write(ok)
    /\ Queue!StageMemory(req[h].memory, t, ok)
    /\ IF ok THEN /\ digest' = [digest EXCEPT ![t] = req[h].id]
                  /\ req' = [req EXCEPT ![h].at = "save", ![h].task = t]
             ELSE Finish(h) /\ UNCHANGED digest
    /\ UNCHANGED <<memories, messages, nextId, evicted, boot, worker>>

\* The raw message is saved.
SaveRaw(h, ok) ==
    /\ req[h].at = "save"
    /\ Write(ok)
    /\ IF ok THEN /\ Save([id |-> req[h].id, memory |-> req[h].memory,
                            source |-> 0, from |-> req[h].task])
                  /\ Go(h, "publish")
             ELSE Go(h, "discard") /\ UNCHANGED <<messages, evicted>>
    /\ UNCHANGED <<queueVars, memories, nextId, digest, boot, worker>>

\* The row is discarded with a message that could not be saved.
Discard(h, ok) ==
    /\ req[h].at = "discard"
    /\ Write(ok)
    /\ LET t == req[h].task
       IN  IF tasks[t].status = "staging" THEN Queue!DiscardStaged(t, ok)
                                          ELSE UNCHANGED queueVars
    /\ Finish(h)
    /\ UNCHANGED <<memories, messages, nextId, digest, evicted, boot, worker>>

\* Mutant: a row that cannot be published is discarded.
PublishOrDiscard(h, ok) ==
    /\ req[h].at = "publish"
    /\ Write(ok)
    /\ LET t == req[h].task
       IN  IF tasks[t].status = "staging"
           THEN IF ok THEN Queue!PublishMemory(t, TRUE) ELSE Queue!DiscardStaged(t, TRUE)
           ELSE UNCHANGED queueVars
    /\ Finish(h)
    /\ UNCHANGED <<memories, messages, nextId, digest, evicted, boot, worker>>

\* It is published, or left staged to the dispatcher.
Publish(h, ok) ==
    /\ req[h].at = "publish"
    /\ Write(ok)
    /\ LET t == req[h].task
       IN  IF tasks[t].status = "staging" THEN Queue!PublishMemory(t, ok)
                                          ELSE UNCHANGED queueVars
    /\ Finish(h)
    /\ UNCHANGED <<memories, messages, nextId, digest, evicted, boot, worker>>

\* cancel_task.
CancelTask(t, ok) ==
    /\ \E h \in Handlers : "cancel" \in Requests[h]
    /\ Serving
    /\ Write(ok)
    /\ Queue!RequestCancel(t, ok)
    /\ UNCHANGED <<memories, messages, nextId, digest, evicted, boot, worker, req>>

\* cancel_memory: every live row of the memory.
CancelRows(m, ok) ==
    IF \E t \in Tasks : tasks[t].subject = m /\ Queue!Cancelled(tasks[t]) # tasks[t]
    THEN Queue!CancelSubject(m, ok) ELSE UNCHANGED queueVars

\* delete_memory: the rows are cancelled, the memory and then its messages go.
StartDelete(h, m) ==
    /\ Live(m)
    /\ Start(h, "delete", [kind |-> "delete", at |-> "cancel", memory |-> m])
    /\ UNCHANGED <<queueVars, memories, messages, nextId, digest, evicted, boot, worker>>

DeleteCancel(h, ok) ==
    /\ req[h].at = "cancel" /\ req[h].kind = "delete"
    /\ LockFree
    /\ Write(ok)
    /\ CancelRows(req[h].memory, ok)
    /\ IF ok THEN Go(h, "row") ELSE Finish(h)
    /\ UNCHANGED <<memories, messages, nextId, digest, evicted, boot, worker>>

\* delete_by_id does nothing about a memory that is gone.
DeleteRow(h, ok) ==
    /\ req[h].at = "row"
    /\ Write(ok)
    /\ IF ok THEN /\ memories' = IF Live(req[h].memory)
                                 THEN [memories EXCEPT ![req[h].memory] = "deleted"]
                                 ELSE memories
                  /\ Go(h, "messages")
             ELSE Finish(h) /\ UNCHANGED memories
    /\ UNCHANGED <<queueVars, messages, nextId, digest, evicted, boot, worker>>

DeleteMessages(h, ok) ==
    /\ req[h].at = "messages" /\ req[h].kind = "delete"
    /\ IF Of(req[h].memory) = {} THEN ok ELSE Write(ok)    \* has_index
    /\ IF ok THEN /\ messages' = messages \ Of(req[h].memory)
                  /\ memories' = [memories EXCEPT ![req[h].memory] = "cleared"]
             ELSE UNCHANGED <<memories, messages>>
    /\ Finish(h)
    /\ UNCHANGED <<queueVars, nextId, digest, evicted, boot, worker>>

\* clear_memories: the owned memories are listed before the lock is taken.
StartClear(h) ==
    /\ Start(h, "clear", [kind |-> "clear", at |-> "lock", memory |-> Queue!NoToken,
                          left |-> {m \in Memories : Live(m)}])
    /\ UNCHANGED <<queueVars, memories, messages, nextId, digest, evicted, boot, worker>>

\* The lock is taken once, with the first write.
ClearAt(h, at) == req[h].at = at \/ (req[h].at = "lock" /\ LockFree)

\* Of each memory, the rows are cancelled and then the messages deleted.
ClearCancel(h, m, ok) ==
    /\ ClearAt(h, "cancel") /\ req[h].kind = "clear"
    /\ m \in req[h].left
    /\ Write(ok)
    /\ CancelRows(m, ok)
    /\ IF ok THEN req' = [req EXCEPT ![h].at = "messages", ![h].memory = m,
                                     ![h].left = @ \ {m}]
             ELSE Finish(h)
    /\ UNCHANGED <<memories, messages, nextId, digest, evicted, boot, worker>>

ClearMessages(h, ok) ==
    /\ req[h].at = "messages" /\ req[h].kind = "clear"
    /\ Write(ok)
    /\ IF ok THEN /\ messages' = messages \ Of(req[h].memory)
                  /\ Go(h, IF req[h].left = {} THEN "rows" ELSE "cancel")
             ELSE Finish(h) /\ UNCHANGED messages
    /\ UNCHANGED <<queueVars, memories, nextId, digest, evicted, boot, worker>>

\* clear_all_owned: all memories that are there now, one that was created and
\* used since they were listed included, whose messages stay.
ClearRows(h, ok) ==
    /\ ClearAt(h, "rows") /\ req[h].left = {}
    /\ Write(ok)
    /\ memories' = [m \in Memories |->
                     IF ok /\ Live(m) THEN IF Of(m) = {} THEN "cleared" ELSE "deleted"
                     ELSE memories[m]]
    /\ Finish(h)
    /\ UNCHANGED <<queueVars, messages, nextId, digest, evicted, boot, worker>>

-----------------------------------------------------------------------------
(* The dispatcher *)

\* Mutant: rows are reconciled at the start only.
StagedAtStart(t) == tasks[t].status = "staging" /\ t \in boot

\* list_staged_memory_tasks
Staged(t) == tasks[t].status = "staging"

\* reconcile_staged_memory_tasks, one row of its pass: published exactly if
\* its message and its memory are there.
Reconcile(t, ok) ==
    /\ Staged(t)
    /\ LockFree
    /\ ok \/ "reconcile" \in Faults
    /\ LET m == tasks[t].subject
       IN  IF Raw(m, digest[t]) # {} /\ Live(m) THEN Queue!PublishMemory(t, ok)
                                                ELSE Queue!DiscardStaged(t, ok)
    /\ boot' = boot \ {t}
    /\ UNCHANGED <<memories, messages, nextId, digest, evicted, worker, req>>

\* A row that pending_at lists and no other worker of this process is active on.
Dispatch(s, t) ==
    /\ boot = {}
    /\ worker[s] = Free
    /\ Queue!Claimable(tasks[t])
    /\ \A r \in Slots : worker[r] # Free => worker[r].lease.task # t
    /\ worker' = [worker EXCEPT ![s] =
         [at |-> "claim", id |-> 0, outcome |-> "none",
          lease |-> [task |-> t, token |-> Queue!NoToken, attempt |-> 0]]]
    /\ UNCHANGED <<queueVars, memories, messages, nextId, digest, evicted, boot, req>>

-----------------------------------------------------------------------------
(* process_memory_task *)

Lease(s) == worker[s].lease
Row(s) == tasks[Lease(s).task]

Move(s, at) == worker' = [worker EXCEPT ![s].at = at]

Conclude(s, at, outcome) ==
    worker' = [worker EXCEPT ![s].at = at, ![s].outcome = outcome]

Leave(s) == worker' = [worker EXCEPT ![s] = Free]

\* The row is claimed, or the worker leaves.
Claim(s, ok) ==
    /\ worker[s].at = "claim"
    /\ Write(ok)
    /\ IF Queue!Claimable(Row(s))
       THEN /\ Queue!Claim(Lease(s).task, ok)
            /\ IF ok THEN worker' = [worker EXCEPT ![s].at = "look", ![s].lease =
                                       [task |-> Lease(s).task, token |-> issued + 1,
                                        attempt |-> Row(s).retry + 1]]
                     ELSE Leave(s)
       ELSE Leave(s) /\ UNCHANGED queueVars
    /\ UNCHANGED <<memories, messages, nextId, digest, evicted, boot, req>>

\* The memory is looked up and a first progress reported, for which the worker
\* must still hold its lease.
Look(s) ==
    /\ worker[s].at = "look"
    /\ IF Live(Row(s).subject) /\ Queue!Holds(Lease(s))
       THEN Move(s, "extract") ELSE Conclude(s, "settle", "permanent")
    /\ UNCHANGED <<queueVars, memories, messages, nextId, digest, evicted, boot, req>>

\* The model's answer is parsed and its embedding computed, with a progress
\* report after each, and the child gets its id; or nothing was found; or
\* something failed.
Extract(s, result) ==
    /\ worker[s].at = "extract"
    /\ CASE ~Queue!Holds(Lease(s)) ->
                Conclude(s, "settle", "permanent") /\ UNCHANGED nextId
         [] Queue!Holds(Lease(s)) /\ result = "found" ->
                /\ worker' = [worker EXCEPT ![s].at = "commit", ![s].id = nextId]
                /\ nextId' = nextId + 1
         [] OTHER -> Conclude(s, "settle", result) /\ UNCHANGED nextId
    /\ UNCHANGED <<queueVars, memories, messages, digest, evicted, boot, req>>

\* renew_lease while the model is asked; without a renewal the worker gives up.
Heartbeat(s, ok) ==
    /\ worker[s].at = "extract"
    /\ Write(ok)
    /\ IF Queue!Owns(Lease(s))
       THEN /\ Queue!Renew(Lease(s), ok)
            /\ IF ok THEN UNCHANGED worker ELSE Conclude(s, "settle", "retryable")
       ELSE Conclude(s, "settle", "permanent") /\ UNCHANGED queueVars
    /\ UNCHANGED <<memories, messages, nextId, digest, evicted, boot, req>>

\* Mutant: the memory is not looked up again.
MayCommitDeleted(s) == Queue!Owns(Lease(s)) \/ ~Live(Row(s).subject)

\* What is checked once memory_commit_lock is held.
MayCommit(s) == Queue!Owns(Lease(s)) /\ Live(Row(s).subject)

\* Mutant: children of an earlier attempt are not looked for.
NotYetExtractedUnchecked(s) == TRUE

\* children_exist
NotYetExtracted(s) == Children(Row(s).subject, digest[Lease(s).task]) = {}

Enter(s) ==
    /\ worker[s].at = "commit"
    /\ LockFree
    /\ CASE ~MayCommit(s) -> Conclude(s, "settle", "permanent")
         [] MayCommit(s) /\ NotYetExtracted(s) -> Move(s, "save")
         [] OTHER -> Move(s, "progress")
    /\ UNCHANGED <<queueVars, memories, messages, nextId, digest, evicted, boot, req>>

\* The child is saved.
SaveChild(s, ok) ==
    /\ worker[s].at = "save"
    /\ Write(ok)
    /\ IF ok THEN /\ Save([id |-> worker[s].id, memory |-> Row(s).subject,
                            source |-> digest[Lease(s).task], from |-> Lease(s).task])
                  /\ Move(s, "progress")
             ELSE Conclude(s, "settle", "retryable") /\ UNCHANGED <<messages, evicted>>
    /\ UNCHANGED <<queueVars, memories, nextId, digest, boot, req>>

\* A last progress report, still under the lock: when it cannot be written the
\* attempt is retried although the child is saved.
Progress(s, ok) ==
    /\ worker[s].at = "progress"
    /\ Write(ok)
    /\ Conclude(s, "settle", CASE ~Queue!Holds(Lease(s)) -> "permanent"
                               [] Queue!Holds(Lease(s)) /\ ok -> "ok"
                               [] OTHER -> "retryable")
    /\ UNCHANGED <<queueVars, memories, messages, nextId, digest, evicted, boot, req>>

\* is_cancelled, the kind of the error and can_retry decide what is reported.
Settle(s) ==
    /\ worker[s].at = "settle"
    /\ LET result == worker[s].outcome
       IN  Conclude(s, "report",
              CASE result = "ok" -> "done"
                [] result # "ok" /\ Row(s).cancel -> "cancelled"
                [] result = "retryable" /\ Queue!CanRetry(Row(s)) -> "pending"
                [] OTHER -> "failed")
    /\ UNCHANGED <<queueVars, memories, messages, nextId, digest, evicted, boot, req>>

\* update_claimed
Report(s, ok) ==
    /\ worker[s].at = "report"
    /\ Write(ok)
    /\ Queue!Persist([tasks EXCEPT ![Lease(s).task] =
                        IF Queue!Holds(Lease(s)) THEN Queue!Unleased(@, worker[s].outcome)
                                                 ELSE @], ok)
    /\ leases' = leases \ {Lease(s)}
    /\ Leave(s)
    /\ UNCHANGED <<issued, granted, memories, messages, nextId, digest, evicted, boot, req>>

-----------------------------------------------------------------------------

Tick ==
    /\ Queue!Tick
    /\ UNCHANGED <<memories, messages, nextId, digest, evicted, boot, worker, req>>

\* Mutant: the highest id is handed out again.
FirstIdTaken == Max({x.id : x \in messages} \cup {0})

\* MemoryMessageService::new: one more than the highest id that is stored.
FirstId == Max({x.id : x \in messages} \cup {0}) + 1

\* The process ends; the next one loads the files and dispatches.
Restart ==
    /\ "restart" \in Faults
    /\ Queue!Restart
    /\ nextId' = FirstId
    /\ boot' = {t \in Tasks : tasks'[t].status = "staging"}
    /\ worker' = [s \in Slots |-> Free]
    /\ req' = [h \in Handlers |-> Idle]
    /\ UNCHANGED <<memories, messages, digest, evicted>>

Serve(h) ==
    \/ \E m \in Memories : StartAdd(h, m) \/ StartDelete(h, m)
    \/ StartClear(h)
    \/ \E ok \in BOOLEAN :
        \/ Embed(h, ok) \/ SaveRaw(h, ok) \/ Discard(h, ok) \/ Publish(h, ok)
        \/ DeleteCancel(h, ok) \/ DeleteRow(h, ok) \/ DeleteMessages(h, ok)
        \/ ClearMessages(h, ok) \/ ClearRows(h, ok)
        \/ \E t \in Tasks : Stage(h, t, ok)
        \/ \E m \in Memories : ClearCancel(h, m, ok)

Work(s) ==
    \/ Look(s) \/ Enter(s) \/ Settle(s)
    \/ \E result \in {"found", "ok", "retryable", "permanent"} : Extract(s, result)
    \/ \E ok \in BOOLEAN : Claim(s, ok) \/ SaveChild(s, ok) \/ Progress(s, ok)
                             \/ Report(s, ok)

Next ==
    \/ \E h \in Handlers : Serve(h)
    \/ \E m \in Memories : CreateMemory(m)
    \/ \E t \in Tasks, ok \in BOOLEAN : CancelTask(t, ok) \/ Reconcile(t, ok)
    \/ \E s \in Slots, t \in Tasks : Dispatch(s, t)
    \/ \E s \in Slots : Work(s)
    \/ \E s \in Slots, ok \in BOOLEAN : Heartbeat(s, ok)
    \/ Tick
    \/ Restart

\* Whoever holds memory_commit_lock goes on, workers go on and the model
\* answers, leases run out, and the dispatcher, which wakes up every
\* five seconds, gets the lock and lists a row again and again.  A write may
\* fail any number of times but not for ever.
Fairness ==
    /\ WF_vars(Tick)
    /\ \A h \in Handlers : WF_vars(Serve(h) /\ req[h] # Idle)
    /\ \A s \in Slots : SF_vars(Work(s)) /\ SF_vars(Claim(s, TRUE))
    /\ \A t \in Tasks : SF_vars(Reconcile(t, TRUE))
    /\ \A s \in Slots, t \in Tasks : SF_vars(Dispatch(s, t))

Spec == Init /\ [][Next]_vars /\ Fairness

-----------------------------------------------------------------------------
(* Properties *)

\* Every variable has its type.
TypeOK ==
    /\ Queue!TypeOK
    /\ memories \in [Memories -> MemoryState]
    /\ messages \subseteq Message
    /\ nextId \in Nat \ {0}
    /\ digest \in [Tasks -> Nat]
    /\ evicted \subseteq Tasks
    /\ boot \subseteq Tasks
    /\ worker \in [Slots -> Worker \cup {Free}]
    /\ req \in [Handlers -> Request \cup {Idle}]

\* A dialogue is extracted once: whatever attempt saved its children and lost
\* its lease, its report or the process before the row was settled, no later
\* attempt saves them again.
ExtractedOnce ==
    \A x \in messages : x.source # 0 => Cardinality(Children(x.memory, x.source)) = 1

\* "Keep RAW + staging durable": a saved message of a memory that is there has
\* its row, staged or published, after any crash and failed write.
RawHasTask ==
    \A x \in messages : x.source = 0 /\ Live(x.memory) =>
        tasks[x.from].status \notin {"none", "removed"} /\ digest[x.from] = x.id

\* Children hang below the message of the dialogue they were extracted from,
\* although a restart hands out the ids of lost messages again: below another
\* one only when their own was evicted before it was extracted.
ExtractsOwnDialogue ==
    \A x, y \in messages :
        x.source = 0 /\ y.source = x.id /\ y.memory = x.memory =>
            y.from = x.from \/ y.from \in evicted

\* Once a memory and its messages are deleted, no extraction that was going on
\* puts children back.
ClearedStaysClear ==
    \A m \in Memories : memories[m] = "cleared" => \A x \in Of(m) : x.source = 0

\* A staged row is published or discarded, and a row that is published settles,
\* or is left running with its last lease expired.
Stranded(t) ==
    tasks[t].status = "running" /\ Queue!Expired(tasks[t]) /\ tasks[t].retry = MaxRetries

StagedSettles ==
    \A t \in Tasks : tasks[t].status \in {"staging", "pending"} ~>
        tasks[t].status \in Queue!Terminal \cup {"removed"} \/ Stranded(t)

=============================================================================
