---------------------------- MODULE TaskExecutor ----------------------------
(***************************************************************************)
(* The in-process task executor of src/src/task_executor.rs: an unbounded  *)
(* tokio channel drained by one management loop, which takes a semaphore   *)
(* permit per received task and spawns run_one in a worker of its own.     *)
(*                                                                         *)
(* A job is one call of submit made by a client; a retry re-submits the    *)
(* same job.  place[j] says how far the job has come, in the submitting    *)
(* thread, in the channel, in the loop or in its worker: every atomic      *)
(* counter update and every critical section of run_one is a step of its   *)
(* own, so the steps of the loop, the workers and the submitting threads   *)
(* interleave as they may on tokio's multi-threaded runtime.               *)
(*                                                                         *)
(* Two jobs may carry the same task id (TaskOf): queue_document_processing *)
(* submits the row push_document_unique returns, which may be one that was *)
(* submitted before.                                                       *)
(*                                                                         *)
(* Left out: progress values, messages, timestamps, priorities (the        *)
(* channel is first in first out) and the length of the backoff.           *)
(***************************************************************************)
EXTENDS Integers, Sequences, FiniteSets

CONSTANTS
    Jobs,           \* the submissions the clients make
    TaskIds,        \* task ids
    TaskOf,         \* the id each job carries
    MaxConcurrent,  \* the argument of TaskExecutor::new
    MaxRetries,     \* ExecTask.max_retries of each job
    CounterModulus, \* 2^64 for the AtomicU64 counters: they wrap
    HandlerMayPanic \* whether the handler may unwind instead of returning

ASSUME JobsAssumption == IsFiniteSet(Jobs)
ASSUME TaskOfAssumption == TaskOf \in [Jobs -> TaskIds]
ASSUME MaxConcurrentAssumption == MaxConcurrent \in Nat
ASSUME MaxRetriesAssumption == MaxRetries \in [Jobs -> Nat]
ASSUME CounterModulusAssumption == CounterModulus \in Nat \ {0}
ASSUME HandlerMayPanicAssumption == HandlerMayPanic \in BOOLEAN

VARIABLES
    tx,         \* TRUE while the executor holds the channel's sender
    loop,       \* the management loop: parked, recv, acquire, exited
    queue,      \* the channel's contents
    permits,    \* free permits of the semaphore
    place,      \* how far each job has come
    outcome,    \* what the job's last finished execution decided
    attempts,   \* ExecTask.attempts
    uncounted,  \* sends whose pending.fetch_add has not happened yet
    pending, running, done, failed,  \* the AtomicU64 counters
    current     \* the state recorded per task id, "absent" if none

vars == <<tx, loop, queue, permits, place, outcome, attempts, uncounted,
          pending, running, done, failed, current>>

counters == <<pending, running, done, failed>>

TaskState == {"pending", "processing", "done", "failed"}

Places == {"new", "cloned", "refused", "queued", "held", "spawned",
           "dequeued", "charged", "handling", "returned", "tallied",
           "uncharged", "backoff", "finished", "dropped", "panicked"}

\* The places in which the job's worker owns a semaphore permit.
WithPermit == {"spawned", "dequeued", "charged", "handling", "returned",
               "tallied", "uncharged"}

\* The places in which the job is counted by running.
Charged == {"charged", "handling", "returned", "tallied"}

PoolSize == IF MaxConcurrent = 0 THEN 1 ELSE MaxConcurrent

\* AtomicU64::fetch_add and fetch_sub wrap.
FetchAdd(n) == (n + 1) % CounterModulus
FetchSub(n) == (n + CounterModulus - 1) % CounterModulus

Init ==
    /\ tx = TRUE
    /\ loop = "parked"
    /\ queue = << >>
    /\ permits = PoolSize
    /\ place = [j \in Jobs |-> "new"]
    /\ outcome = [j \in Jobs |-> "none"]
    /\ attempts = [j \in Jobs |-> 0]
    /\ uncounted = 0
    /\ pending = 0 /\ running = 0 /\ done = 0 /\ failed = 0
    /\ current = [t \in TaskIds |-> "absent"]

Move(j, from, to) ==
    /\ place[j] = from
    /\ place' = [place EXCEPT ![j] = to]

-----------------------------------------------------------------------------
(* submit: clone the sender under the lock, send, then count. *)

\* The sender is cloned out of the mutex, or the executor is shut down.
Submit(j) ==
    /\ Move(j, "new", IF tx THEN "cloned" ELSE "refused")
    /\ UNCHANGED <<tx, loop, queue, permits, outcome, attempts, uncounted,
                   counters, current>>

\* The worker of a retryable failure submits again after its backoff; the
\* error of a closed executor is ignored.
Resubmit(j) ==
    /\ Move(j, "backoff", IF tx THEN "cloned" ELSE "dropped")
    /\ UNCHANGED <<tx, loop, queue, permits, outcome, attempts, uncounted,
                   counters, current>>

\* Mutant: the task is sent again after a send that succeeded.
SendTwice(j) ==
    /\ Move(j, "cloned", "queued")
    /\ queue' = queue \o <<j, j>>
    /\ uncounted' = uncounted + 1
    /\ UNCHANGED <<tx, loop, permits, outcome, attempts, counters, current>>

\* sender.send(task): refused only when the receiver is gone.
Send(j) ==
    /\ IF loop = "exited"
       THEN /\ Move(j, "cloned", IF attempts[j] = 0 THEN "refused" ELSE "dropped")
            /\ UNCHANGED <<queue, uncounted>>
       ELSE /\ Move(j, "cloned", "queued")
            /\ queue' = Append(queue, j)
            /\ uncounted' = uncounted + 1
    /\ UNCHANGED <<tx, loop, permits, outcome, attempts, counters, current>>

\* pending.fetch_add(1), by whichever thread sent; the task may be running,
\* or even finished, by now.
CountPending ==
    /\ uncounted > 0
    /\ uncounted' = uncounted - 1
    /\ pending' = FetchAdd(pending)
    /\ UNCHANGED <<tx, loop, queue, permits, place, outcome, attempts,
                   running, done, failed, current>>

-----------------------------------------------------------------------------
(* spawn, shutdown and the management loop. *)

\* spawn takes the receiver; a second call finds none and changes nothing.
Spawn ==
    /\ loop = "parked"
    /\ loop' = "recv"
    /\ UNCHANGED <<tx, queue, permits, place, outcome, attempts, uncounted,
                   counters, current>>

\* shutdown takes the sender (its argument is the handle spawn returned).
Shutdown ==
    /\ loop # "parked"
    /\ tx
    /\ tx' = FALSE
    /\ UNCHANGED <<loop, queue, permits, place, outcome, attempts, uncounted,
                   counters, current>>

\* rx.recv() yields the next task; the loop then waits for a permit.
Receive ==
    /\ loop = "recv"
    /\ queue # << >>
    /\ loop' = "acquire"
    /\ queue' = Tail(queue)
    /\ Move(Head(queue), "queued", "held")
    /\ UNCHANGED <<tx, permits, outcome, attempts, uncounted, counters,
                   current>>

\* acquire_owned() returns a permit and the worker is spawned with it.
Acquire(j) ==
    /\ loop = "acquire"
    /\ permits > 0
    /\ Move(j, "held", "spawned")
    /\ permits' = permits - 1
    /\ loop' = "recv"
    /\ UNCHANGED <<tx, queue, outcome, attempts, uncounted, counters, current>>

\* rx.recv() yields None: the channel is empty and no sender is left, neither
\* the executor's own nor a clone in a submitting thread.
LoopExit ==
    /\ loop = "recv"
    /\ queue = << >>
    /\ ~tx
    /\ \A j \in Jobs : place[j] # "cloned"
    /\ loop' = "exited"
    /\ UNCHANGED <<tx, queue, permits, place, outcome, attempts, uncounted,
                   counters, current>>

-----------------------------------------------------------------------------
(* run_one. *)

\* Mutant: only the first attempt leaves the backlog counter.
DequeueFirstAttempt(j) ==
    /\ Move(j, "spawned", "dequeued")
    /\ pending' = IF attempts[j] = 0 THEN FetchSub(pending) ELSE pending
    /\ UNCHANGED <<tx, loop, queue, permits, outcome, attempts, uncounted,
                   running, done, failed, current>>

\* pending.fetch_sub(1)
Dequeue(j) ==
    /\ Move(j, "spawned", "dequeued")
    /\ pending' = FetchSub(pending)
    /\ UNCHANGED <<tx, loop, queue, permits, outcome, attempts, uncounted,
                   running, done, failed, current>>

\* running.fetch_add(1)
Charge(j) ==
    /\ Move(j, "dequeued", "charged")
    /\ running' = FetchAdd(running)
    /\ UNCHANGED <<tx, loop, queue, permits, outcome, attempts, uncounted,
                   pending, done, failed, current>>

\* current gets the task as Processing and the handler is called.
StartHandler(j) ==
    /\ Move(j, "charged", "handling")
    /\ current' = [current EXCEPT ![TaskOf[j]] = "processing"]
    /\ UNCHANGED <<tx, loop, queue, permits, outcome, attempts, uncounted,
                   counters>>

\* Ok(chunk_count)
HandlerOk(j) ==
    /\ Move(j, "handling", "returned")
    /\ outcome' = [outcome EXCEPT ![j] = "done"]
    /\ current' = [current EXCEPT ![TaskOf[j]] = "done"]
    /\ UNCHANGED <<tx, loop, queue, permits, attempts, uncounted, counters>>

\* Mutant: the retry limit is not looked at.
HandlerRetryUnlimited(j) ==
    /\ Move(j, "handling", "returned")
    /\ attempts' = [attempts EXCEPT ![j] = @ + 1]
    /\ outcome' = [outcome EXCEPT ![j] = "retry"]
    /\ current' = [current EXCEPT ![TaskOf[j]] = "pending"]
    /\ UNCHANGED <<tx, loop, queue, permits, uncounted, counters>>

\* Err(error) if error.is_retryable() && task.attempts < task.max_retries
HandlerRetry(j) ==
    /\ attempts[j] < MaxRetries[j]
    /\ Move(j, "handling", "returned")
    /\ attempts' = [attempts EXCEPT ![j] = @ + 1]
    /\ outcome' = [outcome EXCEPT ![j] = "retry"]
    /\ current' = [current EXCEPT ![TaskOf[j]] = "pending"]
    /\ UNCHANGED <<tx, loop, queue, permits, uncounted, counters>>

\* Err(error): permanent, or retryable with no retry left.
HandlerFail(j) ==
    /\ Move(j, "handling", "returned")
    /\ outcome' = [outcome EXCEPT ![j] = "failed"]
    /\ current' = [current EXCEPT ![TaskOf[j]] = "failed"]
    /\ UNCHANGED <<tx, loop, queue, permits, attempts, uncounted, counters>>

\* Mutant: the permit of a handler that unwinds is lost.
HandlerPanicKeepsPermit(j) ==
    /\ HandlerMayPanic
    /\ Move(j, "handling", "panicked")
    /\ UNCHANGED <<tx, loop, queue, permits, outcome, attempts, uncounted,
                   counters, current>>

\* The handler unwinds: the worker's future is dropped with its permit, and
\* nothing after the await runs.
HandlerPanic(j) ==
    /\ HandlerMayPanic
    /\ Move(j, "handling", "panicked")
    /\ permits' = permits + 1
    /\ UNCHANGED <<tx, loop, queue, outcome, attempts, uncounted, counters,
                   current>>

\* done.fetch_add(1) or failed.fetch_add(1); a retry counts as neither.
Tally(j) ==
    /\ Move(j, "returned", "tallied")
    /\ done' = IF outcome[j] = "done" THEN FetchAdd(done) ELSE done
    /\ failed' = IF outcome[j] = "failed" THEN FetchAdd(failed) ELSE failed
    /\ UNCHANGED <<tx, loop, queue, permits, outcome, attempts, uncounted,
                   pending, running, current>>

\* running.fetch_sub(1)
Uncharge(j) ==
    /\ Move(j, "tallied", "uncharged")
    /\ running' = FetchSub(running)
    /\ UNCHANGED <<tx, loop, queue, permits, outcome, attempts, uncounted,
                   pending, done, failed, current>>

\* Mutant: a retry never gives its permit back.
ReleasePermitUnlessRetry(j) ==
    /\ Move(j, "uncharged", IF outcome[j] = "retry" THEN "backoff" ELSE "finished")
    /\ permits' = IF outcome[j] = "retry" THEN permits ELSE permits + 1
    /\ UNCHANGED <<tx, loop, queue, outcome, attempts, uncounted, counters,
                   current>>

\* drop(_permit), before the retry's backoff.
ReleasePermit(j) ==
    /\ Move(j, "uncharged", IF outcome[j] = "retry" THEN "backoff" ELSE "finished")
    /\ permits' = permits + 1
    /\ UNCHANGED <<tx, loop, queue, outcome, attempts, uncounted, counters,
                   current>>

HandlerReturns(j) == HandlerOk(j) \/ HandlerRetry(j) \/ HandlerFail(j)

RunOne(j) ==
    \/ Dequeue(j) \/ Charge(j) \/ StartHandler(j)
    \/ HandlerReturns(j) \/ HandlerPanic(j)
    \/ Tally(j) \/ Uncharge(j) \/ ReleasePermit(j)
    \/ Resubmit(j)

ManagementLoop == Receive \/ LoopExit \/ \E j \in Jobs : Acquire(j)

\* A process whose clients have nothing more to submit simply stays up; the
\* runs do not report that as a deadlock.
Next ==
    \/ Spawn \/ Shutdown \/ ManagementLoop \/ CountPending
    \/ \E j \in Jobs : Submit(j) \/ Send(j) \/ RunOne(j)

\* The runtime keeps polling spawned futures and running threads; the startup
\* code calls spawn.  Nothing obliges clients to submit or to shut down, and a
\* handler is taken to return, which HandlerPanic may pre-empt.
Fairness ==
    /\ WF_vars(Spawn)
    /\ WF_vars(ManagementLoop)
    /\ WF_vars(CountPending)
    /\ \A j \in Jobs : WF_vars(Send(j)) /\ WF_vars(RunOne(j))

Spec == Init /\ [][Next]_vars /\ Fairness

-----------------------------------------------------------------------------
(* Properties *)

\* Every variable has its type.
TypeOK ==
    /\ tx \in BOOLEAN
    /\ loop \in {"parked", "recv", "acquire", "exited"}
    /\ queue \in Seq(Jobs)
    /\ permits \in Nat
    /\ place \in [Jobs -> Places]
    /\ outcome \in [Jobs -> {"none", "done", "retry", "failed"}]
    /\ attempts \in [Jobs -> Nat]
    /\ \A j \in Jobs : attempts[j] <= MaxRetries[j]
    /\ uncounted \in Nat
    /\ {pending, running, done, failed} \subseteq 0 .. CounterModulus - 1
    /\ current \in [TaskIds -> TaskState \cup {"absent"}]

At(places) == {j \in Jobs : place[j] \in places}

\* Bounded concurrency: across retries, backoffs and unwinding handlers, the
\* jobs that own a permit and the free permits always add up to the pool, so
\* never more than max_concurrent handlers run.
PermitsConserved == permits + Cardinality(At(WithPermit)) = PoolSize

\* No task is lost or run twice between submit and run_one: a job is queued
\* exactly while it is in the channel, once; the loop waits for a permit exactly
\* while it holds one task; and it exits only when nothing is left in the
\* channel or in its hands and no submitting thread still holds a sender.
DeliveredOnce ==
    /\ \A j \in Jobs :
        (place[j] = "queued") <=> \E i \in DOMAIN queue : queue[i] = j
    /\ \A i, k \in DOMAIN queue : queue[i] = queue[k] => i = k
    /\ loop = "acquire" <=> At({"held"}) # {}
    /\ \A j, k \in At({"held"}) : j = k
    /\ loop = "exited" => queue = << >> /\ At({"cloned", "queued", "held"}) = {}

\* What the status shows is what goes on.  pending is the backlog less the sends
\* not yet counted, modulo the counter's width: the worker may subtract before
\* the submitter adds (the counter then reads 2^64 - 1), but the sum is never
\* off for good.  running counts the executions in progress and those whose
\* handler unwound, which nothing ever subtracts; a task shown as processing
\* has one of these, also when two submissions of its id run side by side.
StatusAgrees ==
    /\ pending = (Cardinality(At({"queued", "held", "spawned"})) - uncounted)
                  % CounterModulus
    /\ running = Cardinality(At(Charged \cup {"panicked"})) % CounterModulus
    /\ \A t \in TaskIds : current[t] = "processing" =>
        \E j \in Jobs : TaskOf[j] = t /\ place[j] \in {"handling", "panicked"}

\* Every task that enters the channel is settled: it ends done or failed after
\* at most max_retries more rounds, unless a shutdown drops its retry or its
\* handler unwinds.
QueuedTaskSettles ==
    \A j \in Jobs :
        place[j] = "queued" ~> place[j] \in {"finished", "dropped", "panicked"}

\* shutdown's wait for the loop ends.
ShutdownCompletes == ~tx ~> loop = "exited"

=============================================================================
