------------------------------ MODULE TaskQueue ------------------------------
(***************************************************************************)
(* The persisted task queue of src/src/api/features.rs: rows that workers  *)
(* claim under a lease, retry, cancel and settle, every change of them     *)
(* written to the task file before it becomes visible, and recovered by    *)
(* TaskQueue::new after a restart.                                         *)
(*                                                                         *)
(* Each operation runs under save_lock and the write lock, so it is one    *)
(* step.  mutate_if_changed restores the rows when the file cannot be      *)
(* written: Persist takes the outcome of the write.  The clock is a count  *)
(* of ticks left on each lease; any number of operations may fall between  *)
(* two ticks.                                                              *)
(*                                                                         *)
(* A worker is the lease it was given: leases holds the leases whose       *)
(* worker has not finished yet, the superseded and expired ones included.  *)
(* issued and granted are history: the lease tokens ever handed out (they  *)
(* are UUIDs in the code: each is new) and how many of them per row.       *)
(*                                                                         *)
(* Left out: progress values, messages and timestamps, so that a progress  *)
(* report (update_claimed with status "running") changes nothing here;     *)
(* kb_id back-filling; push and push_with_priority, which only tests call. *)
(***************************************************************************)
EXTENDS Integers, FiniteSets

CONSTANTS
    Tasks,      \* row ids
    Docs,       \* documents that document_parse rows are for
    Memories,   \* memories that memory rows are for
    MaxRetries, \* Task.max_retries (default_max_retries)
    LeaseTicks  \* ticks a claim or a renewal lasts

ASSUME SubjectsDisjoint == Docs \cap Memories = {}
ASSUME MaxRetriesAssumption == MaxRetries \in Nat \ {0}
ASSUME LeaseTicksAssumption == LeaseTicks \in Nat \ {0}

VARIABLES
    tasks,      \* the rows in memory
    disk,       \* the rows in the task file
    leases,     \* the leases of the workers that are still going
    issued,     \* number of lease tokens issued so far
    granted     \* how often each row was claimed

vars == <<tasks, disk, leases, issued, granted>>

NoToken == 0

Subjects == Docs \cup Memories

Status == {"none", "staging", "pending", "running", "done", "failed",
           "cancelled", "removed"}

Terminal == {"done", "failed", "cancelled"}

Row == [status : Status, subject : Subjects \cup {NoToken}, retry : Nat,
        cancel : BOOLEAN, priority : {0, 1}, token : Nat, ttl : Nat]

Lease == [task : Tasks, token : Nat, attempt : Nat]

NoRow == [status |-> "none", subject |-> NoToken, retry |-> 0,
          cancel |-> FALSE, priority |-> 0, token |-> NoToken, ttl |-> 0]

\* Mutant: priorities start at one.
NewTaskFromOne(s, status, priority) ==
    [NoRow EXCEPT !.status = status, !.subject = s, !.priority = priority + 1]

NewTask(s, status, priority) ==
    [NoRow EXCEPT !.status = status, !.subject = s, !.priority = priority]

\* clear_task_lease, with the status the row is left in.
Unleased(row, status) ==
    [row EXCEPT !.status = status, !.token = NoToken, !.ttl = 0]

\* lease_expires_at <= now
Expired(row) == row.ttl = 0

Init ==
    /\ tasks = [t \in Tasks |-> NoRow]
    /\ disk = [t \in Tasks |-> NoRow]
    /\ leases = {}
    /\ issued = 0
    /\ granted = [t \in Tasks |-> 0]

\* Mutant: a failed write leaves the changed rows in memory.
PersistWithoutRollback(new, ok) ==
    /\ tasks' = new
    /\ disk' = IF ok THEN new ELSE disk

\* mutate_if_changed: the changed rows are written, or the previous restored.
Persist(new, ok) ==
    IF ok THEN tasks' = new /\ disk' = new
          ELSE UNCHANGED <<tasks, disk>>

-----------------------------------------------------------------------------
(* Creating rows *)

\* Mutant: only rows that still wait are reused.
ReusablePending(row, d) ==
    /\ row.subject = d
    /\ row.status = "pending"
    /\ ~row.cancel

\* A row that push_document_unique hands out again.
Reusable(row, d) ==
    /\ row.subject = d
    /\ row.status \in {"pending", "running"}
    /\ ~row.cancel

\* push_document_unique, no live row for the document: a new one.
PushDocument(d, t, priority, ok) ==
    /\ tasks[t].status = "none"
    /\ \A u \in Tasks : ~Reusable(tasks[u], d)
    /\ Persist([tasks EXCEPT ![t] = NewTask(d, "pending", priority)], ok)
    /\ UNCHANGED <<leases, issued, granted>>

\* push_document_unique, live row found: its priority may be raised, which is
\* written to the file only if the row still waits.
ReuseDocument(d, t, priority, ok) ==
    /\ Reusable(tasks[t], d)
    /\ priority > tasks[t].priority
    /\ LET new == [tasks EXCEPT ![t].priority = priority]
       IN  IF tasks[t].status = "pending"
           THEN Persist(new, ok)
           ELSE tasks' = new /\ UNCHANGED disk
    /\ UNCHANGED <<leases, issued, granted>>

\* stage_memory_task: the write-ahead row of a memory extraction.
StageMemory(m, t, ok) ==
    /\ tasks[t].status = "none"
    /\ Persist([tasks EXCEPT ![t] = NewTask(m, "staging", 0)], ok)
    /\ UNCHANGED <<leases, issued, granted>>

\* publish_memory_task: once the raw message is durable.
PublishMemory(t, ok) ==
    /\ tasks[t].status = "staging"
    /\ Persist([tasks EXCEPT ![t].status = "pending"], ok)
    /\ UNCHANGED <<leases, issued, granted>>

\* discard_staged_memory_task: the row is removed (its id is never used again).
DiscardStaged(t, ok) ==
    /\ tasks[t].status = "staging"
    /\ Persist([tasks EXCEPT ![t] = [NoRow EXCEPT !.status = "removed"]], ok)
    /\ UNCHANGED <<leases, issued, granted>>

-----------------------------------------------------------------------------
(* Working on rows *)

\* Mutant: rows whose lease expired are not offered again.
ClaimablePendingOnly(row) ==
    /\ row.status = "pending"
    /\ ~row.cancel
    /\ row.retry < MaxRetries

\* What pending_at lists and claim accepts.
Claimable(row) ==
    /\ row.status = "pending" \/ (row.status = "running" /\ Expired(row))
    /\ ~row.cancel
    /\ row.retry < MaxRetries

\* Mutant: the row keeps the token of its first lease.
ClaimedSameToken(row, token) ==
    [row EXCEPT !.status = "running", !.retry = @ + 1, !.ttl = LeaseTicks,
                !.token = IF @ = NoToken THEN token ELSE @]

Claimed(row, token) ==
    [row EXCEPT !.status = "running", !.retry = @ + 1, !.token = token,
                !.ttl = LeaseTicks]

\* claim: the worker goes on only with a lease that was written.
Claim(t, ok) ==
    /\ Claimable(tasks[t])
    /\ LET new == Claimed(tasks[t], issued + 1)
       IN  /\ Persist([tasks EXCEPT ![t] = new], ok)
           /\ leases' = IF ok
                 THEN leases \cup {[task |-> t, token |-> new.token,
                                    attempt |-> new.retry]}
                 ELSE leases
    /\ issued' = IF ok THEN issued + 1 ELSE issued
    /\ granted' = IF ok THEN [granted EXCEPT ![t] = @ + 1] ELSE granted

\* The check update_claimed makes of the caller's token.
Holds(l) ==
    /\ tasks[l.task].status = "running"
    /\ tasks[l.task].token = l.token
    /\ ~Expired(tasks[l.task])

\* owns_lease, and the check renew_lease makes.
Owns(l) == Holds(l) /\ ~tasks[l.task].cancel

\* renew_lease by the heartbeat, or before the index commit.
Renew(l, ok) ==
    /\ Owns(l)
    /\ Persist([tasks EXCEPT ![l.task].ttl = LeaseTicks], ok)
    /\ UNCHANGED <<leases, issued, granted>>

\* can_retry
CanRetry(row) == ~row.cancel /\ row.retry < MaxRetries

\* Mutant: the token is not compared, any worker of the row may report.
ReportAnyToken(l, status, ok) ==
    /\ status = "cancelled" => tasks[l.task].cancel
    /\ status = "pending" => CanRetry(tasks[l.task])
    /\ LET holds == tasks[l.task].status = "running" /\ ~Expired(tasks[l.task])
       IN  Persist([tasks EXCEPT ![l.task] =
                      IF holds THEN Unleased(@, status) ELSE @], ok)
    /\ leases' = leases \ {l}
    /\ UNCHANGED <<issued, granted>>

\* update_claimed at the end of a worker: done, failed, pending if can_retry
\* said so, cancelled if is_cancelled did.  The worker is finished
\* whether or not its report was accepted and written.
Report(l, status, ok) ==
    /\ status = "cancelled" => tasks[l.task].cancel
    /\ status = "pending" => CanRetry(tasks[l.task])
    /\ Persist([tasks EXCEPT ![l.task] =
                  IF Holds(l) THEN Unleased(@, status) ELSE @], ok)
    /\ leases' = leases \ {l}
    /\ UNCHANGED <<issued, granted>>

\* A worker's future is dropped or unwinds without a report.
Abandon(l) ==
    /\ leases' = leases \ {l}
    /\ UNCHANGED <<tasks, disk, issued, granted>>

\* update by the dispatcher, which rejects a row it listed as pending although
\* its document or file is gone.  The list may be stale: the row may have been
\* claimed, settled or cancelled meanwhile.
Reject(t, ok) ==
    /\ tasks[t].status \notin {"none", "staging", "removed"}
    /\ Persist([tasks EXCEPT ![t] = Unleased(@, "failed")], ok)
    /\ UNCHANGED <<leases, issued, granted>>

\* Mutant: cancelling marks the row and leaves the rest to its worker.
CancelledFlagOnly(row) ==
    IF row.status \in Terminal \cup {"none", "removed"} THEN row
    ELSE [row EXCEPT !.cancel = TRUE]

\* The row a cancellation leaves: settled rows stay as they are.
Cancelled(row) ==
    IF row.status \in Terminal \cup {"none", "removed"} THEN row
    ELSE [Unleased(row, "cancelled") EXCEPT !.cancel = TRUE]

\* request_cancel
RequestCancel(t, ok) ==
    /\ Cancelled(tasks[t]) # tasks[t]
    /\ Persist([tasks EXCEPT ![t] = Cancelled(@)], ok)
    /\ UNCHANGED <<leases, issued, granted>>

\* cancel_document and cancel_memory: every live row of the subject at once.
CancelSubject(s, ok) ==
    /\ \E t \in Tasks : tasks[t].subject = s /\ Cancelled(tasks[t]) # tasks[t]
    /\ Persist([t \in Tasks |-> IF tasks[t].subject = s
                                THEN Cancelled(tasks[t]) ELSE tasks[t]], ok)
    /\ UNCHANGED <<leases, issued, granted>>

-----------------------------------------------------------------------------
(* Time and restarts *)

\* Time passes: every lease that is still live has one tick less.
Tick ==
    /\ \E t \in Tasks : tasks[t].ttl > 0
    /\ LET Aged(rows) == [t \in Tasks |->
                [rows[t] EXCEPT !.ttl = IF @ > 0 THEN @ - 1 ELSE 0]]
       IN  tasks' = Aged(tasks) /\ disk' = Aged(disk)
    /\ UNCHANGED <<leases, issued, granted>>

\* Mutant: every running row waits again after a restart.
RecoveredAlways(row) ==
    IF row.status = "running" THEN Unleased(row, "pending") ELSE row

\* The pass of TaskQueue::new over the rows of the file.
Recovered(row) ==
    CASE row.status = "running" /\ Expired(row) ->
            Unleased(row, IF row.retry >= MaxRetries THEN "failed" ELSE "pending")
      [] row.status = "pending" /\ row.retry >= MaxRetries ->
            [row EXCEPT !.status = "failed"]
      [] OTHER -> row

\* The process ends with its workers and the next one loads the file.  A start
\* whose write of the recovered rows fails is an error and changes nothing.
Restart ==
    /\ tasks' = [t \in Tasks |-> Recovered(disk[t])]
    /\ disk' = tasks'
    /\ leases' = {}
    /\ UNCHANGED <<issued, granted>>

-----------------------------------------------------------------------------

ReportStatuses == {"done", "failed", "pending", "cancelled"}

Create(ok) ==
    \/ \E d \in Docs, t \in Tasks, p \in {0, 1} :
          PushDocument(d, t, p, ok) \/ ReuseDocument(d, t, p, ok)
    \/ \E m \in Memories, t \in Tasks : StageMemory(m, t, ok)
    \/ \E t \in Tasks : PublishMemory(t, ok) \/ DiscardStaged(t, ok)

Work(ok) ==
    \/ \E t \in Tasks : Claim(t, ok) \/ Reject(t, ok)
    \/ \E l \in leases : Renew(l, ok)
    \/ \E l \in leases, s \in ReportStatuses : Report(l, s, ok)

Cancel(ok) ==
    \/ \E t \in Tasks : RequestCancel(t, ok)
    \/ \E s \in Subjects : CancelSubject(s, ok)

Next ==
    \/ \E ok \in BOOLEAN : Create(ok) \/ Work(ok) \/ Cancel(ok)
    \/ \E l \in leases : Abandon(l)
    \/ Tick
    \/ Restart

\* Time passes, the dispatcher claims what pending_at lists, and a worker comes
\* to its end.  A write may fail any number of times but not for ever.
Fairness ==
    /\ WF_vars(Tick)
    /\ WF_vars(\E l \in leases, s \in ReportStatuses : Report(l, s, TRUE))
    /\ \A t \in Tasks : WF_vars(Claim(t, TRUE))

Spec == Init /\ [][Next]_vars /\ Fairness

-----------------------------------------------------------------------------
(* Properties *)

\* Every variable has its type.
TypeOK ==
    /\ tasks \in [Tasks -> Row]
    /\ disk \in [Tasks -> Row]
    /\ leases \subseteq Lease
    /\ issued \in Nat
    /\ granted \in [Tasks -> Nat]

\* "Queue at most one live processing task for a document": two rows of one
\* document are never both pending or running, whatever was cancelled, settled,
\* rejected or recovered in between.
OneLiveRowPerDocument ==
    \A t, u \in Tasks :
        /\ tasks[t].subject \in Docs
        /\ tasks[u].subject = tasks[t].subject
        /\ tasks[t].status \in {"pending", "running"}
        /\ tasks[u].status \in {"pending", "running"}
        => t = u

\* Of all workers still going, at most one per document owns its lease, so the
\* ownership check in the index commit admits one worker, however many stale
\* ones an expiry, a cancellation or a re-queue left behind.
OneOwnerPerDocument ==
    \A k, l \in leases :
        /\ Owns(k) /\ Owns(l)
        /\ tasks[k.task].subject \in Docs
        /\ tasks[k.task].subject = tasks[l.task].subject
        => k = l

\* A row that is not running has no lease a worker could still use.
LeaseOnlyWhileRunning ==
    \A t \in Tasks : tasks[t].status # "running" =>
        tasks[t].token = NoToken /\ tasks[t].ttl = 0

\* A row is claimed at most max_retries times over all restarts and failed
\* writes: the attempt is on disk before the worker has its lease.
ClaimsBounded == \A t \in Tasks : granted[t] <= MaxRetries

\* What a restart would load is what is in memory, save for the raised priority
\* of a running row, which ReuseDocument does not write.
FileCurrent ==
    \A t \in Tasks :
        \/ disk[t] = tasks[t]
        \/ /\ tasks[t].status = "running"
           /\ [disk[t] EXCEPT !.priority = tasks[t].priority] = tasks[t]

\* A cancelled row stays out of the workers' hands: it is never pending,
\* running or done again.
CancelledStaysOut ==
    \A t \in Tasks : tasks[t].cancel => tasks[t].status \in {"cancelled", "failed"}

\* The phase of the abstract lifecycle a row is in.
PhaseOf(row) ==
    CASE row.status \in {"none", "staging", "removed"} -> "absent"
      [] row.status = "pending" -> "waiting"
      [] row.status = "running" -> "working"
      [] OTHER -> "settled"

phaseOfRows == [t \in Tasks |-> PhaseOf(tasks[t])]

Lifecycle == INSTANCE TaskLifecycle
                WITH phase <- phaseOfRows, attempts <- granted, Limit <- MaxRetries

\* The queue implements the lifecycle of TaskLifecycle: through failed writes,
\* expired leases and restarts a task is worked on at most max_retries times,
\* a waiting one has an attempt left, and a settled one stays settled.
ImplementsLifecycle == Lifecycle!Spec

\* A worker that ends without holding its lease leaves no trace: "a stale
\* worker cannot renew or commit through a newer worker's lease".  (In a
\* restart, where all workers end, the row is recovered from the file.)
StaleReportIgnored ==
    [][\A l \in leases : l \notin leases' /\ ~Holds(l) =>
          tasks'[l.task] \in {tasks[l.task], Recovered(disk[l.task])}]_vars

\* A row whose last allowed attempt lost its lease: claim and pending_at skip
\* it, and only a restart, a cancellation or a rejection moves it.
Stranded(row) ==
    row.status = "running" /\ Expired(row) /\ row.retry >= MaxRetries

\* Every pending row settles or is left stranded.
PendingSettles ==
    \A t \in Tasks : tasks[t].status = "pending" ~>
        tasks[t].status \in Terminal \/ Stranded(tasks[t])

=============================================================================
