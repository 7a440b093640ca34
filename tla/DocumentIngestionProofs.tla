---------------------- MODULE DocumentIngestionProofs ----------------------
(***************************************************************************)
(* DocumentIngestion for any rows, documents, permits and requests: its    *)
(* types; that it uses the queue as TaskQueue has it used; that no worker  *)
(* puts older chunks over newer ones; and that a row becomes done only     *)
(* over its own chunks.                                                    *)
(***************************************************************************)
EXTENDS DocumentIngestion, TLAPS

Live(row) == row.status \in {"pending", "running"}

\* The places in which a worker has a lease that it has not reported on.
Leased == {"begin", "parse", "renew", "commit", "install", "settle", "retry",
           "report"}

\* Those in which it has put no chunks into the index yet.
Uncommitted == {"begin", "parse", "renew", "commit", "install"}

\* The row is still under this lease, expired or not.
Current(l) == tasks[l.task].status = "running" /\ tasks[l.task].token = l.token

\* The rows: the file is what is in memory, and a document has one live row.
RowsSound ==
    /\ disk = tasks
    /\ \A t \in Tasks :
        /\ tasks[t].token <= issued
        /\ tasks[t].status # "none" => tasks[t].subject \in Docs
        /\ tasks[t].cancel => tasks[t].status \in {"cancelled", "failed"}
    /\ \A t, u \in Tasks :
        Live(tasks[t]) /\ Live(tasks[u]) /\ tasks[t].subject = tasks[u].subject => t = u

\* The leases of the workers: each has its own, and as long as the row is under
\* it the attempts counted are those the worker knows of.
LeasesSound ==
    \A s \in Slots : worker[s].at \in Leased =>
        /\ Lease(s) \in leases
        /\ Lease(s).token \in 1 .. issued
        /\ Row(s).status # "none"
        /\ Lease(s).attempt <= Row(s).retry
        /\ Row(s).token = Lease(s).token => Row(s).retry = Lease(s).attempt
        /\ \A r \in Slots :
            worker[r].at \in Leased /\ Lease(r).token = Lease(s).token => r = s

\* What Settle and Retry read of the row is still true enough when it is reported.
ReportsSound ==
    \A s \in Slots : worker[s].at = "report" =>
        /\ worker[s].outcome \in Queue!ReportStatuses
        /\ worker[s].outcome = "pending" => Lease(s).attempt < MaxRetries
        /\ worker[s].outcome = "cancelled" => Row(s).cancel

\* The chunks of a document are never newer than the claim its row is under.
ChunksSound ==
    \A d \in Docs :
        /\ installed[d] <= issued
        /\ \A t \in Tasks :
            tasks[t].status = "running" /\ tasks[t].subject = d =>
                installed[d] <= tasks[t].token

\* One worker commits at a time; nobody who may commit after it is older, and
\* nothing that it replaces is newer.
CommitsSound ==
    \A s \in Slots : worker[s].at = "install" =>
        /\ \A r \in Slots : worker[r].at = "install" => r = s
        /\ Doc(s) \in Docs => installed[Doc(s)] <= Lease(s).token
        /\ \A t \in Tasks :
            tasks[t].status = "running" /\ tasks[t].subject = Doc(s) =>
                Lease(s).token <= tasks[t].token

\* The worker has committed, and has not reported it yet.
Succeeded(s) ==
    \/ worker[s].at = "settle" /\ worker[s].outcome = "ok"
    \/ worker[s].at = "report" /\ worker[s].outcome = "done"

\* As long as its row is under its lease, its chunks are the last ones of the
\* document, and nobody else commits the document.
SuccessSound ==
    \A s \in Slots : Succeeded(s) /\ Current(Lease(s)) =>
        /\ installed[Doc(s)] = Lease(s).token
        /\ \A r \in Slots : worker[r].at = "install" => Doc(r) # Doc(s)

\* No chunks are from the claim of a worker that has still to install its own.
Unspent ==
    \A s \in Slots : worker[s].at \in Uncommitted =>
        \A d \in Docs : installed[d] # Lease(s).token

\* A request that has queued a row and goes on with it.
HasQueued(r) ==
    r # Idle /\ (r.at = "revoke" \/ (r.at = "status" /\ r.kind # "reset"))

\* A request that has queued a row knows it.
RequestsSound == \A h \in Handlers : HasQueued(req[h]) => req[h].task \in Tasks

Sound == TypeOK /\ RowsSound /\ LeasesSound /\ ReportsSound /\ RequestsSound

Ordered == ChunksSound /\ CommitsSound /\ SuccessSound /\ Unspent

USE MaxRetriesAssumption, LeaseTicksAssumption, RequestsAssumption,
    FaultsAssumption

-----------------------------------------------------------------------------
(* Rows *)

\* What a step may do to a row.
RowMove(t) ==
    LET r == tasks[t]
        n == tasks'[t]
    IN  /\ r.status # "none" =>
            n.status # "none" /\ n.subject = r.subject /\ r.retry <= n.retry
        /\ r.cancel => n.cancel
        /\ n.cancel => n.status \in {"cancelled", "failed"}
        /\ n.status # "none" => n.subject \in Docs
        /\ \/ n.token = Queue!NoToken
           \/ n.token = r.token /\ n.retry = r.retry
           \/ n.token = issued + 1 /\ issued' = issued + 1
        /\ n.status = "running" =>
            \/ n.token = issued + 1 /\ issued' = issued + 1
            \/ r.status = "running" /\ n.token = r.token
        /\ Live(n) =>
            \/ Live(r)
            \/ /\ r.status = "none"
               /\ \A u \in Tasks \ {t} :
                    /\ tasks'[u] = tasks[u]
                    /\ Live(tasks[u]) => tasks[u].subject # n.subject
        /\ n.status = "done" =>
            \/ r.status = "done"
            \/ \E s \in Slots : /\ worker[s].at = "report"
                                /\ worker[s].outcome = "done"
                                /\ Lease(s).task = t /\ Current(Lease(s))

RowMoves ==
    /\ Queue!TypeOK'
    /\ disk' = tasks'
    /\ issued' \in {issued, issued + 1}
    /\ \A t \in Tasks : RowMove(t)

\* A row that stays as it is.
LEMMA SameRow ==
    ASSUME Sound, NEW t \in Tasks, tasks'[t] = tasks[t] PROVE RowMove(t)
<1>1. /\ tasks[t] \in Queue!Row
      /\ tasks[t].cancel => tasks[t].status \in {"cancelled", "failed"}
      /\ tasks[t].status # "none" => tasks[t].subject \in Docs
  BY DEF Sound, TypeOK, Queue!TypeOK, RowsSound
<1>2. tasks[t].retry \in Nat BY <1>1 DEF Queue!Row
<1> QED BY <1>1, <1>2 DEF RowMove

LEMMA SameRows ==
    ASSUME Sound, UNCHANGED <<tasks, disk, issued, granted>>, leases' \subseteq leases
    PROVE  RowMoves
<1>1. Queue!TypeOK'
  BY DEF Sound, TypeOK, Queue!TypeOK
<1>2. disk' = tasks' /\ issued' = issued BY DEF Sound, RowsSound
<1>3. \A t \in Tasks : RowMove(t) BY SameRow
<1> QED BY <1>1, <1>2, <1>3 DEF RowMoves

\* One row is rewritten, if the write succeeds.
LEMMA OneRow ==
    ASSUME Sound, NEW t \in Tasks, NEW r \in Queue!Row, NEW ok \in BOOLEAN,
           Queue!Persist([tasks EXCEPT ![t] = r], ok),
           leases' \subseteq Queue!Lease, granted' \in [Tasks -> Nat],
           issued' \in {issued, issued + 1},
           tasks' = [tasks EXCEPT ![t] = r] => RowMove(t)
    PROVE  RowMoves
<1>1. /\ tasks \in [Tasks -> Queue!Row] /\ disk = tasks /\ issued \in Nat
  BY DEF Sound, TypeOK, Queue!TypeOK, RowsSound
<1>2. /\ tasks' \in [Tasks -> Queue!Row] /\ disk' = tasks'
      /\ tasks' = tasks \/ tasks' = [tasks EXCEPT ![t] = r]
  BY <1>1 DEF Queue!Persist
<1>3. Queue!TypeOK' BY <1>1, <1>2 DEF Queue!TypeOK
<1>4. \A u \in Tasks : RowMove(u)
  <2> SUFFICES ASSUME NEW u \in Tasks PROVE RowMove(u)
    OBVIOUS
  <2>1. CASE tasks'[u] = tasks[u] BY <2>1, SameRow
  <2>2. CASE u = t /\ tasks' = [tasks EXCEPT ![t] = r] BY <2>2
  <2> QED BY <1>1, <1>2, <2>1, <2>2
<1> QED BY <1>2, <1>3, <1>4 DEF RowMoves

\* What rewriting a row gives.
LEMMA UnleasedRow ==
    ASSUME NEW row \in Queue!Row, NEW status \in Queue!Status
    PROVE  LET n == Queue!Unleased(row, status)
           IN  /\ n \in Queue!Row
               /\ n.status = status /\ n.token = Queue!NoToken
               /\ n.subject = row.subject /\ n.retry = row.retry
               /\ n.cancel = row.cancel
BY DEF Queue!Unleased, Queue!Row, Queue!NoToken

LEMMA CancelledRow ==
    ASSUME NEW row \in Queue!Row
    PROVE  LET n == Queue!Cancelled(row)
           IN  /\ n \in Queue!Row
               /\ \/ n = row
                  \/ /\ row.status \notin {"none", "done"}
                     /\ n.status = "cancelled" /\ n.cancel
                     /\ n.token = Queue!NoToken
                     /\ n.subject = row.subject /\ n.retry = row.retry
<1> DEFINE n == Queue!Unleased(row, "cancelled")
<1>1. /\ n \in Queue!Row
      /\ n.status = "cancelled" /\ n.token = Queue!NoToken
      /\ n.subject = row.subject /\ n.retry = row.retry
  BY UnleasedRow DEF Queue!Status
<1> HIDE DEF n
<1>2. LET c == [n EXCEPT !.cancel = TRUE]
      IN  /\ c \in Queue!Row
          /\ c.status = "cancelled" /\ c.cancel /\ c.token = Queue!NoToken
          /\ c.subject = row.subject /\ c.retry = row.retry
  BY <1>1 DEF Queue!Row
<1>3. CASE row.status \in Queue!Terminal \cup {"none", "removed"}
  BY <1>3 DEF Queue!Cancelled
<1>4. CASE row.status \notin Queue!Terminal \cup {"none", "removed"}
  <2>1. Queue!Cancelled(row) = [n EXCEPT !.cancel = TRUE]
    BY <1>4 DEF Queue!Cancelled, n
  <2>2. row.status \notin {"none", "done"} BY <1>4 DEF Queue!Terminal
  <2> QED BY <1>2, <2>1, <2>2
<1> QED BY <1>3, <1>4

LEMMA RecoveredRow ==
    ASSUME NEW row \in Queue!Row
    PROVE  LET n == Queue!Recovered(row)
           IN  /\ n \in Queue!Row
               /\ \/ n = row
                  \/ /\ row.status \in {"running", "pending"}
                     /\ n.status \in {"pending", "failed"}
                     /\ n.token \in {row.token, Queue!NoToken}
                     /\ n.subject = row.subject /\ n.retry = row.retry
                     /\ n.cancel = row.cancel
<1>1. \A status \in {"failed", "pending"} :
        LET n == Queue!Unleased(row, status)
        IN  /\ n \in Queue!Row /\ n.status = status /\ n.token = Queue!NoToken
            /\ n.subject = row.subject /\ n.retry = row.retry
            /\ n.cancel = row.cancel
  BY UnleasedRow DEF Queue!Status
<1>2. LET n == [row EXCEPT !.status = "failed"]
      IN  /\ n \in Queue!Row /\ n.status = "failed" /\ n.token = row.token
          /\ n.subject = row.subject /\ n.retry = row.retry
          /\ n.cancel = row.cancel
  BY DEF Queue!Row, Queue!Status
<1>3. CASE row.status = "running" /\ Queue!Expired(row)
  <2>1. \/ Queue!Recovered(row) = Queue!Unleased(row, "failed")
        \/ Queue!Recovered(row) = Queue!Unleased(row, "pending")
    BY <1>3 DEF Queue!Recovered
  <2> QED BY <1>1, <1>3, <2>1
<1>4. CASE row.status = "pending" /\ row.retry >= MaxRetries
  <2>1. Queue!Recovered(row) = [row EXCEPT !.status = "failed"]
    BY <1>4 DEF Queue!Recovered
  <2> QED BY <1>2, <1>4, <2>1
<1>5. CASE /\ ~(row.status = "running" /\ Queue!Expired(row))
           /\ ~(row.status = "pending" /\ row.retry >= MaxRetries)
  <2>1. Queue!Recovered(row) = row BY <1>5 DEF Queue!Recovered
  <2> QED BY <2>1
<1> QED BY <1>3, <1>4, <1>5

-----------------------------------------------------------------------------
(* The operations of the queue *)

\* What is known of a row.
LEMMA RowFacts ==
    ASSUME Sound, NEW t \in Tasks
    PROVE  /\ tasks[t] \in Queue!Row
           /\ tasks[t].status \in Queue!Status
           /\ tasks[t].retry \in Nat /\ tasks[t].token \in Nat
           /\ tasks[t].cancel \in BOOLEAN
           /\ tasks[t].token <= issued
           /\ tasks[t].status # "none" => tasks[t].subject \in Docs
           /\ tasks[t].cancel => tasks[t].status \in {"cancelled", "failed"}
           /\ tasks \in [Tasks -> Queue!Row] /\ disk = tasks
           /\ issued \in Nat /\ granted \in [Tasks -> Nat]
           /\ leases \subseteq Queue!Lease
<1>1. tasks[t] \in Queue!Row BY DEF Sound, TypeOK, Queue!TypeOK
<1>2. /\ tasks[t].status \in Queue!Status
      /\ tasks[t].retry \in Nat /\ tasks[t].token \in Nat
      /\ tasks[t].cancel \in BOOLEAN
  BY <1>1 DEF Queue!Row
<1> QED BY <1>1, <1>2 DEF Sound, TypeOK, Queue!TypeOK, RowsSound

\* A live row is not cancelled, so a document without a reusable row has none.
LEMMA PushMoves ==
    ASSUME Sound, NEW d \in Docs, NEW t \in Tasks, NEW ok \in BOOLEAN,
           Queue!PushDocument(d, t, 0, ok)
    PROVE  RowMoves
<1> DEFINE n == Queue!NewTask(d, "pending", 0)
<1>1. /\ n \in Queue!Row
      /\ n.status = "pending" /\ n.subject = d /\ ~n.cancel
      /\ n.token = Queue!NoToken /\ n.retry = 0
  BY DEF Queue!NewTask, Queue!NoRow, Queue!Row, Queue!Status, Queue!Subjects,
         Queue!NoToken
<1>2. /\ tasks[t].status = "none"
      /\ \A u \in Tasks : ~Queue!Reusable(tasks[u], d)
      /\ Queue!Persist([tasks EXCEPT ![t] = n], ok)
      /\ UNCHANGED <<leases, issued, granted>>
  BY DEF Queue!PushDocument
<1> HIDE DEF n
<1>3. \A u \in Tasks : Live(tasks[u]) => tasks[u].subject # d
  BY <1>2, RowFacts DEF Live, Queue!Reusable
<1>4. ASSUME tasks' = [tasks EXCEPT ![t] = n] PROVE RowMove(t)
  <2>1. tasks'[t] = n /\ \A u \in Tasks \ {t} : tasks'[u] = tasks[u]
    BY <1>4, RowFacts
  <2> QED BY <1>1, <1>2, <1>3, <2>1, RowFacts DEF RowMove, Live
<1> QED BY <1>1, <1>2, <1>4, RowFacts, OneRow

LEMMA ClaimMoves ==
    ASSUME Sound, NEW t \in Tasks, NEW ok \in BOOLEAN, Queue!Claim(t, ok)
    PROVE  /\ RowMoves
           /\ ~ok => UNCHANGED queueVars
           /\ ok => /\ tasks'[t].token = issued + 1
                    /\ tasks'[t].retry = tasks[t].retry + 1
                    /\ tasks'[t].status = "running"
                    /\ issued' = issued + 1
                    /\ leases' = leases \cup {[task |-> t, token |-> issued + 1,
                                               attempt |-> tasks[t].retry + 1]}
<1> DEFINE n == Queue!Claimed(tasks[t], issued + 1)
<1>1. /\ n \in Queue!Row
      /\ n.status = "running" /\ n.token = issued + 1
      /\ n.retry = tasks[t].retry + 1
      /\ n.subject = tasks[t].subject /\ n.cancel = tasks[t].cancel
  <2>1. ASSUME NEW row \in Queue!Row, NEW k \in Nat
        PROVE  LET r == Queue!Claimed(row, k)
               IN  /\ r \in Queue!Row
                   /\ r.status = "running" /\ r.token = k
                   /\ r.retry = row.retry + 1
                   /\ r.subject = row.subject /\ r.cancel = row.cancel
    <3>1. /\ row.retry + 1 \in Nat /\ LeaseTicks \in Nat
          /\ "running" \in Queue!Status
      BY DEF Queue!Row, Queue!Status
    <3> QED BY <3>1 DEF Queue!Claimed, Queue!Row
  <2>2. issued + 1 \in Nat /\ tasks[t] \in Queue!Row BY RowFacts
  <2> QED BY <2>1, <2>2
<1>2. /\ tasks[t].status \in {"pending", "running"} /\ ~tasks[t].cancel
      /\ Queue!Persist([tasks EXCEPT ![t] = n], ok)
      /\ leases' = IF ok THEN leases \cup {[task |-> t, token |-> n.token,
                                            attempt |-> n.retry]}
                         ELSE leases
      /\ issued' = IF ok THEN issued + 1 ELSE issued
      /\ granted' = IF ok THEN [granted EXCEPT ![t] = @ + 1] ELSE granted
  BY DEF Queue!Claim, Queue!Claimable
<1> HIDE DEF n
<1>3. [task |-> t, token |-> n.token, attempt |-> n.retry] \in Queue!Lease
  BY <1>1, RowFacts DEF Queue!Lease
<1>4. leases' \subseteq Queue!Lease BY <1>2, <1>3, RowFacts
<1>5. granted' \in [Tasks -> Nat] BY <1>2, RowFacts
<1>6. ok => tasks' = [tasks EXCEPT ![t] = n] BY <1>2 DEF Queue!Persist
<1>7. CASE ~ok
  <2>1. UNCHANGED queueVars
    BY <1>2, <1>7 DEF Queue!Persist, queueVars
  <2> QED BY <1>7, <2>1, SameRows DEF queueVars
<1>8. CASE ok
  <2>1. tasks'[t] = n BY <1>6, <1>8, RowFacts
  <2>2. RowMove(t)
    BY <1>1, <1>2, <1>8, <2>1, RowFacts DEF RowMove, Live
  <2>3. RowMoves
    BY <1>1, <1>2, <1>4, <1>5, <2>2, RowFacts, OneRow
  <2> QED BY <1>1, <1>2, <1>8, <2>1, <2>3
<1> QED BY <1>7, <1>8

LEMMA RenewMoves ==
    ASSUME Sound, NEW l, l.task \in Tasks, NEW ok \in BOOLEAN, Queue!Renew(l, ok)
    PROVE  RowMoves /\ UNCHANGED <<leases, issued>>
<1> DEFINE t == l.task
           n == [tasks[t] EXCEPT !.ttl = LeaseTicks]
<1>1. /\ n \in Queue!Row
      /\ n.status = tasks[t].status /\ n.token = tasks[t].token
      /\ n.retry = tasks[t].retry
      /\ n.subject = tasks[t].subject /\ n.cancel = tasks[t].cancel
  BY RowFacts DEF Queue!Row
<1>2. /\ Queue!Persist([tasks EXCEPT ![t] = n], ok)
      /\ UNCHANGED <<leases, issued, granted>>
      /\ t \in Tasks
  BY DEF Queue!Renew
<1> HIDE DEF n, t
<1>3. ASSUME tasks' = [tasks EXCEPT ![t] = n] PROVE RowMove(t)
  <2>1. tasks'[t] = n BY <1>2, <1>3, RowFacts
  <2> QED BY <1>1, <1>2, <2>1, RowFacts DEF RowMove, Live
<1>4. leases' \subseteq Queue!Lease /\ granted' \in [Tasks -> Nat]
  BY <1>2, RowFacts
<1>5. RowMoves BY <1>1, <1>2, <1>3, <1>4, RowFacts, OneRow
<1> QED BY <1>2, <1>5

\* A row loses its lease to a report or to a rejection.
LEMMA UnleasedMoves ==
    ASSUME Sound, NEW t \in Tasks, tasks[t].status # "none",
           NEW status \in {"done", "failed", "pending", "cancelled"},
           NEW ok \in BOOLEAN,
           Queue!Persist([tasks EXCEPT ![t] = Queue!Unleased(@, status)], ok),
           leases' \subseteq leases, UNCHANGED <<issued, granted>>,
           status \in {"done", "pending"} => tasks[t].status = "running",
           status = "done" => \E s \in Slots : /\ worker[s].at = "report"
                                               /\ worker[s].outcome = "done"
                                               /\ Lease(s).task = t
                                               /\ Current(Lease(s))
    PROVE  RowMoves
<1> DEFINE n == Queue!Unleased(tasks[t], status)
<1>1. /\ n \in Queue!Row
      /\ n.status = status /\ n.token = Queue!NoToken
      /\ n.subject = tasks[t].subject /\ n.retry = tasks[t].retry
      /\ n.cancel = tasks[t].cancel
  BY UnleasedRow, RowFacts DEF Queue!Status
<1>2. Queue!Persist([tasks EXCEPT ![t] = n], ok)
  OBVIOUS
<1> HIDE DEF n
<1>3. ASSUME tasks' = [tasks EXCEPT ![t] = n] PROVE RowMove(t)
  <2>1. tasks'[t] = n BY <1>3, RowFacts
  <2>2. tasks[t].cancel => status \in {"failed", "cancelled"}
    BY RowFacts
  <2> QED BY <1>1, <2>1, <2>2, RowFacts DEF RowMove, Live
<1>4. /\ leases' \subseteq Queue!Lease /\ granted' \in [Tasks -> Nat]
      /\ issued' \in {issued, issued + 1}
  BY RowFacts
<1> QED BY <1>1, <1>2, <1>3, <1>4, OneRow

LEMMA RejectMoves ==
    ASSUME Sound, NEW t \in Tasks, NEW ok \in BOOLEAN, Queue!Reject(t, ok)
    PROVE  RowMoves /\ UNCHANGED <<leases, issued>>
<1>1. /\ tasks[t].status # "none"
      /\ Queue!Persist([tasks EXCEPT ![t] = Queue!Unleased(@, "failed")], ok)
      /\ UNCHANGED <<leases, issued, granted>>
  BY DEF Queue!Reject
<1> QED BY <1>1, UnleasedMoves

\* A row that a cancellation rewrites.
LEMMA CancelledRowMoves ==
    ASSUME Sound, NEW t \in Tasks, tasks'[t] = Queue!Cancelled(tasks[t])
    PROVE  RowMove(t)
<1> DEFINE n == Queue!Cancelled(tasks[t])
<1>1. \/ n = tasks[t]
      \/ /\ tasks[t].status \notin {"none", "done"}
         /\ n.status = "cancelled" /\ n.cancel /\ n.token = Queue!NoToken
         /\ n.subject = tasks[t].subject /\ n.retry = tasks[t].retry
  BY CancelledRow, RowFacts
<1>2. tasks'[t] = n
  OBVIOUS
<1> HIDE DEF n
<1>3. CASE n = tasks[t] BY <1>2, <1>3, SameRow
<1>4. CASE n # tasks[t] BY <1>1, <1>2, <1>4, RowFacts DEF RowMove, Live
<1> QED BY <1>3, <1>4

LEMMA RequestCancelMoves ==
    ASSUME Sound, NEW t \in Tasks, NEW ok \in BOOLEAN, Queue!RequestCancel(t, ok)
    PROVE  RowMoves /\ UNCHANGED <<leases, issued>>
<1> DEFINE n == Queue!Cancelled(tasks[t])
<1>1. /\ Queue!Persist([tasks EXCEPT ![t] = n], ok)
      /\ UNCHANGED <<leases, issued, granted>>
  BY DEF Queue!RequestCancel
<1>2. n \in Queue!Row BY CancelledRow, RowFacts
<1>3. ASSUME tasks' = [tasks EXCEPT ![t] = n] PROVE RowMove(t)
  BY <1>3, CancelledRowMoves, RowFacts
<1> HIDE DEF n
<1>4. leases' \subseteq Queue!Lease /\ granted' \in [Tasks -> Nat]
  BY <1>1, RowFacts
<1>5. RowMoves BY <1>1, <1>2, <1>3, <1>4, OneRow
<1> QED BY <1>1, <1>5

\* Rows that are rewritten together.
LEMMA AllRows ==
    ASSUME Sound, tasks' \in [Tasks -> Queue!Row], disk' = tasks',
           leases' \subseteq leases, UNCHANGED <<issued, granted>>,
           \A t \in Tasks : RowMove(t)
    PROVE  RowMoves
<1>1. Queue!TypeOK'
  BY DEF Queue!TypeOK, Sound, TypeOK
<1> QED BY <1>1 DEF RowMoves

LEMMA CancelSubjectMoves ==
    ASSUME Sound, NEW d, NEW ok \in BOOLEAN, Queue!CancelSubject(d, ok)
    PROVE  RowMoves /\ UNCHANGED <<leases, issued>>
<1> DEFINE new == [t \in Tasks |-> IF tasks[t].subject = d
                                   THEN Queue!Cancelled(tasks[t]) ELSE tasks[t]]
<1>1. Queue!Persist(new, ok) /\ UNCHANGED <<leases, issued, granted>>
  BY DEF Queue!CancelSubject
<1>2. CASE ~ok
  <2>1. UNCHANGED <<tasks, disk, issued, granted>> /\ leases' \subseteq leases
    BY <1>1, <1>2 DEF Queue!Persist
  <2> QED BY <1>1, <2>1, SameRows
<1>3. CASE ok
  <2>1. tasks' = new /\ disk' = new BY <1>1, <1>3 DEF Queue!Persist
  <2>2. \A t \in Tasks : tasks'[t] \in {tasks[t], Queue!Cancelled(tasks[t])}
    BY <2>1
  <2>3. \A t \in Tasks : RowMove(t) BY <2>2, SameRow, CancelledRowMoves
  <2>4. \A t \in Tasks : new[t] \in Queue!Row
    BY CancelledRow, RowFacts
  <2>5. tasks' \in [Tasks -> Queue!Row] BY <2>1, <2>4
  <2> QED BY <1>1, <2>1, <2>3, <2>5, AllRows
<1> QED BY <1>2, <1>3

LEMMA TickMoves ==
    ASSUME Sound, Queue!Tick PROVE RowMoves /\ UNCHANGED <<leases, issued>>
<1> DEFINE Aged(row) == [row EXCEPT !.ttl = IF @ > 0 THEN @ - 1 ELSE 0]
<1>1. /\ tasks' = [t \in Tasks |-> Aged(tasks[t])]
      /\ disk' = [t \in Tasks |-> Aged(disk[t])]
      /\ UNCHANGED <<leases, issued, granted>>
  BY DEF Queue!Tick
<1>2. disk = tasks BY DEF Sound, RowsSound
<1>3. \A row \in Queue!Row :
        /\ Aged(row) \in Queue!Row
        /\ Aged(row).status = row.status /\ Aged(row).token = row.token
        /\ Aged(row).subject = row.subject /\ Aged(row).retry = row.retry
        /\ Aged(row).cancel = row.cancel
  BY DEF Queue!Row
<1>4. \A t \in Tasks : tasks'[t] = Aged(tasks[t]) BY <1>1
<1> HIDE DEF Aged
<1>5. tasks' \in [Tasks -> Queue!Row] BY <1>1, <1>3, RowFacts
<1>6. \A t \in Tasks : RowMove(t)
  <2> SUFFICES ASSUME NEW t \in Tasks PROVE RowMove(t)
    OBVIOUS
  <2>1. /\ tasks'[t].status = tasks[t].status /\ tasks'[t].token = tasks[t].token
        /\ tasks'[t].subject = tasks[t].subject /\ tasks'[t].retry = tasks[t].retry
        /\ tasks'[t].cancel = tasks[t].cancel
    BY <1>3, <1>4, RowFacts
  <2> QED BY <2>1, RowFacts DEF RowMove, Live
<1> QED BY <1>1, <1>2, <1>5, <1>6, AllRows

LEMMA RestartMoves ==
    ASSUME Sound, Queue!Restart PROVE RowMoves
<1>1. /\ tasks' = [t \in Tasks |-> Queue!Recovered(tasks[t])] /\ disk' = tasks'
      /\ leases' = {} /\ UNCHANGED <<issued, granted>>
  BY DEF Queue!Restart, Sound, RowsSound
<1>2. \A t \in Tasks : Queue!Recovered(tasks[t]) \in Queue!Row
  BY RecoveredRow, RowFacts
<1>3. tasks' \in [Tasks -> Queue!Row] BY <1>1, <1>2
<1>4. \A t \in Tasks : RowMove(t)
  <2> SUFFICES ASSUME NEW t \in Tasks PROVE RowMove(t)
    OBVIOUS
  <2> DEFINE n == Queue!Recovered(tasks[t])
  <2>1. \/ n = tasks[t]
        \/ /\ tasks[t].status \in {"running", "pending"}
           /\ n.status \in {"pending", "failed"}
           /\ n.token \in {tasks[t].token, Queue!NoToken}
           /\ n.subject = tasks[t].subject /\ n.retry = tasks[t].retry
           /\ n.cancel = tasks[t].cancel
    BY RecoveredRow, RowFacts
  <2>2. tasks'[t] = n BY <1>1
  <2> HIDE DEF n
  <2>3. CASE n = tasks[t] BY <2>2, <2>3, SameRow
  <2>4. CASE n # tasks[t] BY <2>1, <2>2, <2>4, RowFacts DEF RowMove, Live
  <2> QED BY <2>3, <2>4
<1> QED BY <1>1, <1>3, <1>4, AllRows

-----------------------------------------------------------------------------
(* Steps that neither claim a row nor settle nor commit *)

LEMMA MovedRow ==
    ASSUME Sound, RowMoves, NEW t \in Tasks
    PROVE  /\ RowMove(t)
           /\ tasks'[t] \in Queue!Row /\ tasks'[t].token \in Nat
           /\ tasks'[t].retry \in Nat
           /\ issued' \in Nat /\ issued <= issued'
<1>1. tasks'[t] \in Queue!Row BY DEF RowMoves, Queue!TypeOK
<1> QED BY <1>1, RowFacts DEF RowMoves, Queue!Row

LEMMA RowsKept == ASSUME Sound, RowMoves PROVE RowsSound'
<1>1. disk' = tasks' BY DEF RowMoves
<1>2. ASSUME NEW t \in Tasks
      PROVE  /\ tasks'[t].token <= issued'
             /\ tasks'[t].status # "none" => tasks'[t].subject \in Docs
             /\ tasks'[t].cancel => tasks'[t].status \in {"cancelled", "failed"}
  BY MovedRow, RowFacts DEF RowMove, Queue!NoToken
<1>3. ASSUME NEW t \in Tasks, NEW u \in Tasks, Live(tasks'[t]), Live(tasks'[u]),
             tasks'[t].subject = tasks'[u].subject
      PROVE  t = u
  <2> DEFINE New(v) == /\ tasks[v].status = "none"
                       /\ \A w \in Tasks \ {v} :
                            /\ tasks'[w] = tasks[w]
                            /\ Live(tasks[w]) =>
                                 tasks[w].subject # tasks'[v].subject
  <2>1. \A v \in {t, u} :
          \/ Live(tasks[v]) /\ tasks'[v].subject = tasks[v].subject
          \/ New(v)
    BY <1>3, MovedRow DEF RowMove, Live
  <2>2. CASE New(t) \/ New(u) BY <1>3, <2>2
  <2>3. CASE ~New(t) /\ ~New(u)
    BY <1>3, <2>1, <2>3 DEF Sound, RowsSound
  <2> QED BY <2>2, <2>3
<1> QED BY <1>1, <1>2, <1>3 DEF RowsSound

\* The worker is as far as before, or further without having reached a place
\* where something new is known of it.
KeepsLease(s) ==
    worker'[s].at \in Leased =>
        /\ worker[s].at \in Leased
        /\ worker'[s].lease = worker[s].lease
        /\ Lease(s) \in leases'

OrdinaryMove(s) ==
    /\ KeepsLease(s)
    /\ worker'[s].at \in {"report", "install"} => worker'[s] = worker[s]
    /\ worker'[s].at = "settle" /\ worker'[s].outcome = "ok" =>
        worker'[s] = worker[s]
    /\ worker'[s].at \in Uncommitted => worker[s].at \in Uncommitted

\* No chunks are installed; some may be removed.
ChunksKept ==
    /\ UNCHANGED installed
    /\ \A d \in Docs : found'[d] => found[d]

Ordinary ==
    RowMoves /\ (\A s \in Slots : OrdinaryMove(s)) /\ ChunksKept /\ RequestsSound'

\* What may happen to the chunks of a document in one step.
NewestWinsStep ==
    \A d \in Docs : /\ installed'[d] >= installed[d]
                    /\ found'[d] /\ ~found[d] => installed'[d] > installed[d]

\* What is known of a worker with a lease.
LEMMA WorkerFacts ==
    ASSUME Sound, NEW s \in Slots, worker[s].at \in Leased
    PROVE  /\ worker[s] \in Worker
           /\ Lease(s).task \in Tasks /\ Lease(s).token \in 1 .. issued
           /\ Lease(s).attempt \in Nat
           /\ Lease(s) \in leases
           /\ Row(s).status # "none" /\ Doc(s) \in Docs
<1>1. worker[s] \in Worker BY DEF Sound, TypeOK, Leased, Free
<1>2. Lease(s) \in Queue!Lease BY <1>1 DEF Worker, Lease
<1>3. Lease(s).task \in Tasks /\ Lease(s).attempt \in Nat
  BY <1>2 DEF Queue!Lease
<1>4. /\ Lease(s).token \in 1 .. issued /\ Lease(s) \in leases
      /\ Row(s).status # "none"
  BY DEF Sound, LeasesSound
<1>5. Doc(s) \in Docs BY <1>3, <1>4, RowFacts DEF Doc, Row
<1> QED BY <1>1, <1>3, <1>4, <1>5

\* Its row stays the row of the same document.
LEMMA RowOfWorker ==
    ASSUME Sound, RowMoves, NEW s \in Slots, worker[s].at \in Leased,
           worker'[s].lease = worker[s].lease
    PROVE  /\ Lease(s)' = Lease(s)
           /\ Row(s)' = tasks'[Lease(s).task]
           /\ Row(s)'.status # "none" /\ Doc(s)' = Doc(s)
           /\ Row(s).retry <= Row(s)'.retry
           /\ Row(s).cancel => Row(s)'.cancel
           /\ Row(s)'.token = Lease(s).token =>
                Row(s).token = Lease(s).token /\ Row(s)'.retry = Row(s).retry
           /\ Current(Lease(s))' => Current(Lease(s))
<1>1. Lease(s)' = Lease(s) /\ Row(s)' = tasks'[Lease(s).task]
  BY DEF Lease, Row
<1>2. RowMove(Lease(s).task) BY WorkerFacts, MovedRow
<1>3. /\ Lease(s).token # Queue!NoToken /\ Lease(s).token # issued + 1
      /\ issued \in Nat
  BY WorkerFacts, RowFacts DEF Queue!NoToken
<1>4. Row(s).status # "none" BY WorkerFacts
<1> QED BY <1>1, <1>2, <1>3, <1>4 DEF RowMove, Row, Doc, Current

LEMMA LeasesKept ==
    ASSUME Sound, RowMoves, \A s \in Slots : KeepsLease(s)
    PROVE  LeasesSound'
<1> SUFFICES ASSUME NEW s \in Slots, worker'[s].at \in Leased
             PROVE  /\ Lease(s)' \in leases'
                    /\ Lease(s)'.token \in 1 .. issued'
                    /\ Row(s)'.status # "none"
                    /\ Lease(s)'.attempt <= Row(s)'.retry
                    /\ Row(s)'.token = Lease(s)'.token =>
                         Row(s)'.retry = Lease(s)'.attempt
                    /\ \A r \in Slots :
                         worker'[r].at \in Leased
                           /\ Lease(r)'.token = Lease(s)'.token => r = s
  BY DEF LeasesSound
<1>1. \A r \in Slots : worker'[r].at \in Leased =>
        worker[r].at \in Leased /\ Lease(r)' = Lease(r)
  BY DEF KeepsLease, Lease
<1>2. /\ worker[s].at \in Leased /\ worker'[s].lease = worker[s].lease
      /\ Lease(s)' \in leases'
  BY <1>1 DEF KeepsLease, Lease
<1>3. /\ Lease(s).attempt <= Row(s).retry
      /\ Row(s).token = Lease(s).token => Row(s).retry = Lease(s).attempt
      /\ \A r \in Slots :
            worker[r].at \in Leased /\ Lease(r).token = Lease(s).token => r = s
  BY <1>2 DEF Sound, LeasesSound
<1>4. /\ Lease(s).attempt \in Nat /\ Row(s).retry \in Nat /\ Row(s)'.retry \in Nat
      /\ issued \in Nat /\ issued' \in Nat /\ issued <= issued'
      /\ Lease(s).token \in 1 .. issued
  <2>1. Lease(s).task \in Tasks BY <1>2, WorkerFacts
  <2> QED BY <1>2, <2>1, WorkerFacts, RowFacts, MovedRow, RowOfWorker DEF Row
<1> QED BY <1>1, <1>2, <1>3, <1>4, RowOfWorker

LEMMA ReportKept ==
    ASSUME Sound, RowMoves, NEW s \in Slots, worker'[s] = worker[s],
           worker[s].at = "report"
    PROVE  /\ worker'[s].outcome \in Queue!ReportStatuses
           /\ worker'[s].outcome = "pending" => Lease(s)'.attempt < MaxRetries
           /\ worker'[s].outcome = "cancelled" => Row(s)'.cancel
<1>1. worker[s].at \in Leased BY DEF Leased
<1>2. /\ worker[s].outcome \in Queue!ReportStatuses
      /\ worker[s].outcome = "pending" => Lease(s).attempt < MaxRetries
      /\ worker[s].outcome = "cancelled" => Row(s).cancel
  BY DEF Sound, ReportsSound
<1> QED BY <1>1, <1>2, RowOfWorker

LEMMA ChunksSoundKept ==
    ASSUME Sound, TypeOK', Ordered, RowMoves, ChunksKept PROVE ChunksSound'
<1> SUFFICES ASSUME NEW d \in Docs
             PROVE  /\ installed'[d] <= issued'
                    /\ \A t \in Tasks :
                         tasks'[t].status = "running" /\ tasks'[t].subject = d =>
                           installed'[d] <= tasks'[t].token
  BY DEF ChunksSound
<1>1. /\ installed[d] \in Nat /\ installed'[d] \in Nat /\ installed'[d] <= installed[d]
      /\ installed[d] <= issued /\ issued \in Nat /\ issued' \in {issued, issued + 1}
  BY DEF Sound, TypeOK, Queue!TypeOK, ChunksKept, Ordered, ChunksSound,
         RowMoves
<1>2. ASSUME NEW t \in Tasks, tasks'[t].status = "running", tasks'[t].subject = d
      PROVE  installed'[d] <= tasks'[t].token
  <2>1. \/ tasks'[t].token = issued + 1
        \/ tasks[t].status = "running" /\ tasks'[t].token = tasks[t].token
    BY <1>2, MovedRow DEF RowMove
  <2>2. CASE tasks'[t].token = issued + 1 BY <1>1, <2>2
  <2>3. CASE tasks[t].status = "running" /\ tasks'[t].token = tasks[t].token
    <3>1. tasks[t].subject = d BY <1>2, <2>3, MovedRow DEF RowMove
    <3>2. installed[d] <= tasks[t].token
      BY <2>3, <3>1 DEF Ordered, ChunksSound
    <3> QED BY <1>1, <2>3, <3>2, RowFacts
  <2> QED BY <2>1, <2>2, <2>3
<1> QED BY <1>1, <1>2

\* A row that runs later is under a lease at least as new.
LEMMA NewerRow ==
    ASSUME Sound, RowMoves, NEW n \in Nat, n <= issued, NEW d,
           \A t \in Tasks : tasks[t].status = "running" /\ tasks[t].subject = d =>
              n <= tasks[t].token
    PROVE  \A t \in Tasks : tasks'[t].status = "running" /\ tasks'[t].subject = d =>
              n <= tasks'[t].token
<1> SUFFICES ASSUME NEW t \in Tasks, tasks'[t].status = "running",
                    tasks'[t].subject = d
             PROVE  n <= tasks'[t].token
  OBVIOUS
<1>1. \/ tasks'[t].token = issued + 1
      \/ tasks[t].status = "running" /\ tasks'[t].token = tasks[t].token
  BY MovedRow DEF RowMove
<1>2. tasks[t].status = "running" => tasks[t].subject = d
  BY MovedRow DEF RowMove
<1> QED BY <1>1, <1>2, RowFacts

LEMMA CommitsKept ==
    ASSUME Sound, TypeOK', Ordered, RowMoves, ChunksKept,
           \A s \in Slots : worker'[s].at = "install" => worker'[s] = worker[s]
    PROVE  CommitsSound'
<1> SUFFICES ASSUME NEW s \in Slots, worker'[s].at = "install"
             PROVE  /\ \A r \in Slots : worker'[r].at = "install" => r = s
                    /\ Doc(s)' \in Docs => installed'[Doc(s)'] <= Lease(s)'.token
                    /\ \A t \in Tasks :
                         tasks'[t].status = "running" /\ tasks'[t].subject = Doc(s)' =>
                           Lease(s)'.token <= tasks'[t].token
  BY DEF CommitsSound
<1>1. /\ worker'[s] = worker[s] /\ worker[s].at = "install"
      /\ worker[s].at \in Leased
  BY DEF Leased
<1>2. /\ \A r \in Slots : worker[r].at = "install" => r = s
      /\ Doc(s) \in Docs => installed[Doc(s)] <= Lease(s).token
      /\ \A t \in Tasks :
            tasks[t].status = "running" /\ tasks[t].subject = Doc(s) =>
                Lease(s).token <= tasks[t].token
  BY <1>1 DEF Ordered, CommitsSound
<1>3. Lease(s)' = Lease(s) /\ Doc(s)' = Doc(s) /\ Doc(s) \in Docs
  BY <1>1, RowOfWorker, WorkerFacts
<1>4. Lease(s).token \in Nat /\ Lease(s).token <= issued
  BY <1>1, WorkerFacts, RowFacts
<1>5. installed'[Doc(s)] <= Lease(s).token BY <1>2, <1>3 DEF ChunksKept
<1>6. \A t \in Tasks :
        tasks'[t].status = "running" /\ tasks'[t].subject = Doc(s) =>
            Lease(s).token <= tasks'[t].token
  BY <1>2, <1>4, NewerRow
<1> QED BY <1>2, <1>3, <1>5, <1>6

LEMMA SuccessKept ==
    ASSUME Sound, Ordered, RowMoves, ChunksKept,
           \A s \in Slots : worker'[s].at = "install" => worker'[s] = worker[s],
           NEW s \in Slots, Succeeded(s), Current(Lease(s))',
           worker'[s].lease = worker[s].lease
    PROVE  /\ installed'[Doc(s)'] = Lease(s)'.token
           /\ \A r \in Slots : worker'[r].at = "install" => Doc(r)' # Doc(s)'
<1>1. worker[s].at \in Leased BY DEF Succeeded, Leased
<1>2. /\ Lease(s)' = Lease(s) /\ Doc(s)' = Doc(s) /\ Doc(s) \in Docs
      /\ Current(Lease(s))
  BY <1>1, RowOfWorker, WorkerFacts
<1>3. /\ installed[Doc(s)] = Lease(s).token
      /\ \A r \in Slots : worker[r].at = "install" => Doc(r) # Doc(s)
  BY <1>2 DEF Ordered, SuccessSound
<1>4. \A r \in Slots : worker'[r].at = "install" =>
        worker[r].at = "install" /\ Doc(r)' = Doc(r)
  BY RowOfWorker DEF Leased
<1> QED BY <1>2, <1>3, <1>4 DEF ChunksKept

LEMMA UnspentKept ==
    ASSUME Ordered, ChunksKept,
           \A s \in Slots : worker'[s].at \in Uncommitted =>
              worker[s].at \in Uncommitted /\ worker'[s].lease = worker[s].lease
    PROVE  Unspent'
BY DEF Ordered, Unspent, ChunksKept, Lease

LEMMA OrdinaryStep ==
    ASSUME Sound, TypeOK', Ordinary
    PROVE  Sound' /\ (Ordered => Ordered')
<1>1. RowsSound' /\ LeasesSound'
  BY RowsKept, LeasesKept DEF Ordinary, OrdinaryMove
<1>1a. ReportsSound'
  BY ReportKept DEF Ordinary, OrdinaryMove, ReportsSound, Queue!ReportStatuses
<1>2. ASSUME Ordered PROVE ChunksSound' /\ CommitsSound'
  BY <1>2, ChunksSoundKept, CommitsKept DEF Ordinary, OrdinaryMove
<1>3. ASSUME Ordered PROVE SuccessSound'
  <2> SUFFICES ASSUME NEW s \in Slots, Succeeded(s)', Current(Lease(s))'
               PROVE  /\ installed'[Doc(s)'] = Lease(s)'.token
                      /\ \A r \in Slots :
                           worker'[r].at = "install" => Doc(r)' # Doc(s)'
    BY DEF SuccessSound
  <2>1. Succeeded(s) /\ worker'[s].lease = worker[s].lease
    BY DEF Ordinary, OrdinaryMove, KeepsLease, Succeeded, Leased
  <2> QED BY <1>3, <2>1, SuccessKept DEF Ordinary, OrdinaryMove
<1>4. ASSUME Ordered PROVE Unspent'
  BY <1>4, UnspentKept DEF Ordinary, OrdinaryMove, KeepsLease, Leased, Uncommitted
<1> QED BY <1>1, <1>1a, <1>2, <1>3, <1>4 DEF Sound, Ordered, Ordinary

-----------------------------------------------------------------------------
(* The workers *)

DocRow == [state : {"absent", "present", "deleted", "undone"}, run : RunStatus]

RestTyped ==
    /\ docs \in [Docs -> DocRow]
    /\ installed \in [Docs -> Nat]
    /\ found \in [Docs -> BOOLEAN]
    /\ submitted \subseteq Tasks
    /\ req \in [Handlers -> Request \cup {Idle}]
    /\ RequestsSound

Places == {"vet", "check", "claim", "begin", "parse", "renew", "commit",
           "install", "settle", "retry", "report", "mark"}

LEMMA RestUnchanged ==
    Sound => RestTyped /\ (UNCHANGED req => RequestsSound')
BY DEF Sound, TypeOK, RestTyped, DocRow, RequestsSound

LEMMA MarkedTyped ==
    ASSUME Sound, NEW d, NEW run \in RunStatus, NEW ok \in BOOLEAN
    PROVE  Marked(d, run, ok) \in [Docs -> DocRow]
<1>1. docs \in [Docs -> DocRow] BY RestUnchanged DEF RestTyped
<1>2. \A r \in DocRow : [r EXCEPT !.run = run] \in DocRow BY DEF DocRow
<1>3. CASE d \in Docs
  <2>1. [docs EXCEPT ![d].run = run] = [docs EXCEPT ![d] = [docs[d] EXCEPT !.run = run]]
    OBVIOUS
  <2> QED BY <1>1, <1>2, <1>3, <2>1 DEF Marked
<1>4. CASE d \notin Docs
  <2>1. [docs EXCEPT ![d].run = run] = docs BY <1>1, <1>4
  <2> QED BY <1>1, <2>1 DEF Marked
<1> QED BY <1>3, <1>4

\* One worker moves, and takes no lease but the one it has.
LEMMA WorkerMoves ==
    ASSUME Sound, RowMoves, RestTyped', ChunksKept,
           NEW s \in Slots, NEW w \in Worker \cup {Free},
           worker' = [worker EXCEPT ![s] = w],
           w.at \in Leased => /\ worker[s].at \in Leased
                              /\ w.lease = worker[s].lease
                              /\ Lease(s) \in leases',
           w.at \in Uncommitted => worker[s].at \in Uncommitted,
           w.at \notin {"report", "install"},
           w.at = "settle" => w.outcome # "ok",
           \A r \in Slots \ {s} : worker[r].at \in Leased => Lease(r) \in leases'
    PROVE  TypeOK' /\ Ordinary
<1>1. /\ worker' \in [Slots -> Worker \cup {Free}]
      /\ worker'[s] = w
      /\ \A r \in Slots \ {s} : worker'[r] = worker[r]
  BY DEF Sound, TypeOK
<1>2. TypeOK' BY <1>1 DEF TypeOK, RestTyped, DocRow, RowMoves
<1>3. \A r \in Slots : OrdinaryMove(r)
  <2> SUFFICES ASSUME NEW r \in Slots PROVE OrdinaryMove(r)
    OBVIOUS
  <2>1. CASE r = s BY <1>1, <2>1 DEF OrdinaryMove, KeepsLease
  <2>2. CASE r # s BY <1>1, <2>2 DEF OrdinaryMove, KeepsLease
  <2> QED BY <2>1, <2>2
<1> QED BY <1>2, <1>3 DEF Ordinary, RestTyped

LEMMA Moved ==
    ASSUME Sound, RowMoves, RestTyped', ChunksKept, UNCHANGED leases,
           NEW s \in Slots, worker[s].at # "free",
           NEW at \in Places \ {"settle", "report", "install"},
           at \in Leased => worker[s].at \in Leased,
           at \in Uncommitted => worker[s].at \in Uncommitted,
           Move(s, at)
    PROVE  TypeOK' /\ Ordinary
<1> DEFINE w == [worker[s] EXCEPT !.at = at]
<1>1. worker[s] \in Worker BY DEF Sound, TypeOK, Free
<1>2. w \in Worker /\ w.at = at /\ w.lease = worker[s].lease
  BY <1>1 DEF Worker, Places
<1>3. worker' = [worker EXCEPT ![s] = w] BY DEF Move
<1> HIDE DEF w
<1>4. \A r \in Slots : worker[r].at \in Leased => Lease(r) \in leases'
  BY WorkerFacts
<1> QED BY <1>2, <1>3, <1>4, WorkerMoves

LEMMA Concluded ==
    ASSUME Sound, RowMoves, RestTyped', ChunksKept, UNCHANGED leases,
           NEW s \in Slots, worker[s].at # "free",
           NEW at \in {"settle", "mark"},
           at \in Leased => worker[s].at \in Leased,
           NEW outcome \in {"retryable", "permanent", "cancelled"},
           Conclude(s, at, outcome)
    PROVE  TypeOK' /\ Ordinary
<1> DEFINE w == [worker[s] EXCEPT !.at = at, !.outcome = outcome]
<1>1. worker[s] \in Worker BY DEF Sound, TypeOK, Free
<1>2. /\ w \in Worker /\ w.at = at /\ w.lease = worker[s].lease
      /\ w.outcome = outcome
  BY <1>1 DEF Worker, Queue!Status
<1>3. worker' = [worker EXCEPT ![s] = w] BY DEF Conclude
<1> HIDE DEF w
<1>4. \A r \in Slots : worker[r].at \in Leased => Lease(r) \in leases'
  BY WorkerFacts
<1> QED BY <1>2, <1>3, <1>4, WorkerMoves DEF Uncommitted

LEMMA Left ==
    ASSUME Sound, RowMoves, RestTyped', ChunksKept,
           NEW s \in Slots, Leave(s),
           \A r \in Slots \ {s} : worker[r].at \in Leased => Lease(r) \in leases'
    PROVE  TypeOK' /\ Ordinary
<1>1. worker' = [worker EXCEPT ![s] = Free] BY DEF Leave
<1>2. Free.at \notin Leased /\ Free.at \notin {"report", "install", "settle"}
  BY DEF Free, Leased
<1>3. Free.at \notin Uncommitted BY DEF Free, Uncommitted
<1> QED BY <1>1, <1>2, <1>3, WorkerMoves

\* Steps of requests and of time leave the workers alone.
LEMMA WorkersStay ==
    ASSUME Sound, RowMoves, RestTyped', ChunksKept, UNCHANGED <<worker, leases>>
    PROVE  TypeOK' /\ Ordinary
<1>1. TypeOK' BY DEF TypeOK, RestTyped, DocRow, RowMoves, Sound
<1>2. \A s \in Slots : OrdinaryMove(s) BY WorkerFacts DEF OrdinaryMove, KeepsLease
<1> QED BY <1>1, <1>2 DEF Ordinary, RestTyped

LEMMA DispatchStep ==
    ASSUME Sound, NEW s \in Slots, NEW t \in Tasks, Dispatch(s, t)
    PROVE  TypeOK' /\ Ordinary
<1> DEFINE w == NewWorker(t, "vet")
<1>1. w \in Worker /\ w.at = "vet"
  BY DEF NewWorker, Worker, Queue!Lease, Queue!NoToken
<1>2. worker' = [worker EXCEPT ![s] = w] BY DEF Dispatch
<1>3. UNCHANGED queueVars /\ UNCHANGED <<docs, installed, found, submitted, req>>
  BY DEF Dispatch
<1> HIDE DEF w
<1>4. RowMoves BY <1>3, SameRows DEF queueVars
<1>5. RestTyped' /\ ChunksKept
  BY <1>3, RestUnchanged DEF RestTyped, ChunksKept
<1>6. \A r \in Slots : worker[r].at \in Leased => Lease(r) \in leases'
  BY <1>3, WorkerFacts DEF queueVars
<1> QED BY <1>1, <1>2, <1>4, <1>5, <1>6, WorkerMoves DEF Leased, Uncommitted

LEMMA TakeStep ==
    ASSUME Sound, NEW s \in Slots, NEW t \in Tasks, Take(s, t)
    PROVE  TypeOK' /\ Ordinary
<1> DEFINE w == NewWorker(t, "check")
<1>1. w \in Worker /\ w.at = "check"
  BY DEF NewWorker, Worker, Queue!Lease, Queue!NoToken
<1>2. worker' = [worker EXCEPT ![s] = w] \/ worker' = worker BY DEF Take
<1>3. /\ UNCHANGED queueVars /\ UNCHANGED <<docs, installed, found, req>>
      /\ submitted' \subseteq submitted
  BY DEF Take
<1> HIDE DEF w
<1>4. RowMoves BY <1>3, SameRows DEF queueVars
<1>5. RestTyped' /\ ChunksKept
  BY <1>3, RestUnchanged DEF RestTyped, ChunksKept
<1>6. UNCHANGED leases /\ \A r \in Slots : worker[r].at \in Leased => Lease(r) \in leases'
  BY <1>3, WorkerFacts DEF queueVars
<1>7. CASE worker' = worker BY <1>4, <1>5, <1>6, <1>7, WorkersStay
<1>8. CASE worker' = [worker EXCEPT ![s] = w]
  BY <1>1, <1>4, <1>5, <1>6, <1>8, WorkerMoves DEF Leased, Uncommitted
<1> QED BY <1>2, <1>7, <1>8

LEMMA VetStep ==
    ASSUME Sound, NEW s \in Slots, NEW ok \in BOOLEAN, Vet(s, ok)
    PROVE  TypeOK' /\ Ordinary
<1>1. /\ worker[s].at = "vet" /\ UNCHANGED <<docs, installed, found, submitted, req>>
      /\ \/ Move(s, "check") /\ UNCHANGED queueVars
         \/ Leave(s) /\ Queue!Reject(Lease(s).task, ok)
  BY DEF Vet
<1>2. Lease(s).task \in Tasks
  <2>1. worker[s] \in Worker BY <1>1 DEF Sound, TypeOK, Free
  <2> QED BY <2>1 DEF Worker, Lease, Queue!Lease
<1>3. RowMoves /\ UNCHANGED leases
  BY <1>1, <1>2, SameRows, RejectMoves DEF queueVars
<1>4. RestTyped' /\ ChunksKept
  BY <1>1, RestUnchanged DEF RestTyped, ChunksKept
<1>5. CASE Move(s, "check")
  BY <1>1, <1>3, <1>4, <1>5, Moved DEF Places, Leased, Uncommitted
<1>6. CASE Leave(s) BY <1>3, <1>4, <1>6, WorkerFacts, Left
<1> QED BY <1>1, <1>5, <1>6

LEMMA CheckStep ==
    ASSUME Sound, NEW s \in Slots, Check(s) PROVE TypeOK' /\ Ordinary
<1>1. /\ worker[s].at = "check" /\ UNCHANGED <<docs, installed, found, submitted, req>>
      /\ UNCHANGED queueVars
      /\ Conclude(s, "mark", "cancelled") \/ Move(s, "claim")
  BY DEF Check
<1>2. RowMoves /\ UNCHANGED leases BY <1>1, SameRows DEF queueVars
<1>3. RestTyped' /\ ChunksKept
  BY <1>1, RestUnchanged DEF RestTyped, ChunksKept
<1> QED BY <1>1, <1>2, <1>3, Moved, Concluded DEF Places, Leased, Uncommitted

LEMMA BeginStep ==
    ASSUME Sound, NEW s \in Slots, NEW ok \in BOOLEAN, Begin(s, ok)
    PROVE  TypeOK' /\ Ordinary
<1>1. /\ worker[s].at = "begin" /\ UNCHANGED <<installed, found, submitted, req>>
      /\ UNCHANGED queueVars
      /\ docs' = Marked(Doc(s), "RUNNING", ok)
      /\ Move(s, "parse")
  BY DEF Begin
<1>2. RowMoves /\ UNCHANGED leases BY <1>1, SameRows DEF queueVars
<1>3. docs' \in [Docs -> DocRow] BY <1>1, MarkedTyped DEF RunStatus
<1>4. RestTyped' /\ ChunksKept
  BY <1>1, <1>3, RestUnchanged DEF RestTyped, ChunksKept
<1> QED BY <1>1, <1>2, <1>4, Moved DEF Places, Leased, Uncommitted

LEMMA ParseStep ==
    ASSUME Sound, NEW s \in Slots, NEW outcome \in {"ok", "retryable", "permanent"},
           Parse(s, outcome)
    PROVE  TypeOK' /\ Ordinary
<1>1. /\ worker[s].at = "parse" /\ UNCHANGED <<docs, installed, found, submitted, req>>
      /\ UNCHANGED queueVars
      /\ \/ Move(s, "renew")
         \/ outcome \in {"retryable", "permanent"} /\ Conclude(s, "settle", outcome)
  BY DEF Parse
<1>2. RowMoves /\ UNCHANGED leases BY <1>1, SameRows DEF queueVars
<1>3. RestTyped' /\ ChunksKept
  BY <1>1, RestUnchanged DEF RestTyped, ChunksKept
<1> QED BY <1>1, <1>2, <1>3, Moved, Concluded DEF Places, Leased, Uncommitted

\* A renewal before or while the worker goes on.
LEMMA RenewedRows ==
    ASSUME Sound, NEW s \in Slots, worker[s].at \in Leased, NEW ok \in BOOLEAN,
           \/ Queue!Renew(Lease(s), ok)
           \/ UNCHANGED queueVars
    PROVE  RowMoves /\ UNCHANGED leases
BY WorkerFacts, RenewMoves, SameRows DEF queueVars

LEMMA HeartbeatStep ==
    ASSUME Sound, NEW s \in Slots, NEW ok \in BOOLEAN, Heartbeat(s, ok)
    PROVE  TypeOK' /\ Ordinary
<1>1. /\ worker[s].at = "parse" /\ UNCHANGED <<docs, installed, found, submitted, req>>
      /\ Queue!Renew(Lease(s), ok) \/ UNCHANGED queueVars
      /\ UNCHANGED worker \/ Conclude(s, "settle", "retryable")
  BY DEF Heartbeat
<1>2. RowMoves /\ UNCHANGED leases BY <1>1, RenewedRows DEF Leased
<1>3. RestTyped' /\ ChunksKept
  BY <1>1, RestUnchanged DEF RestTyped, ChunksKept
<1> QED BY <1>1, <1>2, <1>3, Concluded, WorkersStay DEF Leased

LEMMA RenewForCommitStep ==
    ASSUME Sound, NEW s \in Slots, NEW ok \in BOOLEAN, RenewForCommit(s, ok)
    PROVE  TypeOK' /\ Ordinary
<1>1. /\ worker[s].at = "renew" /\ UNCHANGED <<docs, installed, found, submitted, req>>
      /\ Queue!Renew(Lease(s), ok) \/ UNCHANGED queueVars
      /\ Move(s, "commit") \/ Conclude(s, "settle", "retryable")
  BY DEF RenewForCommit
<1>2. RowMoves /\ UNCHANGED leases BY <1>1, RenewedRows DEF Leased
<1>3. RestTyped' /\ ChunksKept
  BY <1>1, RestUnchanged DEF RestTyped, ChunksKept
<1> QED BY <1>1, <1>2, <1>3, Moved, Concluded DEF Places, Leased, Uncommitted

LEMMA MarkStep ==
    ASSUME Sound, NEW s \in Slots, NEW ok \in BOOLEAN, Mark(s, ok)
    PROVE  TypeOK' /\ Ordinary
<1>1. /\ UNCHANGED <<installed, found, submitted, req>> /\ UNCHANGED queueVars
      /\ \E run \in RunStatus : docs' = Marked(Doc(s), run, ok)
      /\ Leave(s)
  BY DEF Mark, RunStatus
<1>2. RowMoves /\ UNCHANGED leases BY <1>1, SameRows DEF queueVars
<1>3. docs' \in [Docs -> DocRow] BY <1>1, MarkedTyped
<1>4. RestTyped' /\ ChunksKept
  BY <1>1, <1>3, RestUnchanged DEF RestTyped, ChunksKept
<1> QED BY <1>1, <1>2, <1>4, WorkerFacts, Left

\* The report of a worker that holds its lease rewrites its row; that of any
\* other leaves the rows as they are.
LEMMA ReportMoves ==
    ASSUME Sound, NEW s \in Slots, NEW ok \in BOOLEAN, Report(s, ok)
    PROVE  /\ RowMoves
           /\ leases' = leases \ {Lease(s)}
           /\ UNCHANGED <<issued, granted>>
<1> DEFINE t == Lease(s).task
           status == worker[s].outcome
<1>1. /\ worker[s].at = "report"
      /\ Queue!Persist([tasks EXCEPT ![t] = IF Queue!Holds(Lease(s))
                          THEN Queue!Unleased(@, status) ELSE @], ok)
      /\ leases' = leases \ {Lease(s)} /\ UNCHANGED <<issued, granted>>
  BY DEF Report
<1>2. /\ t \in Tasks /\ tasks[t].status # "none"
      /\ status \in {"done", "failed", "pending", "cancelled"}
  BY <1>1, WorkerFacts DEF Leased, Row, Sound, ReportsSound, Queue!ReportStatuses
<1>3. CASE Queue!Holds(Lease(s))
  <2>1. Current(Lease(s)) BY <1>3 DEF Queue!Holds, Current
  <2>2. tasks[t].status = "running" BY <2>1 DEF Current
  <2>3. Queue!Persist([tasks EXCEPT ![t] = Queue!Unleased(@, status)], ok)
    BY <1>1, <1>3
  <2> QED BY <1>1, <1>2, <2>1, <2>2, <2>3, UnleasedMoves
<1>4. CASE ~Queue!Holds(Lease(s))
  <2>1. Queue!Persist(tasks, ok)
    <3>1. [tasks EXCEPT ![t] = @] = tasks BY <1>2, RowFacts
    <3> QED BY <1>1, <1>4, <3>1
  <2>2. UNCHANGED <<tasks, disk>>
    BY <1>2, <2>1, RowFacts DEF Queue!Persist
  <2> QED BY <1>1, <2>2, SameRows
<1> QED BY <1>1, <1>3, <1>4

LEMMA ReportStep ==
    ASSUME Sound, NEW s \in Slots, NEW ok \in BOOLEAN, Report(s, ok)
    PROVE  TypeOK' /\ Ordinary
<1>1. /\ worker[s].at = "report" /\ UNCHANGED <<docs, installed, found, submitted, req>>
      /\ Move(s, "mark") \/ Leave(s)
  BY DEF Report
<1>2. RowMoves /\ leases' = leases \ {Lease(s)} BY ReportMoves
<1>3. RestTyped' /\ ChunksKept
  BY <1>1, RestUnchanged DEF RestTyped, ChunksKept
<1>4. \A r \in Slots \ {s} : worker[r].at \in Leased => Lease(r) \in leases'
  BY <1>1, <1>2, WorkerFacts DEF Sound, LeasesSound, Leased
<1>5. CASE Leave(s) BY <1>2, <1>3, <1>4, <1>5, Left
<1>6. CASE Move(s, "mark")
  <2> DEFINE w == [worker[s] EXCEPT !.at = "mark"]
  <2>1. worker[s] \in Worker BY <1>1 DEF Sound, TypeOK, Free
  <2>2. w \in Worker /\ w.at = "mark" BY <2>1 DEF Worker
  <2>3. worker' = [worker EXCEPT ![s] = w] BY <1>6 DEF Move
  <2> HIDE DEF w
  <2> QED BY <1>2, <1>3, <1>4, <2>2, <2>3, WorkerMoves DEF Leased, Uncommitted
<1> QED BY <1>1, <1>5, <1>6

\* A worker that unwinds forgets its lease, and nothing else changes.
LEMMA UnwindStep ==
    ASSUME Sound, NEW s \in Slots, Unwind(s) PROVE TypeOK' /\ Ordinary
<1>1. /\ worker[s].at = "parse" /\ Leave(s)
      /\ UNCHANGED <<docs, installed, found, submitted, req>>
      /\ UNCHANGED <<tasks, disk, issued, granted>> /\ leases' = leases \ {Lease(s)}
  BY DEF Unwind, Queue!Abandon
<1>2. RowMoves BY <1>1, SameRows
<1>3. RestTyped' /\ ChunksKept
  BY <1>1, RestUnchanged DEF RestTyped, ChunksKept
<1>4. \A r \in Slots \ {s} : worker[r].at \in Leased => Lease(r) \in leases'
  BY <1>1, WorkerFacts DEF Sound, LeasesSound, Leased
<1> QED BY <1>1, <1>2, <1>3, <1>4, Left

LEMMA InitSound == Init => Sound /\ Ordered
<1> SUFFICES ASSUME Init PROVE Sound /\ Ordered
  OBVIOUS
<1>1. Queue!NoRow \in Queue!Row /\ ~Queue!NoRow.cancel
      /\ Queue!NoRow.status = "none" /\ Queue!NoRow.token = 0
  BY DEF Queue!NoRow, Queue!Row, Queue!Status, Queue!NoToken
<1>2. /\ tasks = [t \in Tasks |-> Queue!NoRow] /\ disk = tasks
      /\ leases = {} /\ issued = 0 /\ granted = [t \in Tasks |-> 0]
  BY DEF Init, Queue!Init
<1>3. Queue!TypeOK BY <1>1, <1>2 DEF Queue!TypeOK
<1>4. TypeOK
  BY <1>3 DEF Init, TypeOK, RunStatus, NoChunks
<1>5. \A s \in Slots : worker[s].at = "free" BY DEF Init, Free
<1>6. RowsSound BY <1>1, <1>2 DEF RowsSound, Live
<1>7. LeasesSound /\ ReportsSound /\ CommitsSound /\ SuccessSound
  BY <1>5 DEF LeasesSound, ReportsSound, CommitsSound, SuccessSound, Succeeded,
              Leased
<1>8. ChunksSound BY <1>1, <1>2 DEF Init, ChunksSound, NoChunks
<1>9. RequestsSound BY DEF Init, RequestsSound, HasQueued
<1>10. Unspent BY <1>5 DEF Unspent, Uncommitted
<1> QED BY <1>4, <1>6, <1>7, <1>8, <1>9, <1>10 DEF Sound, Ordered

-----------------------------------------------------------------------------
(* Claiming, settling and committing *)

\* Where a worker is after a step that changes its record to w.
LEMMA Rewritten ==
    ASSUME Sound, NEW s \in Slots, NEW w \in Worker,
           worker' = [worker EXCEPT ![s] = w]
    PROVE  /\ worker' \in [Slots -> Worker \cup {Free}]
           /\ worker'[s] = w
           /\ \A r \in Slots \ {s} : worker'[r] = worker[r]
BY DEF Sound, TypeOK

\* A claim is new: no worker has its token, and no chunks are from it.
LEMMA ClaimStep ==
    ASSUME Sound, NEW s \in Slots, NEW ok \in BOOLEAN, Claim(s, ok)
    PROVE  RowMoves /\ TypeOK' /\ ChunksKept /\ Sound' /\ (Ordered => Ordered')
<1> DEFINE t == Lease(s).task
<1>1. /\ worker[s].at = "claim" /\ UNCHANGED <<docs, installed, found, submitted, req>>
      /\ \/ Leave(s) /\ UNCHANGED queueVars
         \/ ~ok /\ Leave(s) /\ Queue!Claim(t, ok)
         \/ /\ ok /\ Queue!Claim(t, ok)
            /\ worker' = [worker EXCEPT ![s].at = "begin",
                                        ![s].lease.token = issued + 1,
                                        ![s].lease.attempt = Row(s).retry + 1]
  BY DEF Claim
<1>2. worker[s] \in Worker BY <1>1 DEF Sound, TypeOK, Free
<1>3. Lease(s) \in Queue!Lease /\ t \in Tasks
  BY <1>2 DEF Worker, Lease, Queue!Lease
<1>4. RestTyped' /\ ChunksKept
  BY <1>1, RestUnchanged DEF RestTyped, ChunksKept
<1>5. CASE Leave(s) /\ UNCHANGED queueVars
  <2>1. RowMoves /\ UNCHANGED leases BY <1>5, SameRows DEF queueVars
  <2>2. TypeOK' /\ Ordinary BY <1>4, <1>5, <2>1, WorkerFacts, Left
  <2> QED BY <1>4, <2>1, <2>2, OrdinaryStep
<1>6. CASE ~ok /\ Leave(s) /\ Queue!Claim(t, ok)
  <2>1. UNCHANGED queueVars BY <1>3, <1>6, ClaimMoves
  <2> QED BY <1>5, <1>6, <2>1
<1>7. CASE /\ ok /\ Queue!Claim(t, ok)
           /\ worker' = [worker EXCEPT ![s].at = "begin",
                                       ![s].lease.token = issued + 1,
                                       ![s].lease.attempt = Row(s).retry + 1]
  <2> DEFINE n == issued + 1
             k == Row(s).retry + 1
             l == [Lease(s) EXCEPT !.token = n, !.attempt = k]
             w == [worker[s] EXCEPT !.at = "begin", !.lease = l]
  <2>1. n \in Nat /\ k \in Nat
    BY <1>3, RowFacts DEF Row
  <2>2. /\ RowMoves /\ tasks'[t].token = n /\ tasks'[t].retry = k
        /\ tasks'[t].status = "running" /\ issued' = n
        /\ leases' = leases \cup {[task |-> t, token |-> n, attempt |-> k]}
    BY <1>3, <1>7, ClaimMoves DEF Row
  <2>3. l \in Queue!Lease /\ l = [task |-> t, token |-> n, attempt |-> k]
    <3>1. ASSUME NEW x \in Queue!Lease, NEW a \in Nat, NEW b \in Nat
          PROVE  LET y == [x EXCEPT !.token = a, !.attempt = b]
                 IN  /\ y \in Queue!Lease
                     /\ y = [task |-> x.task, token |-> a, attempt |-> b]
      <4>1. /\ [x EXCEPT !.token = a, !.attempt = b] \in Queue!Lease
            /\ [task |-> x.task, token |-> a, attempt |-> b] \in Queue!Lease
        BY DEF Queue!Lease
      <4>2. \A y, z \in Queue!Lease :
              y.task = z.task /\ y.token = z.token /\ y.attempt = z.attempt => y = z
        BY DEF Queue!Lease
      <4> QED BY <4>1, <4>2 DEF Queue!Lease
    <3> HIDE DEF n, k
    <3> QED BY <1>3, <2>1, <3>1
  <2>4. worker' = [worker EXCEPT ![s] = w]
    BY <1>7 DEF Lease
  <2> HIDE DEF n, k
  <2>5. l.task = t /\ l.token = n /\ l.attempt = k
    BY <2>3
  <2> HIDE DEF l
  <2>6. w \in Worker /\ w.at = "begin" /\ w.lease = l
    BY <1>2, <2>3 DEF Worker
  <2> HIDE DEF w
  <2>7. /\ worker' \in [Slots -> Worker \cup {Free}]
        /\ worker'[s].at = "begin" /\ worker'[s].lease = l
        /\ \A r \in Slots \ {s} : worker'[r] = worker[r]
    BY <2>4, <2>6, Rewritten
  <2>8. TypeOK' BY <1>4, <2>2, <2>7 DEF TypeOK, RestTyped, DocRow, RowMoves
  <2>9. \A r \in Slots \ {s} : worker[r].at \in Leased =>
          /\ Lease(r) \in leases' /\ Lease(r)' = Lease(r)
          /\ Lease(r).token \in 1 .. issued /\ Lease(r).token # n
    <3>1. n = issued + 1 BY DEF n
    <3> QED BY <2>2, <2>7, <3>1, WorkerFacts, RowFacts DEF Lease
  <2>10. LeasesSound'
    <3> SUFFICES ASSUME NEW r \in Slots, worker'[r].at \in Leased
                 PROVE  /\ Lease(r)' \in leases'
                        /\ Lease(r)'.token \in 1 .. issued'
                        /\ Row(r)'.status # "none"
                        /\ Lease(r)'.attempt <= Row(r)'.retry
                        /\ Row(r)'.token = Lease(r)'.token =>
                             Row(r)'.retry = Lease(r)'.attempt
                        /\ \A q \in Slots :
                             worker'[q].at \in Leased
                               /\ Lease(q)'.token = Lease(r)'.token => q = r
      BY DEF LeasesSound
    <3>1. CASE r = s
      <4>1. Lease(r)' = l /\ Row(r)' = tasks'[t]
        BY <2>5, <2>7, <3>1 DEF Lease, Row
      <4>2. n \in 1 .. issued'
        <5>1. issued \in Nat /\ n = issued + 1 BY <1>3, RowFacts DEF n
        <5> QED BY <2>2, <5>1
      <4>3. l \in leases' BY <2>2, <2>3
      <4> QED BY <2>1, <2>2, <2>5, <2>7, <2>9, <3>1, <4>1, <4>2, <4>3
    <3>2. CASE r # s
      <4>1. worker'[r] = worker[r] /\ worker[r].at \in Leased BY <2>7, <3>2
      <4>2. /\ Lease(r) \in leases' /\ Lease(r)' = Lease(r)
            /\ Lease(r).token \in 1 .. issued /\ Lease(r).token # n
            /\ Lease(s)'.token = n
        BY <2>5, <2>7, <2>9, <3>2, <4>1 DEF Lease
      <4>3. /\ Lease(r).attempt <= Row(r).retry
            /\ Row(r).token = Lease(r).token => Row(r).retry = Lease(r).attempt
            /\ \A q \in Slots :
                 worker[q].at \in Leased /\ Lease(q).token = Lease(r).token => q = r
        BY <4>1 DEF Sound, LeasesSound
      <4>4. /\ Row(r)'.status # "none" /\ Row(r).retry <= Row(r)'.retry
            /\ Row(r)'.token = Lease(r).token =>
                 Row(r).token = Lease(r).token /\ Row(r)'.retry = Row(r).retry
        BY <2>2, <4>1, RowOfWorker
      <4>5. /\ Lease(r).attempt \in Nat /\ Row(r).retry \in Nat
            /\ Row(r)'.retry \in Nat
            /\ issued \in Nat /\ issued' \in Nat /\ issued <= issued'
        <5>1. Lease(r).task \in Tasks BY <4>1, WorkerFacts
        <5> QED BY <2>2, <4>1, <4>2, <5>1, WorkerFacts, RowFacts, MovedRow DEF Row
      <4>6. \A q \in Slots : worker'[q].at \in Leased
                               /\ Lease(q)'.token = Lease(r)'.token => q = r
        BY <2>7, <2>9, <4>2, <4>3
      <4> QED BY <4>2, <4>3, <4>4, <4>5, <4>6
    <3> QED BY <3>1, <3>2
  <2>11. ReportsSound'
    <3>1. ASSUME NEW r \in Slots, worker'[r].at = "report"
          PROVE  worker'[r] = worker[r]
      BY <2>7, <3>1
    <3> QED BY <2>2, <3>1, ReportKept DEF ReportsSound, Queue!ReportStatuses
  <2>12. Sound' BY <1>4, <2>2, <2>8, <2>10, <2>11, RowsKept DEF Sound, RestTyped
  <2>13. ASSUME Ordered PROVE Ordered'
    <3>1. \A r \in Slots : /\ worker'[r].at = "install" => worker'[r] = worker[r]
                           /\ Succeeded(r)' => worker'[r] = worker[r]
      BY <2>7 DEF Succeeded
    <3>2. ChunksSound' /\ CommitsSound'
      BY <1>4, <2>2, <2>8, <2>13, <3>1, ChunksSoundKept, CommitsKept
    <3>3. SuccessSound'
      <4> SUFFICES ASSUME NEW r \in Slots, Succeeded(r)', Current(Lease(r))'
                   PROVE  /\ installed'[Doc(r)'] = Lease(r)'.token
                          /\ \A q \in Slots :
                               worker'[q].at = "install" => Doc(q)' # Doc(r)'
        BY DEF SuccessSound
      <4>1. Succeeded(r) /\ worker'[r].lease = worker[r].lease
        BY <3>1 DEF Succeeded
      <4> QED BY <1>4, <2>2, <2>13, <3>1, <4>1, SuccessKept
    <3>4. Unspent'
      <4> SUFFICES ASSUME NEW r \in Slots, worker'[r].at \in Uncommitted,
                          NEW c \in Docs
                   PROVE  installed'[c] # Lease(r)'.token
        BY DEF Unspent
      <4>1. installed'[c] = installed[c] BY <1>4 DEF ChunksKept
      <4>2. CASE r = s
        <5>1. /\ installed[c] \in Nat /\ installed[c] <= issued /\ issued \in Nat
          BY <1>3, <2>13, RowFacts DEF Sound, TypeOK, Ordered, ChunksSound
        <5>2. Lease(r)'.token = issued + 1 BY <2>5, <2>7, <4>2 DEF Lease, n
        <5> QED BY <4>1, <5>1, <5>2
      <4>3. CASE r # s
        BY <2>7, <2>13, <4>1, <4>3 DEF Ordered, Unspent, Lease
      <4> QED BY <4>2, <4>3
    <3> QED BY <3>2, <3>3, <3>4 DEF Ordered
  <2> QED BY <1>4, <2>2, <2>8, <2>12, <2>13
<1> QED BY <1>1, <1>5, <1>6, <1>7

\* A worker that concludes what to report: a retry only if it knows of fewer
\* attempts than there may be, a cancellation of a row that stays cancelled,
\* and a success after it has committed.
LEMMA Reporting ==
    ASSUME Sound, NEW s \in Slots, worker[s].at \in {"settle", "retry"},
           NEW status \in Queue!ReportStatuses,
           Conclude(s, "report", status),
           UNCHANGED queueVars, UNCHANGED <<docs, installed, found, submitted, req>>,
           status = "done" => worker[s].at = "settle" /\ worker[s].outcome = "ok",
           status = "cancelled" => Row(s).cancel,
           status = "pending" => Queue!CanRetry(Row(s))
    PROVE  RowMoves /\ ChunksKept /\ Sound' /\ (Ordered => Ordered')
<1>1. /\ worker[s].at \in Leased
      /\ status = "pending" => Row(s).retry < MaxRetries
  BY DEF Leased, Queue!CanRetry
<1>2. UNCHANGED <<tasks, disk, leases, issued, granted>> BY DEF queueVars
<1> DEFINE w == [worker[s] EXCEPT !.at = "report", !.outcome = status]
<1>3. worker[s] \in Worker BY <1>1 DEF Sound, TypeOK, Free
<1>4. /\ w \in Worker /\ w.at = "report" /\ w.outcome = status
      /\ w.lease = worker[s].lease
  BY <1>3 DEF Worker, Queue!Status, Queue!ReportStatuses
<1>5. worker' = [worker EXCEPT ![s] = w] BY DEF Conclude
<1> HIDE DEF w
<1>6. /\ worker' \in [Slots -> Worker \cup {Free}]
      /\ worker'[s].at = "report" /\ worker'[s].outcome = status
      /\ worker'[s].lease = worker[s].lease
      /\ \A r \in Slots \ {s} : worker'[r] = worker[r]
  BY <1>4, <1>5, Rewritten
<1>7. RowMoves /\ UNCHANGED leases BY <1>2, SameRows
<1>8. RestTyped' /\ ChunksKept
  BY RestUnchanged DEF RestTyped, ChunksKept
<1>9. TypeOK' BY <1>6, <1>7, <1>8 DEF TypeOK, RestTyped, DocRow, RowMoves
<1>10. \A r \in Slots : KeepsLease(r)
  <2> SUFFICES ASSUME NEW r \in Slots PROVE KeepsLease(r)
    OBVIOUS
  <2>1. CASE r = s BY <1>1, <1>6, <1>7, <2>1, WorkerFacts DEF KeepsLease
  <2>2. CASE r # s BY <1>6, <1>7, <2>2, WorkerFacts DEF KeepsLease
  <2> QED BY <2>1, <2>2
<1>11. LeasesSound' /\ RowsSound' BY <1>7, <1>10, LeasesKept, RowsKept
<1>12. ReportsSound'
  <2> SUFFICES ASSUME NEW r \in Slots, worker'[r].at = "report"
               PROVE  /\ worker'[r].outcome \in Queue!ReportStatuses
                      /\ worker'[r].outcome = "pending" =>
                           Lease(r)'.attempt < MaxRetries
                      /\ worker'[r].outcome = "cancelled" => Row(r)'.cancel
    BY DEF ReportsSound, Queue!ReportStatuses
  <2>1. CASE r # s BY <1>6, <1>7, <2>1, ReportKept
  <2>2. CASE r = s
    <3>1. Lease(r)' = Lease(s) /\ Row(s)'.cancel = Row(s).cancel
      BY <1>2, <1>6, <2>2 DEF Lease, Row
    <3>2. status = "pending" => Lease(s).attempt < MaxRetries
      <4>1. Lease(s).attempt <= Row(s).retry
        BY <1>1 DEF Sound, LeasesSound
      <4>2. Lease(s).attempt \in Nat /\ Row(s).retry \in Nat
        BY <1>1, WorkerFacts, RowFacts DEF Row
      <4> QED BY <1>1, <4>1, <4>2
    <3> QED BY <1>1, <1>6, <2>2, <3>1, <3>2
  <2> QED BY <2>1, <2>2
<1>13. ASSUME Ordered PROVE Ordered'
  <2>1. \A r \in Slots : worker'[r].at = "install" => worker'[r] = worker[r]
    BY <1>6
  <2>2. ChunksSound' /\ CommitsSound'
    BY <1>7, <1>8, <1>9, <1>13, <2>1, ChunksSoundKept, CommitsKept
  <2>3. SuccessSound'
    <3> SUFFICES ASSUME NEW r \in Slots, Succeeded(r)', Current(Lease(r))'
                 PROVE  /\ installed'[Doc(r)'] = Lease(r)'.token
                        /\ \A q \in Slots :
                             worker'[q].at = "install" => Doc(q)' # Doc(r)'
      BY DEF SuccessSound
    <3>1. Succeeded(r) /\ worker'[r].lease = worker[r].lease
      BY <1>1, <1>6 DEF Succeeded
    <3> QED BY <1>7, <1>8, <1>13, <2>1, <3>1, SuccessKept
  <2>4. \A r \in Slots : worker'[r].at \in Uncommitted => worker'[r] = worker[r]
    BY <1>6 DEF Uncommitted
  <2>5. Unspent' BY <1>8, <1>13, <2>4, UnspentKept
  <2> QED BY <2>2, <2>3, <2>5 DEF Ordered
<1> QED BY <1>7, <1>8, <1>9, <1>11, <1>12, <1>13 DEF Sound, RestTyped

\* A worker that may retry goes on to ask; any other knows what to report.
LEMMA SettleStep ==
    ASSUME Sound, NEW s \in Slots, Settle(s)
    PROVE  RowMoves /\ ChunksKept /\ Sound' /\ (Ordered => Ordered')
<1>1. /\ worker[s].at = "settle" /\ UNCHANGED queueVars
      /\ UNCHANGED <<docs, installed, found, submitted, req>>
      /\ \/ Move(s, "retry")
         \/ \E status \in {"done", "cancelled", "failed"} :
              /\ Conclude(s, "report", status)
              /\ status = "done" => worker[s].outcome = "ok"
              /\ status = "cancelled" => Row(s).cancel
  BY DEF Settle
<1>2. CASE Move(s, "retry")
  <2>1. RowMoves /\ UNCHANGED leases BY <1>1, SameRows DEF queueVars
  <2>2. RestTyped' /\ ChunksKept
    BY <1>1, RestUnchanged DEF RestTyped, ChunksKept
  <2>3. TypeOK' /\ Ordinary
    BY <1>1, <1>2, <2>1, <2>2, Moved DEF Places, Leased, Uncommitted
  <2> QED BY <2>1, <2>2, <2>3, OrdinaryStep
<1>3. ASSUME NEW status \in {"done", "cancelled", "failed"},
             Conclude(s, "report", status),
             status = "done" => worker[s].outcome = "ok",
             status = "cancelled" => Row(s).cancel
      PROVE  RowMoves /\ ChunksKept /\ Sound' /\ (Ordered => Ordered')
  <2>1. status \in Queue!ReportStatuses /\ status # "pending"
    BY DEF Queue!ReportStatuses
  <2> QED BY <1>1, <1>3, <2>1, Reporting
<1> QED BY <1>1, <1>2, <1>3

LEMMA RetryStep ==
    ASSUME Sound, NEW s \in Slots, Retry(s)
    PROVE  RowMoves /\ ChunksKept /\ Sound' /\ (Ordered => Ordered')
<1> DEFINE status == IF Queue!CanRetry(Row(s)) THEN "pending" ELSE "failed"
<1>1. /\ worker[s].at = "retry" /\ UNCHANGED queueVars
      /\ UNCHANGED <<docs, installed, found, submitted, req>>
      /\ Conclude(s, "report", status)
  BY DEF Retry
<1>2. /\ status \in Queue!ReportStatuses
      /\ status \notin {"done", "cancelled"}
      /\ status = "pending" => Queue!CanRetry(Row(s))
  BY DEF Queue!ReportStatuses
<1> HIDE DEF status
<1> QED BY <1>1, <1>2, Reporting

\* Who may commit has the only live row of the document, so that no other
\* worker that has committed the document is still under its lease.
LEMMA LockStep ==
    ASSUME Sound, NEW s \in Slots, Lock(s)
    PROVE  RowMoves /\ ChunksKept /\ Sound' /\ (Ordered => Ordered')
<1>1. /\ worker[s].at = "commit" /\ LockFree
      /\ UNCHANGED queueVars /\ UNCHANGED <<docs, installed, found, submitted, req>>
      /\ \/ MayCommit(s) /\ Move(s, "install")
         \/ Conclude(s, "settle", "retryable")
  BY DEF Lock
<1>2. RowMoves /\ UNCHANGED leases BY <1>1, SameRows DEF queueVars
<1>3. RestTyped' /\ ChunksKept
  BY <1>1, RestUnchanged DEF RestTyped, ChunksKept
<1>4. CASE Conclude(s, "settle", "retryable")
  <2>1. TypeOK' /\ Ordinary
    BY <1>1, <1>2, <1>3, <1>4, Concluded DEF Leased
  <2> QED BY <1>2, <1>3, <2>1, OrdinaryStep
<1>5. CASE MayCommit(s) /\ Move(s, "install")
  <2> DEFINE w == [worker[s] EXCEPT !.at = "install"]
  <2>1. worker[s] \in Worker BY <1>1 DEF Sound, TypeOK, Free
  <2>2. w \in Worker /\ w.at = "install" /\ w.lease = worker[s].lease
    BY <2>1 DEF Worker
  <2>3. worker' = [worker EXCEPT ![s] = w] BY <1>5 DEF Move
  <2> HIDE DEF w
  <2>4. /\ worker' \in [Slots -> Worker \cup {Free}]
        /\ worker'[s].at = "install" /\ worker'[s].lease = worker[s].lease
        /\ \A r \in Slots \ {s} : worker'[r] = worker[r]
    BY <2>2, <2>3, Rewritten
  <2>5. worker[s].at \in Leased BY <1>1 DEF Leased
  <2>6. TypeOK' BY <1>2, <1>3, <2>4 DEF TypeOK, RestTyped, DocRow, RowMoves
  <2>7. \A r \in Slots : KeepsLease(r)
    <3> SUFFICES ASSUME NEW r \in Slots PROVE KeepsLease(r)
      OBVIOUS
    <3>1. CASE r = s BY <1>2, <2>4, <2>5, <3>1, WorkerFacts DEF KeepsLease
    <3>2. CASE r # s BY <1>2, <2>4, <3>2, WorkerFacts DEF KeepsLease
    <3> QED BY <3>1, <3>2
  <2>8. LeasesSound' /\ RowsSound' BY <1>2, <2>7, LeasesKept, RowsKept
  <2>9. ReportsSound'
    <3>1. ASSUME NEW r \in Slots, worker'[r].at = "report"
          PROVE  worker'[r] = worker[r]
      BY <2>4, <3>1
    <3> QED BY <1>2, <3>1, ReportKept DEF ReportsSound, Queue!ReportStatuses
  <2>10. Sound' BY <1>3, <2>6, <2>8, <2>9 DEF Sound, RestTyped
  <2>11. Lease(s)' = Lease(s) /\ Doc(s)' = Doc(s) /\ Doc(s) \in Docs
    BY <1>2, <2>4, <2>5, WorkerFacts, RowOfWorker
  <2>12. /\ Lease(s).task \in Tasks /\ Row(s).status = "running"
         /\ Row(s).token = Lease(s).token
    BY <1>5, <2>5, WorkerFacts DEF MayCommit, Queue!Owns, Queue!Holds, Row
  <2>13. \A t \in Tasks : Live(tasks[t]) /\ tasks[t].subject = Doc(s) =>
           t = Lease(s).task
    BY <2>12 DEF Sound, RowsSound, Live, Row, Doc
  <2>14. UNCHANGED <<tasks, issued, installed>> BY <1>1 DEF queueVars
  <2>15. ASSUME Ordered PROVE Ordered'
    <3>1. ChunksSound' BY <1>2, <1>3, <2>6, <2>15, ChunksSoundKept
    <3>2. CommitsSound'
      <4> SUFFICES ASSUME NEW r \in Slots, worker'[r].at = "install"
                   PROVE  /\ \A q \in Slots : worker'[q].at = "install" => q = r
                          /\ Doc(r)' \in Docs => installed'[Doc(r)'] <= Lease(r)'.token
                          /\ \A t \in Tasks :
                               tasks'[t].status = "running"
                                 /\ tasks'[t].subject = Doc(r)' =>
                                 Lease(r)'.token <= tasks'[t].token
        BY DEF CommitsSound
      <4>1. \A q \in Slots : worker'[q].at = "install" => q = s
        BY <1>1, <2>4 DEF LockFree
      <4>2. r = s BY <4>1
      <4>3. installed[Doc(s)] <= Lease(s).token
        BY <2>11, <2>12, <2>15 DEF Ordered, ChunksSound, Row, Doc
      <4>4. \A t \in Tasks : tasks[t].status = "running" /\ tasks[t].subject = Doc(s)
                => Lease(s).token <= tasks[t].token
        <5>1. Lease(s).token \in Nat BY <2>5, WorkerFacts, RowFacts
        <5> QED BY <2>12, <2>13, <5>1 DEF Live, Row
      <4> QED BY <2>11, <2>14, <4>1, <4>2, <4>3, <4>4
    <3>3. SuccessSound'
      <4> SUFFICES ASSUME NEW r \in Slots, Succeeded(r)', Current(Lease(r))'
                   PROVE  /\ installed'[Doc(r)'] = Lease(r)'.token
                          /\ \A q \in Slots :
                               worker'[q].at = "install" => Doc(q)' # Doc(r)'
        BY DEF SuccessSound
      <4>1. /\ r # s /\ Succeeded(r) /\ worker'[r] = worker[r]
            /\ worker[r].at \in Leased
        BY <2>4 DEF Succeeded, Leased
      <4>2. /\ Lease(r)' = Lease(r) /\ Doc(r)' = Doc(r)
            /\ Current(Lease(r)) /\ Lease(r).task \in Tasks
        BY <1>2, <4>1, RowOfWorker, WorkerFacts
      <4>3. installed[Doc(r)] = Lease(r).token
        BY <2>15, <4>1, <4>2 DEF Ordered, SuccessSound
      <4>4. Doc(r) # Doc(s)
        <5>1. SUFFICES ASSUME Doc(r) = Doc(s) PROVE FALSE
          OBVIOUS
        <5>2. Lease(r).task = Lease(s).task
          BY <2>13, <4>2, <5>1 DEF Current, Live, Doc, Row
        <5>3. Lease(r).token = Lease(s).token
          BY <2>12, <4>2, <5>2 DEF Current, Row
        <5> QED BY <2>5, <4>1, <5>3 DEF Sound, LeasesSound
      <4>5. \A q \in Slots : worker'[q].at = "install" => q = s
        BY <1>1, <2>4 DEF LockFree
      <4> QED BY <2>11, <2>14, <4>2, <4>3, <4>4, <4>5
    <3>4. \A r \in Slots : worker'[r].at \in Uncommitted =>
            worker[r].at \in Uncommitted /\ worker'[r].lease = worker[r].lease
      BY <1>1, <2>4 DEF Uncommitted
    <3>5. Unspent' BY <1>3, <2>15, <3>4, UnspentKept
    <3> QED BY <3>1, <3>2, <3>3, <3>5 DEF Ordered
  <2> QED BY <1>2, <1>3, <2>10, <2>15
<1> QED BY <1>1, <1>4, <1>5

\* The chunks that are installed are newer than those there were, and no newer
\* than any claim the document's row is under.
LEMMA InstallStep ==
    ASSUME Sound, NEW s \in Slots, NEW ok \in BOOLEAN, Install(s, ok)
    PROVE  /\ RowMoves /\ Sound' /\ (Ordered => Ordered')
           /\ Ordered => NewestWinsStep
<1> DEFINE d == Doc(s)
           n == Lease(s).token
<1>1. /\ worker[s].at = "install" /\ worker[s].at \in Leased
      /\ UNCHANGED queueVars /\ UNCHANGED <<submitted, req>>
      /\ \/ /\ installed' = [installed EXCEPT ![d] = n]
            /\ found' = [found EXCEPT ![d] = TRUE]
            /\ docs' = Marked(d, "DONE", TRUE)
            /\ Conclude(s, "settle", "ok")
         \/ Conclude(s, "settle", "retryable") /\ UNCHANGED <<installed, found, docs>>
  BY DEF Install, Leased
<1>2. RowMoves /\ UNCHANGED leases BY <1>1, SameRows DEF queueVars
<1>3. installed \in [Docs -> Nat] BY DEF Sound, TypeOK
<1>4. CASE Conclude(s, "settle", "retryable") /\ UNCHANGED <<installed, found, docs>>
  <2>1. RestTyped' /\ ChunksKept
    BY <1>1, <1>4, RestUnchanged DEF RestTyped, ChunksKept
  <2>2. TypeOK' /\ Ordinary BY <1>1, <1>2, <1>4, <2>1, Concluded
  <2> QED BY <1>2, <1>3, <1>4, <2>2, OrdinaryStep DEF NewestWinsStep
<1>5. CASE /\ installed' = [installed EXCEPT ![d] = n]
           /\ found' = [found EXCEPT ![d] = TRUE]
           /\ docs' = Marked(d, "DONE", TRUE)
           /\ Conclude(s, "settle", "ok")
  <2> DEFINE w == [worker[s] EXCEPT !.at = "settle", !.outcome = "ok"]
  <2>1. worker[s] \in Worker BY <1>1 DEF Sound, TypeOK, Free
  <2>2. /\ w \in Worker /\ w.at = "settle" /\ w.outcome = "ok"
        /\ w.lease = worker[s].lease
    BY <2>1 DEF Worker
  <2>3. worker' = [worker EXCEPT ![s] = w] BY <1>5 DEF Conclude
  <2> HIDE DEF w
  <2>4. /\ worker' \in [Slots -> Worker \cup {Free}]
        /\ worker'[s].at = "settle" /\ worker'[s].lease = worker[s].lease
        /\ \A r \in Slots \ {s} : worker'[r] = worker[r]
    BY <2>2, <2>3, Rewritten
  <2>5. d \in Docs /\ n \in Nat /\ n <= issued /\ issued \in Nat
    BY <1>1, WorkerFacts, RowFacts
  <2>6. /\ docs' \in [Docs -> DocRow]
        /\ installed' \in [Docs -> Nat]
        /\ found' \in [Docs -> BOOLEAN]
        /\ \A c \in Docs \ {d} : found'[c] = found[c]
        /\ installed'[d] = n
        /\ \A c \in Docs \ {d} : installed'[c] = installed[c]
    BY <1>3, <1>5, <2>5, MarkedTyped DEF RunStatus, Sound, TypeOK
  <2>7. RestTyped' BY <1>1, <2>6, RestUnchanged DEF RestTyped
  <2>8. TypeOK' BY <1>2, <2>4, <2>7 DEF TypeOK, RestTyped, DocRow, RowMoves
  <2>9. \A r \in Slots : KeepsLease(r)
    <3> SUFFICES ASSUME NEW r \in Slots PROVE KeepsLease(r)
      OBVIOUS
    <3>1. CASE r = s BY <1>1, <1>2, <2>4, <3>1, WorkerFacts DEF KeepsLease
    <3>2. CASE r # s BY <1>2, <2>4, <3>2, WorkerFacts DEF KeepsLease
    <3> QED BY <3>1, <3>2
  <2>10. LeasesSound' /\ RowsSound' BY <1>2, <2>9, LeasesKept, RowsKept
  <2>11. ReportsSound'
    <3>1. ASSUME NEW r \in Slots, worker'[r].at = "report"
          PROVE  worker'[r] = worker[r]
      BY <2>4, <3>1
    <3> QED BY <1>2, <3>1, ReportKept DEF ReportsSound, Queue!ReportStatuses
  <2>12. Sound' BY <2>7, <2>8, <2>10, <2>11 DEF Sound, RestTyped
  <2>13. /\ UNCHANGED <<tasks, issued>>
         /\ Lease(s)' = Lease(s) /\ Doc(s)' = Doc(s)
    BY <1>1, <1>2, <2>4, RowOfWorker DEF queueVars
  <2>14. ASSUME Ordered
         PROVE  /\ installed[d] <= n
                /\ \A r \in Slots : worker[r].at = "install" => r = s
                /\ \A t \in Tasks :
                     tasks[t].status = "running" /\ tasks[t].subject = d =>
                       n <= tasks[t].token
    BY <1>1, <2>5, <2>14 DEF Ordered, CommitsSound
  <2>15. ASSUME Ordered PROVE Ordered'
    <3>1. \A r \in Slots : worker'[r].at # "install"
      BY <2>4, <2>14, <2>15
    <3>2. CommitsSound' BY <3>1 DEF CommitsSound
    <3>3. ChunksSound'
      BY <2>5, <2>6, <2>13, <2>14, <2>15 DEF Ordered, ChunksSound
    <3>4. SuccessSound'
      <4> SUFFICES ASSUME NEW r \in Slots, Succeeded(r)', Current(Lease(r))'
                   PROVE  /\ installed'[Doc(r)'] = Lease(r)'.token
                          /\ \A q \in Slots :
                               worker'[q].at = "install" => Doc(q)' # Doc(r)'
        BY DEF SuccessSound
      <4>1. CASE r = s BY <2>6, <2>13, <3>1, <4>1
      <4>2. CASE r # s
        <5>1. /\ worker'[r] = worker[r] /\ Succeeded(r)
              /\ worker[r].at \in Leased
          BY <2>4, <4>2 DEF Succeeded, Leased
        <5>2. /\ Lease(r)' = Lease(r) /\ Doc(r)' = Doc(r) /\ Doc(r) \in Docs
              /\ Current(Lease(r))
          BY <1>2, <5>1, RowOfWorker, WorkerFacts
        <5>3. installed[Doc(r)] = Lease(r).token /\ Doc(r) # d
          BY <1>1, <2>15, <5>1, <5>2 DEF Ordered, SuccessSound
        <5> QED BY <2>6, <3>1, <5>2, <5>3
      <4> QED BY <4>1, <4>2
    <3>5. Unspent'
      <4> SUFFICES ASSUME NEW r \in Slots, worker'[r].at \in Uncommitted,
                          NEW c \in Docs
                   PROVE  installed'[c] # Lease(r)'.token
        BY DEF Unspent
      <4>1. /\ r # s /\ Lease(r)' = Lease(r)
            /\ worker[r].at \in Uncommitted /\ worker[r].at \in Leased
        BY <2>4 DEF Uncommitted, Leased, Lease
      <4>2. CASE c = d BY <1>1, <2>6, <4>1, <4>2 DEF Sound, LeasesSound
      <4>3. CASE c # d BY <2>6, <2>15, <4>1, <4>3 DEF Ordered, Unspent
      <4> QED BY <4>2, <4>3
    <3> QED BY <3>2, <3>3, <3>4, <3>5 DEF Ordered
  <2>16. ASSUME Ordered PROVE NewestWinsStep
    <3> SUFFICES ASSUME NEW c \in Docs
                 PROVE  /\ installed'[c] >= installed[c]
                        /\ found'[c] /\ ~found[c] => installed'[c] > installed[c]
      BY DEF NewestWinsStep
    <3>1. installed[c] \in Nat BY <1>3
    <3>2. CASE c = d
      <4>1. installed[d] # n
        BY <1>1, <2>5, <2>16 DEF Ordered, Unspent, Uncommitted
      <4> QED BY <2>5, <2>6, <2>14, <2>16, <3>1, <3>2, <4>1
    <3>3. CASE c # d BY <2>6, <3>1, <3>3
    <3> QED BY <3>2, <3>3
  <2> QED BY <1>2, <2>12, <2>15, <2>16
<1> QED BY <1>1, <1>4, <1>5

-----------------------------------------------------------------------------
(* The requests *)

\* A request that goes on, and that has its row if it will need it.
LEMMA RequestMoves ==
    ASSUME Sound, NEW h \in Handlers, NEW r \in Request \cup {Idle},
           req' = [req EXCEPT ![h] = r],
           HasQueued(r) => r.task \in Tasks
    PROVE  req' \in [Handlers -> Request \cup {Idle}] /\ RequestsSound'
<1>1. req \in [Handlers -> Request \cup {Idle}] /\ RequestsSound
  BY DEF Sound, TypeOK
<1>2. req'[h] = r /\ \A g \in Handlers \ {h} : req'[g] = req[g] BY <1>1
<1>3. RequestsSound'
  <2> SUFFICES ASSUME NEW g \in Handlers, HasQueued(req'[g])
               PROVE  req'[g].task \in Tasks
    BY DEF RequestsSound, HasQueued
  <2>1. CASE g = h BY <1>2, <2>1
  <2>2. CASE g # h BY <1>1, <1>2, <2>2 DEF RequestsSound
  <2> QED BY <2>1, <2>2
<1> QED BY <1>1, <1>3

LEMMA ReqTyped ==
    ASSUME Sound, NEW h \in Handlers, req[h] # Idle,
           NEW at \in {"push", "status", "revoke", "undo", "cancel", "look",
                       "mark", "remove"},
           at \in {"status", "revoke"} => req[h].task \in Tasks,
           Go(h, at) \/ Finish(h)
    PROVE  req' \in [Handlers -> Request \cup {Idle}] /\ RequestsSound'
<1>1. req[h] \in Request BY DEF Sound, TypeOK
<1> DEFINE r == [req[h] EXCEPT !.at = at]
<1>2. r \in Request /\ r.at = at /\ r.task = req[h].task BY <1>1 DEF Request
<1>3. Go(h, at) => req' = [req EXCEPT ![h] = r] BY DEF Go
<1> HIDE DEF r
<1>4. CASE Go(h, at) BY <1>2, <1>3, <1>4, RequestMoves DEF HasQueued
<1>5. CASE Finish(h) BY <1>5, RequestMoves DEF Finish, HasQueued
<1> QED BY <1>4, <1>5

LEMMA RequestFacts ==
    ASSUME Sound, NEW h \in Handlers, req[h] # Idle
    PROVE  /\ req[h] \in Request /\ req[h].doc \in Docs
           /\ HasQueued(req[h]) => req[h].task \in Tasks
<1>1. req[h] \in Request BY DEF Sound, TypeOK
<1> QED BY <1>1 DEF Request, Sound, RequestsSound

LEMMA UploadStep ==
    ASSUME Sound, NEW h \in Handlers, NEW d \in Docs, Upload(h, d) \/ Accept(h, d)
    PROVE  TypeOK' /\ Ordinary
<1>1. /\ \E kind \in {"upload", "parse", "stop", "cancel", "delete", "redo", "reset"},
            at \in {"push", "cancel", "remove", "status"} :
              /\ at = "status" => kind = "reset"
              /\ req' = [req EXCEPT ![h] = [kind |-> kind, doc |-> d,
                                            task |-> Queue!NoToken, at |-> at]]
      /\ UNCHANGED queueVars /\ UNCHANGED <<installed, found, submitted, worker>>
      /\ docs' \in {docs, [docs EXCEPT ![d].state = "present"]}
  BY DEF Upload, Accept, Start
<1>2. req' \in [Handlers -> Request \cup {Idle}] /\ RequestsSound'
  <2>1. PICK kind \in {"upload", "parse", "stop", "cancel", "delete", "redo", "reset"},
             at \in {"push", "cancel", "remove", "status"} :
              /\ at = "status" => kind = "reset"
              /\ req' = [req EXCEPT ![h] = [kind |-> kind, doc |-> d,
                                            task |-> Queue!NoToken, at |-> at]]
    BY <1>1
  <2> DEFINE r == [kind |-> kind, doc |-> d, task |-> Queue!NoToken, at |-> at]
  <2>2. r \in Request /\ r.at = at /\ r.kind = kind BY DEF Request
  <2> HIDE DEF r
  <2>3. req' = [req EXCEPT ![h] = r] BY <2>1 DEF r
  <2> QED BY <2>1, <2>2, <2>3, RequestMoves DEF HasQueued
<1>3. docs' \in [Docs -> DocRow]
  <2>1. docs \in [Docs -> DocRow] BY RestUnchanged DEF RestTyped
  <2>2. [docs[d] EXCEPT !.state = "present"] \in DocRow BY <2>1 DEF DocRow
  <2>3. [docs EXCEPT ![d].state = "present"]
          = [docs EXCEPT ![d] = [docs[d] EXCEPT !.state = "present"]]
    OBVIOUS
  <2> QED BY <1>1, <2>1, <2>2, <2>3
<1>4. RowMoves /\ UNCHANGED leases BY <1>1, SameRows DEF queueVars
<1>5. RestTyped' /\ ChunksKept
  BY <1>1, <1>2, <1>3, RestUnchanged DEF RestTyped, ChunksKept
<1> QED BY <1>1, <1>4, <1>5, WorkersStay

LEMMA PushStep ==
    ASSUME Sound, NEW h \in Handlers, NEW t \in Tasks, NEW ok \in BOOLEAN,
           Push(h, t, ok)
    PROVE  TypeOK' /\ Ordinary
<1> DEFINE pushed == [req[h] EXCEPT !.task = t, !.at = "status"]
           undone == [req[h] EXCEPT !.at = "undo"]
<1>1. /\ req[h] # Idle /\ UNCHANGED <<docs, installed, found, worker>>
      /\ \/ /\ submitted' = submitted \cup {t} /\ Finish(h)
            /\ UNCHANGED queueVars
         \/ /\ Queue!PushDocument(req[h].doc, t, 0, ok) /\ UNCHANGED submitted
            /\ \/ req' = [req EXCEPT ![h] = pushed]
               \/ req' = [req EXCEPT ![h] = undone]
               \/ req' = [req EXCEPT ![h] = Idle]
  BY DEF Push, At
<1>2. req[h] \in Request /\ req \in [Handlers -> Request \cup {Idle}]
  BY <1>1 DEF Sound, TypeOK
<1>3. /\ pushed \in Request /\ pushed.task = t
      /\ undone \in Request /\ undone.at = "undo" /\ req[h].doc \in Docs
  BY <1>2 DEF Request
<1> HIDE DEF pushed, undone
<1>4. req' \in [Handlers -> Request \cup {Idle}] /\ RequestsSound'
  BY <1>1, <1>2, <1>3, RequestMoves DEF Finish, HasQueued
<1>5. RowMoves /\ UNCHANGED leases
  BY <1>1, <1>3, SameRows, PushMoves DEF queueVars, Queue!PushDocument
<1>6. RestTyped' /\ ChunksKept
  BY <1>1, <1>4, RestUnchanged DEF RestTyped, ChunksKept
<1> QED BY <1>1, <1>5, <1>6, WorkersStay

\* The steps of requests that rewrite no row and no chunk.
LEMMA StatusStep ==
    ASSUME Sound, NEW h \in Handlers, NEW ok \in BOOLEAN,
           \/ QueuedStatus(h, ok) \/ Undo(h, ok) \/ Look(h) \/ MarkCancelled(h, ok)
           \/ ResetStatus(h, ok)
    PROVE  TypeOK' /\ Ordinary
<1>1. /\ req[h] # Idle /\ UNCHANGED queueVars /\ UNCHANGED <<installed, found, worker>>
      /\ \/ Finish(h) \/ Go(h, "mark") \/ Go(h, "remove")
         \/ Go(h, "revoke") /\ req[h].kind # "reset" /\ req[h].at = "status"
  BY DEF QueuedStatus, Undo, Look, MarkCancelled, ResetStatus, At
<1>2. req' \in [Handlers -> Request \cup {Idle}] /\ RequestsSound'
  <2>1. CASE Finish(h) \/ Go(h, "mark") BY <1>1, <2>1, ReqTyped
  <2>2. CASE Go(h, "remove") BY <1>1, <2>2, ReqTyped
  <2>3. CASE Go(h, "revoke") /\ req[h].kind # "reset" /\ req[h].at = "status"
    BY <1>1, <2>3, RequestFacts, ReqTyped DEF HasQueued
  <2> QED BY <1>1, <2>1, <2>2, <2>3
<1>3. docs' \in [Docs -> DocRow] /\ submitted' \subseteq Tasks
  <2>1. docs \in [Docs -> DocRow] /\ submitted \subseteq Tasks
    BY RestUnchanged DEF RestTyped
  <2>2. req[h].doc \in Docs BY <1>1, RequestFacts
  <2>3. CASE QueuedStatus(h, ok)
    <3>1. /\ docs' = Marked(req[h].doc, "UNSTARTED", ok)
          /\ req[h].kind # "reset" /\ req[h].at = "status"
          /\ submitted' \in {submitted, submitted \cup {req[h].task}}
      BY <2>3 DEF QueuedStatus, At
    <3> QED
      BY <1>1, <2>1, <3>1, MarkedTyped, RequestFacts DEF RunStatus, HasQueued
  <2>4. CASE Undo(h, ok)
    <3> DEFINE d == req[h].doc
    <3>1. docs' \in {docs, [docs EXCEPT ![d].state = "undone"]}
      BY <2>4 DEF Undo
    <3>2. [docs[d] EXCEPT !.state = "undone"] \in DocRow
      BY <2>1, <2>2 DEF DocRow
    <3>3. [docs EXCEPT ![d].state = "undone"]
            = [docs EXCEPT ![d] = [docs[d] EXCEPT !.state = "undone"]]
      OBVIOUS
    <3>4. submitted' = submitted BY <2>4 DEF Undo
    <3> QED BY <2>1, <3>1, <3>2, <3>3, <3>4
  <2>5. CASE Look(h) BY <2>1, <2>5 DEF Look
  <2>6. CASE MarkCancelled(h, ok)
    BY <2>1, <2>6, MarkedTyped DEF MarkCancelled, RunStatus
  <2>7. CASE ResetStatus(h, ok)
    BY <2>1, <2>7, MarkedTyped DEF ResetStatus, RunStatus
  <2> QED BY <2>3, <2>4, <2>5, <2>6, <2>7
<1>4. RowMoves /\ UNCHANGED leases BY <1>1, SameRows DEF queueVars
<1>5. RestTyped' /\ ChunksKept
  BY <1>1, <1>2, <1>3, RestUnchanged DEF RestTyped, ChunksKept
<1> QED BY <1>1, <1>4, <1>5, WorkersStay

\* What Revoke, CancelDocument and CancelTask do to the rows.
LEMMA CancelledQueue ==
    ASSUME Sound, NEW h \in Handlers, NEW ok \in BOOLEAN,
           \/ Revoke(h, ok) \/ CancelDocument(h, ok)
           \/ \E t \in Tasks : CancelTask(h, t, ok)
    PROVE  \/ UNCHANGED queueVars
           \/ \E t \in Tasks : Queue!RequestCancel(t, ok)
           \/ Queue!CancelSubject(req[h].doc, ok)
<1>1. CASE Revoke(h, ok)
  <2>1. req[h] # Idle /\ req[h].at = "revoke" BY <1>1 DEF Revoke, At
  <2>2. req[h].task \in Tasks BY <2>1, RequestFacts DEF HasQueued
  <2> QED BY <1>1, <2>2 DEF Revoke, CancelRow
<1>2. CASE CancelDocument(h, ok) BY <1>2 DEF CancelDocument, CancelRows
<1>3. CASE \E t \in Tasks : CancelTask(h, t, ok)
  BY <1>3 DEF CancelTask, CancelRow
<1> QED BY <1>1, <1>2, <1>3

\* The steps of requests that cancel rows.
LEMMA CancellingStep ==
    ASSUME Sound, NEW h \in Handlers, NEW ok \in BOOLEAN,
           \/ Revoke(h, ok) \/ CancelDocument(h, ok)
           \/ \E t \in Tasks : CancelTask(h, t, ok)
    PROVE  TypeOK' /\ Ordinary
<1>1. /\ req[h] # Idle /\ UNCHANGED <<docs, installed, found, submitted, worker>>
      /\ Finish(h) \/ Go(h, "undo") \/ Go(h, "mark") \/ Go(h, "look")
  BY DEF Revoke, CancelDocument, CancelTask, At
<1>2. req' \in [Handlers -> Request \cup {Idle}] /\ RequestsSound'
  <2>1. CASE Finish(h) \/ Go(h, "undo") BY <1>1, <2>1, ReqTyped
  <2>2. CASE Go(h, "mark") BY <1>1, <2>2, ReqTyped
  <2>3. CASE Go(h, "look") BY <1>1, <2>3, ReqTyped
  <2> QED BY <1>1, <2>1, <2>2, <2>3
<1>3. \/ UNCHANGED queueVars
      \/ \E t \in Tasks : Queue!RequestCancel(t, ok)
      \/ Queue!CancelSubject(req[h].doc, ok)
  BY CancelledQueue
<1>4. RowMoves /\ UNCHANGED leases
  BY <1>3, SameRows, RequestCancelMoves, CancelSubjectMoves DEF queueVars
<1>5. RestTyped' /\ ChunksKept
  BY <1>1, <1>2, RestUnchanged DEF RestTyped, ChunksKept
<1> QED BY <1>1, <1>4, <1>5, WorkersStay

\* A deletion and a reset remove the chunks of their document.
LEMMA RemovalStep ==
    ASSUME Sound, NEW h \in Handlers, NEW ok \in BOOLEAN,
           Delete(h, ok) \/ ResetChunks(h, ok)
    PROVE  TypeOK' /\ Ordinary
<1> DEFINE d == req[h].doc
<1>1. /\ req[h] # Idle /\ UNCHANGED queueVars /\ UNCHANGED <<submitted, worker>>
      /\ Finish(h) \/ Go(h, "cancel")
      /\ UNCHANGED installed /\ found' \in {found, [found EXCEPT ![d] = FALSE]}
      /\ docs' \in {docs, [docs EXCEPT ![d].state = "deleted"]}
  BY DEF Delete, ResetChunks, At
<1>2. req' \in [Handlers -> Request \cup {Idle}] /\ RequestsSound'
  BY <1>1, ReqTyped
<1>3. d \in Docs BY <1>1, RequestFacts
<1>4. /\ docs \in [Docs -> DocRow] /\ installed \in [Docs -> Nat]
      /\ found \in [Docs -> BOOLEAN]
  BY RestUnchanged DEF RestTyped
<1> HIDE DEF d
<1>5. docs' \in [Docs -> DocRow]
  <2>1. [docs[d] EXCEPT !.state = "deleted"] \in DocRow
    BY <1>3, <1>4 DEF DocRow
  <2>2. [docs EXCEPT ![d].state = "deleted"]
          = [docs EXCEPT ![d] = [docs[d] EXCEPT !.state = "deleted"]]
    OBVIOUS
  <2> QED BY <1>1, <1>4, <2>1, <2>2
<1>6. installed' \in [Docs -> Nat] /\ found' \in [Docs -> BOOLEAN] /\ ChunksKept
  BY <1>1, <1>3, <1>4 DEF ChunksKept
<1>7. RowMoves /\ UNCHANGED leases BY <1>1, SameRows DEF queueVars
<1>8. submitted' \subseteq Tasks BY <1>1, RestUnchanged DEF RestTyped
<1>9. RestTyped' BY <1>2, <1>5, <1>6, <1>8 DEF RestTyped
<1> QED BY <1>1, <1>6, <1>7, <1>9, WorkersStay

-----------------------------------------------------------------------------
(* Time, restarts and the whole *)

LEMMA TickStep == ASSUME Sound, Tick PROVE TypeOK' /\ Ordinary
<1>1. Queue!Tick /\ UNCHANGED <<docs, installed, found, submitted, worker, req>>
  BY DEF Tick
<1>2. RowMoves /\ UNCHANGED leases BY <1>1, TickMoves
<1>3. RestTyped' /\ ChunksKept
  BY <1>1, RestUnchanged DEF RestTyped, ChunksKept
<1> QED BY <1>1, <1>2, <1>3, WorkersStay

LEMMA RestartStep == ASSUME Sound, Restart PROVE TypeOK' /\ Ordinary
<1>1. /\ Queue!Restart /\ submitted' = {}
      /\ worker' = [s \in Slots |-> Free] /\ req' = [h \in Handlers |-> Idle]
      /\ UNCHANGED <<docs, installed, found>>
  BY DEF Restart
<1>2. RowMoves BY <1>1, RestartMoves
<1>3. RequestsSound' BY <1>1 DEF RequestsSound, HasQueued
<1>4. RestTyped' /\ ChunksKept
  BY <1>1, <1>3, RestUnchanged DEF RestTyped, ChunksKept
<1>5. TypeOK' BY <1>1, <1>2, <1>4 DEF TypeOK, RestTyped, DocRow, RowMoves
<1>6. \A s \in Slots : worker'[s].at = "free" BY <1>1 DEF Free
<1>7. \A s \in Slots : OrdinaryMove(s)
  BY <1>6 DEF OrdinaryMove, KeepsLease, Leased, Uncommitted
<1> QED BY <1>2, <1>3, <1>4, <1>5, <1>7 DEF Ordinary

\* What every step keeps.
Steady ==
    /\ RowMoves
    /\ Sound'
    /\ Ordered => Ordered'
    /\ Ordered => NewestWinsStep

LEMMA ChunksStay ==
    ASSUME Sound, RowMoves, ChunksKept, Sound', Ordered => Ordered'
    PROVE  Steady
<1>1. installed \in [Docs -> Nat] BY DEF Sound, TypeOK
<1> QED BY <1>1 DEF Steady, ChunksKept, NewestWinsStep

LEMMA OrdinarySteady == ASSUME Sound, TypeOK', Ordinary PROVE Steady
BY OrdinaryStep, ChunksStay DEF Ordinary

LEMMA WorkerSteady ==
    ASSUME Sound, NEW s \in Slots, NEW ok \in BOOLEAN,
           Step(s, ok) \/ Heartbeat(s, ok)
    PROVE  Steady
<1>1. CASE Vet(s, ok) BY <1>1, VetStep, OrdinarySteady
<1>2. CASE Claim(s, ok) BY <1>2, ClaimStep, ChunksStay
<1>3. CASE Begin(s, ok) BY <1>3, BeginStep, OrdinarySteady
<1>4. CASE RenewForCommit(s, ok) BY <1>4, RenewForCommitStep, OrdinarySteady
<1>5. CASE Install(s, ok) BY <1>5, InstallStep DEF Steady
<1>6. CASE Report(s, ok) BY <1>6, ReportStep, OrdinarySteady
<1>7. CASE Mark(s, ok) BY <1>7, MarkStep, OrdinarySteady
<1>8. CASE Check(s) BY <1>8, CheckStep, OrdinarySteady
<1>9. CASE Lock(s) BY <1>9, LockStep, ChunksStay
<1>10. CASE Settle(s) \/ Retry(s) BY <1>10, SettleStep, RetryStep, ChunksStay
<1>11. CASE \E outcome \in {"ok", "retryable", "permanent"} : Parse(s, outcome)
  BY <1>11, ParseStep, OrdinarySteady
<1>12. CASE Heartbeat(s, ok) BY <1>12, HeartbeatStep, OrdinarySteady
<1> QED BY <1>1, <1>2, <1>3, <1>4, <1>5, <1>6, <1>7, <1>8, <1>9, <1>10, <1>11, <1>12
     DEF Step

LEMMA RequestSteady ==
    ASSUME Sound, NEW h \in Handlers, NEW ok \in BOOLEAN, Serve(h, ok)
    PROVE  Steady
<1>1. CASE \/ QueuedStatus(h, ok) \/ Undo(h, ok) \/ Look(h) \/ MarkCancelled(h, ok)
           \/ ResetStatus(h, ok)
  BY <1>1, StatusStep, OrdinarySteady
<1>2. CASE \/ Revoke(h, ok) \/ CancelDocument(h, ok)
           \/ \E t \in Tasks : CancelTask(h, t, ok)
  BY <1>2, CancellingStep, OrdinarySteady
<1>3. CASE Delete(h, ok) \/ ResetChunks(h, ok)
  BY <1>3, RemovalStep, OrdinarySteady
<1>4. CASE \E t \in Tasks : Push(h, t, ok)
  BY <1>4, PushStep, OrdinarySteady
<1> QED BY <1>1, <1>2, <1>3, <1>4 DEF Serve

LEMMA NextSteady == ASSUME Sound, [Next]_vars PROVE Steady
<1>1. ASSUME NEW s \in DispatcherSlots, NEW t \in Tasks, Dispatch(s, t) PROVE Steady
  BY <1>1, DispatchStep, OrdinarySteady DEF Slots
<1>2. ASSUME NEW s \in ExecutorSlots, NEW t \in Tasks, Take(s, t) PROVE Steady
  BY <1>2, TakeStep, OrdinarySteady DEF Slots
<1>3. ASSUME NEW h \in Handlers, NEW d \in Docs, Upload(h, d) \/ Accept(h, d)
      PROVE Steady
  BY <1>3, UploadStep, OrdinarySteady
<1>4. CASE Tick BY <1>4, TickStep, OrdinarySteady
<1>5. CASE Restart BY <1>5, RestartStep, OrdinarySteady
<1>5a. ASSUME NEW s \in Slots, Unwind(s) PROVE Steady
  BY <1>5a, UnwindStep, OrdinarySteady
<1>6. CASE UNCHANGED vars
  <2>1. /\ UNCHANGED queueVars
        /\ UNCHANGED <<docs, installed, found, submitted, worker, req>>
    BY <1>6 DEF vars
  <2>2. RowMoves /\ UNCHANGED leases BY <2>1, SameRows DEF queueVars
  <2>3. RestTyped' /\ ChunksKept
    BY <2>1, RestUnchanged DEF RestTyped, ChunksKept
  <2> QED BY <2>1, <2>2, <2>3, WorkersStay, OrdinarySteady
<1> QED BY <1>1, <1>2, <1>3, <1>4, <1>5, <1>5a, <1>6, WorkerSteady, RequestSteady
     DEF Next

\* The operations of the queue, as steps of its next-state relation.
LEMMA QueueMoves ==
    ASSUME NEW ok \in BOOLEAN,
           \/ \E t \in Tasks : \/ \E d \in Docs : Queue!PushDocument(d, t, 0, ok)
                               \/ Queue!Claim(t, ok) \/ Queue!Reject(t, ok)
                               \/ Queue!RequestCancel(t, ok)
           \/ \E d \in Docs : Queue!CancelSubject(d, ok)
           \/ \E l \in leases : Queue!Renew(l, ok) \/ Queue!Abandon(l)
           \/ \E l \in leases, status \in Queue!ReportStatuses :
                Queue!Report(l, status, ok)
    PROVE  Queue!Next
<1>1. CASE \E t \in Tasks, d \in Docs : Queue!PushDocument(d, t, 0, ok)
  BY <1>1 DEF Queue!Next, Queue!Create
<1>2. CASE \E t \in Tasks : Queue!Claim(t, ok) \/ Queue!Reject(t, ok)
  BY <1>2 DEF Queue!Next, Queue!Work
<1>3. CASE \E t \in Tasks : Queue!RequestCancel(t, ok)
  BY <1>3 DEF Queue!Next, Queue!Cancel
<1>4. CASE \E d \in Docs : Queue!CancelSubject(d, ok)
  BY <1>4 DEF Queue!Next, Queue!Cancel, Queue!Subjects
<1>5. CASE \E l \in leases : Queue!Renew(l, ok) \/ Queue!Abandon(l)
  BY <1>5 DEF Queue!Next, Queue!Work
<1>6. CASE \E l \in leases, status \in Queue!ReportStatuses :
             Queue!Report(l, status, ok)
  BY <1>6 DEF Queue!Next, Queue!Work
<1> QED BY <1>1, <1>2, <1>3, <1>4, <1>5, <1>6

\* Retry found that the row may be retried, and it is reported only while the
\* row is under the same lease; a report that is refused could have been any.
LEMMA ReportUsesQueue ==
    ASSUME Sound, NEW s \in Slots, NEW ok \in BOOLEAN, Report(s, ok)
    PROVE  Queue!Next
<1> DEFINE l == Lease(s)
           status == worker[s].outcome
<1>1. /\ worker[s].at = "report" /\ worker[s].at \in Leased
      /\ Queue!Persist([tasks EXCEPT ![l.task] =
            IF Queue!Holds(l) THEN Queue!Unleased(@, status) ELSE @], ok)
      /\ leases' = leases \ {l} /\ UNCHANGED <<issued, granted>>
  BY DEF Report, Leased
<1>2. /\ l \in leases /\ l.task \in Tasks /\ status \in Queue!ReportStatuses
      /\ status = "cancelled" => Row(s).cancel
      /\ status = "pending" => l.attempt < MaxRetries
      /\ Row(s).token = l.token => Row(s).retry = l.attempt
  BY <1>1, WorkerFacts DEF Sound, ReportsSound, LeasesSound
<1>3. CASE Queue!Holds(l)
  <2>1. tasks[l.task].status = "running" /\ tasks[l.task].token = l.token
    BY <1>3 DEF Queue!Holds
  <2>2. status = "pending" => Queue!CanRetry(tasks[l.task])
    BY <1>2, <2>1, RowFacts DEF Queue!CanRetry, Row
  <2>3. status = "cancelled" => tasks[l.task].cancel BY <1>2 DEF Row
  <2>4. Queue!Report(l, status, ok) BY <1>1, <2>2, <2>3 DEF Queue!Report
  <2> QED BY <1>2, <2>4, QueueMoves
<1>4. CASE ~Queue!Holds(l)
  <2>1. Queue!Report(l, "failed", ok) BY <1>1, <1>4 DEF Queue!Report
  <2> QED BY <1>2, <2>1, QueueMoves DEF Queue!ReportStatuses
<1> QED BY <1>3, <1>4

LEMMA WorkerUsesQueue ==
    ASSUME Sound, NEW s \in Slots, NEW ok \in BOOLEAN,
           Step(s, ok) \/ Heartbeat(s, ok)
    PROVE  Queue!Next \/ UNCHANGED queueVars
<1>1. CASE Vet(s, ok)
  <2>1. worker[s] \in Worker BY <1>1 DEF Vet, Sound, TypeOK, Free
  <2>2. Lease(s).task \in Tasks BY <2>1 DEF Worker, Lease, Queue!Lease
  <2>3. Queue!Reject(Lease(s).task, ok) \/ UNCHANGED queueVars
    BY <1>1 DEF Vet
  <2> QED BY <2>2, <2>3, QueueMoves
<1>2. CASE Claim(s, ok)
  <2>1. worker[s] \in Worker BY <1>2 DEF Claim, Sound, TypeOK, Free
  <2>2. Lease(s).task \in Tasks BY <2>1 DEF Worker, Lease, Queue!Lease
  <2>3. Queue!Claim(Lease(s).task, ok) \/ UNCHANGED queueVars
    BY <1>2 DEF Claim
  <2> QED BY <2>2, <2>3, QueueMoves
<1>3. CASE RenewForCommit(s, ok) \/ Heartbeat(s, ok)
  <2>1. worker[s].at \in Leased
    BY <1>3 DEF RenewForCommit, Heartbeat, Leased
  <2>2. Queue!Renew(Lease(s), ok) \/ UNCHANGED queueVars
    BY <1>3 DEF RenewForCommit, Heartbeat
  <2> QED BY <2>1, <2>2, WorkerFacts, QueueMoves
<1>4. CASE Report(s, ok) BY <1>4, ReportUsesQueue
<1>5. CASE \/ Begin(s, ok) \/ Install(s, ok) \/ Mark(s, ok)
           \/ Check(s) \/ Lock(s) \/ Settle(s) \/ Retry(s)
           \/ \E outcome \in {"ok", "retryable", "permanent"} : Parse(s, outcome)
  BY <1>5 DEF Begin, Install, Mark, Check, Lock, Settle, Retry, Parse
<1> QED BY <1>1, <1>2, <1>3, <1>4, <1>5 DEF Step

LEMMA RequestUsesQueue ==
    ASSUME Sound, NEW h \in Handlers, NEW ok \in BOOLEAN, Serve(h, ok)
    PROVE  Queue!Next \/ UNCHANGED queueVars
<1>1. CASE \E t \in Tasks : Push(h, t, ok)
  <2>1. PICK t \in Tasks : Push(h, t, ok) BY <1>1
  <2>2. req[h] # Idle BY <2>1 DEF Push, At
  <2>3. Queue!PushDocument(req[h].doc, t, 0, ok) \/ UNCHANGED queueVars
    BY <2>1 DEF Push
  <2> QED BY <2>2, <2>3, RequestFacts, QueueMoves
<1>2. CASE \/ Revoke(h, ok) \/ CancelDocument(h, ok)
           \/ \E t \in Tasks : CancelTask(h, t, ok)
  <2>1. req[h] # Idle BY <1>2 DEF Revoke, CancelDocument, CancelTask, At
  <2>2. \/ UNCHANGED queueVars
        \/ \E t \in Tasks : Queue!RequestCancel(t, ok)
        \/ Queue!CancelSubject(req[h].doc, ok)
    BY <1>2, CancelledQueue
  <2> QED BY <2>1, <2>2, RequestFacts, QueueMoves
<1>3. CASE \/ QueuedStatus(h, ok) \/ Undo(h, ok) \/ Look(h) \/ MarkCancelled(h, ok)
           \/ ResetStatus(h, ok) \/ Delete(h, ok) \/ ResetChunks(h, ok)
  BY <1>3 DEF QueuedStatus, Undo, Look, MarkCancelled, ResetStatus, Delete,
              ResetChunks
<1> QED BY <1>1, <1>2, <1>3 DEF Serve

LEMMA NextUsesQueue ==
    ASSUME Sound, [Next]_vars PROVE [Queue!Next]_queueVars
<1>1. ASSUME NEW s \in DispatcherSlots, NEW t \in Tasks, Dispatch(s, t)
      PROVE  UNCHANGED queueVars
  BY <1>1 DEF Dispatch
<1>2. ASSUME NEW s \in ExecutorSlots, NEW t \in Tasks, Take(s, t)
      PROVE  UNCHANGED queueVars
  BY <1>2 DEF Take
<1>3. ASSUME NEW h \in Handlers, NEW d \in Docs, Upload(h, d) \/ Accept(h, d)
      PROVE  UNCHANGED queueVars
  BY <1>3 DEF Upload, Accept
<1>4. CASE Tick BY <1>4 DEF Tick, Queue!Next
<1>5. CASE Restart BY <1>5 DEF Restart, Queue!Next
<1>5a. ASSUME NEW s \in Slots, Unwind(s) PROVE Queue!Next
  <2>1. Lease(s) \in leases BY <1>5a, WorkerFacts DEF Unwind, Leased
  <2> QED BY <1>5a, <2>1, QueueMoves DEF Unwind
<1>6. CASE UNCHANGED vars BY <1>6 DEF vars
<1> QED BY <1>1, <1>2, <1>3, <1>4, <1>5, <1>5a, <1>6, WorkerUsesQueue, RequestUsesQueue
     DEF Next

-----------------------------------------------------------------------------
(* The theorems *)

DoneMeansInstalledStep ==
    \A t \in Tasks : tasks'[t].status = "done" /\ tasks[t].status # "done" =>
        installed[tasks[t].subject] = tasks[t].token

LEMMA NextKeepsDone ==
    ASSUME Sound, Ordered, [Next]_vars PROVE DoneMeansInstalledStep
<1> SUFFICES ASSUME NEW t \in Tasks, tasks'[t].status = "done",
                    tasks[t].status # "done"
             PROVE  installed[tasks[t].subject] = tasks[t].token
  BY DEF DoneMeansInstalledStep
<1>1. RowMove(t) BY NextSteady DEF Steady, RowMoves
<1>2. PICK s \in Slots : /\ worker[s].at = "report" /\ worker[s].outcome = "done"
                         /\ Lease(s).task = t /\ Current(Lease(s))
  BY <1>1 DEF RowMove
<1>3. installed[Doc(s)] = Lease(s).token
  BY <1>2 DEF Ordered, SuccessSound, Succeeded
<1> QED BY <1>2, <1>3 DEF Current, Doc, Row

LEMMA AlwaysSound == Spec => [](Sound /\ Ordered)
<1>1. Sound /\ Ordered /\ [Next]_vars => (Sound /\ Ordered)'
  BY NextSteady DEF Steady
<1> QED BY <1>1, InitSound, PTL DEF Spec

\* Whatever the workers, the requests and time do in whichever order, the rows,
\* the documents, the chunks, the workers and the requests have their types.
THEOREM TypeCorrect == Spec => []TypeOK
<1>1. Sound /\ Ordered => TypeOK BY DEF Sound
<1> QED BY <1>1, AlwaysSound, PTL

\* process_document and the request handlers call the task queue as TaskQueue
\* has it called, whatever they read before and however stale it is when they
\* call: so what is proved there of every use of the queue holds here.
THEOREM QueueRespected == Spec => UsesQueue
<1>1. Init => Queue!Init BY DEF Init
<1>2. Sound /\ Ordered /\ [Next]_vars => [Queue!Next]_queueVars
  BY NextUsesQueue
<1> QED BY <1>1, <1>2, AlwaysSound, PTL DEF Spec, UsesQueue

\* commit_indexed_document never puts the chunks of an older claim over those
\* of a newer one, nor brings chunks back that a deletion or a reset removed
\* but by a newer claim, however many workers of one document are stale.
THEOREM NewestChunksWin == Spec => NewestWins
<1>1. Sound /\ Ordered /\ [Next]_vars => NewestWinsStep
  BY NextSteady DEF Steady, NewestWinsStep
<1>2. Spec => [][NewestWinsStep]_vars BY <1>1, AlwaysSound, PTL DEF Spec
<1> QED BY <1>2 DEF NewestWins, NewestWinsStep

\* A row is reported done only when its own worker has put its chunks into the
\* index under the lease the row has, and no others were put there since: never
\* after a commit that failed, whatever was there before.
THEOREM DoneIsInstalled == Spec => DoneMeansInstalled
<1>1. Sound /\ Ordered /\ [Next]_vars => DoneMeansInstalledStep
  BY NextKeepsDone
<1>2. Spec => [][DoneMeansInstalledStep]_vars BY <1>1, AlwaysSound, PTL DEF Spec
<1> QED BY <1>2 DEF DoneMeansInstalled, DoneMeansInstalledStep

=============================================================================
