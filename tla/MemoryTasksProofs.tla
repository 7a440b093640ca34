------------------------- MODULE MemoryTasksProofs -------------------------
(***************************************************************************)
(* MemoryTasks for any rows, memories, requests, permits, budget and       *)
(* faults: its types; that a saved dialogue has its row, that it is        *)
(* extracted at most once, and that no extraction reaches a memory that    *)
(* was cleared.  The second half is about ids, which a restart gives out   *)
(* again: children hang below the message of their own dialogue.           *)
(***************************************************************************)
EXTENDS MemoryTasks, TLAPS, FiniteSetTheorems, WellFoundedInduction

\* A row that is there, and one that was published.
Kept(row) == row.status \notin {"none", "removed"}
Published(row) == row.status \notin {"none", "staging", "removed"}

\* Who holds memory_commit_lock: at most one of them does.
SlotHolds(w) == w.at \in {"save", "progress"}
RequestHolds(r) ==
    \/ r.at \in {"save", "discard", "publish", "row", "messages", "rows"}
    \/ r.at = "cancel" /\ r.kind = "clear"

LockSound ==
    /\ \A s, u \in Slots : SlotHolds(worker[s]) /\ SlotHolds(worker[u]) => s = u
    /\ \A h, g \in Handlers : RequestHolds(req[h]) /\ RequestHolds(req[g]) => h = g
    /\ \A s \in Slots, h \in Handlers : ~(SlotHolds(worker[s]) /\ RequestHolds(req[h]))

\* The file is what is in memory, and a row is about a message of a memory.
RowsSound ==
    /\ disk = tasks
    /\ \A t \in Tasks : Kept(tasks[t]) => tasks[t].subject \in Memories /\ digest[t] # 0

\* A worker is at a published row; what it saw when it got the lock is still so.
WorkersSound ==
    \A s \in Slots : worker[s] # Free =>
        /\ Published(Row(s))
        /\ worker[s].id < nextId
        /\ worker[s].at = "report" => worker[s].outcome \in Queue!ReportStatuses
        /\ worker[s].at = "save" =>
            /\ Live(Row(s).subject)
            /\ Children(Row(s).subject, digest[Lease(s).task]) = {}

\* The places at which a request posts a dialogue, and where it has its id and
\* its row.
Posting == {"embed", "stage", "save", "discard", "publish"}

\* A row that is staged for a message is of that message only.
RequestsSound ==
    \A h \in Handlers : LET r == req[h] IN
        /\ r.at \in Posting => memories[r.memory] # "absent" /\ r.id < nextId
        /\ r.at \in Posting \ {"embed"} => r.id # 0
        /\ r.at \in {"save", "discard", "publish"} => r.task \in Tasks
        /\ r.at \in {"save", "discard"} => \A x \in messages : x.from # r.task
        /\ r.at = "save" => /\ Kept(tasks[r.task])
                            /\ tasks[r.task].subject = r.memory
                            /\ digest[r.task] = r.id

\* The messages and what they have to do with rows, memories and each other.
MessagesSound ==
    \A x \in messages :
        /\ x.id < nextId
        /\ tasks[x.from].status # "none"
        /\ memories[x.memory] # "absent"
        /\ x.source = 0 /\ Kept(tasks[x.from]) =>
            tasks[x.from].subject = x.memory /\ digest[x.from] = x.id
        /\ x.source = 0 /\ Live(x.memory) => Kept(tasks[x.from])
        /\ x.source # 0 => memories[x.memory] # "cleared"
        /\ x.source # 0 => \A y \in Children(x.memory, x.source) : y = x

Sound ==
    /\ TypeOK
    /\ LockSound
    /\ RowsSound
    /\ WorkersSound
    /\ RequestsSound
    /\ MessagesSound

-----------------------------------------------------------------------------
(* The highest of a bounded set of ids *)

\* Natural numbers that are not empty have a smallest one.
LEMMA Smallest ==
    ASSUME NEW S, S \subseteq Nat, S # {}
    PROVE  \E n \in S : \A m \in S : n <= m
<1> DEFINE R == OpToRel(<, Nat)
<1>1. IsWellFoundedOn(R, Nat) BY NatLessThanWellFounded
<1>2. \A m, n \in Nat : m < n => <<m, n>> \in R
  BY DEF OpToRel
<1> HIDE DEF R
<1>3. \E n \in S : \A m \in S : ~ (<<m, n>> \in R)
  BY <1>1, WFMin
<1>4. PICK n \in S : \A m \in S : ~ (<<m, n>> \in R)
  BY <1>3
<1>5. \A m \in S : n <= m
  <2> SUFFICES ASSUME NEW m \in S, m < n PROVE FALSE
    BY <1>4
  <2> QED BY <1>2, <1>4
<1> QED BY <1>5

\* Those below a bound have a greatest one.
LEMMA Greatest ==
    ASSUME NEW S, S \subseteq Nat, S # {}, NEW b \in Nat, \A n \in S : n < b
    PROVE  Max(S) \in S /\ \A n \in S : Max(S) >= n
<1> DEFINE T == {b - n : n \in S}
<1>1. T \subseteq Nat
  <2> SUFFICES ASSUME NEW n \in S PROVE b - n \in Nat
    OBVIOUS
  <2>1. n \in Nat /\ n < b
    OBVIOUS
  <2> QED BY <2>1
<1>6. T # {}
  OBVIOUS
<1> HIDE DEF T
<1>2. PICK k \in T : \A m \in T : k <= m
  BY <1>1, <1>6, Smallest
<1>3. PICK n \in S : k = b - n
  BY DEF T
<1>4. \A m \in S : b - m \in T
  BY DEF T
<1>5. \A m \in S : n >= m
  <2> TAKE m \in S
  <2>1. b - n <= b - m BY <1>2, <1>3, <1>4
  <2> QED BY <2>1
<1> QED BY <1>5 DEF Max

-----------------------------------------------------------------------------
(* The kinds of requests *)

USE MaxRetriesAssumption, LeaseTicksAssumption

AddRequest == [kind : {"add"}, at : Posting, memory : Memories, id : Nat,
               task : Tasks \cup {Queue!NoToken}]

DeleteRequest == [kind : {"delete"}, at : {"cancel", "row", "messages"},
                  memory : Memories]

ClearRequest == [kind : {"clear"}, at : {"lock", "cancel", "messages", "rows"},
                 left : SUBSET Memories, memory : Memories \cup {Queue!NoToken}]

LEMMA RequestKinds == Request = AddRequest \cup DeleteRequest \cup ClearRequest
BY DEF Request, AddRequest, DeleteRequest, ClearRequest, Posting

LEMMA KindFacts ==
    /\ \A r \in AddRequest :
        /\ r.kind = "add" /\ r.at \in Posting /\ r.memory \in Memories
        /\ r.id \in Nat /\ r.task \in Tasks \cup {Queue!NoToken}
    /\ \A r \in DeleteRequest :
        /\ r.kind = "delete" /\ r.at \in {"cancel", "row", "messages"}
        /\ r.memory \in Memories
    /\ \A r \in ClearRequest :
        /\ r.kind = "clear" /\ r.at \in {"lock", "cancel", "messages", "rows"}
        /\ r.left \subseteq Memories /\ r.memory \in Memories \cup {Queue!NoToken}
BY DEF AddRequest, DeleteRequest, ClearRequest

\* Where a request is tells what kind it is.
LEMMA RequestFacts ==
    ASSUME Sound, NEW h \in Handlers
    PROVE  /\ req[h].at \in Posting => req[h] \in AddRequest
           /\ req[h].at = "row" => req[h] \in DeleteRequest
           /\ req[h].at \in {"lock", "rows"} => req[h] \in ClearRequest
           /\ req[h].at \in {"cancel", "messages"} /\ req[h].kind = "delete" =>
                req[h] \in DeleteRequest
           /\ req[h].at \in {"cancel", "messages"} /\ req[h].kind = "clear" =>
                req[h] \in ClearRequest
           /\ req[h].at = "messages" => req[h] \in DeleteRequest \cup ClearRequest
           /\ req \in [Handlers -> Request \cup {Idle}]
<1>1. /\ req \in [Handlers -> Request \cup {Idle}]
      /\ req[h] \in AddRequest \cup DeleteRequest \cup ClearRequest \cup {Idle}
  BY RequestKinds DEF Sound, TypeOK
<1>2. CASE req[h] \in AddRequest BY <1>1, <1>2, KindFacts DEF Posting
<1>3. CASE req[h] \in DeleteRequest BY <1>1, <1>3, KindFacts DEF Posting
<1>4. CASE req[h] \in ClearRequest BY <1>1, <1>4, KindFacts DEF Posting
<1>5. CASE req[h] = Idle BY <1>1, <1>5 DEF Idle, Posting
<1> QED BY <1>1, <1>2, <1>3, <1>4, <1>5

\* What is known of a worker at work.
LEMMA WorkerFacts ==
    ASSUME Sound, NEW s \in Slots
    PROVE  /\ worker \in [Slots -> Worker \cup {Free}]
           /\ worker[s] # Free <=> worker[s] \in Worker
           /\ worker[s].at # "free" <=> worker[s] \in Worker
           /\ worker[s] \in Worker =>
                /\ Lease(s) \in Queue!Lease /\ Lease(s).task \in Tasks
                /\ worker[s].id \in Nat
                /\ worker[s].outcome \in {"none", "ok", "retryable", "permanent"}
                                         \cup Queue!Status
<1>1. worker \in [Slots -> Worker \cup {Free}] BY DEF Sound, TypeOK
<1>2. \A w \in Worker :
        /\ w.at # "free"
        /\ w.lease \in Queue!Lease /\ w.lease.task \in Tasks /\ w.id \in Nat
        /\ w.outcome \in {"none", "ok", "retryable", "permanent"} \cup Queue!Status
  BY DEF Worker, Queue!Lease
<1>3. Free.at = "free" BY DEF Free
<1> QED BY <1>1, <1>2, <1>3 DEF Lease

-----------------------------------------------------------------------------
(* Rows *)

\* A row without a saved dialogue in a memory that is there is all that a
\* reconciliation, or the request that could not save it, discards.
Discarded(t) ==
    /\ \A x \in messages : x.source = 0 /\ x.from = t => ~Live(x.memory)
    /\ UNCHANGED <<messages, memories>>
    /\ \/ LockFree
       \/ \E h \in Handlers : req[h].at = "discard" /\ req[h].task = t

\* What a step may do to a row.
RowMove(t) ==
    LET r == tasks[t]
        n == tasks'[t]
    IN  /\ r.status # "none" => n.status # "none" /\ digest'[t] = digest[t]
        /\ Published(r) => Published(n)
        /\ Kept(r) /\ Kept(n) => n.subject = r.subject
        /\ Kept(n) => n.subject \in Memories /\ digest'[t] # 0
        /\ r.status = "removed" => ~Kept(n)
        /\ Kept(r) /\ ~Kept(n) => Discarded(t)

RowMoves ==
    /\ Queue!TypeOK'
    /\ digest' \in [Tasks -> Nat]
    /\ disk' = tasks'
    /\ \A t \in Tasks : RowMove(t)

\* Most of what the queue does to a row: it goes on, or stays as it is.
Gentle(r, n) ==
    /\ n \in Queue!Row
    /\ \/ n.status = r.status /\ n.subject = r.subject
       \/ Kept(r) /\ Kept(n) /\ n.subject = r.subject /\ (Published(r) => Published(n))

\* What is known of a row.
LEMMA RowFacts ==
    ASSUME Sound, NEW t \in Tasks
    PROVE  /\ tasks[t] \in Queue!Row
           /\ tasks[t].status \in Queue!Status
           /\ tasks[t].retry \in Nat /\ tasks[t].token \in Nat
           /\ tasks[t].cancel \in BOOLEAN
           /\ Kept(tasks[t]) => tasks[t].subject \in Memories /\ digest[t] # 0
           /\ digest[t] \in Nat
           /\ tasks \in [Tasks -> Queue!Row] /\ disk = tasks
           /\ digest \in [Tasks -> Nat]
           /\ issued \in Nat /\ granted \in [Tasks -> Nat]
           /\ leases \subseteq Queue!Lease
<1>1. tasks[t] \in Queue!Row BY DEF Sound, TypeOK, Queue!TypeOK
<1>2. /\ tasks[t].status \in Queue!Status
      /\ tasks[t].retry \in Nat /\ tasks[t].token \in Nat
      /\ tasks[t].cancel \in BOOLEAN
  BY <1>1 DEF Queue!Row
<1> QED BY <1>1, <1>2 DEF Sound, TypeOK, Queue!TypeOK, RowsSound

LEMMA SameRow ==
    ASSUME Sound, NEW t \in Tasks, tasks'[t] = tasks[t], digest'[t] = digest[t]
    PROVE  RowMove(t)
<1> DEFINE row == tasks[t]
<1>1. Kept(row) => row.subject \in Memories /\ digest[t] # 0 BY RowFacts
<1>2. ~ (row.status = "removed" /\ Kept(row)) BY DEF Kept
<1> HIDE DEF row
<1>3. tasks'[t] = row /\ tasks[t] = row BY DEF row
<1> QED BY <1>1, <1>2, <1>3 DEF RowMove

LEMMA GentleRow ==
    ASSUME Sound, NEW t \in Tasks, Gentle(tasks[t], tasks'[t]), digest' = digest
    PROVE  RowMove(t)
BY RowFacts DEF Gentle, RowMove, Kept, Published

\* Rows that are rewritten together.
LEMMA GentleRows ==
    ASSUME Sound, tasks' \in [Tasks -> Queue!Row], disk' = tasks', digest' = digest,
           leases' \subseteq Queue!Lease, issued' \in Nat, granted' \in [Tasks -> Nat],
           \A t \in Tasks : Gentle(tasks[t], tasks'[t])
    PROVE  RowMoves
<1>1. Queue!TypeOK' BY DEF Queue!TypeOK
<1>2. \A t \in Tasks : RowMove(t) BY GentleRow
<1>3. digest' \in [Tasks -> Nat] BY DEF Sound, TypeOK
<1> QED BY <1>1, <1>2, <1>3 DEF RowMoves

LEMMA SameRows ==
    ASSUME Sound, UNCHANGED <<tasks, disk, issued, granted, digest>>,
           leases' \subseteq leases
    PROVE  RowMoves
<1>1. /\ tasks \in [Tasks -> Queue!Row] /\ disk = tasks /\ issued \in Nat
      /\ granted \in [Tasks -> Nat] /\ leases \subseteq Queue!Lease
  BY DEF Sound, TypeOK, Queue!TypeOK, RowsSound
<1>2. \A t \in Tasks : Gentle(tasks[t], tasks'[t]) BY <1>1 DEF Gentle
<1> QED BY <1>1, <1>2, GentleRows

\* One row is rewritten, if the write succeeds.
LEMMA OneRow ==
    ASSUME Sound, NEW t \in Tasks, NEW n, Gentle(tasks[t], n), NEW ok \in BOOLEAN,
           Queue!Persist([tasks EXCEPT ![t] = n], ok), digest' = digest,
           leases' \subseteq Queue!Lease, issued' \in Nat, granted' \in [Tasks -> Nat]
    PROVE  RowMoves
<1>1. tasks \in [Tasks -> Queue!Row] /\ disk = tasks BY RowFacts
<1>2. n \in Queue!Row BY DEF Gentle
<1>3. \/ tasks' = tasks /\ disk' = tasks'
      \/ tasks' = [tasks EXCEPT ![t] = n] /\ disk' = tasks'
  BY <1>1 DEF Queue!Persist
<1>4. tasks' \in [Tasks -> Queue!Row] BY <1>1, <1>2, <1>3
<1>5. \A u \in Tasks : tasks'[u] = tasks[u] \/ (u = t /\ tasks'[u] = n)
  BY <1>1, <1>3
<1>6. \A u \in Tasks : Gentle(tasks[u], tasks'[u])
  BY <1>4, <1>5 DEF Gentle
<1> QED BY <1>3, <1>4, <1>6, GentleRows

\* What the queue makes of a row.
LEMMA UnleasedRow ==
    ASSUME NEW row \in Queue!Row, Kept(row),
           NEW status \in {"done", "failed", "pending", "cancelled"}
    PROVE  Gentle(row, Queue!Unleased(row, status))
BY DEF Gentle, Queue!Unleased, Queue!Row, Queue!Status, Queue!NoToken, Kept, Published

LEMMA CancelledRow ==
    ASSUME NEW row \in Queue!Row PROVE Gentle(row, Queue!Cancelled(row))
<1>1. CASE row.status \in Queue!Terminal \cup {"none", "removed"}
  BY <1>1 DEF Queue!Cancelled, Gentle
<1>2. CASE row.status \notin Queue!Terminal \cup {"none", "removed"}
  <2> DEFINE n == Queue!Unleased(row, "cancelled")
  <2>1. Kept(row) BY <1>2 DEF Kept
  <2>2. n \in Queue!Row /\ n.status = "cancelled" /\ n.subject = row.subject
    BY DEF Queue!Unleased, Queue!Row, Queue!Status, Queue!NoToken
  <2> HIDE DEF n
  <2>3. LET c == [n EXCEPT !.cancel = TRUE]
        IN  c \in Queue!Row /\ c.status = "cancelled" /\ c.subject = row.subject
    BY <2>2 DEF Queue!Row
  <2>4. Queue!Cancelled(row) = [n EXCEPT !.cancel = TRUE]
    BY <1>2 DEF Queue!Cancelled, n
  <2> QED BY <2>1, <2>3, <2>4 DEF Gentle, Kept, Published
<1> QED BY <1>1, <1>2

LEMMA RecoveredRow ==
    ASSUME NEW row \in Queue!Row PROVE Gentle(row, Queue!Recovered(row))
<1>1. CASE row.status = "running" /\ Queue!Expired(row)
  <2>1. \/ Queue!Recovered(row) = Queue!Unleased(row, "failed")
        \/ Queue!Recovered(row) = Queue!Unleased(row, "pending")
    BY <1>1 DEF Queue!Recovered
  <2>2. Kept(row) BY <1>1 DEF Kept
  <2> QED BY <2>1, <2>2, UnleasedRow
<1>2. CASE row.status = "pending" /\ row.retry >= MaxRetries
  <2>1. Queue!Recovered(row) = [row EXCEPT !.status = "failed"]
    BY <1>2 DEF Queue!Recovered
  <2>2. LET n == [row EXCEPT !.status = "failed"]
        IN  n \in Queue!Row /\ n.status = "failed" /\ n.subject = row.subject
    BY DEF Queue!Row, Queue!Status
  <2> QED BY <1>2, <2>1, <2>2 DEF Gentle, Kept, Published
<1>3. CASE /\ ~(row.status = "running" /\ Queue!Expired(row))
           /\ ~(row.status = "pending" /\ row.retry >= MaxRetries)
  <2>1. Queue!Recovered(row) = row BY <1>3 DEF Queue!Recovered
  <2> QED BY <2>1 DEF Gentle
<1> QED BY <1>1, <1>2, <1>3

LEMMA ClaimedRow ==
    ASSUME NEW row \in Queue!Row, Queue!Claimable(row), NEW k \in Nat
    PROVE  LET n == Queue!Claimed(row, k)
           IN  Gentle(row, n) /\ n.token = k /\ n.retry \in Nat
<1>1. row.status \in {"pending", "running"} BY DEF Queue!Claimable
<1>2. /\ row.retry + 1 \in Nat /\ LeaseTicks \in Nat
      /\ "running" \in Queue!Status
  BY DEF Queue!Row, Queue!Status
<1>3. LET n == Queue!Claimed(row, k)
      IN  /\ n \in Queue!Row /\ n.status = "running" /\ n.subject = row.subject
          /\ n.token = k /\ n.retry = row.retry + 1
  BY <1>2 DEF Queue!Claimed, Queue!Row
<1> QED BY <1>1, <1>2, <1>3 DEF Gentle, Kept, Published

-----------------------------------------------------------------------------
(* What each action does to the rows *)

LEMMA StageMoves ==
    ASSUME Sound, NEW h \in Handlers, NEW t \in Tasks, NEW ok \in BOOLEAN,
           Stage(h, t, ok)
    PROVE  /\ RowMoves
           /\ ok => /\ tasks[t].status = "none" /\ Kept(tasks'[t])
                    /\ tasks'[t].subject = req[h].memory
                    /\ digest'[t] = req[h].id
<1> DEFINE m == req[h].memory
           n == Queue!NewTask(m, "staging", 0)
<1>1. m \in Memories /\ req[h].id \in Nat /\ req[h].id # 0
  <2>1. req[h].at = "stage" BY DEF Stage
  <2>2. req[h].at \in Posting /\ req[h].at \in Posting \ {"embed"}
    BY <2>1 DEF Posting
  <2> QED BY <2>2, RequestFacts, KindFacts DEF Sound, RequestsSound
<1> HIDE DEF m
<1>2. n \in Queue!Row /\ n.status = "staging" /\ n.subject = m
  BY <1>1 DEF Queue!NewTask, Queue!NoRow, Queue!Row, Queue!Status, Queue!Subjects,
              Queue!NoToken
<1>3. /\ tasks[t].status = "none"
      /\ Queue!Persist([tasks EXCEPT ![t] = n], ok)
      /\ UNCHANGED <<leases, issued, granted>>
      /\ IF ok THEN digest' = [digest EXCEPT ![t] = req[h].id] ELSE UNCHANGED digest
  BY DEF Stage, Queue!StageMemory, m
<1> HIDE DEF n
<1>4. CASE ~ok
  <2>1. UNCHANGED <<tasks, disk, issued, granted, digest>> /\ leases' \subseteq leases
    BY <1>3, <1>4 DEF Queue!Persist
  <2> QED BY <1>4, <2>1, SameRows
<1>5. CASE ok
  <2>1. /\ tasks' = [tasks EXCEPT ![t] = n] /\ disk' = tasks'
        /\ digest' = [digest EXCEPT ![t] = req[h].id]
    BY <1>3, <1>5 DEF Queue!Persist
  <2>2. tasks' \in [Tasks -> Queue!Row] /\ digest' \in [Tasks -> Nat]
    BY <1>1, <1>2, <2>1, RowFacts
  <2>3. Queue!TypeOK' BY <1>3, <2>1, <2>2, RowFacts DEF Queue!TypeOK
  <2>4. tasks'[t] = n /\ digest'[t] = req[h].id BY <2>1, RowFacts
  <2>5. RowMove(t)
    BY <1>1, <1>2, <1>3, <2>4 DEF RowMove, Kept, Published
  <2>6. ASSUME NEW u \in Tasks, u # t PROVE RowMove(u)
    <3>1. tasks'[u] = tasks[u] /\ digest'[u] = digest[u] BY <2>1, <2>6, RowFacts
    <3> QED BY <3>1, SameRow
  <2>7. \A u \in Tasks : RowMove(u) BY <2>5, <2>6
  <2> QED BY <1>2, <1>3, <2>1, <2>2, <2>3, <2>4, <2>7 DEF RowMoves, m, Kept
<1> QED BY <1>4, <1>5

\* A row that is discarded.
LEMMA DiscardMoves ==
    ASSUME Sound, NEW t \in Tasks, NEW ok \in BOOLEAN, Queue!DiscardStaged(t, ok),
           digest' = digest, Discarded(t)
    PROVE  RowMoves
<1> DEFINE n == [Queue!NoRow EXCEPT !.status = "removed"]
<1>1. n \in Queue!Row /\ n.status = "removed"
  BY DEF Queue!NoRow, Queue!Row, Queue!Status, Queue!Subjects, Queue!NoToken
<1>2. /\ tasks[t].status = "staging"
      /\ Queue!Persist([tasks EXCEPT ![t] = n], ok)
      /\ UNCHANGED <<leases, issued, granted>>
  BY DEF Queue!DiscardStaged
<1> HIDE DEF n
<1>3. CASE ~ok
  <2>1. UNCHANGED <<tasks, disk, issued, granted, digest>> /\ leases' \subseteq leases
    BY <1>2, <1>3 DEF Queue!Persist
  <2> QED BY <2>1, SameRows
<1>4. CASE ok
  <2>1. tasks' = [tasks EXCEPT ![t] = n] /\ disk' = tasks'
    BY <1>2, <1>4 DEF Queue!Persist
  <2>2. tasks' \in [Tasks -> Queue!Row] /\ digest' \in [Tasks -> Nat]
    BY <1>1, <2>1, RowFacts
  <2>3. Queue!TypeOK' BY <1>2, <2>1, <2>2, RowFacts DEF Queue!TypeOK
  <2>4. tasks'[t] = n BY <2>1, RowFacts
  <2>5. RowMove(t) BY <1>1, <1>2, <2>4 DEF RowMove, Kept, Published
  <2>6. ASSUME NEW u \in Tasks, u # t PROVE RowMove(u)
    <3>1. tasks'[u] = tasks[u] BY <2>1, <2>6, RowFacts
    <3> QED BY <3>1, SameRow
  <2>7. \A u \in Tasks : RowMove(u) BY <2>5, <2>6
  <2> QED BY <2>1, <2>2, <2>3, <2>7 DEF RowMoves
<1> QED BY <1>3, <1>4

\* A row that is published.
LEMMA PublishMoves ==
    ASSUME Sound, NEW t \in Tasks, NEW ok \in BOOLEAN, Queue!PublishMemory(t, ok),
           digest' = digest
    PROVE  RowMoves
<1> DEFINE n == [tasks[t] EXCEPT !.status = "pending"]
<1>1. /\ tasks[t].status = "staging"
      /\ Queue!Persist([tasks EXCEPT ![t] = n], ok)
      /\ UNCHANGED <<leases, issued, granted>>
  <2>1. tasks \in [Tasks -> Queue!Row] BY RowFacts
  <2>2. [tasks EXCEPT ![t].status = "pending"] = [tasks EXCEPT ![t] = n]
    BY <2>1
  <2> QED BY <2>2 DEF Queue!PublishMemory
<1>2. n \in Queue!Row /\ n.status = "pending" /\ n.subject = tasks[t].subject
  BY RowFacts DEF Queue!Row, Queue!Status
<1> HIDE DEF n
<1>3. Gentle(tasks[t], n) BY <1>1, <1>2 DEF Gentle, Kept, Published
<1>4. leases' \subseteq Queue!Lease /\ issued' \in Nat /\ granted' \in [Tasks -> Nat]
  BY <1>1, RowFacts
<1> QED BY <1>1, <1>3, <1>4, OneRow

\* The rows of a memory are cancelled.
LEMMA CancelMoves ==
    ASSUME Sound, NEW m, NEW ok \in BOOLEAN, CancelRows(m, ok), digest' = digest
    PROVE  RowMoves
<1> DEFINE new == [t \in Tasks |-> IF tasks[t].subject = m
                                   THEN Queue!Cancelled(tasks[t]) ELSE tasks[t]]
<1>1. \/ Queue!Persist(new, ok) /\ UNCHANGED <<leases, issued, granted>>
      \/ UNCHANGED queueVars
  BY DEF CancelRows, Queue!CancelSubject
<1>2. \A t \in Tasks : Gentle(tasks[t], new[t])
  <2> SUFFICES ASSUME NEW t \in Tasks PROVE Gentle(tasks[t], new[t])
    OBVIOUS
  <2>1. Gentle(tasks[t], Queue!Cancelled(tasks[t])) BY CancelledRow, RowFacts
  <2>2. Gentle(tasks[t], tasks[t]) BY RowFacts DEF Gentle
  <2> QED BY <2>1, <2>2
<1>3. new \in [Tasks -> Queue!Row] BY <1>2 DEF Gentle
<1> HIDE DEF new
<1>4. CASE UNCHANGED <<tasks, disk, issued, granted>> /\ leases' \subseteq leases
  BY <1>4, SameRows
<1>5. CASE /\ tasks' = new /\ disk' = new
           /\ UNCHANGED <<leases, issued, granted>>
  <2>1. /\ leases' \subseteq Queue!Lease /\ issued' \in Nat
        /\ granted' \in [Tasks -> Nat]
    BY <1>5 DEF Sound, TypeOK, Queue!TypeOK
  <2> QED BY <1>2, <1>3, <1>5, <2>1, GentleRows
<1> QED BY <1>1, <1>4, <1>5 DEF Queue!Persist, queueVars

LEMMA RequestCancelMoves ==
    ASSUME Sound, NEW t \in Tasks, NEW ok \in BOOLEAN, Queue!RequestCancel(t, ok),
           digest' = digest
    PROVE  RowMoves
<1>1. /\ Queue!Persist([tasks EXCEPT ![t] = Queue!Cancelled(tasks[t])], ok)
      /\ UNCHANGED <<leases, issued, granted>>
  BY DEF Queue!RequestCancel
<1>2. Gentle(tasks[t], Queue!Cancelled(tasks[t])) BY CancelledRow, RowFacts
<1>3. leases' \subseteq Queue!Lease /\ issued' \in Nat /\ granted' \in [Tasks -> Nat]
  BY <1>1, RowFacts
<1> QED BY <1>1, <1>2, <1>3, OneRow

LEMMA ClaimMoves ==
    ASSUME Sound, NEW t \in Tasks, NEW ok \in BOOLEAN, Queue!Claim(t, ok),
           digest' = digest
    PROVE  RowMoves
<1> DEFINE n == Queue!Claimed(tasks[t], issued + 1)
<1>1. Gentle(tasks[t], n) /\ n.token = issued + 1 /\ n.retry \in Nat
  BY ClaimedRow, RowFacts DEF Queue!Claim
<1>2. /\ Queue!Persist([tasks EXCEPT ![t] = n], ok)
      /\ leases' = IF ok THEN leases \cup {[task |-> t, token |-> n.token,
                                            attempt |-> n.retry]}
                         ELSE leases
      /\ issued' = IF ok THEN issued + 1 ELSE issued
      /\ granted' = IF ok THEN [granted EXCEPT ![t] = @ + 1] ELSE granted
  BY DEF Queue!Claim
<1> HIDE DEF n
<1>3. [task |-> t, token |-> n.token, attempt |-> n.retry] \in Queue!Lease
  BY <1>1, RowFacts DEF Queue!Lease
<1>4. leases' \subseteq Queue!Lease BY <1>2, <1>3, RowFacts
<1>5. issued' \in Nat /\ granted' \in [Tasks -> Nat] BY <1>2, RowFacts
<1> QED BY <1>1, <1>2, <1>4, <1>5, OneRow

LEMMA RenewMoves ==
    ASSUME Sound, NEW l, l.task \in Tasks, NEW ok \in BOOLEAN, Queue!Renew(l, ok),
           digest' = digest
    PROVE  RowMoves
<1> DEFINE t == l.task
           n == [tasks[t] EXCEPT !.ttl = LeaseTicks]
<1>1. /\ Queue!Persist([tasks EXCEPT ![t] = n], ok)
      /\ UNCHANGED <<leases, issued, granted>>
      /\ t \in Tasks
  <2>1. tasks \in [Tasks -> Queue!Row] BY RowFacts
  <2>2. [tasks EXCEPT ![t].ttl = LeaseTicks] = [tasks EXCEPT ![t] = n]
    BY <2>1
  <2> QED BY <2>2 DEF Queue!Renew
<1>2. n \in Queue!Row /\ n.status = tasks[t].status /\ n.subject = tasks[t].subject
  BY <1>1, RowFacts DEF Queue!Row
<1>3. tasks[t].status = "running" BY DEF Queue!Renew, Queue!Owns, Queue!Holds
<1> HIDE DEF n, t
<1>4. Gentle(tasks[t], n) BY <1>2, <1>3 DEF Gentle, Kept, Published
<1>5. leases' \subseteq Queue!Lease /\ issued' \in Nat /\ granted' \in [Tasks -> Nat]
  BY <1>1, RowFacts
<1> QED BY <1>1, <1>4, <1>5, OneRow

\* The last report of a worker.
LEMMA ReportMoves ==
    ASSUME Sound, NEW s \in Slots, NEW ok \in BOOLEAN, Report(s, ok)
    PROVE  RowMoves
<1> DEFINE t == Lease(s).task
           n == IF Queue!Holds(Lease(s))
                THEN Queue!Unleased(tasks[t], worker[s].outcome) ELSE tasks[t]
<1>1. /\ Queue!Persist([tasks EXCEPT ![t] = n], ok)
      /\ leases' \subseteq leases
      /\ UNCHANGED <<issued, granted, digest>>
      /\ worker[s].at = "report"
  BY DEF Report
<1>2. t \in Tasks /\ worker[s] # Free
  BY <1>1, WorkerFacts DEF Free
<1>3. /\ Published(tasks[t])
      /\ worker[s].outcome \in {"done", "failed", "pending", "cancelled"}
  BY <1>1, <1>2 DEF Sound, WorkersSound, Row, Queue!ReportStatuses
<1>4. Kept(tasks[t]) /\ tasks[t] \in Queue!Row
  BY <1>2, <1>3, RowFacts DEF Kept, Published
<1>5. Gentle(tasks[t], n)
  <2>1. Gentle(tasks[t], Queue!Unleased(tasks[t], worker[s].outcome))
    BY <1>3, <1>4, UnleasedRow
  <2>2. Gentle(tasks[t], tasks[t]) BY <1>4 DEF Gentle
  <2> QED BY <2>1, <2>2
<1> HIDE DEF n, t
<1>6. leases' \subseteq Queue!Lease /\ issued' \in Nat /\ granted' \in [Tasks -> Nat]
  BY <1>1, <1>2, RowFacts
<1> QED BY <1>1, <1>2, <1>5, <1>6, OneRow

\* Time passes.
LEMMA TickMoves ==
    ASSUME Sound, Queue!Tick, digest' = digest
    PROVE  RowMoves
<1> DEFINE new == [t \in Tasks |-> [tasks[t] EXCEPT !.ttl = IF @ > 0 THEN @ - 1 ELSE 0]]
<1>1. disk = tasks BY DEF Sound, RowsSound
<1>2. /\ tasks' = new /\ disk' = new
      /\ UNCHANGED <<leases, issued, granted>>
  BY <1>1 DEF Queue!Tick
<1>3. \A t \in Tasks : Gentle(tasks[t], new[t])
  <2> SUFFICES ASSUME NEW t \in Tasks PROVE Gentle(tasks[t], new[t])
    OBVIOUS
  <2> DEFINE r == tasks[t]
             d == IF r.ttl > 0 THEN r.ttl - 1 ELSE 0
             n == [r EXCEPT !.ttl = d]
  <2>1. r \in Queue!Row /\ r.ttl \in Nat BY RowFacts DEF Queue!Row
  <2>2. d \in Nat BY <2>1
  <2> HIDE DEF d
  <2>3. n \in Queue!Row /\ n.status = r.status /\ n.subject = r.subject
    BY <2>1, <2>2 DEF Queue!Row
  <2>6. new[t] = n BY DEF d
  <2> QED BY <2>3, <2>6 DEF Gentle
<1>4. new \in [Tasks -> Queue!Row] BY <1>3 DEF Gentle
<1> HIDE DEF new
<1>5. leases' \subseteq Queue!Lease /\ issued' \in Nat /\ granted' \in [Tasks -> Nat]
  BY <1>2 DEF Sound, TypeOK, Queue!TypeOK
<1> QED BY <1>2, <1>3, <1>4, <1>5, GentleRows

\* The file is loaded.
LEMMA RestartMoves ==
    ASSUME Sound, Queue!Restart, digest' = digest
    PROVE  RowMoves
<1> DEFINE new == [t \in Tasks |-> Queue!Recovered(tasks[t])]
<1>1. disk = tasks BY DEF Sound, RowsSound
<1>2. /\ tasks' = new /\ disk' = new /\ leases' = {}
      /\ UNCHANGED <<issued, granted>>
  BY <1>1 DEF Queue!Restart
<1>3. \A t \in Tasks : Gentle(tasks[t], new[t])
  BY RecoveredRow, RowFacts
<1>4. new \in [Tasks -> Queue!Row] BY <1>3 DEF Gentle
<1> HIDE DEF new
<1>5. leases' \subseteq Queue!Lease /\ issued' \in Nat /\ granted' \in [Tasks -> Nat]
  BY <1>2 DEF Sound, TypeOK, Queue!TypeOK
<1> QED BY <1>2, <1>3, <1>4, <1>5, GentleRows

\* A row goes with a message that could not be saved.
LEMMA DiscardRowMoves ==
    ASSUME Sound, NEW h \in Handlers, NEW ok \in BOOLEAN, Discard(h, ok)
    PROVE  RowMoves
<1> DEFINE t == req[h].task
<1>1. /\ req[h].at = "discard" /\ UNCHANGED <<messages, memories, digest>>
      /\ \/ tasks[t].status = "staging" /\ Queue!DiscardStaged(t, ok)
         \/ UNCHANGED queueVars
  BY DEF Discard
<1>2. t \in Tasks /\ \A x \in messages : x.from # t
  BY <1>1 DEF Sound, RequestsSound
<1>3. Discarded(t) BY <1>1, <1>2 DEF Discarded
<1> HIDE DEF t
<1>4. CASE UNCHANGED queueVars
  <2>1. UNCHANGED <<tasks, disk, issued, granted, digest>> /\ leases' \subseteq leases
    BY <1>1, <1>4 DEF queueVars
  <2> QED BY <2>1, SameRows
<1>5. CASE Queue!DiscardStaged(t, ok)
  BY <1>1, <1>2, <1>3, <1>5, DiscardMoves
<1> QED BY <1>1, <1>4, <1>5

\* A reconciliation publishes a row or discards it.
LEMMA ReconcileMoves ==
    ASSUME Sound, NEW t \in Tasks, NEW ok \in BOOLEAN, Reconcile(t, ok)
    PROVE  RowMoves
<1> DEFINE m == tasks[t].subject
<1>1. /\ tasks[t].status = "staging" /\ LockFree
      /\ UNCHANGED <<messages, memories, digest>>
      /\ \/ Queue!PublishMemory(t, ok)
         \/ ~ (Raw(m, digest[t]) # {} /\ Live(m)) /\ Queue!DiscardStaged(t, ok)
  BY DEF Reconcile, Staged
<1>2. CASE Queue!PublishMemory(t, ok) BY <1>1, <1>2, PublishMoves
<1>3. CASE ~ (Raw(m, digest[t]) # {} /\ Live(m)) /\ Queue!DiscardStaged(t, ok)
  <2>1. ASSUME NEW x \in messages, x.source = 0, x.from = t PROVE ~Live(x.memory)
    <3>1. Kept(tasks[x.from]) BY <1>1, <2>1 DEF Kept
    <3>2. m = x.memory /\ digest[t] = x.id
      BY <2>1, <3>1 DEF Sound, MessagesSound
    <3>3. x \in Raw(m, digest[t]) BY <3>2 DEF Raw, Of
    <3> QED BY <1>3, <3>2, <3>3
  <2>2. Discarded(t) BY <1>1, <2>1 DEF Discarded
  <2> QED BY <1>1, <1>3, <2>2, DiscardMoves
<1> QED BY <1>1, <1>2, <1>3

-----------------------------------------------------------------------------
(* What a step may do to the rest *)

IdMove ==
    /\ nextId' \in Nat \ {0}
    /\ \/ nextId' >= nextId
       \/ /\ worker' = [s \in Slots |-> Free] /\ req' = [h \in Handlers |-> Idle]
          /\ \A x \in messages' : x.id < nextId'

MemoryMove ==
    /\ memories' \in [Memories -> MemoryState]
    /\ \A m \in Memories :
        /\ memories'[m] = "absent" => memories[m] = "absent"
        /\ memories'[m] = "live" => memories[m] \in {"live", "absent"}
        /\ memories'[m] = "cleared" =>
             memories[m] = "cleared" \/ \A x \in messages' : x.memory # m
        /\ memories[m] = "live" /\ memories'[m] # "live" =>
             LockFree \/ \E h \in Handlers : RequestHolds(req[h])

NewRaw(h) == [id |-> req[h].id, memory |-> req[h].memory, source |-> 0,
              from |-> req[h].task]

NewChild(s) == [id |-> worker[s].id, memory |-> Row(s).subject,
                source |-> digest[Lease(s).task], from |-> Lease(s).task]

\* Messages go, or one is saved by whoever holds the lock.
MessageMove ==
    /\ evicted' \subseteq Tasks
    /\ \/ messages' \subseteq messages
       \/ \E h \in Handlers :
            /\ req[h].at = "save" /\ req'[h].at = "publish"
            /\ messages' \subseteq messages \cup {NewRaw(h)}
            /\ UNCHANGED <<tasks, digest, memories, nextId>>
       \/ \E s \in Slots :
            /\ worker[s].at = "save" /\ worker'[s].at = "progress"
            /\ messages' \subseteq messages \cup {NewChild(s)}
            /\ UNCHANGED <<tasks, digest, memories, nextId>>

\* What a worker becomes.
WorkerMove(s, n) ==
    \/ n = Free
    \/ /\ n \in Worker
       /\ Published(tasks[n.lease.task])
       /\ n.id < nextId'
       /\ n.at = "report" => n.outcome \in Queue!ReportStatuses
       /\ n.at = "save" =>
            /\ Live(tasks[n.lease.task].subject)
            /\ Children(tasks[n.lease.task].subject, digest[n.lease.task]) = {}
            /\ UNCHANGED <<tasks, digest, memories, messages>>
       /\ SlotHolds(n) => SlotHolds(worker[s]) \/ LockFree

\* What a request becomes.
RequestMove(h, n) ==
    \/ n = Idle
    \/ /\ n \in Request
       /\ n.at \in Posting => memories[n.memory] # "absent" /\ n.id < nextId'
       /\ n.at \in Posting \ {"embed"} => n.id # 0
       /\ n.at \in {"save", "discard", "publish"} => n.task \in Tasks
       /\ n.at \in {"save", "discard"} =>
            messages' = messages /\ \A x \in messages : x.from # n.task
       /\ n.at = "save" => /\ Kept(tasks'[n.task])
                           /\ tasks'[n.task].subject = n.memory
                           /\ digest'[n.task] = n.id
       /\ RequestHolds(n) => RequestHolds(req[h]) \/ LockFree

\* At most one worker or request moves, unless all are gone.
ActorMove ==
    \/ UNCHANGED <<worker, req>>
    \/ \E s \in Slots : \E n :
        WorkerMove(s, n) /\ worker' = [worker EXCEPT ![s] = n] /\ req' = req
    \/ \E h \in Handlers : \E n :
        RequestMove(h, n) /\ req' = [req EXCEPT ![h] = n] /\ worker' = worker
    \/ worker' = [s \in Slots |-> Free] /\ req' = [h \in Handlers |-> Idle]

Moves ==
    /\ RowMoves
    /\ IdMove
    /\ MemoryMove
    /\ MessageMove
    /\ ActorMove
    /\ boot' \subseteq Tasks

-----------------------------------------------------------------------------
(* Steps that move so keep what is sound *)

LEMMA FreeLock ==
    LockFree <=> /\ \A s \in Slots : ~SlotHolds(worker[s])
                 /\ \A h \in Handlers : ~RequestHolds(req[h])
BY DEF LockFree, SlotHolds, RequestHolds

LEMMA NobodyHolds == ~SlotHolds(Free) /\ ~RequestHolds(Idle)
BY DEF SlotHolds, RequestHolds, Free, Idle

LEMMA ActorTypes ==
    ASSUME Sound
    PROVE  /\ worker \in [Slots -> Worker \cup {Free}]
           /\ req \in [Handlers -> Request \cup {Idle}]
BY DEF Sound, TypeOK

LEMMA FewerHold ==
    ASSUME Sound,
           \A s \in Slots : SlotHolds(worker'[s]) => SlotHolds(worker[s]),
           \A h \in Handlers : RequestHolds(req'[h]) => RequestHolds(req[h])
    PROVE  LockSound'
<1> DEFINE S(s) == SlotHolds(worker[s])
           R(h) == RequestHolds(req[h])
           SP(s) == SlotHolds(worker'[s])
           RP(h) == RequestHolds(req'[h])
<1>1. /\ \A s, u \in Slots : S(s) /\ S(u) => s = u
      /\ \A h, g \in Handlers : R(h) /\ R(g) => h = g
      /\ \A s \in Slots, h \in Handlers : ~(S(s) /\ R(h))
  BY DEF Sound, LockSound
<1>2. /\ \A s \in Slots : SP(s) => S(s)
      /\ \A h \in Handlers : RP(h) => R(h)
  OBVIOUS
<1> HIDE DEF S, R, SP, RP
<1>3. /\ \A s, u \in Slots : SP(s) /\ SP(u) => s = u
      /\ \A h, g \in Handlers : RP(h) /\ RP(g) => h = g
      /\ \A s \in Slots, h \in Handlers : ~(SP(s) /\ RP(h))
  BY <1>1, <1>2
<1> QED BY <1>3 DEF LockSound, SP, RP

\* The workers and requests have their types, and one holds the lock at most.
LEMMA ActorsMoved ==
    ASSUME Sound, ActorMove
    PROVE  /\ worker' \in [Slots -> Worker \cup {Free}]
           /\ req' \in [Handlers -> Request \cup {Idle}]
           /\ LockSound'
<1>1. CASE UNCHANGED <<worker, req>>
  BY <1>1, ActorTypes DEF Sound, LockSound
<1>2. ASSUME NEW s \in Slots, NEW n,
             WorkerMove(s, n), worker' = [worker EXCEPT ![s] = n], req' = req
      PROVE  /\ worker' \in [Slots -> Worker \cup {Free}]
             /\ LockSound'
  <2>1. n \in Worker \cup {Free} BY <1>2 DEF WorkerMove
  <2>2. worker'[s] = n /\ \A u \in Slots : u # s => worker'[u] = worker[u]
    BY <1>2, ActorTypes
  <2>3. worker' \in [Slots -> Worker \cup {Free}] BY <1>2, <2>1, ActorTypes
  <2>4. CASE SlotHolds(n) => SlotHolds(worker[s])
    <3>1. ASSUME NEW u \in Slots, SlotHolds(worker'[u]) PROVE SlotHolds(worker[u])
      <4>1. CASE u = s BY <2>2, <2>4, <3>1, <4>1
      <4>2. CASE u # s BY <2>2, <3>1, <4>2
      <4> QED BY <4>1, <4>2
    <3>3. \A u \in Slots : SlotHolds(worker'[u]) => SlotHolds(worker[u])
      BY <3>1
    <3>2. \A h \in Handlers : RequestHolds(req'[h]) => RequestHolds(req[h])
      BY <1>2
    <3> QED BY <2>3, <3>2, <3>3, FewerHold
  <2>6. CASE SlotHolds(n) /\ LockFree
    <3>1. /\ \A u \in Slots : ~SlotHolds(worker[u])
          /\ \A h \in Handlers : ~RequestHolds(req[h])
      BY <2>6, FreeLock
    <3>2. LockSound' BY <1>2, <2>2, <3>1 DEF LockSound
    <3> QED BY <2>3, <3>2
  <2>7. SlotHolds(n) => SlotHolds(worker[s]) \/ LockFree
    BY <1>2, NobodyHolds DEF WorkerMove
  <2>8. LockSound' BY <2>4, <2>6, <2>7
  <2> QED BY <2>3, <2>8
<1>3. ASSUME NEW h \in Handlers, NEW n,
             RequestMove(h, n), req' = [req EXCEPT ![h] = n], worker' = worker
      PROVE  /\ req' \in [Handlers -> Request \cup {Idle}]
             /\ LockSound'
  <2>1. n \in Request \cup {Idle} BY <1>3 DEF RequestMove
  <2>2. req'[h] = n /\ \A g \in Handlers : g # h => req'[g] = req[g]
    BY <1>3, ActorTypes
  <2>3. req' \in [Handlers -> Request \cup {Idle}] BY <1>3, <2>1, ActorTypes
  <2>4. CASE RequestHolds(n) => RequestHolds(req[h])
    <3>1. ASSUME NEW g \in Handlers, RequestHolds(req'[g]) PROVE RequestHolds(req[g])
      <4>1. CASE g = h BY <2>2, <2>4, <3>1, <4>1
      <4>2. CASE g # h BY <2>2, <3>1, <4>2
      <4> QED BY <4>1, <4>2
    <3>3. \A g \in Handlers : RequestHolds(req'[g]) => RequestHolds(req[g])
      BY <3>1
    <3>2. \A s \in Slots : SlotHolds(worker'[s]) => SlotHolds(worker[s])
      BY <1>3
    <3> QED BY <2>3, <3>2, <3>3, FewerHold
  <2>6. CASE RequestHolds(n) /\ LockFree
    <3>1. /\ \A u \in Slots : ~SlotHolds(worker[u])
          /\ \A g \in Handlers : ~RequestHolds(req[g])
      BY <2>6, FreeLock
    <3>2. LockSound' BY <1>3, <2>2, <3>1 DEF LockSound
    <3> QED BY <2>3, <3>2
  <2>7. RequestHolds(n) => RequestHolds(req[h]) \/ LockFree
    BY <1>3, NobodyHolds DEF RequestMove
  <2>8. LockSound' BY <2>4, <2>6, <2>7
  <2> QED BY <2>3, <2>8
<1>4. CASE worker' = [s \in Slots |-> Free] /\ req' = [h \in Handlers |-> Idle]
  BY <1>4, NobodyHolds DEF LockSound
<1> QED BY <1>1, <1>2, <1>3, <1>4, ActorTypes DEF ActorMove

\* A published row stays published and is about what it was about.
LEMMA PublishedStays ==
    ASSUME Sound, RowMoves, NEW t \in Tasks, Published(tasks[t])
    PROVE  /\ Published(tasks'[t]) /\ Kept(tasks'[t]) /\ Kept(tasks[t])
           /\ tasks'[t].subject = tasks[t].subject /\ tasks[t].subject \in Memories
           /\ digest'[t] = digest[t] /\ digest[t] # 0
<1>1. Kept(tasks[t]) BY DEF Kept, Published
<1>2. RowMove(t) BY DEF RowMoves
<1>3. Published(tasks'[t]) BY <1>2 DEF RowMove
<1>4. Kept(tasks'[t]) BY <1>3 DEF Kept, Published
<1>5. tasks[t].status # "none" BY <1>1 DEF Kept
<1> QED BY <1>1, <1>2, <1>3, <1>4, <1>5, RowFacts DEF RowMove

\* While a worker holds the lock no memory is deleted,
LEMMA HeldMemory ==
    ASSUME Sound, MemoryMove, NEW s \in Slots, SlotHolds(worker[s]),
           NEW m \in Memories, Live(m)
    PROVE  Live(m)'
<1>1. \A h \in Handlers : ~RequestHolds(req[h]) BY DEF Sound, LockSound
<1>2. ~LockFree BY FreeLock
<1> QED BY <1>1, <1>2 DEF MemoryMove, Live

\* and no message is saved but its own.
LEMMA HeldMessages ==
    ASSUME Sound, MessageMove, NEW s \in Slots,
           worker[s].at = "save", worker'[s].at = "save"
    PROVE  messages' \subseteq messages
<1>1. SlotHolds(worker[s]) BY DEF SlotHolds
<1>2. \A h \in Handlers : req[h].at # "save"
  BY <1>1 DEF Sound, LockSound, RequestHolds
<1>3. \A u \in Slots : worker[u].at = "save" => u = s
  BY <1>1 DEF Sound, LockSound, SlotHolds
<1> QED BY <1>2, <1>3 DEF MessageMove

\* A worker that stays where it is.
LEMMA StillWorker ==
    ASSUME Sound, RowMoves, IdMove, MemoryMove, MessageMove, NEW s \in Slots,
           worker[s] # Free, worker'[s] = worker[s]
    PROVE  /\ Published(Row(s))'
           /\ worker'[s].id < nextId'
           /\ worker'[s].at = "report" => worker'[s].outcome \in Queue!ReportStatuses
           /\ worker'[s].at = "save" =>
                /\ Live(Row(s).subject)'
                /\ Children(Row(s).subject, digest[Lease(s).task])' = {}
<1> DEFINE t == Lease(s).task
<1>1. /\ t \in Tasks /\ worker[s].id \in Nat /\ Lease(s)' = Lease(s)
  BY WorkerFacts DEF Lease
<1>2. /\ Published(tasks[t]) /\ worker[s].id < nextId
      /\ worker[s].at = "report" => worker[s].outcome \in Queue!ReportStatuses
      /\ worker[s].at = "save" =>
           Live(tasks[t].subject) /\ Children(tasks[t].subject, digest[t]) = {}
  BY DEF Sound, WorkersSound, Row
<1>3. Row(s)' = tasks'[t] /\ Row(s) = tasks[t] /\ Lease(s)'.task = t
  BY <1>1 DEF Row
<1> HIDE DEF t
<1>4. /\ Published(tasks'[t]) /\ tasks'[t].subject = tasks[t].subject
      /\ digest'[t] = digest[t] /\ tasks[t].subject \in Memories
  BY <1>1, <1>2, PublishedStays
<1>5. worker'[s].id < nextId'
  <2>1. nextId \in Nat BY DEF Sound, TypeOK
  <2>2. CASE nextId' >= nextId BY <1>1, <1>2, <2>1, <2>2 DEF IdMove
  <2>3. CASE worker' = [u \in Slots |-> Free] BY <2>3
  <2> QED BY <2>2, <2>3 DEF IdMove
<1>6. ASSUME worker'[s].at = "save"
      PROVE  /\ Live(Row(s).subject)'
             /\ Children(Row(s).subject, digest[Lease(s).task])' = {}
  <2> DEFINE m == tasks[t].subject
             n == digest[t]
  <2>1. Live(m) /\ Children(m, n) = {} /\ m \in Memories BY <1>2, <1>4, <1>6
  <2>2. Row(s)'.subject = m /\ digest'[Lease(s)'.task] = n BY <1>3, <1>4
  <2> HIDE DEF m, n
  <2>3. worker[s].at = "save" /\ SlotHolds(worker[s]) BY <1>6 DEF SlotHolds
  <2>4. memories'[m] = "live" BY <2>1, <2>3, HeldMemory DEF Live
  <2>5. messages' \subseteq messages BY <1>6, <2>3, HeldMessages
  <2>6. {x \in {y \in messages' : y.memory = m} : x.source = n} = {}
    BY <2>1, <2>5 DEF Children, Of
  <2> QED BY <2>2, <2>4, <2>6 DEF Live, Children, Of
<1>7. Published(Row(s))' BY <1>3, <1>4 DEF Published
<1> QED BY <1>2, <1>5, <1>6, <1>7

\* A worker that moved.
LEMMA MovedWorker ==
    ASSUME Sound, RowMoves, NEW s \in Slots, worker'[s] # Free,
           WorkerMove(s, worker'[s])
    PROVE  /\ Published(Row(s))'
           /\ worker'[s].id < nextId'
           /\ worker'[s].at = "report" => worker'[s].outcome \in Queue!ReportStatuses
           /\ worker'[s].at = "save" =>
                /\ Live(Row(s).subject)'
                /\ Children(Row(s).subject, digest[Lease(s).task])' = {}
<1> DEFINE n == worker'[s]
           t == n.lease.task
<1>1. /\ n \in Worker /\ Published(tasks[t]) /\ n.id < nextId'
      /\ n.at = "report" => n.outcome \in Queue!ReportStatuses
      /\ n.at = "save" =>
           /\ Live(tasks[t].subject) /\ Children(tasks[t].subject, digest[t]) = {}
           /\ UNCHANGED <<tasks, digest, memories, messages>>
  BY DEF WorkerMove
<1>2. t \in Tasks BY <1>1 DEF Worker, Queue!Lease
<1>3. Row(s)' = tasks'[t] /\ Lease(s)'.task = t BY DEF Row, Lease
<1> HIDE DEF t
<1>4. Published(tasks'[t]) BY <1>1, <1>2, PublishedStays
<1>5. Published(Row(s))' BY <1>3, <1>4 DEF Published
<1>6. n.at = "save" => /\ Live(Row(s).subject)'
                       /\ Children(Row(s).subject, digest[Lease(s).task])' = {}
  <2> SUFFICES ASSUME n.at = "save"
               PROVE  /\ Live(Row(s).subject)'
                      /\ Children(Row(s).subject, digest[Lease(s).task])' = {}
    OBVIOUS
  <2> DEFINE m == tasks[t].subject
             d == digest[t]
  <2>1. Live(m) /\ Children(m, d) = {} BY <1>1
  <2>2. Row(s)'.subject = m /\ digest'[Lease(s)'.task] = d BY <1>1, <1>3
  <2> HIDE DEF m, d
  <2>3. memories' = memories /\ messages' = messages BY <1>1
  <2>4. memories'[m] = "live" BY <2>1, <2>3 DEF Live
  <2>5. {x \in {y \in messages' : y.memory = m} : x.source = d} = {}
    BY <2>1, <2>3 DEF Children, Of
  <2> QED BY <2>2, <2>4, <2>5 DEF Live, Children, Of
<1> QED BY <1>1, <1>5, <1>6

LEMMA WorkersMoved ==
    ASSUME Sound, RowMoves, IdMove, MemoryMove, MessageMove, ActorMove
    PROVE  WorkersSound'
<1>1. ASSUME NEW s \in Slots, worker'[s] # Free
      PROVE  /\ Published(Row(s))'
             /\ worker'[s].id < nextId'
             /\ worker'[s].at = "report" => worker'[s].outcome \in Queue!ReportStatuses
             /\ worker'[s].at = "save" =>
                  /\ Live(Row(s).subject)'
                  /\ Children(Row(s).subject, digest[Lease(s).task])' = {}
  <2>1. worker'[s] = worker[s] \/ WorkerMove(s, worker'[s])
    <3>1. CASE worker' = worker BY <3>1
    <3>2. ASSUME NEW u \in Slots, NEW n,
                 WorkerMove(u, n), worker' = [worker EXCEPT ![u] = n]
          PROVE  worker'[s] = worker[s] \/ WorkerMove(s, worker'[s])
      <4>1. CASE s = u
        <5>1. worker'[s] = n BY <3>2, <4>1, ActorTypes
        <5> QED BY <3>2, <4>1, <5>1
      <4>2. CASE s # u BY <3>2, <4>2, ActorTypes
      <4> QED BY <4>1, <4>2
    <3>3. CASE worker' = [u \in Slots |-> Free] BY <1>1, <3>3
    <3> QED BY <3>1, <3>2, <3>3 DEF ActorMove
  <2>2. CASE worker'[s] = worker[s]
    <3>1. worker[s] # Free BY <1>1, <2>2
    <3> QED BY <2>2, <3>1, StillWorker
  <2>3. CASE WorkerMove(s, worker'[s]) BY <1>1, <2>3, MovedWorker
  <2> QED BY <2>1, <2>2, <2>3
<1> QED BY <1>1 DEF WorkersSound

\* What RequestsSound says of a request.
SoundRequest(r) ==
    /\ r.at \in Posting => memories[r.memory] # "absent" /\ r.id < nextId
    /\ r.at \in Posting \ {"embed"} => r.id # 0
    /\ r.at \in {"save", "discard", "publish"} => r.task \in Tasks
    /\ r.at \in {"save", "discard"} => \A x \in messages : x.from # r.task
    /\ r.at = "save" => /\ Kept(tasks[r.task])
                        /\ tasks[r.task].subject = r.memory
                        /\ digest[r.task] = r.id

\* The same of what it becomes.
SoundRequestNext(n) ==
    /\ n.at \in Posting => memories'[n.memory] # "absent" /\ n.id < nextId'
    /\ n.at \in Posting \ {"embed"} => n.id # 0
    /\ n.at \in {"save", "discard", "publish"} => n.task \in Tasks
    /\ n.at \in {"save", "discard"} => \A x \in messages' : x.from # n.task
    /\ n.at = "save" => /\ Kept(tasks'[n.task])
                        /\ tasks'[n.task].subject = n.memory
                        /\ digest'[n.task] = n.id

\* The memory of a dialogue that is being posted.
LEMMA PostedMemory ==
    ASSUME NEW r \in Request, r.at \in Posting
    PROVE  r.memory \in Memories /\ r.id \in Nat
BY RequestKinds, KindFacts DEF Posting

LEMMA StillRequest ==
    ASSUME Sound, RowMoves, IdMove, MemoryMove, MessageMove, NEW h \in Handlers,
           req[h] # Idle, req'[h] = req[h]
    PROVE  SoundRequestNext(req'[h])
<1> DEFINE r == req[h]
           t == r.task
<1>1. r \in Request BY ActorTypes
<1>2. SoundRequest(r) BY DEF Sound, RequestsSound, SoundRequest
<1>3. r.at \in Posting => memories'[r.memory] # "absent" /\ r.id < nextId'
  <2> SUFFICES ASSUME r.at \in Posting
               PROVE  memories'[r.memory] # "absent" /\ r.id < nextId'
    OBVIOUS
  <2>1. r.memory \in Memories /\ r.id \in Nat BY <1>1, PostedMemory
  <2>2. memories'[r.memory] # "absent"
    BY <1>2, <2>1 DEF SoundRequest, MemoryMove
  <2>3. nextId' >= nextId
    <3>1. CASE req' = [g \in Handlers |-> Idle] BY <3>1
    <3> QED BY <3>1 DEF IdMove
  <2>4. nextId \in Nat /\ nextId' \in Nat BY DEF IdMove, Sound, TypeOK
  <2> QED BY <1>2, <2>1, <2>2, <2>3, <2>4 DEF SoundRequest
<1>4. r.at \in {"save", "discard"} => messages' \subseteq messages
  <2> SUFFICES ASSUME r.at \in {"save", "discard"} PROVE messages' \subseteq messages
    OBVIOUS
  <2>1. RequestHolds(r) BY DEF RequestHolds
  <2>2. \A g \in Handlers : req[g].at = "save" => g = h
    BY <2>1 DEF Sound, LockSound, RequestHolds
  <2>3. \A s \in Slots : worker[s].at # "save"
    BY <2>1 DEF Sound, LockSound, SlotHolds
  <2> QED BY <2>2, <2>3 DEF MessageMove
<1>5. r.at = "save" => /\ Kept(tasks'[t])
                       /\ tasks'[t].subject = r.memory /\ digest'[t] = r.id
  <2> SUFFICES ASSUME r.at = "save"
               PROVE  /\ Kept(tasks'[t])
                      /\ tasks'[t].subject = r.memory /\ digest'[t] = r.id
    OBVIOUS
  <2>1. /\ t \in Tasks /\ Kept(tasks[t]) /\ tasks[t].subject = r.memory
        /\ digest[t] = r.id
    BY <1>2 DEF SoundRequest
  <2>2. RequestHolds(r) BY DEF RequestHolds
  <2>3. ~LockFree BY <2>2, FreeLock
  <2>4. \A g \in Handlers : req[g].at # "discard"
    BY <2>2 DEF Sound, LockSound, RequestHolds
  <2>5. ~Discarded(t) BY <2>3, <2>4 DEF Discarded
  <2>6. RowMove(t) BY <2>1 DEF RowMoves
  <2>7. Kept(tasks'[t]) BY <2>1, <2>5, <2>6 DEF RowMove
  <2>8. tasks[t].status # "none" BY <2>1 DEF Kept
  <2> QED BY <2>1, <2>6, <2>7, <2>8 DEF RowMove
<1> HIDE DEF t
<1>6. r.at \in {"save", "discard"} => \A x \in messages' : x.from # r.task
  BY <1>2, <1>4 DEF SoundRequest
<1>7. SoundRequestNext(r)
  BY <1>2, <1>3, <1>5, <1>6 DEF SoundRequest, SoundRequestNext, t
<1> QED BY <1>7

LEMMA MovedRequest ==
    ASSUME Sound, MemoryMove, NEW h \in Handlers, NEW n, n # Idle,
           RequestMove(h, n)
    PROVE  SoundRequestNext(n)
<1>1. n \in Request BY DEF RequestMove
<1>2. n.at \in Posting => memories'[n.memory] # "absent"
  BY <1>1, PostedMemory DEF RequestMove, MemoryMove
<1> QED BY <1>2 DEF RequestMove, SoundRequestNext

LEMMA RequestsMoved ==
    ASSUME Sound, RowMoves, IdMove, MemoryMove, MessageMove, ActorMove
    PROVE  RequestsSound'
<1>1. ASSUME NEW h \in Handlers PROVE SoundRequestNext(req'[h])
  <2>1. CASE req'[h] = Idle
    BY <2>1 DEF Idle, SoundRequestNext, Posting
  <2>2. CASE req'[h] # Idle /\ req'[h] = req[h]
    <3>1. req[h] # Idle BY <2>2
    <3> QED BY <2>2, <3>1, StillRequest
  <2>3. CASE req'[h] # Idle /\ RequestMove(h, req'[h])
    BY <2>3, MovedRequest
  <2>4. \/ req'[h] = req[h] \/ RequestMove(h, req'[h]) \/ req'[h] = Idle
    <3>1. CASE req' = req BY <3>1
    <3>2. ASSUME NEW g \in Handlers, NEW n,
                 RequestMove(g, n), req' = [req EXCEPT ![g] = n]
          PROVE  req'[h] = req[h] \/ RequestMove(h, req'[h])
      <4>1. CASE h = g
        <5>1. req'[h] = n BY <3>2, <4>1, ActorTypes
        <5> QED BY <3>2, <4>1, <5>1
      <4>2. CASE h # g BY <3>2, <4>2, ActorTypes
      <4> QED BY <4>1, <4>2
    <3>3. CASE req' = [g \in Handlers |-> Idle] BY <3>3
    <3> QED BY <3>1, <3>2, <3>3 DEF ActorMove
  <2> QED BY <2>1, <2>2, <2>3, <2>4
<1> QED BY <1>1 DEF RequestsSound, SoundRequestNext

\* What MessagesSound says of one message and its row, and of what they become.
SoundMessage(x) ==
    /\ x.id < nextId
    /\ tasks[x.from].status # "none"
    /\ memories[x.memory] # "absent"
    /\ x.source = 0 /\ Kept(tasks[x.from]) =>
        tasks[x.from].subject = x.memory /\ digest[x.from] = x.id
    /\ x.source = 0 /\ Live(x.memory) => Kept(tasks[x.from])
    /\ x.source # 0 => memories[x.memory] # "cleared"

SoundMessageNext(x) ==
    /\ x.id < nextId'
    /\ tasks'[x.from].status # "none"
    /\ memories'[x.memory] # "absent"
    /\ x.source = 0 /\ Kept(tasks'[x.from]) =>
        tasks'[x.from].subject = x.memory /\ digest'[x.from] = x.id
    /\ x.source = 0 /\ memories'[x.memory] = "live" => Kept(tasks'[x.from])
    /\ x.source # 0 => memories'[x.memory] # "cleared"

LEMMA MessageTypes ==
    ASSUME Sound, NEW x \in messages
    PROVE  /\ x \in Message /\ x.id \in Nat /\ x.memory \in Memories
           /\ x.source \in Nat /\ x.from \in Tasks
           /\ SoundMessage(x)
           /\ x.source # 0 => \A y \in messages :
                y.memory = x.memory /\ y.source = x.source => y = x
<1>1. x \in Message BY DEF Sound, TypeOK
<1>2. SoundMessage(x) BY DEF Sound, MessagesSound, SoundMessage
<1>3. x.source # 0 => \A y \in Children(x.memory, x.source) : y = x
  BY DEF Sound, MessagesSound
<1> QED BY <1>1, <1>2, <1>3 DEF Message, Children, Of

\* A message that stays.
LEMMA OldMessage ==
    ASSUME Sound, RowMoves, IdMove, MemoryMove, NEW x \in messages, x \in messages'
    PROVE  SoundMessageNext(x)
<1> DEFINE t == x.from
           m == x.memory
<1>1. /\ x.id \in Nat /\ m \in Memories /\ t \in Tasks
      /\ SoundMessage(x)
  BY MessageTypes
<1>2. RowMove(t) BY <1>1 DEF RowMoves
<1>3. /\ memories'[m] = "absent" => memories[m] = "absent"
      /\ memories'[m] = "live" => memories[m] \in {"live", "absent"}
      /\ memories'[m] = "cleared" => memories[m] = "cleared"
  BY <1>1 DEF MemoryMove
<1>4. x.id < nextId'
  <2>1. nextId \in Nat /\ nextId' \in Nat BY DEF Sound, TypeOK, IdMove
  <2>2. CASE nextId' >= nextId BY <1>1, <2>1, <2>2 DEF SoundMessage
  <2>3. CASE \A y \in messages' : y.id < nextId' BY <2>3
  <2> QED BY <2>2, <2>3 DEF IdMove
<1>5. tasks'[t].status # "none" BY <1>1, <1>2 DEF SoundMessage, RowMove
<1>6. memories'[m] # "absent" BY <1>1, <1>3 DEF SoundMessage
<1>7. ASSUME x.source = 0, Kept(tasks'[t])
      PROVE  tasks'[t].subject = m /\ digest'[t] = x.id
  <2>1. tasks[t].status # "none" BY <1>1 DEF SoundMessage
  <2>2. Kept(tasks[t]) BY <1>2, <1>7, <2>1 DEF RowMove, Kept
  <2>3. tasks[t].subject = m /\ digest[t] = x.id
    BY <1>1, <1>7, <2>2 DEF SoundMessage
  <2> QED BY <1>2, <1>7, <2>1, <2>2, <2>3 DEF RowMove
<1>8. ASSUME x.source = 0, memories'[m] = "live" PROVE Kept(tasks'[t])
  <2>1. Live(m) BY <1>1, <1>3, <1>8 DEF SoundMessage, Live
  <2>2. Kept(tasks[t]) BY <1>1, <1>8, <2>1 DEF SoundMessage
  <2>3. ~Discarded(t) BY <1>8, <2>1 DEF Discarded
  <2> QED BY <1>2, <2>2, <2>3 DEF RowMove
<1>9. x.source # 0 => memories'[m] # "cleared" BY <1>1, <1>3 DEF SoundMessage
<1> QED BY <1>4, <1>5, <1>6, <1>7, <1>8, <1>9 DEF SoundMessageNext

\* A raw message that is saved.
LEMMA SavedRaw ==
    ASSUME Sound, NEW h \in Handlers, req[h].at = "save",
           UNCHANGED <<tasks, digest, memories, nextId>>
    PROVE  /\ NewRaw(h) \in Message
           /\ NewRaw(h).source = 0
           /\ SoundMessageNext(NewRaw(h))
<1> DEFINE r == req[h]
           x == NewRaw(h)
<1>1. r \in Request /\ r.at \in Posting
  BY RequestFacts, RequestKinds DEF Posting
<1>2. r.memory \in Memories /\ r.id \in Nat BY <1>1, PostedMemory
<1>3. SoundRequest(r) BY DEF Sound, RequestsSound, SoundRequest
<1>4. r.task \in Tasks BY <1>3 DEF SoundRequest
<1>5. x.id = r.id /\ x.memory = r.memory /\ x.source = 0 /\ x.from = r.task
  BY DEF NewRaw
<1>6. x \in Message BY <1>2, <1>4 DEF NewRaw, Message
<1> HIDE DEF x
<1>7. Kept(tasks[r.task]) /\ tasks[r.task].status # "none"
  BY <1>3 DEF SoundRequest, Kept
<1>8. SoundMessageNext(x)
  BY <1>1, <1>3, <1>5, <1>7 DEF SoundRequest, SoundMessageNext
<1> QED BY <1>5, <1>6, <1>8 DEF x

\* A child that is saved.
LEMMA SavedChild ==
    ASSUME Sound, NEW s \in Slots, worker[s].at = "save",
           UNCHANGED <<tasks, digest, memories, nextId>>
    PROVE  /\ NewChild(s) \in Message
           /\ NewChild(s).source # 0
           /\ SoundMessageNext(NewChild(s))
           /\ \A y \in messages : ~(/\ y.memory = NewChild(s).memory
                                   /\ y.source = NewChild(s).source)
<1> DEFINE t == Lease(s).task
           x == NewChild(s)
<1>1. worker[s] # Free BY DEF Free
<1>2. t \in Tasks /\ worker[s].id \in Nat BY <1>1, WorkerFacts
<1>3. /\ Published(tasks[t]) /\ worker[s].id < nextId
      /\ Live(tasks[t].subject) /\ Children(tasks[t].subject, digest[t]) = {}
  BY <1>1 DEF Sound, WorkersSound, Row
<1>4. Kept(tasks[t]) BY <1>3 DEF Kept, Published
<1>5. tasks[t].subject \in Memories /\ digest[t] # 0 /\ digest[t] \in Nat
  BY <1>2, <1>4, RowFacts
<1>6. /\ x.id = worker[s].id /\ x.memory = tasks[t].subject
      /\ x.source = digest[t] /\ x.from = t
  BY DEF NewChild, Row
<1>7. x \in Message BY <1>2, <1>5 DEF NewChild, Message, Row
<1> HIDE DEF x, t
<1>8. tasks[t].status # "none" BY <1>4 DEF Kept
<1>9. SoundMessageNext(x) BY <1>3, <1>5, <1>6, <1>8 DEF SoundMessageNext, Live
<1>10. \A y \in messages : ~(y.memory = x.memory /\ y.source = x.source)
  BY <1>3, <1>6 DEF Children, Of
<1> QED BY <1>5, <1>6, <1>7, <1>9, <1>10 DEF x

\* One message at most is new, and no child of the same message is there.
LEMMA NewMessages ==
    ASSUME Sound, MessageMove
    PROVE  \/ messages' \subseteq messages
           \/ \E n \in Message :
                /\ messages' \subseteq messages \cup {n}
                /\ SoundMessageNext(n)
                /\ \/ n.source = 0
                   \/ \A y \in messages :
                        ~(y.memory = n.memory /\ y.source = n.source)
<1>1. ASSUME NEW h \in Handlers, req[h].at = "save",
             messages' \subseteq messages \cup {NewRaw(h)},
             UNCHANGED <<tasks, digest, memories, nextId>>
      PROVE  \E n \in Message :
                /\ messages' \subseteq messages \cup {n}
                /\ SoundMessageNext(n)
                /\ n.source = 0
  BY <1>1, SavedRaw
<1>2. ASSUME NEW s \in Slots, worker[s].at = "save",
             messages' \subseteq messages \cup {NewChild(s)},
             UNCHANGED <<tasks, digest, memories, nextId>>
      PROVE  \E n \in Message :
                /\ messages' \subseteq messages \cup {n}
                /\ SoundMessageNext(n)
                /\ \A y \in messages :
                     ~(y.memory = n.memory /\ y.source = n.source)
  BY <1>2, SavedChild
<1> QED BY <1>1, <1>2 DEF MessageMove

LEMMA MessagesMoved ==
    ASSUME Sound, RowMoves, IdMove, MemoryMove, MessageMove
    PROVE  /\ messages' \subseteq Message
           /\ MessagesSound'
<1>1. messages \subseteq Message BY DEF Sound, TypeOK
<1>2. ASSUME /\ messages' \subseteq Message
             /\ \A x \in messages' : SoundMessageNext(x)
             /\ \A x, y \in messages' :
                  x.source # 0 /\ y.memory = x.memory /\ y.source = x.source => y = x
      PROVE  messages' \subseteq Message /\ MessagesSound'
  BY <1>2 DEF MessagesSound, SoundMessageNext, Live, Children, Of
<1>3. CASE messages' \subseteq messages
  BY <1>1, <1>2, <1>3, OldMessage, MessageTypes
<1>4. ASSUME NEW n \in Message, messages' \subseteq messages \cup {n},
             SoundMessageNext(n),
             \/ n.source = 0
             \/ \A y \in messages : ~(y.memory = n.memory /\ y.source = n.source)
      PROVE  messages' \subseteq Message /\ MessagesSound'
  <2>1. \A x \in messages' : SoundMessageNext(x) BY <1>4, OldMessage
  <2>2. ASSUME NEW x \in messages', NEW y \in messages',
               x.source # 0, y.memory = x.memory, y.source = x.source
        PROVE  y = x
    <3>1. CASE x \in messages /\ y \in messages
      BY <2>2, <3>1, MessageTypes
    <3>2. CASE x = n /\ y \in messages BY <1>4, <2>2, <3>2
    <3>3. CASE x \in messages /\ y = n BY <1>4, <2>2, <3>3
    <3>4. CASE x = n /\ y = n BY <3>4
    <3> QED BY <1>4, <3>1, <3>2, <3>3, <3>4
  <2>3. messages' \subseteq Message BY <1>1, <1>4
  <2> QED BY <1>2, <2>1, <2>2, <2>3
<1> QED BY <1>3, <1>4, NewMessages

LEMMA SoundMoved ==
    ASSUME Sound, Moves
    PROVE  Sound'
<1>1. /\ RowMoves /\ IdMove /\ MemoryMove /\ MessageMove /\ ActorMove
      /\ boot' \subseteq Tasks
  BY DEF Moves
<1>2. TypeOK'
  <2>1. Queue!TypeOK' /\ digest' \in [Tasks -> Nat] BY <1>1 DEF RowMoves
  <2>2. memories' \in [Memories -> MemoryState] BY <1>1 DEF MemoryMove
  <2>3. messages' \subseteq Message BY <1>1, MessagesMoved
  <2>4. nextId' \in Nat \ {0} /\ evicted' \subseteq Tasks
    BY <1>1 DEF IdMove, MessageMove
  <2>5. /\ worker' \in [Slots -> Worker \cup {Free}]
        /\ req' \in [Handlers -> Request \cup {Idle}]
    BY <1>1, ActorsMoved
  <2> QED BY <1>1, <2>1, <2>2, <2>3, <2>4, <2>5 DEF TypeOK
<1>3. RowsSound'
  <2>1. ASSUME NEW t \in Tasks, Kept(tasks'[t])
        PROVE  tasks'[t].subject \in Memories /\ digest'[t] # 0
    BY <1>1, <2>1 DEF RowMoves, RowMove
  <2> QED BY <1>1, <2>1 DEF RowsSound, RowMoves
<1>4. LockSound' /\ WorkersSound' /\ RequestsSound' /\ MessagesSound'
  BY <1>1, ActorsMoved, WorkersMoved, RequestsMoved, MessagesMoved
<1> QED BY <1>2, <1>3, <1>4 DEF Sound

-----------------------------------------------------------------------------
(* Steps of which only a part moves *)

LEMMA SameIds == ASSUME Sound, nextId' = nextId PROVE IdMove
BY DEF IdMove, Sound, TypeOK

LEMMA SameMemories == ASSUME Sound, memories' = memories PROVE MemoryMove
BY DEF MemoryMove, Sound, TypeOK, MemoryState

LEMMA FewerMessages ==
    ASSUME Sound, messages' \subseteq messages, evicted' = evicted
    PROVE  MessageMove
BY DEF MessageMove, Sound, TypeOK

LEMMA SameBoot == ASSUME Sound, boot' = boot PROVE boot' \subseteq Tasks
BY DEF Sound, TypeOK

LEMMA StillRows ==
    ASSUME Sound, UNCHANGED <<queueVars, digest>> PROVE RowMoves
BY SameRows DEF queueVars

\* Neither ids, memories nor messages: only rows, and a request or a worker.
Quiet == UNCHANGED <<nextId, memories, messages, evicted>>

LEMMA QuietMoves ==
    ASSUME Sound, Quiet, RowMoves, ActorMove, boot' \subseteq Tasks
    PROVE  Moves
BY SameIds, SameMemories, FewerMessages DEF Quiet, Moves

LEMMA QuietRequest ==
    ASSUME Sound, Quiet, RowMoves, boot' = boot, worker' = worker,
           NEW h \in Handlers, NEW n, RequestMove(h, n), req' = [req EXCEPT ![h] = n]
    PROVE  Moves
BY QuietMoves, SameBoot DEF ActorMove

LEMMA QuietWorker ==
    ASSUME Sound, Quiet, RowMoves, boot' = boot, req' = req,
           NEW s \in Slots, NEW n, WorkerMove(s, n), worker' = [worker EXCEPT ![s] = n]
    PROVE  Moves
BY QuietMoves, SameBoot DEF ActorMove

LEMMA Finished == ASSUME NEW h \in Handlers PROVE RequestMove(h, Idle)
BY DEF RequestMove

LEMMA Left == ASSUME NEW s \in Slots PROVE WorkerMove(s, Free)
BY DEF WorkerMove

\* A request that goes on.
LEMMA GoAdd ==
    ASSUME NEW r \in AddRequest, NEW a \in Posting
    PROVE  LET n == [r EXCEPT !.at = a]
           IN  /\ n \in Request /\ n.at = a /\ n.kind = "add"
               /\ n.memory = r.memory /\ n.id = r.id /\ n.task = r.task
<1> DEFINE n == [r EXCEPT !.at = a]
<1>1. /\ n \in AddRequest /\ n.at = a /\ n.kind = "add"
      /\ n.memory = r.memory /\ n.id = r.id /\ n.task = r.task
  BY DEF AddRequest
<1> HIDE DEF n
<1>2. n \in Request BY <1>1, RequestKinds
<1> QED BY <1>1, <1>2 DEF n

LEMMA GoDelete ==
    ASSUME NEW r \in DeleteRequest, NEW a \in {"cancel", "row", "messages"}
    PROVE  LET n == [r EXCEPT !.at = a]
           IN  n \in Request /\ n.at = a /\ n.kind = "delete"
<1> DEFINE n == [r EXCEPT !.at = a]
<1>1. n \in DeleteRequest /\ n.at = a /\ n.kind = "delete" BY DEF DeleteRequest
<1> HIDE DEF n
<1>2. n \in Request BY <1>1, RequestKinds
<1> QED BY <1>1, <1>2 DEF n

LEMMA GoClear ==
    ASSUME NEW r \in ClearRequest, NEW a \in {"lock", "cancel", "messages", "rows"}
    PROVE  LET n == [r EXCEPT !.at = a]
           IN  n \in Request /\ n.at = a /\ n.kind = "clear"
<1> DEFINE n == [r EXCEPT !.at = a]
<1>1. n \in ClearRequest /\ n.at = a /\ n.kind = "clear" BY DEF ClearRequest
<1> HIDE DEF n
<1>2. n \in Request BY <1>1, RequestKinds
<1> QED BY <1>1, <1>2 DEF n

\* A request that posts nothing moves freely while it has the lock or gets it.
LEMMA Unposted ==
    ASSUME NEW h \in Handlers, NEW n \in Request, n.at \notin Posting,
           RequestHolds(n) => RequestHolds(req[h]) \/ LockFree
    PROVE  RequestMove(h, n)
BY DEF RequestMove, Posting

LEMMA GoStep ==
    ASSUME Sound, NEW h \in Handlers, NEW a, Go(h, a)
    PROVE  req' = [req EXCEPT ![h] = [req[h] EXCEPT !.at = a]]
BY ActorTypes DEF Go

\* What saving a message may do to the messages.
LEMMA SaveStep ==
    ASSUME Sound, NEW x, Save(x)
    PROVE  messages' \subseteq messages \cup {x} /\ evicted' \subseteq Tasks
<1>1. messages' \subseteq messages \cup {x} BY DEF Save, Saved
<1>2. \A y \in messages : y.from \in Tasks BY MessageTypes
<1>3. evicted \subseteq Tasks BY DEF Sound, TypeOK
<1>4. evicted' = evicted \cup {y.from : y \in {z \in messages \ messages' : z.source = 0}}
  BY DEF Save
<1> QED BY <1>1, <1>2, <1>3, <1>4

-----------------------------------------------------------------------------
(* Requests *)

LEMMA StartAddStep ==
    ASSUME Sound, NEW h \in Handlers, NEW m \in Memories, StartAdd(h, m)
    PROVE  Moves
<1> DEFINE n == [kind |-> "add", at |-> "embed", memory |-> m, id |-> 0,
                 task |-> Queue!NoToken]
<1>1. /\ memories[m] = "live" /\ req' = [req EXCEPT ![h] = n]
      /\ UNCHANGED <<queueVars, memories, messages, nextId, digest, evicted, boot, worker>>
  BY DEF StartAdd, Start, Live
<1>2. n \in Request /\ n.at = "embed" /\ n.memory = m /\ n.id = 0
  BY DEF Request
<1> HIDE DEF n
<1>3. nextId \in Nat /\ nextId # 0 BY DEF Sound, TypeOK
<1>4. RequestMove(h, n)
  BY <1>1, <1>2, <1>3 DEF RequestMove, Posting, RequestHolds
<1> QED BY <1>1, <1>4, StillRows, QuietRequest DEF Quiet

LEMMA EmbedStep ==
    ASSUME Sound, NEW h \in Handlers, NEW ok \in BOOLEAN, Embed(h, ok)
    PROVE  Moves
<1>1. /\ req[h].at = "embed"
      /\ UNCHANGED <<queueVars, memories, messages, digest, evicted, boot, worker>>
  BY DEF Embed
<1>2. CASE ok
  <2> DEFINE n == [req[h] EXCEPT !.at = "stage", !.id = nextId]
  <2>1. nextId' = nextId + 1 /\ req' = [req EXCEPT ![h] = n]
    BY <1>2, ActorTypes DEF Embed
  <2>2. nextId \in Nat \ {0} BY DEF Sound, TypeOK
  <2>3. req[h] \in AddRequest /\ req[h].at \in Posting
    BY <1>1, RequestFacts DEF Posting
  <2>4. /\ n \in AddRequest /\ n.at = "stage" /\ n.id = nextId
        /\ n.memory = req[h].memory
    BY <2>2, <2>3 DEF AddRequest, Posting
  <2> HIDE DEF n
  <2>5. n \in Request BY <2>4, RequestKinds
  <2>6. memories[req[h].memory] # "absent" BY <2>3 DEF Sound, RequestsSound
  <2>7. RequestMove(h, n)
    BY <2>1, <2>2, <2>4, <2>5, <2>6 DEF RequestMove, RequestHolds
  <2>8. IdMove BY <2>1, <2>2 DEF IdMove
  <2>9. ActorMove BY <1>1, <2>1, <2>7 DEF ActorMove
  <2>10. RowMoves /\ MemoryMove /\ MessageMove /\ boot' \subseteq Tasks
    BY <1>1, StillRows, SameMemories, FewerMessages, SameBoot
  <2> QED BY <2>8, <2>9, <2>10 DEF Moves
<1>3. CASE ~ok
  <2>1. req' = [req EXCEPT ![h] = Idle] /\ nextId' = nextId
    BY <1>3 DEF Embed, Finish
  <2> QED BY <1>1, <2>1, StillRows, Finished, QuietRequest DEF Quiet
<1> QED BY <1>2, <1>3

LEMMA StageStep ==
    ASSUME Sound, NEW h \in Handlers, NEW t \in Tasks, NEW ok \in BOOLEAN,
           Stage(h, t, ok)
    PROVE  Moves
<1>1. /\ req[h].at = "stage" /\ LockFree
      /\ UNCHANGED <<memories, messages, nextId, evicted, boot, worker>>
  BY DEF Stage
<1>2. RowMoves BY StageMoves
<1>3. CASE ok
  <2> DEFINE n == [req[h] EXCEPT !.at = "save", !.task = t]
  <2>1. req' = [req EXCEPT ![h] = n] BY <1>3, ActorTypes DEF Stage
  <2>2. req[h] \in AddRequest /\ req[h].at \in Posting /\ req[h].at # "embed"
    BY <1>1, RequestFacts DEF Posting
  <2>3. /\ n \in AddRequest /\ n.at = "save" /\ n.id = req[h].id
        /\ n.memory = req[h].memory /\ n.task = t
    BY <2>2 DEF AddRequest, Posting
  <2> HIDE DEF n
  <2>4. n \in Request BY <2>3, RequestKinds
  <2>5. memories[req[h].memory] # "absent" /\ req[h].id < nextId /\ req[h].id # 0
    BY <2>2 DEF Sound, RequestsSound
  <2>6. /\ tasks[t].status = "none" /\ Kept(tasks'[t])
        /\ tasks'[t].subject = req[h].memory /\ digest'[t] = req[h].id
    BY <1>3, StageMoves
  <2>7. \A x \in messages : x.from # t
    BY <2>6, MessageTypes DEF SoundMessage
  <2>8. RequestMove(h, n)
    BY <1>1, <2>3, <2>4, <2>5, <2>6, <2>7 DEF RequestMove
  <2> QED BY <1>1, <1>2, <2>1, <2>8, QuietRequest DEF Quiet
<1>4. CASE ~ok
  <2>1. req' = [req EXCEPT ![h] = Idle] BY <1>4 DEF Stage, Finish
  <2> QED BY <1>1, <1>2, <2>1, Finished, QuietRequest DEF Quiet
<1> QED BY <1>3, <1>4

LEMMA SaveRawStep ==
    ASSUME Sound, NEW h \in Handlers, NEW ok \in BOOLEAN, SaveRaw(h, ok)
    PROVE  Moves
<1>1. /\ req[h].at = "save"
      /\ UNCHANGED <<queueVars, memories, nextId, digest, boot, worker>>
  BY DEF SaveRaw
<1>2. /\ req[h] \in AddRequest /\ req[h].at \in Posting /\ req[h].at # "embed"
      /\ RequestHolds(req[h])
  BY <1>1, RequestFacts DEF Posting, RequestHolds
<1>3. /\ memories[req[h].memory] # "absent" /\ req[h].id < nextId /\ req[h].id # 0
      /\ req[h].task \in Tasks /\ \A x \in messages : x.from # req[h].task
  BY <1>1, <1>2 DEF Sound, RequestsSound
<1>4. ASSUME NEW a \in {"publish", "discard"}, Go(h, a),
             a = "discard" => messages' = messages
      PROVE  ActorMove /\ req'[h].at = a
  <2> DEFINE n == [req[h] EXCEPT !.at = a]
  <2>1. req' = [req EXCEPT ![h] = n] BY <1>4, GoStep
  <2>2. a \in Posting BY DEF Posting
  <2>3. /\ n \in Request /\ n.at = a /\ n.memory = req[h].memory
        /\ n.id = req[h].id /\ n.task = req[h].task
    BY <1>2, <2>2, GoAdd
  <2> HIDE DEF n
  <2>4. RequestMove(h, n)
    BY <1>1, <1>2, <1>3, <1>4, <2>3 DEF RequestMove
  <2>5. req'[h] = n BY <2>1, ActorTypes
  <2> QED BY <1>1, <2>1, <2>3, <2>4, <2>5 DEF ActorMove
<1>5. RowMoves /\ MemoryMove /\ IdMove /\ boot' \subseteq Tasks
  BY <1>1, StillRows, SameMemories, SameIds, SameBoot
<1>6. CASE ok
  <2>1. Save(NewRaw(h)) /\ Go(h, "publish") BY <1>6 DEF SaveRaw, NewRaw
  <2>2. ActorMove /\ req'[h].at = "publish" BY <1>4, <2>1
  <2>3. messages' \subseteq messages \cup {NewRaw(h)} /\ evicted' \subseteq Tasks
    BY <2>1, SaveStep
  <2>4. UNCHANGED <<tasks, digest, memories, nextId>> BY <1>1 DEF queueVars
  <2>5. MessageMove BY <1>1, <2>2, <2>3, <2>4 DEF MessageMove
  <2> QED BY <1>5, <2>2, <2>5 DEF Moves
<1>7. CASE ~ok
  <2>1. Go(h, "discard") /\ messages' = messages /\ evicted' = evicted
    BY <1>7 DEF SaveRaw
  <2>2. ActorMove BY <1>4, <2>1
  <2>3. MessageMove BY <2>1, FewerMessages
  <2> QED BY <1>5, <2>2, <2>3 DEF Moves
<1> QED BY <1>6, <1>7

LEMMA DiscardStep ==
    ASSUME Sound, NEW h \in Handlers, NEW ok \in BOOLEAN, Discard(h, ok)
    PROVE  Moves
<1>1. /\ req' = [req EXCEPT ![h] = Idle]
      /\ UNCHANGED <<memories, messages, nextId, evicted, boot, worker>>
  BY DEF Discard, Finish
<1> QED BY <1>1, DiscardRowMoves, Finished, QuietRequest DEF Quiet

LEMMA PublishStep ==
    ASSUME Sound, NEW h \in Handlers, NEW ok \in BOOLEAN, Publish(h, ok)
    PROVE  Moves
<1>1. /\ req' = [req EXCEPT ![h] = Idle]
      /\ req[h].at = "publish"
      /\ UNCHANGED <<memories, messages, nextId, digest, evicted, boot, worker>>
      /\ Queue!PublishMemory(req[h].task, ok) \/ UNCHANGED queueVars
  BY DEF Publish, Finish
<1>2. req[h].task \in Tasks BY <1>1 DEF Sound, RequestsSound
<1>3. RowMoves BY <1>1, <1>2, PublishMoves, StillRows
<1> QED BY <1>1, <1>3, Finished, QuietRequest DEF Quiet

LEMMA StartDeleteStep ==
    ASSUME Sound, NEW h \in Handlers, NEW m \in Memories, StartDelete(h, m)
    PROVE  Moves
<1> DEFINE n == [kind |-> "delete", at |-> "cancel", memory |-> m]
<1>1. /\ req' = [req EXCEPT ![h] = n]
      /\ UNCHANGED <<queueVars, memories, messages, nextId, digest, evicted, boot, worker>>
  BY DEF StartDelete, Start
<1>2. n \in Request /\ n.at = "cancel" /\ n.kind = "delete"
  BY DEF Request
<1> HIDE DEF n
<1>3. RequestMove(h, n)
  BY <1>2, Unposted DEF Posting, RequestHolds
<1> QED BY <1>1, <1>3, StillRows, QuietRequest DEF Quiet

LEMMA DeleteCancelStep ==
    ASSUME Sound, NEW h \in Handlers, NEW ok \in BOOLEAN, DeleteCancel(h, ok)
    PROVE  Moves
<1> DEFINE n == [req[h] EXCEPT !.at = "row"]
<1>1. /\ req[h].at = "cancel" /\ req[h].kind = "delete" /\ LockFree
      /\ CancelRows(req[h].memory, ok)
      /\ UNCHANGED <<memories, messages, nextId, digest, evicted, boot, worker>>
      /\ IF ok THEN Go(h, "row") ELSE Finish(h)
  BY DEF DeleteCancel
<1>2. RowMoves BY <1>1, CancelMoves
<1>3. req' = [req EXCEPT ![h] = n] \/ req' = [req EXCEPT ![h] = Idle]
  BY <1>1, GoStep DEF Finish
<1>4. n \in Request /\ n.at = "row"
  BY <1>1, RequestFacts, GoDelete
<1> HIDE DEF n
<1>5. RequestMove(h, n) BY <1>1, <1>4, Unposted DEF Posting
<1> QED BY <1>1, <1>2, <1>3, <1>5, Finished, QuietRequest DEF Quiet

\* A deletion or clearing that holds the lock and changes memories.
LEMMA DeleteRowStep ==
    ASSUME Sound, NEW h \in Handlers, NEW ok \in BOOLEAN, DeleteRow(h, ok)
    PROVE  Moves
<1> DEFINE n == [req[h] EXCEPT !.at = "messages"]
<1>1. /\ req[h].at = "row" /\ RequestHolds(req[h])
      /\ UNCHANGED <<queueVars, messages, nextId, digest, evicted, boot, worker>>
      /\ req' = [req EXCEPT ![h] = n] \/ req' = [req EXCEPT ![h] = Idle]
  BY GoStep DEF DeleteRow, Finish, RequestHolds
<1>2. /\ n \in Request /\ n.at = "messages"
  BY <1>1, RequestFacts, GoDelete
<1> HIDE DEF n
<1>3. RequestMove(h, n) BY <1>1, <1>2, Unposted DEF Posting
<1>4. ActorMove BY <1>1, <1>3, Finished DEF ActorMove
<1>5. MemoryMove
  <2>1. \/ memories' = memories
        \/ memories' = [memories EXCEPT ![req[h].memory] = "deleted"]
    BY DEF DeleteRow
  <2>2. memories \in [Memories -> MemoryState] BY DEF Sound, TypeOK
  <2> QED BY <1>1, <2>1, <2>2 DEF MemoryMove, MemoryState
<1>6. RowMoves /\ IdMove /\ MessageMove /\ boot' \subseteq Tasks
  BY <1>1, StillRows, SameIds, FewerMessages, SameBoot
<1> QED BY <1>4, <1>5, <1>6 DEF Moves

LEMMA DeleteMessagesStep ==
    ASSUME Sound, NEW h \in Handlers, NEW ok \in BOOLEAN, DeleteMessages(h, ok)
    PROVE  Moves
<1> DEFINE m == req[h].memory
<1>1. /\ req[h].at = "messages" /\ RequestHolds(req[h])
      /\ UNCHANGED <<queueVars, nextId, digest, evicted, boot, worker>>
      /\ req' = [req EXCEPT ![h] = Idle]
  BY DEF DeleteMessages, Finish, RequestHolds
<1>2. ActorMove BY <1>1, Finished DEF ActorMove
<1>3. RowMoves /\ IdMove /\ boot' \subseteq Tasks
  BY <1>1, StillRows, SameIds, SameBoot
<1>4. CASE ok
  <2>1. messages' = messages \ Of(m) /\ memories' = [memories EXCEPT ![m] = "cleared"]
    BY <1>4 DEF DeleteMessages
  <2>2. MessageMove BY <1>1, <2>1, FewerMessages
  <2>3. \A x \in messages' : x.memory # m BY <2>1 DEF Of
  <2>4. memories \in [Memories -> MemoryState] BY DEF Sound, TypeOK
  <2> HIDE DEF m
  <2>5. MemoryMove BY <1>1, <2>1, <2>3, <2>4 DEF MemoryMove, MemoryState
  <2> QED BY <1>2, <1>3, <2>2, <2>5 DEF Moves
<1>5. CASE ~ok
  <2>1. UNCHANGED <<memories, messages>> BY <1>5 DEF DeleteMessages
  <2> QED BY <1>1, <1>2, <1>3, <2>1, FewerMessages, SameMemories DEF Moves
<1> QED BY <1>4, <1>5

LEMMA StartClearStep ==
    ASSUME Sound, NEW h \in Handlers, StartClear(h)
    PROVE  Moves
<1> DEFINE n == [kind |-> "clear", at |-> "lock", memory |-> Queue!NoToken,
                 left |-> {m \in Memories : Live(m)}]
<1>1. /\ req' = [req EXCEPT ![h] = n]
      /\ UNCHANGED <<queueVars, memories, messages, nextId, digest, evicted, boot, worker>>
  BY DEF StartClear, Start
<1>2. n \in Request /\ n.at = "lock"
  BY DEF Request
<1> HIDE DEF n
<1>3. RequestMove(h, n)
  BY <1>2, Unposted DEF Posting, RequestHolds
<1> QED BY <1>1, <1>3, StillRows, QuietRequest DEF Quiet

LEMMA ClearCancelStep ==
    ASSUME Sound, NEW h \in Handlers, NEW m \in Memories, NEW ok \in BOOLEAN,
           ClearCancel(h, m, ok)
    PROVE  Moves
<1> DEFINE left == req[h].left \ {m}
           n == [req[h] EXCEPT !.at = "messages", !.memory = m, !.left = left]
<1>1. /\ ClearAt(h, "cancel") /\ req[h].kind = "clear"
      /\ CancelRows(m, ok)
      /\ UNCHANGED <<memories, messages, nextId, digest, evicted, boot, worker>>
  BY DEF ClearCancel
<1>2. RowMoves BY <1>1, CancelMoves
<1>3. req' = [req EXCEPT ![h] = n] \/ req' = [req EXCEPT ![h] = Idle]
  BY ActorTypes DEF ClearCancel, Finish
<1>4. req[h] \in ClearRequest /\ (RequestHolds(req[h]) \/ LockFree)
  BY <1>1, RequestFacts DEF RequestHolds, ClearAt
<1>5. left \subseteq Memories BY <1>4, KindFacts
<1> HIDE DEF left
<1>6. n \in ClearRequest /\ n.at = "messages"
  BY <1>4, <1>5 DEF ClearRequest
<1> HIDE DEF n
<1>7. n \in Request BY <1>6, RequestKinds
<1>8. RequestMove(h, n) BY <1>4, <1>6, <1>7, Unposted DEF Posting
<1> QED BY <1>1, <1>2, <1>3, <1>8, Finished, QuietRequest DEF Quiet

LEMMA ClearMessagesStep ==
    ASSUME Sound, NEW h \in Handlers, NEW ok \in BOOLEAN, ClearMessages(h, ok)
    PROVE  Moves
<1>1. /\ req[h].at = "messages" /\ req[h].kind = "clear"
      /\ UNCHANGED <<queueVars, memories, nextId, digest, evicted, boot, worker>>
      /\ messages' \subseteq messages
  BY DEF ClearMessages
<1>2. ActorMove
  <2>1. CASE req' = [req EXCEPT ![h] = Idle] BY <1>1, <2>1, Finished DEF ActorMove
  <2>2. ASSUME NEW a \in {"rows", "cancel"}, Go(h, a) PROVE ActorMove
    <3> DEFINE n == [req[h] EXCEPT !.at = a]
    <3>1. req' = [req EXCEPT ![h] = n] BY <2>2, GoStep
    <3>2. n \in Request /\ n.at = a
      <4>1. req[h] \in ClearRequest BY <1>1, RequestFacts
      <4>2. a \in {"lock", "cancel", "messages", "rows"} OBVIOUS
      <4> QED BY <4>1, <4>2, GoClear
    <3>3. RequestHolds(req[h]) BY <1>1 DEF RequestHolds
    <3> HIDE DEF n
    <3>4. RequestMove(h, n) BY <3>2, <3>3, Unposted DEF Posting
    <3> QED BY <1>1, <3>1, <3>4 DEF ActorMove
  <2> QED BY <2>1, <2>2 DEF ClearMessages, Finish
<1>3. RowMoves /\ IdMove /\ MemoryMove /\ MessageMove /\ boot' \subseteq Tasks
  BY <1>1, StillRows, SameIds, SameMemories, FewerMessages, SameBoot
<1> QED BY <1>2, <1>3 DEF Moves

LEMMA ClearRowsStep ==
    ASSUME Sound, NEW h \in Handlers, NEW ok \in BOOLEAN, ClearRows(h, ok)
    PROVE  Moves
<1>1. /\ UNCHANGED <<queueVars, messages, nextId, digest, evicted, boot, worker>>
      /\ req' = [req EXCEPT ![h] = Idle]
      /\ memories' = [m \in Memories |->
            IF ok /\ Live(m) THEN IF Of(m) = {} THEN "cleared" ELSE "deleted"
            ELSE memories[m]]
      /\ ClearAt(h, "rows")
  BY DEF ClearRows, Finish
<1>2. LockFree \/ \E g \in Handlers : RequestHolds(req[g])
  BY <1>1 DEF ClearAt, RequestHolds
<1>3. ActorMove BY <1>1, Finished DEF ActorMove
<1>4. memories \in [Memories -> MemoryState] BY DEF Sound, TypeOK
<1>5. ASSUME NEW m \in Memories
      PROVE  /\ memories'[m] \in MemoryState
             /\ memories'[m] = "absent" => memories[m] = "absent"
             /\ memories'[m] = "live" => memories[m] \in {"live", "absent"}
             /\ memories'[m] = "cleared" =>
                  memories[m] = "cleared" \/ \A x \in messages' : x.memory # m
             /\ memories[m] = "live" /\ memories'[m] # "live" =>
                  LockFree \/ \E g \in Handlers : RequestHolds(req[g])
  <2>1. CASE memories'[m] = memories[m] BY <1>4, <2>1
  <2>2. CASE memories'[m] = "deleted" BY <1>2, <2>2 DEF MemoryState
  <2>3. CASE memories'[m] = "cleared" /\ Of(m) = {}
    BY <1>1, <1>2, <2>3 DEF MemoryState, Of
  <2> QED BY <1>1, <2>1, <2>2, <2>3
<1>6. memories' \in [Memories -> MemoryState] BY <1>1, <1>5
<1>7. MemoryMove BY <1>5, <1>6 DEF MemoryMove
<1>8. RowMoves /\ IdMove /\ MessageMove /\ boot' \subseteq Tasks
  BY <1>1, StillRows, SameIds, FewerMessages, SameBoot
<1> QED BY <1>3, <1>7, <1>8 DEF Moves

LEMMA CreateMemoryStep ==
    ASSUME Sound, NEW m \in Memories, CreateMemory(m)
    PROVE  Moves
<1>1. /\ memories[m] = "absent" /\ memories' = [memories EXCEPT ![m] = "live"]
      /\ UNCHANGED <<queueVars, messages, nextId, digest, evicted, boot, worker, req>>
  BY DEF CreateMemory
<1>2. memories \in [Memories -> MemoryState] BY DEF Sound, TypeOK
<1>3. MemoryMove BY <1>1, <1>2 DEF MemoryMove, MemoryState
<1>4. RowMoves /\ IdMove /\ MessageMove /\ ActorMove /\ boot' \subseteq Tasks
  BY <1>1, StillRows, SameIds, FewerMessages, SameBoot DEF ActorMove
<1> QED BY <1>3, <1>4 DEF Moves

LEMMA CancelTaskStep ==
    ASSUME Sound, NEW t \in Tasks, NEW ok \in BOOLEAN, CancelTask(t, ok)
    PROVE  Moves
<1>1. /\ Queue!RequestCancel(t, ok)
      /\ UNCHANGED <<memories, messages, nextId, digest, evicted, boot, worker, req>>
  BY DEF CancelTask
<1> QED BY <1>1, RequestCancelMoves, QuietMoves, SameBoot DEF Quiet, ActorMove

LEMMA ReconcileStep ==
    ASSUME Sound, NEW t \in Tasks, NEW ok \in BOOLEAN, Reconcile(t, ok)
    PROVE  Moves
<1>1. /\ boot' = boot \ {t}
      /\ UNCHANGED <<memories, messages, nextId, digest, evicted, worker, req>>
  BY DEF Reconcile
<1>2. boot \subseteq Tasks BY DEF Sound, TypeOK
<1> QED BY <1>1, <1>2, ReconcileMoves, QuietMoves DEF Quiet, ActorMove

-----------------------------------------------------------------------------
(* Workers *)

Places == {"claim", "look", "extract", "commit", "save", "progress", "settle", "report"}

Outcomes == {"none", "ok", "retryable", "permanent"} \cup Queue!Status

\* A worker that goes on.
LEMMA WorkerAt ==
    ASSUME NEW w \in Worker, NEW a \in Places
    PROVE  LET n == [w EXCEPT !.at = a]
           IN  /\ n \in Worker /\ n.at = a /\ n.lease = w.lease /\ n.id = w.id
               /\ n.outcome = w.outcome
BY DEF Worker, Places

\* A worker that is neither saving nor reporting moves freely.
LEMMA WorkerOn ==
    ASSUME Sound, IdMove, nextId' >= nextId, NEW s \in Slots, worker[s] # Free,
           NEW n \in Worker, n.lease.task = Lease(s).task, n.id = worker[s].id,
           n.at # "save", n.at = "report" => n.outcome \in Queue!ReportStatuses,
           n.at = "progress" => SlotHolds(worker[s]) \/ LockFree
    PROVE  WorkerMove(s, n)
<1>1. Published(tasks[n.lease.task]) /\ worker[s].id < nextId
  BY DEF Sound, WorkersSound, Row
<1>2. worker[s].id \in Nat /\ nextId \in Nat /\ nextId' \in Nat
  BY WorkerFacts DEF Sound, TypeOK, IdMove
<1>3. n.id < nextId' BY <1>1, <1>2
<1> QED BY <1>1, <1>3 DEF WorkerMove, SlotHolds

\* A worker of which only the place, or the place and the outcome, change.
LEMMA ConcludeStep ==
    ASSUME Sound, NEW s \in Slots, worker[s] # Free, nextId' = nextId,
           NEW a \in Places \ {"save", "progress"}, NEW o \in Outcomes,
           a = "report" => o \in Queue!ReportStatuses, Conclude(s, a, o)
    PROVE  \E n : WorkerMove(s, n) /\ worker' = [worker EXCEPT ![s] = n]
<1> DEFINE w == worker[s]
           n == [w EXCEPT !.at = a, !.outcome = o]
<1>1. worker' = [worker EXCEPT ![s] = n] BY ActorTypes DEF Conclude
<1>2. w \in Worker BY WorkerFacts
<1>3. a \in Places OBVIOUS
<1> HIDE DEF w
<1>4. /\ n \in Worker /\ n.at = a /\ n.lease = w.lease /\ n.id = w.id
      /\ n.outcome = o
  BY <1>2, <1>3 DEF Worker, Places, Outcomes
<1> HIDE DEF n
<1> USE DEF w
<1>5. IdMove /\ nextId' >= nextId BY SameIds DEF Sound, TypeOK
<1>6. n.lease.task = Lease(s).task BY <1>4 DEF Lease
<1>7. WorkerMove(s, n) BY <1>4, <1>5, <1>6, WorkerOn
<1> QED BY <1>1, <1>7

LEMMA MoveStep ==
    ASSUME Sound, NEW s \in Slots, worker[s] # Free, nextId' = nextId,
           NEW a \in Places \ {"save", "report"},
           a = "progress" => SlotHolds(worker[s]) \/ LockFree, Move(s, a)
    PROVE  \E n : /\ WorkerMove(s, n) /\ worker' = [worker EXCEPT ![s] = n]
                  /\ n.at = a
<1> DEFINE w == worker[s]
           n == [w EXCEPT !.at = a]
<1>1. worker' = [worker EXCEPT ![s] = n] BY ActorTypes DEF Move
<1>2. w \in Worker BY WorkerFacts
<1>3. a \in Places OBVIOUS
<1>4. n \in Worker /\ n.at = a /\ n.lease = w.lease /\ n.id = w.id
  BY <1>2, <1>3, WorkerAt
<1> HIDE DEF n
<1>5. IdMove /\ nextId' >= nextId BY SameIds DEF Sound, TypeOK
<1>6. n.lease.task = Lease(s).task BY <1>4 DEF Lease
<1>7. WorkerMove(s, n) BY <1>4, <1>5, <1>6, WorkerOn
<1> QED BY <1>1, <1>4, <1>7

LEMMA AtWork == ASSUME NEW s \in Slots, worker[s].at # "free" PROVE worker[s] # Free
BY DEF Free

LEMMA DispatchStep ==
    ASSUME Sound, NEW s \in Slots, NEW t \in Tasks, Dispatch(s, t)
    PROVE  Moves
<1> DEFINE l == [task |-> t, token |-> Queue!NoToken, attempt |-> 0]
           n == [at |-> "claim", id |-> 0, outcome |-> "none", lease |-> l]
<1>1. /\ Queue!Claimable(tasks[t]) /\ worker' = [worker EXCEPT ![s] = n]
      /\ UNCHANGED <<queueVars, memories, messages, nextId, digest, evicted, boot, req>>
  BY DEF Dispatch
<1>2. l \in Queue!Lease /\ l.task = t BY DEF Queue!Lease, Queue!NoToken
<1> HIDE DEF l
<1>3. n \in Worker /\ n.at = "claim" /\ n.lease = l /\ n.id = 0
  BY <1>2 DEF Worker
<1> HIDE DEF n
<1>4. Published(tasks[t]) BY <1>1 DEF Published, Queue!Claimable
<1>5. nextId' = nextId /\ nextId \in Nat \ {0} BY <1>1 DEF Sound, TypeOK
<1>6. WorkerMove(s, n) BY <1>2, <1>3, <1>4, <1>5 DEF WorkerMove, SlotHolds
<1> QED BY <1>1, <1>6, StillRows, QuietWorker DEF Quiet

LEMMA ClaimStep ==
    ASSUME Sound, NEW s \in Slots, NEW ok \in BOOLEAN, Claim(s, ok)
    PROVE  Moves
<1> DEFINE t == Lease(s).task
           w == worker[s]
           l == [task |-> t, token |-> issued + 1, attempt |-> Row(s).retry + 1]
           n == [w EXCEPT !.at = "look", !.lease = l]
<1>1. /\ w.at = "claim"
      /\ UNCHANGED <<memories, messages, nextId, digest, evicted, boot, req>>
      /\ Queue!Claim(t, ok) \/ UNCHANGED queueVars
      /\ \/ worker' = [worker EXCEPT ![s] = Free]
         \/ worker' = [worker EXCEPT ![s].at = "look", ![s].lease = l]
  BY DEF Claim, Leave
<1>2. w \in Worker /\ w # Free BY <1>1, WorkerFacts DEF Free
<1>3. w.lease \in Queue!Lease /\ t \in Tasks /\ t = w.lease.task
  BY <1>2, WorkerFacts DEF Lease
<1>4. RowMoves BY <1>1, <1>3, ClaimMoves, StillRows
<1>5. worker' = [worker EXCEPT ![s] = Free] \/ worker' = [worker EXCEPT ![s] = n]
  BY <1>1, ActorTypes
<1>6. issued \in Nat /\ Row(s).retry \in Nat
  BY <1>3, RowFacts DEF Row
<1>7. l \in Queue!Lease /\ l.task = t
  BY <1>3, <1>6 DEF Queue!Lease
<1> HIDE DEF l
<1>8. n \in Worker /\ n.at = "look" /\ n.lease = l /\ n.id = w.id
  BY <1>2, <1>7 DEF Worker
<1> HIDE DEF n
<1>9. IdMove /\ nextId' >= nextId BY <1>1, SameIds DEF Sound, TypeOK
<1>10. WorkerMove(s, n)
  BY <1>2, <1>7, <1>8, <1>9, WorkerOn
<1> QED BY <1>1, <1>4, <1>5, <1>10, Left, QuietWorker DEF Quiet

LEMMA LookStep ==
    ASSUME Sound, NEW s \in Slots, Look(s)
    PROVE  Moves
<1>1. /\ worker[s] # Free
      /\ UNCHANGED <<queueVars, memories, messages, nextId, digest, evicted, boot, req>>
      /\ Move(s, "extract") \/ Conclude(s, "settle", "permanent")
  BY AtWork DEF Look
<1>2. \E n : WorkerMove(s, n) /\ worker' = [worker EXCEPT ![s] = n]
  BY <1>1, MoveStep, ConcludeStep DEF Places, Outcomes
<1> QED BY <1>1, <1>2, StillRows, QuietWorker DEF Quiet

LEMMA ExtractStep ==
    ASSUME Sound, NEW s \in Slots,
           NEW result \in {"found", "ok", "retryable", "permanent"}, Extract(s, result)
    PROVE  Moves
<1>1. /\ worker[s] # Free
      /\ UNCHANGED <<queueVars, memories, messages, digest, evicted, boot, req>>
  BY AtWork DEF Extract
<1>2. \/ /\ nextId' = nextId
         /\ \E o \in Outcomes : Conclude(s, "settle", o)
      \/ /\ nextId' = nextId + 1
         /\ worker' = [worker EXCEPT ![s].at = "commit", ![s].id = nextId]
  BY DEF Extract, Outcomes
<1>3. CASE nextId' = nextId /\ \E o \in Outcomes : Conclude(s, "settle", o)
  <2>1. \E n : WorkerMove(s, n) /\ worker' = [worker EXCEPT ![s] = n]
    BY <1>1, <1>3, ConcludeStep DEF Places
  <2> QED BY <1>1, <1>3, <2>1, StillRows, QuietWorker DEF Quiet
<1>4. CASE /\ nextId' = nextId + 1
           /\ worker' = [worker EXCEPT ![s].at = "commit", ![s].id = nextId]
  <2> DEFINE w == worker[s]
             n == [w EXCEPT !.at = "commit", !.id = nextId]
  <2>1. worker' = [worker EXCEPT ![s] = n] BY <1>4, ActorTypes
  <2>2. w \in Worker BY <1>1, WorkerFacts
  <2>3. nextId \in Nat \ {0} BY DEF Sound, TypeOK
  <2>4. n \in Worker /\ n.at = "commit" /\ n.lease = w.lease /\ n.id = nextId
    BY <2>2, <2>3 DEF Worker
  <2> HIDE DEF n
  <2>5. Published(tasks[n.lease.task])
    BY <1>1, <2>4 DEF Sound, WorkersSound, Row, Lease
  <2>6. n.id < nextId' BY <1>4, <2>3, <2>4
  <2>7. WorkerMove(s, n) BY <2>4, <2>5, <2>6 DEF WorkerMove, SlotHolds
  <2>8. ActorMove BY <1>1, <2>1, <2>7 DEF ActorMove
  <2>9. IdMove BY <1>4, <2>3 DEF IdMove
  <2> QED BY <1>1, <2>8, <2>9, StillRows, SameMemories, FewerMessages, SameBoot
          DEF Moves
<1> QED BY <1>2, <1>3, <1>4

LEMMA HeartbeatStep ==
    ASSUME Sound, NEW s \in Slots, NEW ok \in BOOLEAN, Heartbeat(s, ok)
    PROVE  Moves
<1>1. /\ worker[s] # Free
      /\ UNCHANGED <<memories, messages, nextId, digest, evicted, boot, req>>
      /\ Queue!Renew(Lease(s), ok) \/ UNCHANGED queueVars
      /\ \/ UNCHANGED worker
         \/ \E o \in {"retryable", "permanent"} : Conclude(s, "settle", o)
  BY AtWork DEF Heartbeat
<1>2. Lease(s).task \in Tasks BY <1>1, WorkerFacts
<1>3. RowMoves BY <1>1, <1>2, RenewMoves, StillRows
<1>4. CASE UNCHANGED worker
  BY <1>1, <1>3, <1>4, QuietMoves, SameBoot DEF Quiet, ActorMove
<1>5. CASE \E o \in {"retryable", "permanent"} : Conclude(s, "settle", o)
  <2>1. \E n : WorkerMove(s, n) /\ worker' = [worker EXCEPT ![s] = n]
    BY <1>1, <1>5, ConcludeStep DEF Places, Outcomes
  <2> QED BY <1>1, <1>3, <2>1, QuietWorker DEF Quiet
<1> QED BY <1>1, <1>4, <1>5

LEMMA EnterStep ==
    ASSUME Sound, NEW s \in Slots, Enter(s)
    PROVE  Moves
<1>1. /\ worker[s] # Free /\ LockFree
      /\ UNCHANGED <<queueVars, memories, messages, nextId, digest, evicted, boot, req>>
      /\ \/ Conclude(s, "settle", "permanent") \/ Move(s, "progress")
         \/ MayCommit(s) /\ NotYetExtracted(s) /\ Move(s, "save")
  BY AtWork DEF Enter
<1>2. \E n : WorkerMove(s, n) /\ worker' = [worker EXCEPT ![s] = n]
  <2>1. CASE Conclude(s, "settle", "permanent") \/ Move(s, "progress")
    BY <1>1, <2>1, MoveStep, ConcludeStep DEF Places, Outcomes
  <2>2. CASE MayCommit(s) /\ NotYetExtracted(s) /\ Move(s, "save")
    <3> DEFINE w == worker[s]
               n == [w EXCEPT !.at = "save"]
    <3>1. worker' = [worker EXCEPT ![s] = n] BY <2>2, ActorTypes DEF Move
    <3>2. w \in Worker /\ w.id \in Nat BY <1>1, WorkerFacts
    <3>3. "save" \in Places BY DEF Places
    <3>4. n \in Worker /\ n.at = "save" /\ n.lease = w.lease /\ n.id = w.id
      BY <3>2, <3>3, WorkerAt
    <3> HIDE DEF n
    <3>5. /\ Live(tasks[n.lease.task].subject)
          /\ Children(tasks[n.lease.task].subject, digest[n.lease.task]) = {}
      BY <2>2, <3>4 DEF MayCommit, NotYetExtracted, Row, Lease
    <3>6. Published(tasks[n.lease.task]) /\ n.id < nextId'
      BY <1>1, <3>4 DEF Sound, WorkersSound, Row, Lease
    <3>7. UNCHANGED <<tasks, digest, memories, messages>> BY <1>1 DEF queueVars
    <3>8. WorkerMove(s, n) BY <1>1, <3>4, <3>5, <3>6, <3>7 DEF WorkerMove
    <3> QED BY <3>1, <3>8
  <2> QED BY <1>1, <2>1, <2>2
<1> QED BY <1>1, <1>2, StillRows, QuietWorker DEF Quiet

LEMMA SaveChildStep ==
    ASSUME Sound, NEW s \in Slots, NEW ok \in BOOLEAN, SaveChild(s, ok)
    PROVE  Moves
<1>1. /\ worker[s].at = "save" /\ worker[s] # Free /\ SlotHolds(worker[s])
      /\ UNCHANGED <<queueVars, memories, nextId, digest, boot, req>>
  BY AtWork DEF SaveChild, SlotHolds
<1>2. RowMoves /\ MemoryMove /\ IdMove /\ boot' \subseteq Tasks
  BY <1>1, StillRows, SameMemories, SameIds, SameBoot
<1>3. CASE ok
  <2>1. Save(NewChild(s)) /\ Move(s, "progress") BY <1>3 DEF SaveChild, NewChild
  <2>2. PICK n : /\ WorkerMove(s, n) /\ worker' = [worker EXCEPT ![s] = n]
                 /\ n.at = "progress"
    BY <1>1, <2>1, MoveStep DEF Places
  <2>3. ActorMove BY <1>1, <2>2 DEF ActorMove
  <2>4. worker'[s].at = "progress" BY <2>2, ActorTypes
  <2>5. messages' \subseteq messages \cup {NewChild(s)} /\ evicted' \subseteq Tasks
    BY <2>1, SaveStep
  <2>6. UNCHANGED <<tasks, digest, memories, nextId>> BY <1>1 DEF queueVars
  <2>7. MessageMove BY <1>1, <2>4, <2>5, <2>6 DEF MessageMove
  <2> QED BY <1>2, <2>3, <2>7 DEF Moves
<1>4. CASE ~ok
  <2>1. /\ Conclude(s, "settle", "retryable")
        /\ messages' = messages /\ evicted' = evicted
    BY <1>4 DEF SaveChild
  <2>2. \E n : WorkerMove(s, n) /\ worker' = [worker EXCEPT ![s] = n]
    BY <1>1, <2>1, ConcludeStep DEF Places, Outcomes
  <2>3. ActorMove BY <1>1, <2>2 DEF ActorMove
  <2> QED BY <1>2, <2>1, <2>3, FewerMessages DEF Moves
<1> QED BY <1>3, <1>4

LEMMA ProgressStep ==
    ASSUME Sound, NEW s \in Slots, NEW ok \in BOOLEAN, Progress(s, ok)
    PROVE  Moves
<1>1. /\ worker[s] # Free
      /\ UNCHANGED <<queueVars, memories, messages, nextId, digest, evicted, boot, req>>
      /\ \E o \in {"ok", "retryable", "permanent"} : Conclude(s, "settle", o)
  BY AtWork DEF Progress
<1>2. \E n : WorkerMove(s, n) /\ worker' = [worker EXCEPT ![s] = n]
  BY <1>1, ConcludeStep DEF Places, Outcomes
<1> QED BY <1>1, <1>2, StillRows, QuietWorker DEF Quiet

LEMMA SettleStep ==
    ASSUME Sound, NEW s \in Slots, Settle(s)
    PROVE  Moves
<1>1. /\ worker[s] # Free
      /\ UNCHANGED <<queueVars, memories, messages, nextId, digest, evicted, boot, req>>
      /\ \E o \in Queue!ReportStatuses : Conclude(s, "report", o)
  BY AtWork DEF Settle, Queue!ReportStatuses
<1>2. \A o \in Queue!ReportStatuses : o \in Outcomes
  BY DEF Queue!ReportStatuses, Outcomes, Queue!Status
<1>3. \E n : WorkerMove(s, n) /\ worker' = [worker EXCEPT ![s] = n]
  BY <1>1, <1>2, ConcludeStep DEF Places
<1> QED BY <1>1, <1>3, StillRows, QuietWorker DEF Quiet

LEMMA ReportStep ==
    ASSUME Sound, NEW s \in Slots, NEW ok \in BOOLEAN, Report(s, ok)
    PROVE  Moves
<1>1. /\ worker' = [worker EXCEPT ![s] = Free]
      /\ UNCHANGED <<memories, messages, nextId, evicted, boot, req>>
  BY DEF Report, Leave
<1> QED BY <1>1, ReportMoves, Left, QuietWorker DEF Quiet

-----------------------------------------------------------------------------
(* Time and restarts *)

LEMMA TickStep == ASSUME Sound, Tick PROVE Moves
<1>1. /\ Queue!Tick
      /\ UNCHANGED <<memories, messages, nextId, digest, evicted, boot, worker, req>>
  BY DEF Tick
<1> QED BY <1>1, TickMoves, QuietMoves, SameBoot DEF Quiet, ActorMove

\* No id of a message that is there is handed out again.
LEMMA RestartStep == ASSUME Sound, Restart PROVE Moves
<1>1. /\ Queue!Restart /\ nextId' = FirstId
      /\ worker' = [s \in Slots |-> Free] /\ req' = [h \in Handlers |-> Idle]
      /\ UNCHANGED <<memories, messages, digest, evicted>>
      /\ boot' \subseteq Tasks
  BY DEF Restart
<1> DEFINE S == {x.id : x \in messages} \cup {0}
<1>2. /\ S \subseteq Nat /\ S # {} /\ nextId \in Nat
      /\ \A n \in S : n < nextId
  <2>1. nextId \in Nat \ {0} BY DEF Sound, TypeOK
  <2>2. \A x \in messages : x.id \in Nat /\ x.id < nextId
    BY MessageTypes DEF SoundMessage
  <2> QED BY <2>1, <2>2
<1>3. FirstId = Max(S) + 1 BY DEF FirstId
<1>4. \A x \in messages : x.id \in S OBVIOUS
<1> HIDE DEF S
<1>5. Max(S) \in S /\ \A n \in S : Max(S) >= n BY <1>2, Greatest
<1>6. FirstId \in Nat \ {0} /\ \A x \in messages : x.id < FirstId
  <2>1. Max(S) \in Nat BY <1>2, <1>5
  <2>2. ASSUME NEW x \in messages PROVE x.id < FirstId
    <3>1. x.id \in Nat /\ Max(S) >= x.id BY <1>2, <1>4, <1>5
    <3> QED BY <1>3, <2>1, <3>1
  <2> QED BY <1>3, <2>1, <2>2
<1>7. IdMove BY <1>1, <1>6 DEF IdMove
<1>8. ActorMove BY <1>1 DEF ActorMove
<1>9. RowMoves /\ MemoryMove /\ MessageMove
  BY <1>1, RestartMoves, SameMemories, FewerMessages
<1> QED BY <1>1, <1>7, <1>8, <1>9 DEF Moves

-----------------------------------------------------------------------------
(* The invariant *)

LEMMA InitSound == Init => Sound
<1> SUFFICES ASSUME Init PROVE Sound
  OBVIOUS
<1>1. /\ tasks = [t \in Tasks |-> Queue!NoRow] /\ disk = [t \in Tasks |-> Queue!NoRow]
      /\ leases = {} /\ issued = 0 /\ granted = [t \in Tasks |-> 0]
      /\ memories = [m \in Memories |-> "absent"] /\ messages = {} /\ nextId = 1
      /\ digest = [t \in Tasks |-> 0] /\ evicted = {} /\ boot = {}
      /\ worker = [s \in Slots |-> Free] /\ req = [h \in Handlers |-> Idle]
  BY DEF Init, Queue!Init
<1>2. Queue!NoRow \in Queue!Row /\ Queue!NoRow.status = "none"
  BY DEF Queue!NoRow, Queue!Row, Queue!Status, Queue!NoToken
<1>3. TypeOK BY <1>1, <1>2 DEF TypeOK, Queue!TypeOK, MemoryState
<1>4. LockSound BY <1>1, NobodyHolds DEF LockSound
<1>5. RowsSound BY <1>1, <1>2 DEF RowsSound, Kept
<1>6. WorkersSound BY <1>1 DEF WorkersSound
<1>7. RequestsSound BY <1>1 DEF RequestsSound, Idle, Posting
<1>8. MessagesSound BY <1>1 DEF MessagesSound
<1> QED BY <1>3, <1>4, <1>5, <1>6, <1>7, <1>8 DEF Sound

LEMMA NextMoves == ASSUME Sound, Next PROVE Moves
<1>1. ASSUME NEW h \in Handlers, Serve(h) PROVE Moves
  <2>1. ASSUME NEW m \in Memories, StartAdd(h, m) PROVE Moves
    BY <2>1, StartAddStep
  <2>2. ASSUME NEW m \in Memories, StartDelete(h, m) PROVE Moves
    BY <2>2, StartDeleteStep
  <2>3. CASE StartClear(h) BY <2>3, StartClearStep
  <2>5. ASSUME NEW ok \in BOOLEAN,
               \/ Embed(h, ok) \/ SaveRaw(h, ok) \/ Discard(h, ok) \/ Publish(h, ok)
        PROVE  Moves
    BY <2>5, EmbedStep, SaveRawStep, DiscardStep, PublishStep
  <2>6. ASSUME NEW ok \in BOOLEAN,
               \/ DeleteCancel(h, ok) \/ DeleteRow(h, ok) \/ DeleteMessages(h, ok)
               \/ ClearMessages(h, ok) \/ ClearRows(h, ok)
        PROVE  Moves
    BY <2>6, DeleteCancelStep, DeleteRowStep, DeleteMessagesStep,
       ClearMessagesStep, ClearRowsStep
  <2>7. ASSUME NEW ok \in BOOLEAN, NEW t \in Tasks, Stage(h, t, ok) PROVE Moves
    BY <2>7, StageStep
  <2>8. ASSUME NEW ok \in BOOLEAN, NEW m \in Memories, ClearCancel(h, m, ok)
        PROVE  Moves
    BY <2>8, ClearCancelStep
  <2> QED BY <1>1, <2>1, <2>2, <2>3, <2>5, <2>6, <2>7, <2>8 DEF Serve
<1>2. ASSUME NEW m \in Memories, CreateMemory(m) PROVE Moves
  BY <1>2, CreateMemoryStep
<1>3. ASSUME NEW t \in Tasks, NEW ok \in BOOLEAN,
             CancelTask(t, ok) \/ Reconcile(t, ok)
      PROVE  Moves
  BY <1>3, CancelTaskStep, ReconcileStep
<1>4. ASSUME NEW s \in Slots, NEW t \in Tasks, Dispatch(s, t) PROVE Moves
  BY <1>4, DispatchStep
<1>5. ASSUME NEW s \in Slots, Work(s) PROVE Moves
  <2>1. CASE Look(s) \/ Enter(s) \/ Settle(s)
    BY <2>1, LookStep, EnterStep, SettleStep
  <2>2. ASSUME NEW result \in {"found", "ok", "retryable", "permanent"},
               Extract(s, result)
        PROVE  Moves
    BY <2>2, ExtractStep
  <2>3. ASSUME NEW ok \in BOOLEAN,
               \/ Claim(s, ok) \/ SaveChild(s, ok) \/ Progress(s, ok) \/ Report(s, ok)
        PROVE  Moves
    BY <2>3, ClaimStep, SaveChildStep, ProgressStep, ReportStep
  <2> QED BY <1>5, <2>1, <2>2, <2>3 DEF Work
<1>6. ASSUME NEW s \in Slots, NEW ok \in BOOLEAN, Heartbeat(s, ok) PROVE Moves
  BY <1>6, HeartbeatStep
<1>7. CASE Tick BY <1>7, TickStep
<1>8. CASE Restart BY <1>8, RestartStep
<1> QED BY <1>1, <1>2, <1>3, <1>4, <1>5, <1>6, <1>7, <1>8 DEF Next

LEMMA Stutters == ASSUME Sound, UNCHANGED vars PROVE Moves
<1>1. UNCHANGED <<queueVars, memories, messages, nextId, digest, evicted, boot, worker, req>>
  BY DEF vars
<1> QED BY <1>1, StillRows, QuietMoves, SameBoot DEF Quiet, ActorMove

LEMMA SoundInductive == Sound /\ [Next]_vars => Sound'
BY NextMoves, Stutters, SoundMoved

\* The locks, rows, workers, requests and messages fit together in every state
\* that any interleaving, failed write, expired lease or restart leads to.
THEOREM MemorySound == Spec => []Sound
BY InitSound, SoundInductive, PTL DEF Spec

\* Every variable has its type.
THEOREM TypeCorrect == Spec => []TypeOK
<1>1. Sound => TypeOK BY DEF Sound
<1> QED BY <1>1, MemorySound, PTL

\* process_memory_task extracts a dialogue once: whichever attempts lost their
\* lease, their report or their process after the children were saved, no two
\* children of the same dialogue are there.
THEOREM DialoguesExtractedOnce == Spec => []ExtractedOnce
<1>1. ASSUME Sound PROVE ExtractedOnce
  <2> SUFFICES ASSUME NEW x \in messages, x.source # 0
               PROVE  Cardinality(Children(x.memory, x.source)) = 1
    BY DEF ExtractedOnce
  <2>1. \A y \in Children(x.memory, x.source) : y = x
    BY <1>1 DEF Sound, MessagesSound
  <2>2. x \in Children(x.memory, x.source) BY DEF Children, Of
  <2>3. Children(x.memory, x.source) = {x} BY <2>1, <2>2
  <2> QED BY <2>3, FS_Singleton
<1>2. Sound => ExtractedOnce BY <1>1
<1> QED BY <1>2, MemorySound, PTL

\* add_memory_message stages the row before it saves the dialogue and only a
\* row without a dialogue is discarded: a saved dialogue of a memory that is
\* there has its row, whatever failed or ended in between.
THEOREM RawMessagesHaveTasks == Spec => []RawHasTask
<1>1. ASSUME Sound PROVE RawHasTask
  <2> SUFFICES ASSUME NEW x \in messages, x.source = 0, Live(x.memory)
               PROVE  /\ tasks[x.from].status \notin {"none", "removed"}
                      /\ digest[x.from] = x.id
    BY DEF RawHasTask
  <2>1. SoundMessage(x) BY <1>1, MessageTypes
  <2>2. Kept(tasks[x.from]) BY <2>1 DEF SoundMessage
  <2> QED BY <2>1, <2>2 DEF SoundMessage, Kept
<1>2. Sound => RawHasTask BY <1>1
<1> QED BY <1>2, MemorySound, PTL

\* The memory is looked up again under memory_commit_lock before children are
\* saved: an extraction that was going on when a memory was deleted and its
\* messages were cleared puts none back.
THEOREM ClearedMemoriesStayClear == Spec => []ClearedStaysClear
<1>1. ASSUME Sound PROVE ClearedStaysClear
  <2> SUFFICES ASSUME NEW m \in Memories, memories[m] = "cleared", NEW x \in Of(m)
               PROVE  x.source = 0
    BY DEF ClearedStaysClear
  <2>1. x \in messages /\ x.memory = m BY DEF Of
  <2> QED BY <1>1, <2>1 DEF Sound, MessagesSound
<1>2. Sound => ClearedStaysClear BY <1>1
<1> QED BY <1>2, MemorySound, PTL

-----------------------------------------------------------------------------
(* Whose ids they are: the parts of the invariant of ExtractsOwnDialogue *)

\* The id a request or a worker is about to save a message with, or 0.
RequestId(r) == IF r.at \in {"stage", "save"} THEN r.id ELSE 0
WorkerId(w) == IF w.at \in {"commit", "save"} THEN w.id ELSE 0

Carriers == ({"request"} \X Handlers) \cup ({"worker"} \X Slots)

carried == [k \in Carriers |-> IF k[1] = "request" THEN RequestId(req[k[2]])
                                                   ELSE WorkerId(worker[k[2]])]

\* The first dispatch of a process comes before everything else.
Booting ==
    boot # {} => /\ \A s \in Slots : worker[s] = Free
                 /\ \A h \in Handlers : req[h] = Idle

\* An id is that of one message, or of one request or worker.
OwnIds ==
    /\ \A x, y \in messages : x.id = y.id => x = y
    /\ \A x \in messages, k \in Carriers : carried[k] # 0 => carried[k] # x.id
    /\ \A k, l \in Carriers : carried[k] # 0 /\ carried[k] = carried[l] => k = l
    /\ \A s \in Slots : worker[s].at \in {"commit", "save"} => worker[s].id # 0

\* The id a row is staged for is given to nobody else before the row is
\* reconciled, even when a restart forgets that it was given out.
StagedOwn ==
    \A t \in Tasks : tasks[t].status = "staging" =>
        /\ \A x \in messages : x.id = digest[t] => x.source = 0 /\ x.from = t
        /\ \A k \in Carriers : carried[k] = digest[t] =>
            \E h \in Handlers :
                k = <<"request", h>> /\ req[h].at = "save" /\ req[h].task = t
        /\ t \notin boot => digest[t] < nextId

\* A message knows the row it is of.
Origins ==
    \A x \in messages :
        /\ digest[x.from] = IF x.source = 0 THEN x.id ELSE x.source
        /\ x.id # 0

\* The dialogue of a row is there or was evicted.
Backed(t, m) ==
    t \in evicted \/ \E x \in messages : x.source = 0 /\ x.from = t /\ x.memory = m

Open(row) == row.status \in {"pending", "running"}

RowsBacked ==
    \A t \in Tasks :
        Open(tasks[t]) /\ memories[tasks[t].subject] \notin {"deleted", "cleared"} =>
            Backed(t, tasks[t].subject)

ActorsBacked ==
    /\ \A s \in Slots : worker[s].at = "save" => Backed(Lease(s).task, Row(s).subject)
    /\ \A h \in Handlers : req[h].at = "publish" =>
        /\ req[h].task \in Tasks
        /\ Backed(req[h].task, req[h].memory)
        /\ tasks[req[h].task].status # "none"
        /\ Kept(tasks[req[h].task]) => tasks[req[h].task].subject = req[h].memory

ChildrenBacked == \A x \in messages : x.source # 0 => Backed(x.from, x.memory)

\* A request that clears a memory has cancelled its rows.
Clearing(r) == r.at = "messages" /\ r.kind = "clear"

ClearedRows ==
    \A h \in Handlers, t \in Tasks :
        Clearing(req[h]) /\ tasks[t].subject = req[h].memory => ~Open(tasks[t])

Owned ==
    /\ Booting
    /\ OwnIds
    /\ StagedOwn
    /\ Origins
    /\ RowsBacked
    /\ ActorsBacked
    /\ ChildrenBacked
    /\ ClearedRows

-----------------------------------------------------------------------------
(* What a step does to the ids that are carried *)

LEMMA CarriedFacts ==
    ASSUME Sound
    PROVE  /\ carried \in [Carriers -> Nat]
           /\ \A k \in Carriers : carried[k] < nextId
           /\ \A h \in Handlers : /\ <<"request", h>> \in Carriers
                                  /\ carried[<<"request", h>>] = RequestId(req[h])
           /\ \A s \in Slots : /\ <<"worker", s>> \in Carriers
                               /\ carried[<<"worker", s>>] = WorkerId(worker[s])
<1>1. nextId \in Nat \ {0} BY DEF Sound, TypeOK
<1>2. ASSUME NEW h \in Handlers
      PROVE  RequestId(req[h]) \in Nat /\ RequestId(req[h]) < nextId
  <2>1. CASE req[h].at \in {"stage", "save"}
    <3>1. req[h].at \in Posting /\ req[h].at # "embed" BY <2>1 DEF Posting
    <3>2. req[h].id \in Nat /\ req[h].id < nextId
      BY <3>1, RequestFacts, KindFacts DEF Sound, RequestsSound
    <3> QED BY <2>1, <3>2 DEF RequestId
  <2>2. CASE req[h].at \notin {"stage", "save"} BY <1>1, <2>2 DEF RequestId
  <2> QED BY <2>1, <2>2
<1>3. ASSUME NEW s \in Slots
      PROVE  WorkerId(worker[s]) \in Nat /\ WorkerId(worker[s]) < nextId
  <2>1. CASE worker[s].at \in {"commit", "save"}
    <3>1. worker[s] # Free BY <2>1 DEF Free
    <3>2. worker[s].id \in Nat /\ worker[s].id < nextId
      BY <3>1, WorkerFacts DEF Sound, WorkersSound
    <3> QED BY <2>1, <3>2 DEF WorkerId
  <2>2. CASE worker[s].at \notin {"commit", "save"} BY <1>1, <2>2 DEF WorkerId
  <2> QED BY <2>1, <2>2
<1>4. ASSUME NEW k \in Carriers
      PROVE  \/ \E h \in Handlers : k = <<"request", h>> /\ carried[k] = RequestId(req[h])
             \/ \E s \in Slots : k = <<"worker", s>> /\ carried[k] = WorkerId(worker[s])
  BY DEF Carriers, carried
<1>5. \A k \in Carriers : carried[k] \in Nat /\ carried[k] < nextId
  BY <1>2, <1>3, <1>4
<1>6. carried = [k \in Carriers |-> carried[k]] BY DEF carried
<1>7. carried \in [Carriers -> Nat] BY <1>5, <1>6
<1>8. /\ \A h \in Handlers : /\ <<"request", h>> \in Carriers
                             /\ carried[<<"request", h>>] = RequestId(req[h])
      /\ \A s \in Slots : /\ <<"worker", s>> \in Carriers
                          /\ carried[<<"worker", s>>] = WorkerId(worker[s])
  BY DEF Carriers, carried
<1> QED BY <1>5, <1>7, <1>8

LEMMA RequestCarries ==
    ASSUME Sound, NEW h \in Handlers, NEW n, req' = [req EXCEPT ![h] = n],
           worker' = worker
    PROVE  carried' = [carried EXCEPT ![<<"request", h>>] = RequestId(n)]
<1>1. req'[h] = n /\ \A g \in Handlers : g # h => req'[g] = req[g] BY ActorTypes
<1>2. /\ carried' = [k \in Carriers |-> carried'[k]]
      /\ carried = [k \in Carriers |-> carried[k]]
  BY DEF carried
<1>3. ASSUME NEW k \in Carriers
      PROVE  carried'[k] = IF k = <<"request", h>> THEN RequestId(n) ELSE carried[k]
  <2>1. CASE \E g \in Handlers : k = <<"request", g>>
    <3>1. PICK g \in Handlers : k = <<"request", g>> BY <2>1
    <3>2. carried'[k] = RequestId(req'[g]) /\ carried[k] = RequestId(req[g])
      BY <3>1 DEF carried
    <3> QED BY <1>1, <3>1, <3>2
  <2>2. CASE \E s \in Slots : k = <<"worker", s>>
    <3>1. PICK s \in Slots : k = <<"worker", s>> BY <2>2
    <3> QED BY <3>1 DEF carried
  <2> QED BY <2>1, <2>2 DEF Carriers
<1> HIDE DEF carried
<1> QED BY <1>2, <1>3

LEMMA WorkerCarries ==
    ASSUME Sound, NEW s \in Slots, NEW n, worker' = [worker EXCEPT ![s] = n],
           req' = req
    PROVE  carried' = [carried EXCEPT ![<<"worker", s>>] = WorkerId(n)]
<1>1. worker'[s] = n /\ \A u \in Slots : u # s => worker'[u] = worker[u] BY ActorTypes
<1>2. /\ carried' = [k \in Carriers |-> carried'[k]]
      /\ carried = [k \in Carriers |-> carried[k]]
  BY DEF carried
<1>3. ASSUME NEW k \in Carriers
      PROVE  carried'[k] = IF k = <<"worker", s>> THEN WorkerId(n) ELSE carried[k]
  <2>1. CASE \E h \in Handlers : k = <<"request", h>>
    <3>1. PICK h \in Handlers : k = <<"request", h>> BY <2>1
    <3> QED BY <3>1 DEF carried
  <2>2. CASE \E u \in Slots : k = <<"worker", u>>
    <3>1. PICK u \in Slots : k = <<"worker", u>> BY <2>2
    <3>2. carried'[k] = WorkerId(worker'[u]) /\ carried[k] = WorkerId(worker[u])
      BY <3>1 DEF carried
    <3> QED BY <1>1, <3>1, <3>2
  <2> QED BY <2>1, <2>2 DEF Carriers
<1> HIDE DEF carried
<1> QED BY <1>2, <1>3

\* Nobody comes to carry an id, or to save or publish with one.
SameCarriers ==
    /\ \A s \in Slots : worker'[s] = worker[s] \/ worker'[s].at \notin {"commit", "save"}
    /\ \A h \in Handlers : req'[h] = req[h] \/ req'[h].at \notin {"stage", "save"}

SameSaves ==
    /\ \A s \in Slots : worker'[s] = worker[s] \/ worker'[s].at # "save"
    /\ \A h \in Handlers : req'[h] = req[h] \/ req'[h].at # "publish"

SameClears == \A h \in Handlers : req'[h] = req[h] \/ ~Clearing(req'[h])

CarriesLess == \A k \in Carriers : carried'[k] \in {carried[k], 0}

LEMMA CarriersKept == ASSUME SameCarriers PROVE CarriesLess
<1> SUFFICES ASSUME NEW k \in Carriers PROVE carried'[k] \in {carried[k], 0}
  BY DEF CarriesLess
<1>1. CASE \E h \in Handlers : k = <<"request", h>>
  <2>1. PICK h \in Handlers : k = <<"request", h>> BY <1>1
  <2>2. carried'[k] = RequestId(req'[h]) /\ carried[k] = RequestId(req[h])
    BY <2>1 DEF carried
  <2> QED BY <2>2 DEF SameCarriers, RequestId
<1>2. CASE \E s \in Slots : k = <<"worker", s>>
  <2>1. PICK s \in Slots : k = <<"worker", s>> BY <1>2
  <2>2. carried'[k] = WorkerId(worker'[s]) /\ carried[k] = WorkerId(worker[s])
    BY <2>1 DEF carried
  <2> QED BY <2>2 DEF SameCarriers, WorkerId
<1> QED BY <1>1, <1>2 DEF Carriers

-----------------------------------------------------------------------------
(* Steps that keep the parts of the invariant *)

\* A row that comes into neither the dispatcher's hands nor those of a worker.
Tame(r, n) ==
    /\ Open(n) => Open(r)
    /\ n.status = "staging" => r.status = "staging"

TameRows == digest' = digest /\ \A t \in Tasks : Tame(tasks[t], tasks'[t])

BackedNext(t, m) ==
    t \in evicted' \/ \E x \in messages' : x.source = 0 /\ x.from = t /\ x.memory = m

StaysBacked(t, m) == Backed(t, m) => BackedNext(t, m)

LEMMA SameBacked ==
    ASSUME UNCHANGED <<messages, evicted>>, NEW t, NEW m PROVE StaysBacked(t, m)
BY DEF StaysBacked, Backed, BackedNext

\* Saving evicts dialogues, of which the history tells.
LEMMA SavedBacked ==
    ASSUME NEW x, Save(x), NEW t, NEW m PROVE StaysBacked(t, m)
<1> SUFFICES ASSUME Backed(t, m) PROVE BackedNext(t, m)
  BY DEF StaysBacked
<1>1. evicted' = evicted \cup {y.from : y \in {z \in messages \ messages' : z.source = 0}}
  BY DEF Save
<1>2. CASE t \in evicted BY <1>1, <1>2 DEF BackedNext
<1>3. CASE t \notin evicted
  <2>1. PICK y \in messages : y.source = 0 /\ y.from = t /\ y.memory = m
    BY <1>3 DEF Backed
  <2>2. CASE y \in messages' BY <2>1, <2>2 DEF BackedNext
  <2>3. CASE y \notin messages'
    <3>1. y.from \in evicted' BY <1>1, <2>1, <2>3
    <3> QED BY <2>1, <3>1 DEF BackedNext
  <2> QED BY <2>2, <2>3
<1> QED BY <1>2, <1>3

LEMMA OwnIdsKept ==
    ASSUME OwnIds, messages' \subseteq messages, CarriesLess,
           \A s \in Slots : worker'[s].at \in {"commit", "save"} => worker'[s].id # 0
    PROVE  OwnIds'
<1>1. Carriers' = Carriers BY DEF Carriers
<1>2. \A x, y \in messages' : x.id = y.id => x = y BY DEF OwnIds
<1>3. \A x \in messages', k \in Carriers : carried'[k] # 0 => carried'[k] # x.id
  <2> SUFFICES ASSUME NEW x \in messages', NEW k \in Carriers, carried'[k] # 0
               PROVE  carried'[k] # x.id
    OBVIOUS
  <2>1. carried'[k] = carried[k] /\ x \in messages BY DEF CarriesLess
  <2> QED BY <2>1 DEF OwnIds
<1>4. \A k, l \in Carriers : carried'[k] # 0 /\ carried'[k] = carried'[l] => k = l
  <2> SUFFICES ASSUME NEW k \in Carriers, NEW l \in Carriers,
                      carried'[k] # 0, carried'[k] = carried'[l]
               PROVE  k = l
    OBVIOUS
  <2>1. carried'[k] = carried[k] /\ carried'[l] = carried[l] BY DEF CarriesLess
  <2> QED BY <2>1 DEF OwnIds
<1> QED BY <1>1, <1>2, <1>3, <1>4 DEF OwnIds

LEMMA WorkersCarry ==
    ASSUME OwnIds, SameCarriers
    PROVE  \A s \in Slots : worker'[s].at \in {"commit", "save"} => worker'[s].id # 0
BY DEF OwnIds, SameCarriers

\* What StagedOwn says of a staged row.
StagedFor(t) ==
    /\ \A x \in messages : x.id = digest[t] => x.source = 0 /\ x.from = t
    /\ \A k \in Carriers : carried[k] = digest[t] =>
        \E h \in Handlers :
            k = <<"request", h>> /\ req[h].at = "save" /\ req[h].task = t
    /\ t \notin boot => digest[t] < nextId

StagedForNext(t) ==
    /\ \A x \in messages' : x.id = digest'[t] => x.source = 0 /\ x.from = t
    /\ \A k \in Carriers : carried'[k] = digest'[t] =>
        \E h \in Handlers :
            k = <<"request", h>> /\ req'[h].at = "save" /\ req'[h].task = t
    /\ t \notin boot' => digest'[t] < nextId'

LEMMA StagedMoved ==
    ASSUME \A t \in Tasks : tasks'[t].status = "staging" => StagedForNext(t)
    PROVE  StagedOwn'
<1>1. Carriers' = Carriers BY DEF Carriers
<1> QED BY <1>1 DEF StagedOwn, StagedForNext

\* A row that stays staged, whose message and carriers do not change.
LEMMA StagedKept ==
    ASSUME Sound, StagedOwn, Moves, CarriesLess, messages' \subseteq messages,
           NEW t \in Tasks, tasks[t].status = "staging", digest'[t] = digest[t],
           t \in boot' \/ (t \notin boot /\ nextId' >= nextId),
           \A h \in Handlers : req'[h] = req[h] \/ req'[h].at \notin {"stage", "save"}
    PROVE  StagedForNext(t)
<1>1. /\ \A x \in messages : x.id = digest[t] => x.source = 0 /\ x.from = t
      /\ \A k \in Carriers : carried[k] = digest[t] =>
            \E h \in Handlers :
                k = <<"request", h>> /\ req[h].at = "save" /\ req[h].task = t
      /\ t \notin boot => digest[t] < nextId
  BY DEF StagedOwn
<1>2. digest[t] # 0 /\ digest[t] \in Nat /\ nextId \in Nat /\ nextId' \in Nat
  BY RowFacts DEF Kept, Sound, TypeOK, Moves, IdMove
<1>3. ASSUME NEW k \in Carriers, carried'[k] = digest[t]
      PROVE  \E h \in Handlers :
                k = <<"request", h>> /\ req'[h].at = "save" /\ req'[h].task = t
  <2>1. carried'[k] = carried[k] BY <1>2, <1>3 DEF CarriesLess
  <2>2. PICK h \in Handlers : k = <<"request", h>> /\ req[h].at = "save" /\ req[h].task = t
    BY <1>1, <1>3, <2>1
  <2>3. carried'[k] = RequestId(req'[h])
    BY <2>2 DEF carried
  <2>4. req'[h].at \in {"stage", "save"} BY <1>2, <1>3, <2>3 DEF RequestId
  <2>5. req'[h] = req[h] BY <2>4
  <2> QED BY <2>2, <2>5
<1>4. t \notin boot' => digest[t] < nextId' BY <1>1, <1>2
<1> QED BY <1>1, <1>3, <1>4 DEF StagedForNext

\* No id is taken or used, and no row is staged.
LEMMA IdsKept ==
    ASSUME Sound, OwnIds, StagedOwn, Moves, CarriesLess, messages' \subseteq messages,
           \A t \in Tasks : tasks'[t].status = "staging" =>
              /\ tasks[t].status = "staging"
              /\ t \in boot' \/ (t \notin boot /\ nextId' >= nextId),
           \A s \in Slots : worker'[s].at \in {"commit", "save"} => worker'[s].id # 0,
           \A h \in Handlers : req'[h] = req[h] \/ req'[h].at \notin {"stage", "save"}
    PROVE  OwnIds' /\ StagedOwn'
<1>1. OwnIds' BY OwnIdsKept
<1>2. ASSUME NEW t \in Tasks, tasks'[t].status = "staging" PROVE StagedForNext(t)
  <2>1. digest'[t] = digest[t] /\ tasks[t].status = "staging"
    BY <1>2 DEF Moves, RowMoves, RowMove
  <2> QED BY <1>2, <2>1, StagedKept
<1> QED BY <1>1, <1>2, StagedMoved

LEMMA OriginsKept ==
    ASSUME Sound, Origins, Moves, messages' \subseteq messages
    PROVE  Origins'
<1> SUFFICES ASSUME NEW x \in messages'
             PROVE  /\ digest'[x.from] = IF x.source = 0 THEN x.id ELSE x.source
                    /\ x.id # 0
  BY DEF Origins
<1>1. x \in messages /\ x.from \in Tasks /\ tasks[x.from].status # "none"
  BY MessageTypes DEF SoundMessage
<1>2. digest'[x.from] = digest[x.from]
  BY <1>1 DEF Moves, RowMoves, RowMove
<1> QED BY <1>1, <1>2 DEF Origins

\* A row that stays open stays backed.
LEMMA RowsBackedKept ==
    ASSUME Sound, RowsBacked, Moves,
           NEW t \in Tasks, Open(tasks'[t]), Open(tasks[t]),
           memories'[tasks'[t].subject] \notin {"deleted", "cleared"},
           StaysBacked(t, tasks[t].subject)
    PROVE  BackedNext(t, tasks'[t].subject)
<1>1. Kept(tasks[t]) /\ Kept(tasks'[t]) BY DEF Kept, Open
<1>2. tasks'[t].subject = tasks[t].subject BY <1>1 DEF Moves, RowMoves, RowMove
<1>3. tasks[t].subject \in Memories BY <1>1, RowFacts
<1>4. memories[tasks[t].subject] \notin {"deleted", "cleared"}
  BY <1>2, <1>3 DEF Moves, MemoryMove, Sound, TypeOK, MemoryState
<1> QED BY <1>2, <1>4 DEF RowsBacked, StaysBacked

LEMMA RowsBackedMoved ==
    ASSUME \A t \in Tasks :
            Open(tasks'[t]) /\ memories'[tasks'[t].subject] \notin {"deleted", "cleared"} =>
                BackedNext(t, tasks'[t].subject)
    PROVE  RowsBacked'
BY DEF RowsBacked, Backed, BackedNext

\* A worker that keeps saving and a request that keeps publishing.
LEMMA WorkerBackedKept ==
    ASSUME Sound, ActorsBacked, Moves, NEW s \in Slots, worker'[s] = worker[s],
           worker[s].at = "save", StaysBacked(Lease(s).task, Row(s).subject)
    PROVE  Backed(Lease(s).task, Row(s).subject)'
<1>1. worker[s] # Free BY DEF Free
<1>2. PICK t \in Tasks : t = Lease(s).task BY <1>1, WorkerFacts
<1>3. Published(tasks[t]) BY <1>1, <1>2 DEF Sound, WorkersSound, Row
<1>4. tasks'[t].subject = tasks[t].subject BY <1>3, PublishedStays DEF Moves
<1>5. Backed(t, tasks[t].subject) BY <1>2 DEF ActorsBacked, Row
<1>6. BackedNext(t, tasks'[t].subject) BY <1>2, <1>4, <1>5 DEF StaysBacked, Row
<1>7. Lease(s)'.task = t /\ Row(s)'.subject = tasks'[t].subject
  BY <1>2 DEF Lease, Row
<1> QED BY <1>6, <1>7 DEF Backed, BackedNext

PublishBackedNext(r) ==
    /\ r.task \in Tasks
    /\ BackedNext(r.task, r.memory)
    /\ tasks'[r.task].status # "none"
    /\ Kept(tasks'[r.task]) => tasks'[r.task].subject = r.memory

LEMMA RequestBackedKept ==
    ASSUME Sound, ActorsBacked, Moves, NEW h \in Handlers, req[h].at = "publish",
           StaysBacked(req[h].task, req[h].memory)
    PROVE  PublishBackedNext(req[h])
<1>1. PICK t \in Tasks : t = req[h].task BY DEF ActorsBacked
<1>2. /\ Backed(t, req[h].memory) /\ tasks[t].status # "none"
      /\ Kept(tasks[t]) => tasks[t].subject = req[h].memory
  BY <1>1 DEF ActorsBacked
<1>3. RowMove(t) BY DEF Moves, RowMoves
<1>4. tasks'[t].status # "none" BY <1>2, <1>3 DEF RowMove
<1>5. Kept(tasks'[t]) => tasks'[t].subject = req[h].memory
  <2> SUFFICES ASSUME Kept(tasks'[t]) PROVE tasks'[t].subject = req[h].memory
    OBVIOUS
  <2>1. Kept(tasks[t]) BY <1>2, <1>3 DEF RowMove, Kept
  <2> QED BY <1>2, <1>3, <2>1 DEF RowMove
<1> QED BY <1>1, <1>2, <1>4, <1>5 DEF PublishBackedNext, StaysBacked

LEMMA ActorsBackedMoved ==
    ASSUME \A s \in Slots : worker'[s].at = "save" => Backed(Lease(s).task, Row(s).subject)',
           \A h \in Handlers : req'[h].at = "publish" => PublishBackedNext(req'[h])
    PROVE  ActorsBacked'
<1>1. ASSUME NEW h \in Handlers, req'[h].at = "publish"
      PROVE  /\ req'[h].task \in Tasks
             /\ Backed(req[h].task, req[h].memory)'
             /\ tasks'[req'[h].task].status # "none"
             /\ Kept(tasks'[req'[h].task]) => tasks'[req'[h].task].subject = req'[h].memory
  BY <1>1 DEF PublishBackedNext, BackedNext, Backed
<1> QED BY <1>1 DEF ActorsBacked, Kept

LEMMA ActorsBackedKept ==
    ASSUME Sound, ActorsBacked, Moves, SameSaves, \A t, m : StaysBacked(t, m)
    PROVE  ActorsBacked'
<1>1. ASSUME NEW s \in Slots, worker'[s].at = "save"
      PROVE  Backed(Lease(s).task, Row(s).subject)'
  <2>1. worker'[s] = worker[s] /\ worker[s].at = "save" BY <1>1 DEF SameSaves
  <2>2. StaysBacked(Lease(s).task, Row(s).subject) OBVIOUS
  <2> QED BY <2>1, <2>2, WorkerBackedKept
<1>2. ASSUME NEW h \in Handlers, req'[h].at = "publish"
      PROVE  PublishBackedNext(req'[h])
  <2>1. req'[h] = req[h] /\ req[h].at = "publish" BY <1>2 DEF SameSaves
  <2>2. StaysBacked(req[h].task, req[h].memory) OBVIOUS
  <2> QED BY <2>1, <2>2, RequestBackedKept
<1> QED BY <1>1, <1>2, ActorsBackedMoved

LEMMA ChildrenBackedKept ==
    ASSUME ChildrenBacked, \A x \in messages' \ messages : x.source = 0,
           \A t, m : StaysBacked(t, m)
    PROVE  ChildrenBacked'
<1> SUFFICES ASSUME NEW x \in messages', x.source # 0
             PROVE  BackedNext(x.from, x.memory)
  BY DEF ChildrenBacked, Backed, BackedNext
<1>1. x \in messages OBVIOUS
<1>2. StaysBacked(x.from, x.memory) OBVIOUS
<1> QED BY <1>1, <1>2 DEF ChildrenBacked, StaysBacked

\* A row of a cleared memory is not opened.
LEMMA RowStaysCleared ==
    ASSUME Sound, Moves, NEW t \in Tasks, Open(tasks'[t]) => Open(tasks[t])
    PROVE  Open(tasks'[t]) => tasks'[t].subject = tasks[t].subject
<1> SUFFICES ASSUME Open(tasks'[t]) PROVE tasks'[t].subject = tasks[t].subject
  OBVIOUS
<1>1. Kept(tasks[t]) /\ Kept(tasks'[t]) BY DEF Kept, Open
<1> QED BY <1>1 DEF Moves, RowMoves, RowMove

LEMMA ClearedRowsKept ==
    ASSUME Sound, Moves, ClearedRows, SameClears,
           \A t \in Tasks : Open(tasks'[t]) => Open(tasks[t])
    PROVE  ClearedRows'
<1> SUFFICES ASSUME NEW h \in Handlers, NEW t \in Tasks, Clearing(req'[h]),
                    tasks'[t].subject = req'[h].memory, Open(tasks'[t])
             PROVE  FALSE
  BY DEF ClearedRows, Clearing, Open
<1>1. req'[h] = req[h] BY DEF SameClears
<1>2. tasks'[t].subject = tasks[t].subject BY RowStaysCleared
<1> QED BY <1>1, <1>2 DEF ClearedRows

\* Whoever clears holds the lock.
LEMMA ClearingHolds ==
    ASSUME NEW r, Clearing(r) PROVE RequestHolds(r)
BY DEF Clearing, RequestHolds

LEMMA NobodyClears ==
    ASSUME \A h \in Handlers : ~Clearing(req'[h]) PROVE ClearedRows'
BY DEF ClearedRows, Clearing

-----------------------------------------------------------------------------
(* Steps of one actor *)

LEMMA AtWorkServing ==
    ASSUME Booting
    PROVE  /\ \A s \in Slots : worker[s].at # "free" => boot = {}
           /\ \A h \in Handlers : req[h].at # "idle" => boot = {}
BY DEF Booting, Free, Idle

\* The first dispatch is over, or goes on alone.
BootMove ==
    \/ boot' = {}
    \/ boot' \subseteq boot /\ UNCHANGED <<worker, req>>

LEMMA BootingKept == ASSUME Booting, BootMove PROVE Booting'
BY DEF Booting, BootMove

\* Most steps neither save a message nor come nearer to it, and open no row.
Calm ==
    /\ UNCHANGED <<messages, evicted>>
    /\ BootMove /\ boot' = boot
    /\ nextId' >= nextId
    /\ SameCarriers /\ SameSaves /\ SameClears
    /\ TameRows

\* What is backed stays so when messages stay and nobody comes to save.
LEMMA BackingKept ==
    ASSUME Sound, Owned, Moves, UNCHANGED <<messages, evicted>>, SameSaves,
           \A t \in Tasks : Open(tasks'[t]) => Open(tasks[t])
    PROVE  Origins' /\ RowsBacked' /\ ActorsBacked' /\ ChildrenBacked'
<1>1. \A t, m : StaysBacked(t, m) BY SameBacked
<1>2. RowsBacked'
  <2>1. ASSUME NEW t \in Tasks, Open(tasks'[t]),
               memories'[tasks'[t].subject] \notin {"deleted", "cleared"}
        PROVE  BackedNext(t, tasks'[t].subject)
    BY <1>1, <2>1, RowsBackedKept DEF Owned
  <2> QED BY <2>1, RowsBackedMoved
<1>3. ActorsBacked' BY <1>1, ActorsBackedKept DEF Owned
<1>4. ChildrenBacked' BY <1>1, ChildrenBackedKept DEF Owned
<1>5. Origins' BY OriginsKept DEF Owned
<1> QED BY <1>2, <1>3, <1>4, <1>5

LEMMA CalmOwned == ASSUME Sound, Owned, Moves, Calm PROVE Owned'
<1> USE DEF Calm
<1>1. Booting' BY BootingKept DEF Owned
<1>2. \A t \in Tasks : Open(tasks'[t]) => Open(tasks[t]) BY DEF TameRows, Tame
<1>3. OwnIds' /\ StagedOwn'
  <2>1. \A t \in Tasks : tasks'[t].status = "staging" => tasks[t].status = "staging"
    BY DEF TameRows, Tame
  <2>2. \A h \in Handlers : req'[h] = req[h] \/ req'[h].at \notin {"stage", "save"}
    BY DEF SameCarriers
  <2> QED BY <2>1, <2>2, CarriersKept, WorkersCarry, IdsKept DEF Owned
<1>4. Origins' /\ RowsBacked' /\ ActorsBacked' /\ ChildrenBacked'
  BY <1>2, BackingKept
<1>5. ClearedRows' BY <1>2, ClearedRowsKept DEF Owned
<1> QED BY <1>1, <1>3, <1>4, <1>5 DEF Owned

LEMMA CalmRequest ==
    ASSUME Sound, UNCHANGED <<messages, evicted, nextId, boot, worker>>, TameRows,
           boot = {}, NEW h \in Handlers, NEW n, req' = [req EXCEPT ![h] = n],
           n.at \notin {"stage", "save", "publish"}, ~Clearing(n)
    PROVE  Calm
<1>1. /\ req'[h].at \notin {"stage", "save", "publish"}
      /\ ~Clearing(req'[h])
      /\ \A g \in Handlers : g # h => req'[g] = req[g]
  BY ActorTypes
<1>2. nextId \in Nat BY DEF Sound, TypeOK
<1> QED BY <1>1, <1>2 DEF Calm, SameCarriers, SameSaves, SameClears, BootMove

LEMMA CalmWorker ==
    ASSUME Sound, UNCHANGED <<messages, evicted, nextId, boot, req>>, TameRows,
           boot = {}, NEW s \in Slots, NEW n, worker' = [worker EXCEPT ![s] = n],
           n.at \notin {"commit", "save"}
    PROVE  Calm
<1>1. /\ worker'[s].at \notin {"commit", "save"}
      /\ \A u \in Slots : u # s => worker'[u] = worker[u]
  BY ActorTypes
<1>2. nextId \in Nat BY DEF Sound, TypeOK
<1> QED BY <1>1, <1>2 DEF Calm, SameCarriers, SameSaves, SameClears, BootMove

LEMMA CalmRows ==
    ASSUME Sound, UNCHANGED <<messages, evicted, nextId, boot, worker, req>>, TameRows
    PROVE  Calm
<1>2. nextId \in Nat BY DEF Sound, TypeOK
<1> QED BY <1>2 DEF Calm, SameCarriers, SameSaves, SameClears, BootMove

LEMMA AtRest == Idle.at = "idle" /\ ~Clearing(Idle) /\ Free.at = "free"
BY DEF Idle, Clearing, Free

-----------------------------------------------------------------------------
(* What the queue does to a row, again *)

LEMMA SameTame == ASSUME UNCHANGED <<tasks, digest>> PROVE TameRows
BY DEF TameRows, Tame

LEMMA OneTame ==
    ASSUME Sound, NEW t \in Tasks, NEW n, Tame(tasks[t], n), NEW ok \in BOOLEAN,
           Queue!Persist([tasks EXCEPT ![t] = n], ok), digest' = digest
    PROVE  TameRows
<1>1. tasks' = tasks \/ tasks' = [tasks EXCEPT ![t] = n] BY DEF Queue!Persist
<1>2. \A u \in Tasks : tasks'[u] = tasks[u] \/ (u = t /\ tasks'[u] = n)
  BY <1>1, RowFacts
<1> QED BY <1>2 DEF TameRows, Tame

LEMMA SettledTame ==
    ASSUME NEW row, NEW n, n.status \notin {"pending", "running", "staging"}
    PROVE  Tame(row, n)
BY DEF Tame, Open

LEMMA CancelledStatus ==
    ASSUME NEW row \in Queue!Row
    PROVE  Queue!Cancelled(row).status \notin {"pending", "running", "staging"}
<1>1. CASE row.status \in Queue!Terminal \cup {"none", "removed"}
  BY <1>1 DEF Queue!Cancelled, Queue!Terminal
<1>2. CASE row.status \notin Queue!Terminal \cup {"none", "removed"}
  <2> DEFINE n == Queue!Unleased(row, "cancelled")
  <2>1. n \in Queue!Row /\ n.status = "cancelled"
    BY DEF Queue!Unleased, Queue!Row, Queue!Status, Queue!NoToken
  <2> HIDE DEF n
  <2>2. [n EXCEPT !.cancel = TRUE].status = "cancelled" BY <2>1 DEF Queue!Row
  <2>3. Queue!Cancelled(row) = [n EXCEPT !.cancel = TRUE]
    BY <1>2 DEF Queue!Cancelled, n
  <2> QED BY <2>2, <2>3
<1> QED BY <1>1, <1>2

\* The rows of a memory are cancelled: none of them is open any more.
LEMMA CancelTame ==
    ASSUME Sound, NEW m, NEW ok \in BOOLEAN, CancelRows(m, ok), digest' = digest
    PROVE  /\ TameRows
           /\ ok => \A t \in Tasks : tasks'[t].subject = m => ~Open(tasks'[t])
<1> DEFINE new == [t \in Tasks |-> IF tasks[t].subject = m
                                   THEN Queue!Cancelled(tasks[t]) ELSE tasks[t]]
<1>1. \A t \in Tasks :
        Queue!Cancelled(tasks[t]).status \notin {"pending", "running", "staging"}
  BY CancelledStatus, RowFacts
<1>2. CASE \E t \in Tasks : tasks[t].subject = m /\ Queue!Cancelled(tasks[t]) # tasks[t]
  <2>1. Queue!Persist(new, ok) BY <1>2 DEF CancelRows, Queue!CancelSubject
  <2>2. \A t \in Tasks : Tame(tasks[t], new[t])
    <3> SUFFICES ASSUME NEW t \in Tasks PROVE Tame(tasks[t], new[t])
      OBVIOUS
    <3>1. Tame(tasks[t], Queue!Cancelled(tasks[t])) BY <1>1, SettledTame
    <3>2. Tame(tasks[t], tasks[t]) BY DEF Tame
    <3> QED BY <3>1, <3>2
  <2>3. \A t \in Tasks : new[t].subject = m => ~Open(new[t])
    <3> SUFFICES ASSUME NEW t \in Tasks, new[t].subject = m PROVE ~Open(new[t])
      OBVIOUS
    <3>1. CASE tasks[t].subject = m BY <1>1, <3>1 DEF Open
    <3>2. CASE tasks[t].subject # m BY <3>2
    <3> QED BY <3>1, <3>2
  <2> HIDE DEF new
  <2>4. (ok /\ tasks' = new) \/ (~ok /\ tasks' = tasks) BY <2>1 DEF Queue!Persist
  <2>5. \A t \in Tasks : Tame(tasks[t], tasks[t]) BY DEF Tame
  <2> QED BY <2>2, <2>3, <2>4, <2>5 DEF TameRows
<1>3. CASE ~ \E t \in Tasks : tasks[t].subject = m /\ Queue!Cancelled(tasks[t]) # tasks[t]
  <2>1. tasks' = tasks BY <1>3 DEF CancelRows, queueVars
  <2>2. \A t \in Tasks : tasks[t].subject = m => ~Open(tasks[t])
    BY <1>1, <1>3 DEF Open
  <2> QED BY <2>1, <2>2, SameTame
<1> QED BY <1>2, <1>3

LEMMA RequestCancelTame ==
    ASSUME Sound, NEW t \in Tasks, NEW ok \in BOOLEAN, Queue!RequestCancel(t, ok),
           digest' = digest
    PROVE  TameRows
<1>1. Queue!Persist([tasks EXCEPT ![t] = Queue!Cancelled(tasks[t])], ok)
  BY DEF Queue!RequestCancel
<1>2. Tame(tasks[t], Queue!Cancelled(tasks[t]))
  BY CancelledStatus, SettledTame, RowFacts
<1> QED BY <1>1, <1>2, OneTame

LEMMA DiscardTame ==
    ASSUME Sound, NEW t \in Tasks, NEW ok \in BOOLEAN, Queue!DiscardStaged(t, ok),
           digest' = digest
    PROVE  TameRows
<1> DEFINE n == [Queue!NoRow EXCEPT !.status = "removed"]
<1>1. n.status = "removed" BY DEF Queue!NoRow
<1>2. Queue!Persist([tasks EXCEPT ![t] = n], ok) BY DEF Queue!DiscardStaged
<1> HIDE DEF n
<1>3. Tame(tasks[t], n) BY <1>1, SettledTame
<1> QED BY <1>2, <1>3, OneTame

LEMMA ClaimTame ==
    ASSUME Sound, NEW t \in Tasks, NEW ok \in BOOLEAN, Queue!Claim(t, ok),
           digest' = digest
    PROVE  TameRows
<1> DEFINE n == Queue!Claimed(tasks[t], issued + 1)
<1>1. Queue!Claimable(tasks[t]) /\ Queue!Persist([tasks EXCEPT ![t] = n], ok)
  BY DEF Queue!Claim
<1>2. n.status = "running"
  BY RowFacts DEF Queue!Claimed, Queue!Row
<1> HIDE DEF n
<1>3. Tame(tasks[t], n) BY <1>1, <1>2 DEF Tame, Open, Queue!Claimable
<1> QED BY <1>1, <1>3, OneTame

LEMMA RenewTame ==
    ASSUME Sound, NEW l, l.task \in Tasks, NEW ok \in BOOLEAN, Queue!Renew(l, ok),
           digest' = digest
    PROVE  TameRows
<1> DEFINE t == l.task
           n == [tasks[t] EXCEPT !.ttl = LeaseTicks]
<1>1. Queue!Persist([tasks EXCEPT ![t] = n], ok)
  <2>1. tasks \in [Tasks -> Queue!Row] BY RowFacts
  <2>2. [tasks EXCEPT ![t].ttl = LeaseTicks] = [tasks EXCEPT ![t] = n]
    BY <2>1
  <2> QED BY <2>2 DEF Queue!Renew
<1>2. n.status = tasks[t].status BY RowFacts DEF Queue!Row
<1> HIDE DEF n
<1>3. Tame(tasks[t], n) BY <1>2 DEF Tame, Open
<1> QED BY <1>1, <1>3, OneTame

LEMMA ReportTame ==
    ASSUME Sound, NEW s \in Slots, NEW ok \in BOOLEAN, Report(s, ok)
    PROVE  TameRows
<1> DEFINE t == Lease(s).task
           n == IF Queue!Holds(Lease(s))
                THEN Queue!Unleased(tasks[t], worker[s].outcome) ELSE tasks[t]
<1>1. /\ Queue!Persist([tasks EXCEPT ![t] = n], ok)
      /\ digest' = digest /\ worker[s].at = "report"
  BY DEF Report
<1>2. t \in Tasks /\ worker[s] # Free BY <1>1, WorkerFacts DEF Free
<1>3. worker[s].outcome \in {"done", "failed", "pending", "cancelled"}
  BY <1>1, <1>2 DEF Sound, WorkersSound, Queue!ReportStatuses
<1>4. Tame(tasks[t], n)
  <2>1. CASE Queue!Holds(Lease(s))
    <3>1. Open(tasks[t]) BY <2>1 DEF Queue!Holds, Open
    <3>2. n.status = worker[s].outcome
      BY <1>2, <2>1, RowFacts DEF Queue!Unleased, Queue!Row
    <3> QED BY <1>3, <3>1, <3>2 DEF Tame
  <2>2. CASE ~Queue!Holds(Lease(s)) BY <2>2 DEF Tame
  <2> QED BY <2>1, <2>2
<1> HIDE DEF n, t
<1> QED BY <1>1, <1>2, <1>4, OneTame

LEMMA TickTame == ASSUME Sound, Queue!Tick, digest' = digest PROVE TameRows
<1>1. tasks' = [t \in Tasks |-> [tasks[t] EXCEPT !.ttl = IF @ > 0 THEN @ - 1 ELSE 0]]
  BY DEF Queue!Tick
<1>2. \A t \in Tasks : tasks'[t].status = tasks[t].status
  BY <1>1, RowFacts DEF Queue!Row
<1> QED BY <1>2 DEF TameRows, Tame, Open

LEMMA RestartTame == ASSUME Sound, Queue!Restart, digest' = digest PROVE TameRows
<1>1. tasks' = [t \in Tasks |-> Queue!Recovered(tasks[t])]
  BY DEF Queue!Restart, Sound, RowsSound
<1>2. ASSUME NEW t \in Tasks PROVE Tame(tasks[t], tasks'[t])
  <2>1. tasks[t] \in Queue!Row /\ tasks'[t] = Queue!Recovered(tasks[t])
    BY <1>1, RowFacts
  <2>2. CASE tasks[t].status \in {"pending", "running"}
    <3>1. Queue!Recovered(tasks[t]).status # "staging"
      BY <2>1, <2>2 DEF Queue!Recovered, Queue!Unleased, Queue!Row
    <3> QED BY <2>1, <2>2, <3>1 DEF Tame, Open
  <2>3. CASE tasks[t].status \notin {"pending", "running"}
    <3>1. tasks'[t] = tasks[t] BY <2>1, <2>3 DEF Queue!Recovered
    <3> QED BY <3>1 DEF Tame
  <2> QED BY <2>2, <2>3
<1> QED BY <1>2 DEF TameRows

-----------------------------------------------------------------------------
(* Calm steps *)

LEMMA StartCalm ==
    ASSUME Sound, NEW h \in Handlers, NEW kind, NEW r, Start(h, kind, r),
           UNCHANGED <<queueVars, memories, messages, nextId, digest, evicted, boot, worker>>,
           r.at \notin {"stage", "save", "publish"}, ~Clearing(r)
    PROVE  Calm
BY SameTame, CalmRequest DEF Start, Serving, queueVars

LEMMA StartsCalm ==
    ASSUME Sound, NEW h \in Handlers,
           StartClear(h) \/ \E m \in Memories : StartAdd(h, m) \/ StartDelete(h, m)
    PROVE  Calm
<1>1. ASSUME StartClear(h) PROVE Calm
  <2> DEFINE r == [kind |-> "clear", at |-> "lock", memory |-> Queue!NoToken,
                   left |-> {m \in Memories : Live(m)}]
  <2>1. r.at = "lock" /\ ~Clearing(r) BY DEF Clearing
  <2>2. Start(h, "clear", r) BY <1>1 DEF StartClear
  <2> HIDE DEF r
  <2> QED BY <1>1, <2>1, <2>2, StartCalm DEF StartClear
<1>2. ASSUME NEW m \in Memories, StartAdd(h, m) PROVE Calm
  <2> DEFINE r == [kind |-> "add", at |-> "embed", memory |-> m, id |-> 0,
                   task |-> Queue!NoToken]
  <2>1. r.at = "embed" /\ ~Clearing(r) BY DEF Clearing
  <2>2. Start(h, "add", r) BY <1>2 DEF StartAdd
  <2> HIDE DEF r
  <2> QED BY <1>2, <2>1, <2>2, StartCalm DEF StartAdd
<1>3. ASSUME NEW m \in Memories, StartDelete(h, m) PROVE Calm
  <2> DEFINE r == [kind |-> "delete", at |-> "cancel", memory |-> m]
  <2>1. r.at = "cancel" /\ ~Clearing(r) BY DEF Clearing
  <2>2. Start(h, "delete", r) BY <1>3 DEF StartDelete
  <2> HIDE DEF r
  <2> QED BY <1>3, <2>1, <2>2, StartCalm DEF StartDelete
<1> QED BY <1>1, <1>2, <1>3

\* A request that comes to its end.
LEMMA FinishCalm ==
    ASSUME Sound, Booting, NEW h \in Handlers, req[h].at # "idle", Finish(h),
           UNCHANGED <<messages, evicted, nextId, boot, worker>>, TameRows
    PROVE  Calm
<1>1. boot = {} BY AtWorkServing
<1>2. Idle.at \notin {"stage", "save", "publish"} /\ ~Clearing(Idle) BY AtRest
<1> QED BY <1>1, <1>2, CalmRequest DEF Finish

\* A request that goes on to a place where it posts and clears nothing.
LEMMA GoCalm ==
    ASSUME Sound, Booting, NEW h \in Handlers, req[h].at # "idle",
           req[h] \in Request,
           NEW a \in {"discard", "row", "rows", "cancel", "messages"}, Go(h, a),
           a = "messages" => req[h].kind # "clear",
           UNCHANGED <<messages, evicted, nextId, boot, worker>>, TameRows
    PROVE  Calm
<1> DEFINE r == req[h]
           n == [r EXCEPT !.at = a]
<1>1. boot = {} BY AtWorkServing
<1>2. req' = [req EXCEPT ![h] = n] BY GoStep
<1>3. r \in AddRequest \cup DeleteRequest \cup ClearRequest BY RequestKinds
<1> HIDE DEF r
<1>4. n.at = a /\ n.kind = r.kind
  BY <1>3 DEF AddRequest, DeleteRequest, ClearRequest
<1> HIDE DEF n
<1>5. n.at \notin {"stage", "save", "publish"} /\ ~Clearing(n)
  BY <1>4 DEF Clearing, r
<1> QED BY <1>1, <1>2, <1>5, CalmRequest

LEMMA EmbedFails ==
    ASSUME Sound, Booting, NEW h \in Handlers, Embed(h, FALSE) PROVE Calm
BY FinishCalm, SameTame DEF Embed, queueVars

LEMMA StageFails ==
    ASSUME Sound, Booting, NEW h \in Handlers, NEW t \in Tasks, Stage(h, t, FALSE)
    PROVE  Calm
<1>1. UNCHANGED <<tasks, digest>> BY DEF Stage, Queue!StageMemory, Queue!Persist
<1> QED BY <1>1, FinishCalm, SameTame DEF Stage

LEMMA SaveRawFails ==
    ASSUME Sound, Booting, NEW h \in Handlers, SaveRaw(h, FALSE)
    PROVE  Calm
<1>1. /\ req[h].at = "save" /\ Go(h, "discard")
      /\ UNCHANGED <<messages, evicted, nextId, boot, worker, tasks, digest>>
  BY DEF SaveRaw, queueVars
<1>2. req[h] \in Request
  BY <1>1, RequestFacts, RequestKinds DEF Posting
<1> QED BY <1>1, <1>2, GoCalm, SameTame

LEMMA DiscardCalm ==
    ASSUME Sound, Booting, NEW h \in Handlers, NEW ok \in BOOLEAN, Discard(h, ok)
    PROVE  Calm
<1>1. /\ req[h].at = "discard" /\ Finish(h)
      /\ UNCHANGED <<messages, evicted, nextId, boot, worker, digest>>
      /\ Queue!DiscardStaged(req[h].task, ok) \/ UNCHANGED queueVars
  BY DEF Discard
<1>2. req[h].task \in Tasks BY <1>1 DEF Sound, RequestsSound
<1>3. TameRows BY <1>1, <1>2, DiscardTame, SameTame DEF queueVars
<1> QED BY <1>1, <1>3, FinishCalm

LEMMA DeleteCancelCalm ==
    ASSUME Sound, Booting, NEW h \in Handlers, NEW ok \in BOOLEAN, DeleteCancel(h, ok)
    PROVE  Calm
<1>1. /\ req[h].at = "cancel" /\ req[h].kind = "delete"
      /\ CancelRows(req[h].memory, ok)
      /\ UNCHANGED <<messages, evicted, nextId, boot, worker, digest>>
      /\ Go(h, "row") \/ Finish(h)
  BY DEF DeleteCancel
<1>2. TameRows BY <1>1, CancelTame
<1>3. req[h] \in Request BY <1>1, RequestFacts, RequestKinds
<1> QED BY <1>1, <1>2, <1>3, GoCalm, FinishCalm

LEMMA DeleteRowCalm ==
    ASSUME Sound, Booting, NEW h \in Handlers, NEW ok \in BOOLEAN, DeleteRow(h, ok)
    PROVE  Calm
<1>1. /\ req[h].at = "row"
      /\ UNCHANGED <<messages, evicted, nextId, boot, worker, digest, tasks>>
      /\ Go(h, "messages") \/ Finish(h)
  BY DEF DeleteRow, queueVars
<1>2. req[h] \in DeleteRequest BY <1>1, RequestFacts
<1>3. req[h] \in Request /\ req[h].kind # "clear" BY <1>2, RequestKinds, KindFacts
<1> QED BY <1>1, <1>3, GoCalm, FinishCalm, SameTame

LEMMA DeleteMessagesFails ==
    ASSUME Sound, Booting, NEW h \in Handlers, DeleteMessages(h, FALSE) PROVE Calm
BY FinishCalm, SameTame DEF DeleteMessages, queueVars

LEMMA ClearCancelFails ==
    ASSUME Sound, Booting, NEW h \in Handlers, NEW m \in Memories,
           ClearCancel(h, m, FALSE)
    PROVE  Calm
<1>1. /\ req[h].at # "idle" /\ Finish(h) /\ CancelRows(m, FALSE)
      /\ UNCHANGED <<messages, evicted, nextId, boot, worker, digest>>
  BY DEF ClearCancel, ClearAt
<1>2. TameRows BY <1>1, CancelTame
<1> QED BY <1>1, <1>2, FinishCalm

LEMMA ClearMessagesFails ==
    ASSUME Sound, Booting, NEW h \in Handlers, ClearMessages(h, FALSE) PROVE Calm
BY FinishCalm, SameTame DEF ClearMessages, queueVars

LEMMA ClearRowsCalm ==
    ASSUME Sound, Booting, NEW h \in Handlers, NEW ok \in BOOLEAN, ClearRows(h, ok)
    PROVE  Calm
BY FinishCalm, SameTame DEF ClearRows, ClearAt, queueVars

LEMMA PublishFails ==
    ASSUME Sound, Booting, NEW h \in Handlers, NEW ok \in BOOLEAN, Publish(h, ok),
           UNCHANGED tasks
    PROVE  Calm
BY FinishCalm, SameTame DEF Publish

\* A worker that goes on to a place where it neither holds an id nor saves.
LEMMA ConcludeCalm ==
    ASSUME Sound, Booting, NEW s \in Slots, worker[s].at # "free",
           NEW a \in Places \ {"commit", "save"}, NEW o,
           Conclude(s, a, o) \/ Move(s, a) \/ Leave(s),
           UNCHANGED <<messages, evicted, nextId, boot, req>>, TameRows
    PROVE  Calm
<1> DEFINE w == worker[s]
           c == [w EXCEPT !.at = a, !.outcome = o]
           n == [w EXCEPT !.at = a]
<1>1. boot = {} BY AtWorkServing
<1>2. w \in Worker BY WorkerFacts
<1>3. \/ worker' = [worker EXCEPT ![s] = c]
      \/ worker' = [worker EXCEPT ![s] = n]
      \/ worker' = [worker EXCEPT ![s] = Free]
  BY ActorTypes DEF Conclude, Move, Leave
<1> HIDE DEF w
<1>4. c.at = a /\ n.at = a BY <1>2 DEF Worker
<1> HIDE DEF c, n
<1>5. a \notin {"commit", "save"} /\ Free.at = "free" BY AtRest
<1> QED BY <1>1, <1>3, <1>4, <1>5, CalmWorker

LEMMA DispatchCalm ==
    ASSUME Sound, NEW s \in Slots, NEW t \in Tasks, Dispatch(s, t)
    PROVE  Calm
<1> DEFINE n == [at |-> "claim", id |-> 0, outcome |-> "none",
                 lease |-> [task |-> t, token |-> Queue!NoToken, attempt |-> 0]]
<1>1. /\ boot = {} /\ worker' = [worker EXCEPT ![s] = n]
      /\ UNCHANGED <<tasks, messages, nextId, digest, evicted, boot, req>>
  BY DEF Dispatch, queueVars
<1>2. n.at = "claim" OBVIOUS
<1> HIDE DEF n
<1> QED BY <1>1, <1>2, CalmWorker, SameTame

LEMMA ClaimCalm ==
    ASSUME Sound, Booting, NEW s \in Slots, NEW ok \in BOOLEAN, Claim(s, ok)
    PROVE  Calm
<1> DEFINE w == worker[s]
           l == [task |-> Lease(s).task, token |-> issued + 1,
                 attempt |-> Row(s).retry + 1]
           n == [w EXCEPT !.at = "look", !.lease = l]
<1>1. /\ w.at = "claim"
      /\ UNCHANGED <<messages, nextId, digest, evicted, boot, req>>
      /\ Queue!Claim(Lease(s).task, ok) \/ UNCHANGED queueVars
      /\ \/ worker' = [worker EXCEPT ![s] = Free]
         \/ worker' = [worker EXCEPT ![s].at = "look", ![s].lease = l]
  BY DEF Claim, Leave
<1>2. w \in Worker /\ Lease(s).task \in Tasks BY <1>1, WorkerFacts
<1>3. TameRows BY <1>1, <1>2, ClaimTame, SameTame DEF queueVars
<1>4. worker' = [worker EXCEPT ![s] = Free] \/ worker' = [worker EXCEPT ![s] = n]
  BY <1>1, ActorTypes
<1>5. boot = {} BY <1>1, AtWorkServing
<1> HIDE DEF w, l
<1>6. n.at = "look" BY <1>2 DEF Worker
<1> HIDE DEF n
<1> QED BY <1>1, <1>3, <1>4, <1>5, <1>6, AtRest, CalmWorker

LEMMA HeartbeatCalm ==
    ASSUME Sound, Booting, NEW s \in Slots, NEW ok \in BOOLEAN, Heartbeat(s, ok)
    PROVE  Calm
<1>1. /\ worker[s].at = "extract"
      /\ UNCHANGED <<messages, nextId, digest, evicted, boot, req>>
      /\ Queue!Renew(Lease(s), ok) \/ UNCHANGED queueVars
      /\ UNCHANGED worker \/ \E o : Conclude(s, "settle", o)
  BY DEF Heartbeat
<1>2. Lease(s).task \in Tasks BY <1>1, WorkerFacts
<1>3. TameRows BY <1>1, <1>2, RenewTame, SameTame DEF queueVars
<1>4. "settle" \in Places \ {"commit", "save"} BY DEF Places
<1> QED BY <1>1, <1>3, <1>4, ConcludeCalm, CalmRows

\* The steps of a worker that neither takes an id nor gets the lock to save.
LEMMA WorkCalm ==
    ASSUME Sound, Booting, NEW s \in Slots,
           \/ Look(s) \/ Settle(s)
           \/ Enter(s) /\ ~(MayCommit(s) /\ NotYetExtracted(s))
           \/ \E result : Extract(s, result) /\ nextId' = nextId
           \/ SaveChild(s, FALSE)
           \/ \E ok \in BOOLEAN : Progress(s, ok) \/ Report(s, ok)
    PROVE  Calm
<1>1. {"extract", "settle", "progress", "report"} \subseteq Places \ {"commit", "save"}
  BY DEF Places
<1>2. CASE Look(s)
  BY <1>1, <1>2, ConcludeCalm, SameTame DEF Look, queueVars
<1>3. CASE Settle(s)
  BY <1>1, <1>3, ConcludeCalm, SameTame DEF Settle, queueVars
<1>4. CASE Enter(s) /\ ~(MayCommit(s) /\ NotYetExtracted(s))
  <2>1. Conclude(s, "settle", "permanent") \/ Move(s, "progress")
    BY <1>4 DEF Enter
  <2> QED BY <1>1, <1>4, <2>1, ConcludeCalm, SameTame DEF Enter, queueVars
<1>5. ASSUME NEW result, Extract(s, result), nextId' = nextId PROVE Calm
  <2>1. \E o : Conclude(s, "settle", o)
    <3>1. nextId' # nextId + 1 BY <1>5 DEF Sound, TypeOK
    <3> QED BY <1>5, <3>1 DEF Extract
  <2> QED BY <1>1, <1>5, <2>1, ConcludeCalm, SameTame DEF Extract, queueVars
<1>6. CASE SaveChild(s, FALSE)
  BY <1>1, <1>6, ConcludeCalm, SameTame DEF SaveChild, queueVars
<1>7. ASSUME NEW ok \in BOOLEAN, Progress(s, ok) PROVE Calm
  <2>1. \E o : Conclude(s, "settle", o) BY <1>7 DEF Progress
  <2> QED BY <1>1, <1>7, <2>1, ConcludeCalm, SameTame DEF Progress, queueVars
<1>8. ASSUME NEW ok \in BOOLEAN, Report(s, ok) PROVE Calm
  <2>1. TameRows BY <1>8, ReportTame
  <2> QED BY <1>1, <1>8, <2>1, ConcludeCalm DEF Report
<1> QED BY <1>2, <1>3, <1>4, <1>5, <1>6, <1>7, <1>8

-----------------------------------------------------------------------------
(* Steps that take an id, stage a row or save a message *)

\* Who takes the next id takes one that is nobody's.
LEMMA TakenId ==
    ASSUME Sound, OwnIds, StagedOwn, Moves,
           UNCHANGED <<messages, tasks, boot>>, boot = {}, nextId' = nextId + 1,
           NEW k \in Carriers, carried' = [carried EXCEPT ![k] = nextId],
           \A h \in Handlers : req'[h] = req[h] \/ k = <<"request", h>>,
           \A h \in Handlers : k = <<"request", h>> => req[h].at = "embed",
           \A s \in Slots : worker'[s].at \in {"commit", "save"} => worker'[s].id # 0
    PROVE  OwnIds' /\ StagedOwn'
<1>1. /\ carried'[k] = nextId
      /\ \A l \in Carriers : l # k => carried'[l] = carried[l]
      /\ \A l \in Carriers : carried[l] \in Nat /\ carried[l] < nextId
      /\ nextId \in Nat \ {0}
  BY CarriedFacts DEF Sound, TypeOK
<1>2. \A x \in messages : x.id \in Nat /\ x.id < nextId
  BY MessageTypes DEF SoundMessage
<1>3. Carriers' = Carriers BY DEF Carriers
<1>4. OwnIds'
  <2>1. \A x \in messages, l \in Carriers : carried'[l] # 0 => carried'[l] # x.id
    BY <1>1, <1>2 DEF OwnIds
  <2>2. \A j, l \in Carriers : carried'[j] # 0 /\ carried'[j] = carried'[l] => j = l
    BY <1>1 DEF OwnIds
  <2>3. \A x, y \in messages' : x.id = y.id => x = y BY DEF OwnIds
  <2>4. \A x \in messages', l \in Carriers' : carried'[l] # 0 => carried'[l] # x.id
    BY <1>3, <2>1
  <2>5. \A j, l \in Carriers' : carried'[j] # 0 /\ carried'[j] = carried'[l] => j = l
    BY <1>3, <2>2
  <2> HIDE DEF carried, Carriers
  <2> QED BY <2>3, <2>4, <2>5 DEF OwnIds
<1>5. ASSUME NEW t \in Tasks, tasks'[t].status = "staging" PROVE StagedForNext(t)
  <2>1. /\ tasks[t].status = "staging" /\ digest'[t] = digest[t]
        /\ digest[t] \in Nat /\ digest[t] < nextId
    BY <1>5, RowFacts DEF Moves, RowMoves, RowMove, StagedOwn
  <2>2. ASSUME NEW l \in Carriers, carried'[l] = digest[t]
        PROVE  \E h \in Handlers :
                  l = <<"request", h>> /\ req'[h].at = "save" /\ req'[h].task = t
    <3>1. l # k /\ carried[l] = digest[t] BY <1>1, <2>1, <2>2
    <3>2. PICK h \in Handlers : l = <<"request", h>> /\ req[h].at = "save" /\ req[h].task = t
      BY <2>1, <3>1 DEF StagedOwn
    <3>3. req'[h] = req[h] BY <3>1, <3>2
    <3> QED BY <3>2, <3>3
  <2>3. digest[t] < nextId' BY <1>1, <2>1
  <2>4. \A x \in messages : x.id = digest[t] => x.source = 0 /\ x.from = t
    BY <2>1 DEF StagedOwn
  <2> QED BY <2>1, <2>2, <2>3, <2>4 DEF StagedForNext
<1> QED BY <1>4, <1>5, StagedMoved

LEMMA EmbedOwned ==
    ASSUME Sound, Owned, Moves, NEW h \in Handlers, Embed(h, TRUE)
    PROVE  Owned'
<1> DEFINE n == [req[h] EXCEPT !.at = "stage", !.id = nextId]
           k == <<"request", h>>
<1>1. /\ req[h].at = "embed" /\ nextId' = nextId + 1
      /\ UNCHANGED <<tasks, digest, memories, messages, evicted, boot, worker>>
      /\ req' = [req EXCEPT ![h] = n]
  BY ActorTypes DEF Embed, queueVars
<1>2. req[h] \in AddRequest BY <1>1, RequestFacts DEF Posting
<1>3. n.at = "stage" /\ n.id = nextId /\ n.kind = "add" BY <1>2 DEF AddRequest
<1> HIDE DEF n
<1>4. boot = {} BY <1>1, AtWorkServing DEF Owned
<1>5. /\ k \in Carriers /\ carried' = [carried EXCEPT ![k] = nextId]
  BY <1>1, <1>3, CarriedFacts, RequestCarries DEF RequestId
<1>6. /\ \A g \in Handlers : req'[g] = req[g] \/ g = h
      /\ req'[h] = n
  BY <1>1, ActorTypes
<1>7. SameSaves /\ SameClears /\ BootMove
  BY <1>1, <1>3, <1>4, <1>6 DEF SameSaves, SameClears, Clearing, BootMove
<1>8. OwnIds' /\ StagedOwn'
  <2>1. \A s \in Slots : worker'[s].at \in {"commit", "save"} => worker'[s].id # 0
    BY <1>1 DEF Owned, OwnIds
  <2>2. /\ \A g \in Handlers : req'[g] = req[g] \/ k = <<"request", g>>
        /\ \A g \in Handlers : k = <<"request", g>> => req[g].at = "embed"
    BY <1>1, <1>6
  <2> HIDE DEF k
  <2> QED BY <1>1, <1>4, <1>5, <2>1, <2>2, TakenId DEF Owned
<1>9. \A t \in Tasks : Open(tasks'[t]) => Open(tasks[t]) BY <1>1
<1>10. Origins' /\ RowsBacked' /\ ActorsBacked' /\ ChildrenBacked'
  BY <1>1, <1>7, <1>9, BackingKept
<1>11. ClearedRows' /\ Booting'
  BY <1>7, <1>9, ClearedRowsKept, BootingKept DEF Owned
<1> QED BY <1>8, <1>10, <1>11 DEF Owned

LEMMA ExtractOwned ==
    ASSUME Sound, Owned, Moves, NEW s \in Slots, NEW result, Extract(s, result),
           nextId' # nextId
    PROVE  Owned'
<1> DEFINE n == [worker[s] EXCEPT !.at = "commit", !.id = nextId]
           k == <<"worker", s>>
<1>1. /\ worker[s].at = "extract" /\ nextId' = nextId + 1
      /\ UNCHANGED <<tasks, digest, memories, messages, evicted, boot, req>>
      /\ worker' = [worker EXCEPT ![s] = n]
  BY ActorTypes DEF Extract, queueVars
<1>2. worker[s] \in Worker BY <1>1, WorkerFacts
<1>3. n.at = "commit" /\ n.id = nextId /\ nextId # 0
  BY <1>2 DEF Worker, Sound, TypeOK
<1> HIDE DEF n
<1>4. boot = {} BY <1>1, AtWorkServing DEF Owned
<1>5. /\ k \in Carriers /\ carried' = [carried EXCEPT ![k] = nextId]
  BY <1>1, <1>3, CarriedFacts, WorkerCarries DEF WorkerId
<1>6. /\ \A u \in Slots : worker'[u] = worker[u] \/ u = s
      /\ worker'[s] = n
  BY <1>1, ActorTypes
<1>7. SameSaves /\ SameClears /\ BootMove
  BY <1>1, <1>3, <1>4, <1>6 DEF SameSaves, SameClears, BootMove
<1>8. OwnIds' /\ StagedOwn'
  <2>1. \A u \in Slots : worker'[u].at \in {"commit", "save"} => worker'[u].id # 0
    BY <1>3, <1>6 DEF Owned, OwnIds
  <2>2. /\ \A g \in Handlers : req'[g] = req[g] \/ k = <<"request", g>>
        /\ \A g \in Handlers : k = <<"request", g>> => req[g].at = "embed"
    BY <1>1
  <2> HIDE DEF k
  <2> QED BY <1>1, <1>4, <1>5, <2>1, <2>2, TakenId DEF Owned
<1>9. \A t \in Tasks : Open(tasks'[t]) => Open(tasks[t]) BY <1>1
<1>10. Origins' /\ RowsBacked' /\ ActorsBacked' /\ ChildrenBacked'
  BY <1>1, <1>7, <1>9, BackingKept
<1>11. ClearedRows' /\ Booting'
  BY <1>7, <1>9, ClearedRowsKept, BootingKept DEF Owned
<1> QED BY <1>8, <1>10, <1>11 DEF Owned

\* A row is staged for the id of its request.
LEMMA StageOwned ==
    ASSUME Sound, Owned, Moves, NEW h \in Handlers, NEW t \in Tasks, Stage(h, t, TRUE)
    PROVE  Owned'
<1> DEFINE n == [req[h] EXCEPT !.at = "save", !.task = t]
           k == <<"request", h>>
           i == req[h].id
<1>1. /\ req[h].at = "stage"
      /\ UNCHANGED <<memories, messages, nextId, evicted, boot, worker>>
      /\ req' = [req EXCEPT ![h] = n]
      /\ digest' = [digest EXCEPT ![t] = i]
  BY ActorTypes DEF Stage
<1>2. req[h] \in AddRequest /\ i # 0 /\ i < nextId /\ i \in Nat
  BY <1>1, RequestFacts, KindFacts DEF Posting, Sound, RequestsSound
<1>3. n.at = "save" /\ n.id = i /\ n.kind = "add" /\ n.task = t BY <1>2 DEF AddRequest
<1> HIDE DEF n
<1>4. boot = {} BY <1>1, AtWorkServing DEF Owned
<1>5. k \in Carriers /\ carried[k] = i /\ carried' = carried
  <2>1. k \in Carriers /\ carried[k] = RequestId(req[h]) /\ carried \in [Carriers -> Nat]
    BY CarriedFacts
  <2>2. carried' = [carried EXCEPT ![k] = RequestId(n)] BY <1>1, RequestCarries
  <2>3. RequestId(req[h]) = i /\ RequestId(n) = i BY <1>1, <1>3 DEF RequestId
  <2> HIDE DEF k, carried, i
  <2> QED BY <2>1, <2>2, <2>3
<1>6. /\ \A g \in Handlers : req'[g] = req[g] \/ g = h
      /\ req'[h] = n
  BY <1>1, ActorTypes
<1>7. SameSaves /\ SameClears /\ BootMove
  BY <1>1, <1>3, <1>4, <1>6 DEF SameSaves, SameClears, Clearing, BootMove
<1>8. /\ tasks'[t].status = "staging"
      /\ \A u \in Tasks : u # t => tasks'[u] = tasks[u]
  <2> DEFINE r == Queue!NewTask(req[h].memory, "staging", 0)
  <2>1. tasks' = [tasks EXCEPT ![t] = r] BY DEF Stage, Queue!StageMemory, Queue!Persist
  <2>2. r.status = "staging" BY DEF Queue!NewTask, Queue!NoRow
  <2> HIDE DEF r
  <2> QED BY <2>1, <2>2, RowFacts
<1>9. OwnIds'
  <2>1. \A s \in Slots : worker'[s].at \in {"commit", "save"} => worker'[s].id # 0
    BY <1>1 DEF Owned, OwnIds
  <2>2. CarriesLess BY <1>5 DEF CarriesLess
  <2> QED BY <1>1, <2>1, <2>2, OwnIdsKept DEF Owned
<1>10. StagedOwn'
  <2>1. digest'[t] = i BY <1>1, RowFacts
  <2>2. StagedForNext(t)
    <3>1. \A x \in messages' : x.id # i BY <1>1, <1>2, <1>5 DEF Owned, OwnIds
    <3>2. \A l \in Carriers : carried'[l] = i => l = k
      BY <1>2, <1>5 DEF Owned, OwnIds
    <3>3. req'[h].at = "save" /\ req'[h].task = t BY <1>3, <1>6
    <3>4. i < nextId' BY <1>1, <1>2
    <3> HIDE DEF i
    <3> QED BY <2>1, <3>1, <3>2, <3>3, <3>4 DEF StagedForNext
  <2>3. ASSUME NEW u \in Tasks, u # t, tasks'[u].status = "staging"
        PROVE  StagedForNext(u)
    <3>1. tasks[u].status = "staging" /\ digest'[u] = digest[u]
      BY <1>1, <1>8, <2>3, RowFacts
    <3>2. /\ \A x \in messages : x.id = digest[u] => x.source = 0 /\ x.from = u
          /\ \A l \in Carriers : carried[l] = digest[u] =>
                \E g \in Handlers :
                    l = <<"request", g>> /\ req[g].at = "save" /\ req[g].task = u
          /\ u \notin boot => digest[u] < nextId
      BY <3>1 DEF Owned, StagedOwn
    <3>3. \A g \in Handlers : req[g].at = "save" => req'[g] = req[g] BY <1>1, <1>6
    <3> HIDE DEF carried
    <3> QED BY <1>1, <1>5, <3>1, <3>2, <3>3 DEF StagedForNext
  <2> QED BY <2>2, <2>3, StagedMoved
<1>11. \A u \in Tasks : Open(tasks'[u]) => Open(tasks[u]) BY <1>8 DEF Open
<1>12. Origins' /\ RowsBacked' /\ ActorsBacked' /\ ChildrenBacked'
  BY <1>1, <1>7, <1>11, BackingKept
<1>13. ClearedRows' /\ Booting'
  BY <1>7, <1>11, ClearedRowsKept, BootingKept DEF Owned
<1> QED BY <1>9, <1>10, <1>12, <1>13 DEF Owned

\* A message is saved with the id of whoever saves it.
LEMMA SavedIds ==
    ASSUME Sound, OwnIds, StagedOwn, Moves, UNCHANGED <<tasks, boot, nextId>>,
           NEW k \in Carriers, carried' = [carried EXCEPT ![k] = 0],
           NEW x, x.id = carried[k], x.id # 0, messages' \subseteq messages \cup {x},
           \A h \in Handlers : k = <<"request", h>> => x.source = 0 /\ x.from = req[h].task,
           \A h \in Handlers : req'[h] = req[h] \/ k = <<"request", h>>,
           \A s \in Slots : worker'[s].at \in {"commit", "save"} => worker'[s].id # 0
    PROVE  OwnIds' /\ StagedOwn'
<1>1. /\ carried'[k] = 0
      /\ \A l \in Carriers : l # k => carried'[l] = carried[l]
  BY CarriedFacts
<1>2. /\ \A y, z \in messages : y.id = z.id => y = z
      /\ \A y \in messages, l \in Carriers : carried[l] # 0 => carried[l] # y.id
      /\ \A j, l \in Carriers : carried[j] # 0 /\ carried[j] = carried[l] => j = l
  BY DEF OwnIds
<1>3. Carriers' = Carriers BY DEF Carriers
<1>4. OwnIds'
  <2>1. \A y \in messages : y.id # x.id BY <1>2
  <2>2. \A y, z \in messages' : y.id = z.id => y = z BY <1>2, <2>1
  <2>3. \A y \in messages', l \in Carriers' : carried'[l] # 0 => carried'[l] # y.id
    <3> SUFFICES ASSUME NEW y \in messages', NEW l \in Carriers, carried'[l] # 0
                 PROVE  carried'[l] # y.id
      BY <1>3
    <3>1. l # k /\ carried'[l] = carried[l] BY <1>1
    <3>2. CASE y \in messages BY <1>2, <3>1, <3>2
    <3>3. CASE y = x BY <1>2, <3>1, <3>3
    <3> QED BY <3>2, <3>3
  <2>4. \A j, l \in Carriers' : carried'[j] # 0 /\ carried'[j] = carried'[l] => j = l
    <3> SUFFICES ASSUME NEW j \in Carriers, NEW l \in Carriers,
                        carried'[j] # 0, carried'[j] = carried'[l]
                 PROVE  j = l
      BY <1>3
    <3>1. carried'[j] = carried[j] /\ carried'[l] = carried[l] BY <1>1
    <3> QED BY <1>2, <3>1
  <2> HIDE DEF carried, Carriers
  <2> QED BY <2>2, <2>3, <2>4 DEF OwnIds
<1>5. ASSUME NEW t \in Tasks, tasks'[t].status = "staging" PROVE StagedForNext(t)
  <2>1. /\ tasks[t].status = "staging" /\ digest'[t] = digest[t] /\ digest[t] # 0
    BY <1>5, RowFacts DEF Moves, RowMoves, RowMove, Kept
  <2>2. /\ \A y \in messages : y.id = digest[t] => y.source = 0 /\ y.from = t
        /\ \A l \in Carriers : carried[l] = digest[t] =>
              \E h \in Handlers :
                  l = <<"request", h>> /\ req[h].at = "save" /\ req[h].task = t
        /\ t \notin boot => digest[t] < nextId
    BY <2>1 DEF StagedOwn
  <2>3. ASSUME NEW l \in Carriers, carried'[l] = digest[t]
        PROVE  \E h \in Handlers :
                  l = <<"request", h>> /\ req'[h].at = "save" /\ req'[h].task = t
    <3>1. l # k /\ carried[l] = digest[t] BY <1>1, <2>1, <2>3
    <3>2. PICK h \in Handlers : l = <<"request", h>> /\ req[h].at = "save" /\ req[h].task = t
      BY <2>2, <3>1
    <3>3. req'[h] = req[h] BY <3>1, <3>2
    <3> QED BY <3>2, <3>3
  <2>4. x.id = digest[t] => x.source = 0 /\ x.from = t BY <2>2
  <2> QED BY <2>1, <2>2, <2>3, <2>4 DEF StagedForNext
<1> QED BY <1>4, <1>5, StagedMoved

\* A message of the row it was staged for is added.
LEMMA OriginsSaved ==
    ASSUME Sound, Origins, digest' = digest, NEW x, messages' \subseteq messages \cup {x},
           x.id # 0, digest[x.from] = IF x.source = 0 THEN x.id ELSE x.source
    PROVE  Origins'
BY DEF Origins

LEMMA SaveRawOwned ==
    ASSUME Sound, Owned, Moves, NEW h \in Handlers, SaveRaw(h, TRUE)
    PROVE  Owned'
<1> DEFINE x == NewRaw(h)
           k == <<"request", h>>
           n == [req[h] EXCEPT !.at = "publish"]
<1>1. /\ req[h].at = "save" /\ Save(x) /\ Go(h, "publish")
      /\ UNCHANGED <<tasks, memories, nextId, digest, boot, worker>>
  BY DEF SaveRaw, NewRaw, queueVars
<1>2. req' = [req EXCEPT ![h] = n] BY <1>1, GoStep
<1>3. req[h] \in AddRequest /\ RequestHolds(req[h]) /\ req[h].id # 0
  BY <1>1, RequestFacts DEF Posting, RequestHolds, Sound, RequestsSound
<1>4. /\ n.at = "publish" /\ n.kind = "add" /\ n.task = req[h].task
      /\ n.memory = req[h].memory
  BY <1>3 DEF AddRequest
<1>5. /\ x.id = req[h].id /\ x.memory = req[h].memory /\ x.source = 0
      /\ x.from = req[h].task
  BY DEF NewRaw
<1> HIDE DEF n, x
<1>6. /\ \A g \in Handlers : req'[g] = req[g] \/ g = h
      /\ req'[h] = n
  BY <1>2, ActorTypes
<1>7. /\ req[h].task \in Tasks /\ Kept(tasks[req[h].task])
      /\ tasks[req[h].task].subject = req[h].memory /\ digest[req[h].task] = req[h].id
  BY <1>1 DEF Sound, RequestsSound
<1>8. messages' \subseteq messages \cup {x} /\ x \in messages'
  BY <1>1 DEF Save, Saved
<1>9. \A t, m : StaysBacked(t, m) BY <1>1, SavedBacked
<1>10. boot = {} BY <1>1, AtWorkServing DEF Owned
<1>11. OwnIds' /\ StagedOwn'
  <2>1. carried' = [carried EXCEPT ![k] = 0]
    BY <1>1, <1>2, <1>4, RequestCarries DEF RequestId
  <2>2. k \in Carriers /\ x.id = carried[k] /\ x.id # 0
    BY <1>1, <1>3, <1>5, CarriedFacts DEF RequestId
  <2>3. /\ \A g \in Handlers : k = <<"request", g>> => x.source = 0 /\ x.from = req[g].task
        /\ \A g \in Handlers : req'[g] = req[g] \/ k = <<"request", g>>
    BY <1>5, <1>6
  <2>4. \A s \in Slots : worker'[s].at \in {"commit", "save"} => worker'[s].id # 0
    BY <1>1 DEF Owned, OwnIds
  <2> HIDE DEF k
  <2> QED BY <1>1, <1>8, <2>1, <2>2, <2>3, <2>4, SavedIds DEF Owned
<1>12. Origins' BY <1>1, <1>3, <1>5, <1>7, <1>8, OriginsSaved DEF Owned
<1>13. RowsBacked'
  <2>1. ASSUME NEW t \in Tasks, Open(tasks'[t]),
               memories'[tasks'[t].subject] \notin {"deleted", "cleared"}
        PROVE  BackedNext(t, tasks'[t].subject)
    BY <1>1, <1>9, <2>1, RowsBackedKept DEF Owned
  <2> QED BY <2>1, RowsBackedMoved
<1>14. ActorsBacked'
  <2>1. ASSUME NEW s \in Slots, worker'[s].at = "save"
        PROVE  Backed(Lease(s).task, Row(s).subject)'
    BY <1>1, <1>9, <2>1, WorkerBackedKept DEF Owned
  <2>2. PublishBackedNext(n)
    <3>1. BackedNext(req[h].task, req[h].memory) BY <1>5, <1>8 DEF BackedNext
    <3>2. tasks[req[h].task].status # "none" BY <1>7 DEF Kept
    <3> QED BY <1>1, <1>4, <1>7, <3>1, <3>2 DEF PublishBackedNext
  <2>3. ASSUME NEW g \in Handlers, req'[g].at = "publish"
        PROVE  PublishBackedNext(req'[g])
    <3>1. CASE g = h BY <1>6, <2>2, <3>1
    <3>2. CASE g # h
      <4>1. req'[g] = req[g] BY <1>6, <3>2
      <4> QED BY <1>9, <2>3, <4>1, RequestBackedKept DEF Owned
    <3> QED BY <3>1, <3>2
  <2> QED BY <2>1, <2>3, ActorsBackedMoved
<1>15. ChildrenBacked'
  <2>1. \A y \in messages' \ messages : y.source = 0 BY <1>5, <1>8
  <2> QED BY <1>9, <2>1, ChildrenBackedKept DEF Owned
<1>16. ClearedRows' /\ Booting'
  <2>1. SameClears BY <1>4, <1>6 DEF SameClears, Clearing
  <2>2. BootMove BY <1>1, <1>10 DEF BootMove
  <2>3. \A t \in Tasks : Open(tasks'[t]) => Open(tasks[t]) BY <1>1
  <2> QED BY <2>1, <2>2, <2>3, ClearedRowsKept, BootingKept DEF Owned
<1> QED BY <1>11, <1>12, <1>13, <1>14, <1>15, <1>16 DEF Owned

LEMMA SaveChildOwned ==
    ASSUME Sound, Owned, Moves, NEW s \in Slots, SaveChild(s, TRUE)
    PROVE  Owned'
<1> DEFINE x == NewChild(s)
           k == <<"worker", s>>
           n == [worker[s] EXCEPT !.at = "progress"]
<1>1. /\ worker[s].at = "save" /\ Save(x) /\ Move(s, "progress")
      /\ UNCHANGED <<tasks, memories, nextId, digest, boot, req>>
  BY DEF SaveChild, NewChild, queueVars
<1>2. worker' = [worker EXCEPT ![s] = n] BY <1>1, ActorTypes DEF Move
<1>3. worker[s] \in Worker /\ worker[s] # Free /\ Lease(s).task \in Tasks
  BY <1>1, WorkerFacts DEF Free
<1>4. n.at = "progress" BY <1>3 DEF Worker
<1>5. /\ x.id = worker[s].id /\ x.memory = Row(s).subject
      /\ x.source = digest[Lease(s).task] /\ x.from = Lease(s).task
  BY DEF NewChild
<1>6. x.source # 0
  BY <1>3, <1>5, RowFacts DEF Sound, WorkersSound, Row, Published, Kept
<1> HIDE DEF n, x
<1>7. /\ \A u \in Slots : worker'[u] = worker[u] \/ u = s
      /\ worker'[s] = n
  BY <1>2, ActorTypes
<1>8. messages' \subseteq messages \cup {x} BY <1>1 DEF Save, Saved
<1>9. \A t, m : StaysBacked(t, m) BY <1>1, SavedBacked
<1>10. boot = {} BY <1>1, AtWorkServing DEF Owned
<1>11. OwnIds' /\ StagedOwn'
  <2>1. carried' = [carried EXCEPT ![k] = 0]
    BY <1>1, <1>2, <1>4, WorkerCarries DEF WorkerId
  <2>2. k \in Carriers /\ x.id = carried[k] /\ x.id # 0
    <3>1. worker[s].id # 0 BY <1>1 DEF Owned, OwnIds
    <3> QED BY <1>1, <1>5, <3>1, CarriedFacts DEF WorkerId
  <2>3. /\ \A g \in Handlers : k # <<"request", g>>
        /\ \A g \in Handlers : req'[g] = req[g]
    BY <1>1
  <2>4. \A u \in Slots : worker'[u].at \in {"commit", "save"} => worker'[u].id # 0
    BY <1>4, <1>7 DEF Owned, OwnIds
  <2> HIDE DEF k
  <2> QED BY <1>1, <1>8, <2>1, <2>2, <2>3, <2>4, SavedIds DEF Owned
<1>12. Origins'
  <2>1. x.id # 0 BY <1>1, <1>5 DEF Owned, OwnIds
  <2> QED BY <1>1, <1>5, <1>6, <1>8, <2>1, OriginsSaved DEF Owned
<1>13. RowsBacked'
  <2>1. ASSUME NEW t \in Tasks, Open(tasks'[t]),
               memories'[tasks'[t].subject] \notin {"deleted", "cleared"}
        PROVE  BackedNext(t, tasks'[t].subject)
    BY <1>1, <1>9, <2>1, RowsBackedKept DEF Owned
  <2> QED BY <2>1, RowsBackedMoved
<1>14. ActorsBacked'
  <2>1. SameSaves BY <1>1, <1>4, <1>7 DEF SameSaves
  <2> QED BY <1>9, <2>1, ActorsBackedKept DEF Owned
<1>15. ChildrenBacked'
  <2>1. BackedNext(x.from, x.memory)
    <3>1. Backed(Lease(s).task, Row(s).subject) BY <1>1 DEF Owned, ActorsBacked
    <3> QED BY <1>5, <1>9, <3>1 DEF StaysBacked
  <2>2. ASSUME NEW y \in messages, y.source # 0 PROVE BackedNext(y.from, y.memory)
    BY <1>9, <2>2 DEF Owned, ChildrenBacked, StaysBacked
  <2>3. \A y \in messages' : y.source # 0 => BackedNext(y.from, y.memory)
    BY <1>8, <2>1, <2>2
  <2> QED BY <2>3 DEF ChildrenBacked, Backed, BackedNext
<1>16. ClearedRows' /\ Booting'
  <2>1. SameClears BY <1>1 DEF SameClears
  <2>2. BootMove BY <1>1, <1>10 DEF BootMove
  <2>3. \A t \in Tasks : Open(tasks'[t]) => Open(tasks[t]) BY <1>1
  <2> QED BY <2>1, <2>2, <2>3, ClearedRowsKept, BootingKept DEF Owned
<1> QED BY <1>11, <1>12, <1>13, <1>14, <1>15, <1>16 DEF Owned

-----------------------------------------------------------------------------
(* Steps that open a row *)

LEMMA PublishOpens ==
    ASSUME Sound, NEW t \in Tasks, Queue!PublishMemory(t, TRUE)
    PROVE  /\ tasks[t].status = "staging" /\ tasks'[t].status = "pending"
           /\ tasks'[t].subject = tasks[t].subject
           /\ \A u \in Tasks : u # t => tasks'[u] = tasks[u]
<1> DEFINE n == [tasks[t] EXCEPT !.status = "pending"]
<1>1. tasks \in [Tasks -> Queue!Row] /\ tasks[t] \in Queue!Row BY RowFacts
<1>2. tasks' = [tasks EXCEPT ![t] = n] /\ tasks[t].status = "staging"
  BY <1>1 DEF Queue!PublishMemory, Queue!Persist
<1>3. n.status = "pending" /\ n.subject = tasks[t].subject BY <1>1 DEF Queue!Row
<1> HIDE DEF n
<1> QED BY <1>1, <1>2, <1>3

\* A row whose dialogue is there is published while nobody clears.
LEMMA PublishedOwned ==
    ASSUME Sound, Owned, Moves, NEW t \in Tasks, Queue!PublishMemory(t, TRUE),
           Backed(t, tasks[t].subject),
           UNCHANGED <<messages, evicted, nextId, digest>>, boot' = boot \ {t},
           BootMove, SameCarriers, SameSaves,
           \A h \in Handlers : ~Clearing(req'[h])
    PROVE  Owned'
<1>1. /\ tasks[t].status = "staging" /\ tasks'[t].status = "pending"
      /\ tasks'[t].subject = tasks[t].subject
      /\ \A u \in Tasks : u # t => tasks'[u] = tasks[u]
  BY PublishOpens
<1>2. \A u, m : StaysBacked(u, m) BY SameBacked
<1>3. OwnIds' /\ StagedOwn'
  <2>1. nextId' >= nextId BY DEF Sound, TypeOK
  <2>2. \A u \in Tasks : tasks'[u].status = "staging" =>
           /\ tasks[u].status = "staging"
           /\ u \in boot' \/ (u \notin boot /\ nextId' >= nextId)
    BY <1>1, <2>1
  <2>3. \A h \in Handlers : req'[h] = req[h] \/ req'[h].at \notin {"stage", "save"}
    BY DEF SameCarriers
  <2> QED BY <2>2, <2>3, CarriersKept, WorkersCarry, IdsKept DEF Owned
<1>4. RowsBacked'
  <2>1. ASSUME NEW u \in Tasks, Open(tasks'[u]),
               memories'[tasks'[u].subject] \notin {"deleted", "cleared"}
        PROVE  BackedNext(u, tasks'[u].subject)
    <3>1. CASE u = t BY <1>1, <1>2, <3>1 DEF StaysBacked
    <3>2. CASE u # t
      <4>1. Open(tasks[u]) BY <1>1, <2>1, <3>2
      <4> QED BY <1>2, <2>1, <4>1, RowsBackedKept DEF Owned
    <3> QED BY <3>1, <3>2
  <2> QED BY <2>1, RowsBackedMoved
<1>5. ActorsBacked' /\ ChildrenBacked' /\ Origins'
  BY <1>2, ActorsBackedKept, ChildrenBackedKept, OriginsKept DEF Owned
<1>6. ClearedRows' /\ Booting' BY NobodyClears, BootingKept DEF Owned
<1> QED BY <1>3, <1>4, <1>5, <1>6 DEF Owned

LEMMA PublishOwned ==
    ASSUME Sound, Owned, Moves, NEW h \in Handlers, NEW ok \in BOOLEAN, Publish(h, ok)
    PROVE  Owned'
<1> DEFINE t == req[h].task
<1>1. /\ req[h].at = "publish" /\ Finish(h)
      /\ UNCHANGED <<memories, messages, nextId, digest, evicted, boot, worker>>
      /\ Queue!PublishMemory(t, ok) \/ UNCHANGED queueVars
  BY DEF Publish
<1>2. CASE UNCHANGED tasks BY <1>2, PublishFails, CalmOwned DEF Owned
<1>3. CASE tasks' # tasks
  <2>1. ok = TRUE /\ Queue!PublishMemory(t, TRUE)
    BY <1>1, <1>3 DEF Queue!PublishMemory, Queue!Persist, queueVars
  <2>2. t \in Tasks /\ Backed(t, req[h].memory)
    BY <1>1 DEF Owned, ActorsBacked
  <2>3. tasks[t].status = "staging" BY <2>1 DEF Queue!PublishMemory
  <2>4. tasks[t].subject = req[h].memory
    BY <1>1, <2>3 DEF Owned, ActorsBacked, Kept
  <2>5. boot = {} BY <1>1, AtWorkServing DEF Owned
  <2>6. /\ req'[h] = Idle /\ \A g \in Handlers : g # h => req'[g] = req[g]
    BY <1>1, ActorTypes DEF Finish
  <2>7. SameCarriers /\ SameSaves /\ BootMove
    BY <1>1, <2>5, <2>6, AtRest DEF SameCarriers, SameSaves, BootMove
  <2>8. ASSUME NEW g \in Handlers PROVE ~Clearing(req'[g])
    <3>1. CASE g = h BY <2>6, <3>1, AtRest
    <3>2. CASE g # h
      <4>1. RequestHolds(req[h]) BY <1>1 DEF RequestHolds
      <4>2. ~RequestHolds(req[g]) BY <3>2, <4>1 DEF Sound, LockSound
      <4> QED BY <2>6, <3>2, <4>2, ClearingHolds
    <3> QED BY <3>1, <3>2
  <2>9. boot' = boot \ {t} BY <1>1, <2>5
  <2> HIDE DEF t
  <2> QED BY <1>1, <2>1, <2>2, <2>4, <2>7, <2>8, <2>9, PublishedOwned
<1> QED BY <1>2, <1>3

\* The message of a staged row that is there is that row's dialogue.  When the
\* row could not be discarded it would be left staged for an id that the
\* process gives out again.
LEMMA ReconcileOwned ==
    ASSUME "reconcile" \notin Faults, Sound, Owned, Moves,
           NEW t \in Tasks, NEW ok \in BOOLEAN, Reconcile(t, ok)
    PROVE  Owned'
<1> DEFINE m == tasks[t].subject
<1>1. /\ ok = TRUE /\ tasks[t].status = "staging" /\ LockFree
      /\ UNCHANGED <<memories, messages, nextId, digest, evicted, worker, req>>
      /\ boot' = boot \ {t}
  BY DEF Reconcile, Staged
<1>2. BootMove /\ SameCarriers /\ SameSaves
  BY <1>1 DEF BootMove, SameCarriers, SameSaves
<1>3. \A h \in Handlers : ~Clearing(req'[h])
  <2>1. \A h \in Handlers : ~RequestHolds(req[h]) BY <1>1, FreeLock
  <2> QED BY <1>1, <2>1, ClearingHolds
<1>4. CASE Raw(m, digest[t]) # {} /\ Live(m)
  <2>1. Queue!PublishMemory(t, TRUE) BY <1>1, <1>4 DEF Reconcile
  <2>2. PICK x \in messages : x.memory = m /\ x.id = digest[t]
    BY <1>4 DEF Raw, Of
  <2>3. x.source = 0 /\ x.from = t BY <1>1, <2>2 DEF Owned, StagedOwn
  <2>4. Backed(t, m) BY <2>2, <2>3 DEF Backed
  <2> HIDE DEF m
  <2> QED BY <1>1, <1>2, <1>3, <2>1, <2>4, PublishedOwned DEF m
<1>5. CASE ~ (Raw(m, digest[t]) # {} /\ Live(m))
  <2>1. Queue!DiscardStaged(t, TRUE) BY <1>1, <1>5 DEF Reconcile
  <2>2. TameRows BY <1>1, <2>1, DiscardTame
  <2>3. tasks'[t].status # "staging"
    <3> DEFINE n == [Queue!NoRow EXCEPT !.status = "removed"]
    <3>1. n.status = "removed" BY DEF Queue!NoRow
    <3>2. tasks' = [tasks EXCEPT ![t] = n]
      BY <2>1 DEF Queue!DiscardStaged, Queue!Persist
    <3> HIDE DEF n
    <3> QED BY <3>1, <3>2, RowFacts
  <2>4. \A u \in Tasks : Open(tasks'[u]) => Open(tasks[u])
    BY <2>2 DEF TameRows, Tame
  <2>5. OwnIds' /\ StagedOwn'
    <3>1. nextId' >= nextId BY <1>1 DEF Sound, TypeOK
    <3>2. \A u \in Tasks : tasks'[u].status = "staging" =>
             /\ tasks[u].status = "staging"
             /\ u \in boot' \/ (u \notin boot /\ nextId' >= nextId)
      <4>1. \A u \in Tasks : tasks'[u].status = "staging" =>
               tasks[u].status = "staging" /\ u # t
        BY <2>2, <2>3 DEF TameRows, Tame
      <4> QED BY <1>1, <3>1, <4>1
    <3>3. \A h \in Handlers : req'[h] = req[h] \/ req'[h].at \notin {"stage", "save"}
      BY <1>1
    <3> QED BY <1>1, <1>2, <3>2, <3>3, CarriersKept, WorkersCarry, IdsKept DEF Owned
  <2>6. Origins' /\ RowsBacked' /\ ActorsBacked' /\ ChildrenBacked'
    BY <1>1, <1>2, <2>4, BackingKept
  <2>7. ClearedRows' /\ Booting' BY <1>2, <1>3, NobodyClears, BootingKept DEF Owned
  <2> QED BY <2>5, <2>6, <2>7 DEF Owned
<1> QED BY <1>4, <1>5

\* A worker that owns its lease on a row of a memory that is there.
LEMMA EnterOwned ==
    ASSUME Sound, Owned, Moves, NEW s \in Slots, Enter(s),
           MayCommit(s), NotYetExtracted(s)
    PROVE  Owned'
<1> DEFINE w == worker[s]
           n == [w EXCEPT !.at = "save"]
           k == <<"worker", s>>
           t == Lease(s).task
<1>1. /\ w.at = "commit" /\ Move(s, "save")
      /\ UNCHANGED <<tasks, memories, messages, nextId, digest, evicted, boot, req>>
  BY DEF Enter, queueVars
<1>2. worker' = [worker EXCEPT ![s] = n] BY <1>1, ActorTypes DEF Move
<1>3. w \in Worker /\ t \in Tasks BY <1>1, WorkerFacts
<1>4. n.at = "save" /\ n.id = w.id /\ n.lease = w.lease BY <1>3 DEF Worker
<1> HIDE DEF n
<1>5. worker'[s] = n /\ \A u \in Slots : u # s => worker'[u] = worker[u]
  BY <1>2, ActorTypes
<1>6. boot = {} BY <1>1, AtWorkServing DEF Owned
<1>7. carried' = carried
  <2>1. carried' = [carried EXCEPT ![k] = WorkerId(n)] BY <1>1, <1>2, WorkerCarries
  <2>2. carried[k] = WorkerId(w) /\ carried \in [Carriers -> Nat] BY CarriedFacts
  <2>3. WorkerId(n) = WorkerId(w) BY <1>1, <1>4 DEF WorkerId
  <2> HIDE DEF k, carried, w
  <2> QED BY <2>1, <2>2, <2>3
<1>8. \A u, m : StaysBacked(u, m) BY <1>1, SameBacked
<1>9. OwnIds' /\ StagedOwn'
  <2>1. CarriesLess BY <1>7 DEF CarriesLess
  <2>2. \A u \in Slots : worker'[u].at \in {"commit", "save"} => worker'[u].id # 0
    BY <1>1, <1>4, <1>5 DEF Owned, OwnIds
  <2>3. nextId' >= nextId BY <1>1 DEF Sound, TypeOK
  <2>4. \A u \in Tasks : tasks'[u].status = "staging" =>
           /\ tasks[u].status = "staging"
           /\ u \in boot' \/ (u \notin boot /\ nextId' >= nextId)
    BY <1>1, <1>6, <2>3
  <2> QED BY <1>1, <2>1, <2>2, <2>4, IdsKept DEF Owned
<1>10. RowsBacked'
  <2>1. ASSUME NEW u \in Tasks, Open(tasks'[u]),
               memories'[tasks'[u].subject] \notin {"deleted", "cleared"}
        PROVE  BackedNext(u, tasks'[u].subject)
    BY <1>1, <1>8, <2>1, RowsBackedKept DEF Owned
  <2> QED BY <2>1, RowsBackedMoved
<1>11. ActorsBacked'
  <2>1. Backed(t, Row(s).subject)
    <3>1. Open(tasks[t]) /\ memories[tasks[t].subject] = "live"
      BY DEF MayCommit, Queue!Owns, Queue!Holds, Row, Open, Live
    <3> QED BY <1>3, <3>1 DEF Owned, RowsBacked, Row
  <2>2. ASSUME NEW u \in Slots, worker'[u].at = "save"
        PROVE  Backed(Lease(u).task, Row(u).subject)'
    <3>1. CASE u = s
      <4>1. Lease(s)' = Lease(s) BY <1>4, <1>5 DEF Lease
      <4>2. Row(s)' = Row(s) BY <1>1, <4>1 DEF Row
      <4> HIDE DEF Row, Lease
      <4> QED BY <1>1, <2>1, <3>1, <4>1, <4>2 DEF Backed
    <3>2. CASE u # s
      <4>1. worker'[u] = worker[u] /\ worker[u].at = "save" BY <1>5, <2>2, <3>2
      <4> QED BY <1>8, <4>1, WorkerBackedKept DEF Owned
    <3> QED BY <3>1, <3>2
  <2>3. ASSUME NEW h \in Handlers, req'[h].at = "publish"
        PROVE  PublishBackedNext(req'[h])
    BY <1>1, <1>8, <2>3, RequestBackedKept DEF Owned
  <2> QED BY <2>2, <2>3, ActorsBackedMoved
<1>12. ChildrenBacked' /\ Origins'
  BY <1>1, <1>8, ChildrenBackedKept, OriginsKept DEF Owned
<1>13. ClearedRows' /\ Booting'
  <2>1. SameClears /\ BootMove BY <1>1, <1>6 DEF SameClears, BootMove
  <2>2. \A u \in Tasks : Open(tasks'[u]) => Open(tasks[u]) BY <1>1
  <2> QED BY <2>1, <2>2, ClearedRowsKept, BootingKept DEF Owned
<1> QED BY <1>9, <1>10, <1>11, <1>12, <1>13 DEF Owned

-----------------------------------------------------------------------------
(* Steps that clear *)

\* Whoever holds the lock empties a memory none of whose rows counts any more.
LEMMA EmptiedOwned ==
    ASSUME Sound, Owned, Moves, NEW h \in Handlers, RequestHolds(req[h]),
           NEW n, req' = [req EXCEPT ![h] = n],
           n.at \notin {"stage", "save", "publish"}, ~Clearing(n),
           NEW m, messages' = messages \ Of(m),
           UNCHANGED <<tasks, digest, nextId, evicted, boot, worker>>, boot = {},
           \A t \in Tasks : tasks[t].subject = m /\ Open(tasks[t]) =>
               memories'[m] \in {"deleted", "cleared"}
    PROVE  Owned'
<1>1. req'[h] = n /\ \A g \in Handlers : g # h => req'[g] = req[g] BY ActorTypes
<1>2. /\ \A g \in Handlers : g # h => ~RequestHolds(req[g])
      /\ \A s \in Slots : ~SlotHolds(worker[s])
  BY DEF Sound, LockSound
<1>3. SameCarriers /\ SameSaves /\ SameClears /\ BootMove
  BY <1>1 DEF SameCarriers, SameSaves, SameClears, BootMove
<1>4. messages' \subseteq messages OBVIOUS
<1>5. ASSUME NEW t, NEW k, k # m PROVE StaysBacked(t, k)
  <2> SUFFICES ASSUME Backed(t, k) PROVE BackedNext(t, k)
    BY DEF StaysBacked
  <2>1. CASE t \in evicted BY <2>1 DEF BackedNext
  <2>2. CASE t \notin evicted
    <3>1. PICK x \in messages : x.source = 0 /\ x.from = t /\ x.memory = k
      BY <2>2 DEF Backed
    <3>2. x \in messages' BY <1>5, <3>1 DEF Of
    <3> QED BY <3>1, <3>2 DEF BackedNext
  <2> QED BY <2>1, <2>2
<1>6. OwnIds' /\ StagedOwn'
  <2>1. nextId' >= nextId BY DEF Sound, TypeOK
  <2>2. \A t \in Tasks : tasks'[t].status = "staging" =>
           /\ tasks[t].status = "staging"
           /\ t \in boot' \/ (t \notin boot /\ nextId' >= nextId)
    BY <2>1
  <2>3. \A g \in Handlers : req'[g] = req[g] \/ req'[g].at \notin {"stage", "save"}
    BY <1>3 DEF SameCarriers
  <2> QED BY <1>3, <1>4, <2>2, <2>3, CarriersKept, WorkersCarry, IdsKept DEF Owned
<1>7. RowsBacked'
  <2>1. ASSUME NEW t \in Tasks, Open(tasks'[t]),
               memories'[tasks'[t].subject] \notin {"deleted", "cleared"}
        PROVE  BackedNext(t, tasks'[t].subject)
    <3>1. tasks[t].subject # m /\ Open(tasks[t]) BY <2>1
    <3>2. StaysBacked(t, tasks[t].subject) BY <1>5, <3>1
    <3> QED BY <2>1, <3>1, <3>2, RowsBackedKept DEF Owned
  <2> QED BY <2>1, RowsBackedMoved
<1>8. ActorsBacked'
  <2>1. \A s \in Slots : worker'[s].at # "save" BY <1>2 DEF SlotHolds
  <2>2. \A g \in Handlers : req'[g].at # "publish" BY <1>1, <1>2 DEF RequestHolds
  <2> QED BY <2>1, <2>2, ActorsBackedMoved
<1>9. ChildrenBacked'
  <2>1. ASSUME NEW x \in messages', x.source # 0 PROVE BackedNext(x.from, x.memory)
    <3>1. x \in messages /\ x.memory # m BY DEF Of
    <3>2. StaysBacked(x.from, x.memory) BY <1>5, <3>1
    <3> QED BY <2>1, <3>1, <3>2 DEF Owned, ChildrenBacked, StaysBacked
  <2> QED BY <2>1 DEF ChildrenBacked, Backed, BackedNext
<1>10. Origins' BY <1>4, OriginsKept DEF Owned
<1>11. ClearedRows' /\ Booting'
  <2>1. \A t \in Tasks : Open(tasks'[t]) => Open(tasks[t]) OBVIOUS
  <2> QED BY <1>3, <2>1, ClearedRowsKept, BootingKept DEF Owned
<1> QED BY <1>6, <1>7, <1>8, <1>9, <1>10, <1>11 DEF Owned

LEMMA DeleteMessagesOwned ==
    ASSUME Sound, Owned, Moves, NEW h \in Handlers, DeleteMessages(h, TRUE)
    PROVE  Owned'
<1> DEFINE m == req[h].memory
<1>1. /\ req[h].at = "messages" /\ req' = [req EXCEPT ![h] = Idle]
      /\ messages' = messages \ Of(m)
      /\ memories' = [memories EXCEPT ![m] = "cleared"]
      /\ UNCHANGED <<tasks, nextId, digest, evicted, boot, worker>>
      /\ req[h].kind = "delete"
  BY DEF DeleteMessages, Finish, queueVars
<1>2. m \in Memories BY <1>1, RequestFacts, KindFacts
<1>3. memories'[m] = "cleared" BY <1>1, <1>2 DEF Sound, TypeOK
<1>4. RequestHolds(req[h]) /\ boot = {}
  BY <1>1, AtWorkServing DEF RequestHolds, Owned
<1>5. Idle.at \notin {"stage", "save", "publish"} /\ ~Clearing(Idle) BY AtRest
<1> HIDE DEF m
<1> QED BY <1>1, <1>3, <1>4, <1>5, EmptiedOwned

LEMMA ClearMessagesOwned ==
    ASSUME Sound, Owned, Moves, NEW h \in Handlers, ClearMessages(h, TRUE)
    PROVE  Owned'
<1> DEFINE m == req[h].memory
           a == IF req[h].left = {} THEN "rows" ELSE "cancel"
           n == [req[h] EXCEPT !.at = a]
<1>1. /\ req[h].at = "messages" /\ req[h].kind = "clear" /\ Go(h, a)
      /\ messages' = messages \ Of(m)
      /\ UNCHANGED <<tasks, nextId, digest, evicted, boot, worker>>
  BY DEF ClearMessages, queueVars
<1>2. req' = [req EXCEPT ![h] = n] BY <1>1, GoStep
<1>3. req[h] \in ClearRequest BY <1>1, RequestFacts
<1>4. n.at = a BY <1>3 DEF ClearRequest
<1>5. n.at \in {"rows", "cancel"} BY <1>4
<1> HIDE DEF n
<1>6. n.at \notin {"stage", "save", "publish"} /\ ~Clearing(n) BY <1>5 DEF Clearing
<1>7. RequestHolds(req[h]) /\ boot = {}
  BY <1>1, AtWorkServing DEF RequestHolds, Owned
<1>8. \A t \in Tasks : tasks[t].subject = m => ~Open(tasks[t])
  BY <1>1 DEF Owned, ClearedRows, Clearing
<1> HIDE DEF m, a
<1> QED BY <1>1, <1>2, <1>6, <1>7, <1>8, EmptiedOwned

\* The rows of the memory that is cleared next are cancelled.
LEMMA ClearCancelOwned ==
    ASSUME Sound, Owned, Moves, NEW h \in Handlers, NEW m \in Memories,
           ClearCancel(h, m, TRUE)
    PROVE  Owned'
<1> DEFINE left == req[h].left \ {m}
           n == [req[h] EXCEPT !.at = "messages", !.memory = m, !.left = left]
<1>1. /\ ClearAt(h, "cancel") /\ req[h].kind = "clear" /\ CancelRows(m, TRUE)
      /\ UNCHANGED <<memories, messages, nextId, digest, evicted, boot, worker>>
      /\ req' = [req EXCEPT ![h] = n]
  BY ActorTypes DEF ClearCancel
<1>2. req[h] \in ClearRequest /\ (RequestHolds(req[h]) \/ LockFree)
  BY <1>1, RequestFacts DEF RequestHolds, ClearAt
<1>3. n.at = "messages" /\ n.memory = m BY <1>2 DEF ClearRequest
<1> HIDE DEF n, left
<1>4. req'[h] = n /\ \A g \in Handlers : g # h => req'[g] = req[g]
  BY <1>1, ActorTypes
<1>5. /\ TameRows
      /\ \A t \in Tasks : tasks'[t].subject = m => ~Open(tasks'[t])
  BY <1>1, CancelTame
<1>6. boot = {} BY <1>1, AtWorkServing DEF ClearAt, Owned
<1>7. SameCarriers /\ SameSaves /\ BootMove
  BY <1>1, <1>3, <1>4, <1>6 DEF SameCarriers, SameSaves, BootMove
<1>8. OwnIds' /\ StagedOwn'
  <2>1. nextId' >= nextId BY <1>1 DEF Sound, TypeOK
  <2>2. \A t \in Tasks : tasks'[t].status = "staging" =>
           /\ tasks[t].status = "staging"
           /\ t \in boot' \/ (t \notin boot /\ nextId' >= nextId)
    BY <1>5, <1>6, <2>1 DEF TameRows, Tame
  <2>3. \A g \in Handlers : req'[g] = req[g] \/ req'[g].at \notin {"stage", "save"}
    BY <1>7 DEF SameCarriers
  <2> QED BY <1>1, <1>7, <2>2, <2>3, CarriersKept, WorkersCarry, IdsKept DEF Owned
<1>9. \A t \in Tasks : Open(tasks'[t]) => Open(tasks[t]) BY <1>5 DEF TameRows, Tame
<1>10. Origins' /\ RowsBacked' /\ ActorsBacked' /\ ChildrenBacked'
  BY <1>1, <1>7, <1>9, BackingKept
<1>11. ClearedRows'
  <2>1. ASSUME NEW g \in Handlers, NEW t \in Tasks, Clearing(req'[g]),
               tasks'[t].subject = req'[g].memory
        PROVE  ~Open(tasks'[t])
    <3>1. g = h
      <4>1. CASE g # h
        <5>1. RequestHolds(req[g]) BY <1>4, <2>1, <4>1, ClearingHolds
        <5> QED BY <1>2, <4>1, <5>1, FreeLock DEF Sound, LockSound
      <4> QED BY <4>1
    <3> QED BY <1>3, <1>4, <1>5, <2>1, <3>1
  <2> QED BY <2>1 DEF ClearedRows, Clearing, Open
<1>12. Booting' BY <1>7, BootingKept DEF Owned
<1> QED BY <1>8, <1>10, <1>11, <1>12 DEF Owned

\* After a restart the staged rows are reconciled before an id is given out.
LEMMA RestartOwned == ASSUME Sound, Owned, Moves, Restart PROVE Owned'
<1>1. /\ Queue!Restart
      /\ boot' = {t \in Tasks : tasks'[t].status = "staging"}
      /\ worker' = [s \in Slots |-> Free] /\ req' = [h \in Handlers |-> Idle]
      /\ UNCHANGED <<memories, messages, digest, evicted>>
  BY DEF Restart
<1>2. /\ \A s \in Slots : worker'[s] = Free
      /\ \A h \in Handlers : req'[h] = Idle
  BY <1>1
<1>3. SameCarriers /\ SameSaves BY <1>2, AtRest DEF SameCarriers, SameSaves
<1>4. TameRows BY <1>1, RestartTame
<1>5. OwnIds' /\ StagedOwn'
  <2>1. \A t \in Tasks : tasks'[t].status = "staging" =>
           tasks[t].status = "staging" /\ t \in boot'
    BY <1>1, <1>4 DEF TameRows, Tame
  <2>2. \A h \in Handlers : req'[h] = req[h] \/ req'[h].at \notin {"stage", "save"}
    BY <1>3 DEF SameCarriers
  <2> QED BY <1>1, <1>3, <2>1, <2>2, CarriersKept, WorkersCarry, IdsKept DEF Owned
<1>6. \A t \in Tasks : Open(tasks'[t]) => Open(tasks[t]) BY <1>4 DEF TameRows, Tame
<1>7. Origins' /\ RowsBacked' /\ ActorsBacked' /\ ChildrenBacked'
  BY <1>1, <1>3, <1>6, BackingKept
<1>8. ClearedRows'
  <2>1. \A h \in Handlers : ~Clearing(req'[h]) BY <1>2, AtRest
  <2> QED BY <2>1, NobodyClears
<1>9. Booting' BY <1>2 DEF Booting
<1> QED BY <1>5, <1>7, <1>8, <1>9 DEF Owned

\* Memories are created, rows cancelled and time goes by.
LEMMA AsideCalm ==
    ASSUME Sound,
           \/ \E m \in Memories : CreateMemory(m)
           \/ \E t \in Tasks, ok \in BOOLEAN : CancelTask(t, ok)
           \/ Tick
    PROVE  Calm
<1>1. ASSUME NEW m \in Memories, CreateMemory(m) PROVE Calm
  BY <1>1, SameTame, CalmRows DEF CreateMemory, queueVars
<1>2. ASSUME NEW t \in Tasks, NEW ok \in BOOLEAN, CancelTask(t, ok) PROVE Calm
  <2>1. TameRows BY <1>2, RequestCancelTame DEF CancelTask
  <2> QED BY <1>2, <2>1, CalmRows DEF CancelTask
<1>3. CASE Tick
  <2>1. TameRows BY <1>3, TickTame DEF Tick
  <2> QED BY <1>3, <2>1, CalmRows DEF Tick
<1> QED BY <1>1, <1>2, <1>3

-----------------------------------------------------------------------------
(* Children hang below their own dialogue *)

LEMMA InitOwned == Init => Owned
<1> SUFFICES ASSUME Init PROVE Owned
  OBVIOUS
<1>1. /\ tasks = [t \in Tasks |-> Queue!NoRow]
      /\ messages = {} /\ boot = {}
      /\ worker = [s \in Slots |-> Free] /\ req = [h \in Handlers |-> Idle]
  BY DEF Init, Queue!Init
<1>2. Queue!NoRow.status = "none" BY DEF Queue!NoRow
<1>3. /\ \A t \in Tasks : tasks[t].status = "none"
      /\ \A s \in Slots : worker[s].at = "free"
      /\ \A h \in Handlers : req[h].at = "idle"
  BY <1>1, <1>2, AtRest
<1>4. \A k \in Carriers : carried[k] = 0
  BY <1>3 DEF carried, Carriers, RequestId, WorkerId
<1>5. Booting /\ Origins /\ ChildrenBacked
  BY <1>1 DEF Booting, Origins, ChildrenBacked
<1>6. OwnIds BY <1>1, <1>3, <1>4 DEF OwnIds
<1>7. StagedOwn /\ RowsBacked /\ ActorsBacked /\ ClearedRows
  BY <1>3 DEF StagedOwn, RowsBacked, Open, ActorsBacked, ClearedRows, Clearing
<1> QED BY <1>5, <1>6, <1>7 DEF Owned

LEMMA NextOwned ==
    ASSUME "reconcile" \notin Faults, Sound, Owned, Next PROVE Owned'
<1>0. Moves /\ Booting BY NextMoves DEF Owned
<1>1. ASSUME NEW h \in Handlers, Serve(h) PROVE Owned'
  <2>1. CASE StartClear(h) \/ \E m \in Memories : StartAdd(h, m) \/ StartDelete(h, m)
    BY <1>0, <2>1, StartsCalm, CalmOwned
  <2>2. ASSUME NEW ok \in BOOLEAN, Embed(h, ok) \/ SaveRaw(h, ok) PROVE Owned'
    BY <1>0, <2>2, EmbedFails, SaveRawFails, CalmOwned, EmbedOwned, SaveRawOwned
  <2>3. ASSUME NEW ok \in BOOLEAN, Discard(h, ok) \/ Publish(h, ok) PROVE Owned'
    BY <1>0, <2>3, DiscardCalm, CalmOwned, PublishOwned
  <2>4. ASSUME NEW ok \in BOOLEAN,
               DeleteCancel(h, ok) \/ DeleteRow(h, ok) \/ ClearRows(h, ok)
        PROVE  Owned'
    BY <1>0, <2>4, DeleteCancelCalm, DeleteRowCalm, ClearRowsCalm, CalmOwned
  <2>5. ASSUME NEW ok \in BOOLEAN, DeleteMessages(h, ok) \/ ClearMessages(h, ok)
        PROVE  Owned'
    BY <1>0, <2>5, DeleteMessagesFails, ClearMessagesFails, CalmOwned,
       DeleteMessagesOwned, ClearMessagesOwned
  <2>6. ASSUME NEW ok \in BOOLEAN, NEW t \in Tasks, Stage(h, t, ok) PROVE Owned'
    BY <1>0, <2>6, StageFails, CalmOwned, StageOwned
  <2>7. ASSUME NEW ok \in BOOLEAN, NEW m \in Memories, ClearCancel(h, m, ok)
        PROVE  Owned'
    BY <1>0, <2>7, ClearCancelFails, CalmOwned, ClearCancelOwned
  <2> QED BY <1>1, <2>1, <2>2, <2>3, <2>4, <2>5, <2>6, <2>7 DEF Serve
<1>2. CASE \/ \E m \in Memories : CreateMemory(m)
           \/ \E t \in Tasks, ok \in BOOLEAN : CancelTask(t, ok)
           \/ Tick
  BY <1>0, <1>2, AsideCalm, CalmOwned
<1>3. ASSUME NEW t \in Tasks, NEW ok \in BOOLEAN, Reconcile(t, ok) PROVE Owned'
  BY <1>0, <1>3, ReconcileOwned
<1>4. ASSUME NEW s \in Slots, NEW t \in Tasks, Dispatch(s, t) PROVE Owned'
  BY <1>0, <1>4, DispatchCalm, CalmOwned
<1>5. ASSUME NEW s \in Slots, Work(s) PROVE Owned'
  <2>1. CASE Look(s) \/ Settle(s) BY <1>0, <2>1, WorkCalm, CalmOwned
  <2>2. CASE Enter(s) BY <1>0, <2>2, WorkCalm, CalmOwned, EnterOwned
  <2>3. ASSUME NEW result \in {"found", "ok", "retryable", "permanent"},
               Extract(s, result)
        PROVE  Owned'
    BY <1>0, <2>3, WorkCalm, CalmOwned, ExtractOwned
  <2>4. ASSUME NEW ok \in BOOLEAN, Claim(s, ok) \/ SaveChild(s, ok) PROVE Owned'
    BY <1>0, <2>4, ClaimCalm, WorkCalm, CalmOwned, SaveChildOwned
  <2>5. ASSUME NEW ok \in BOOLEAN, Progress(s, ok) \/ Report(s, ok) PROVE Owned'
    BY <1>0, <2>5, WorkCalm, CalmOwned
  <2> QED BY <1>5, <2>1, <2>2, <2>3, <2>4, <2>5 DEF Work
<1>6. ASSUME NEW s \in Slots, NEW ok \in BOOLEAN, Heartbeat(s, ok) PROVE Owned'
  BY <1>0, <1>6, HeartbeatCalm, CalmOwned
<1>7. CASE Restart BY <1>0, <1>7, RestartOwned
<1> QED BY <1>1, <1>2, <1>3, <1>4, <1>5, <1>6, <1>7 DEF Next

LEMMA StutterOwned == ASSUME Sound, Owned, UNCHANGED vars PROVE Owned'
<1>1. UNCHANGED <<tasks, digest, messages, evicted, nextId, boot, worker, req>>
  BY DEF vars, queueVars
<1>2. Calm BY <1>1, SameTame, CalmRows
<1> QED BY <1>2, Stutters, CalmOwned

\* The ids that are there are each of one dialogue, given out or not, and a
\* child is of the dialogue whose id it was saved under.
LEMMA OwnedExtracts == ASSUME Sound, Owned PROVE ExtractsOwnDialogue
<1> SUFFICES ASSUME NEW x \in messages, NEW y \in messages, x.source = 0,
                    y.source = x.id, y.memory = x.memory, y.from \notin evicted
             PROVE  y.from = x.from
  BY DEF ExtractsOwnDialogue
<1>1. x.id # 0 BY DEF Owned, Origins
<1>2. digest[y.from] = x.id BY <1>1 DEF Owned, Origins
<1>3. PICK z \in messages : z.source = 0 /\ z.from = y.from
  BY <1>1 DEF Owned, ChildrenBacked, Backed
<1>4. z.id = x.id BY <1>2, <1>3 DEF Owned, Origins
<1>5. z = x BY <1>4 DEF Owned, OwnIds
<1> QED BY <1>3, <1>5

\* add_memory_message takes the id under which process_memory_task saves what it
\* finds, and next_message_id starts over below ids that were given out: still,
\* where the writes of reconciliations do not fail, children hang below the
\* message of their own dialogue unless it was evicted before.
THEOREM ChildrenOfTheirDialogue ==
    ASSUME "reconcile" \notin Faults PROVE Spec => []ExtractsOwnDialogue
<1>1. Init => Sound /\ Owned BY InitSound, InitOwned
<1>2. Sound /\ Owned /\ [Next]_vars => (Sound /\ Owned)'
  BY SoundInductive, NextOwned, StutterOwned
<1>3. Sound /\ Owned => ExtractsOwnDialogue BY OwnedExtracts
<1> QED BY <1>1, <1>2, <1>3, PTL DEF Spec

=============================================================================
