--------------------------- MODULE TaskQueueProofs ---------------------------
(***************************************************************************)
(* Safety of the task queue for every set of rows, documents and memories, *)
(* every retry limit and lease length.                                     *)
(*                                                                         *)
(* The inductive invariant is QueueInv.  Its per-row part RowInv ties the  *)
(* retry counter to the number of leases granted (so the bound survives    *)
(* failed writes and restarts) and says that staged rows are of memories;  *)
(* FileCurrent carries all of it over a restart; LeasesInv says that a     *)
(* token names one lease, because each is newer than all before.           *)
(***************************************************************************)
EXTENDS TaskQueue, TLAPS

USE SubjectsDisjoint, MaxRetriesAssumption, LeaseTicksAssumption

Live(row) == row.status \in {"pending", "running"}

\* What is true of a single row that was granted n leases.
RowOK(row, n) ==
    /\ row.retry = n
    /\ n <= MaxRetries
    /\ row.status \in {"none", "staging", "removed"} => n = 0
    /\ row.status = "staging" => row.subject \in Memories
    /\ row.status = "pending" => n < MaxRetries
    /\ row.status # "running" => row.token = NoToken /\ row.ttl = 0
    /\ row.cancel => row.status \in {"cancelled", "failed"}

RowInv == \A t \in Tasks : RowOK(tasks[t], granted[t])

LeasesInv ==
    /\ \A l \in leases : l.token <= issued
    /\ \A k, l \in leases : k.token = l.token => k = l

QueueInv ==
    TypeOK /\ RowInv /\ FileCurrent /\ LeasesInv /\ OneLiveRowPerDocument

LEMMA InitInv == Init => QueueInv
BY DEF Init, QueueInv, TypeOK, RowInv, RowOK, FileCurrent, LeasesInv,
       OneLiveRowPerDocument, NoRow, Row, Status, NoToken, Subjects

-----------------------------------------------------------------------------
(* The rows the operations make *)

LEMMA NewTaskRow ==
    ASSUME NEW s \in Subjects, NEW status \in Status, NEW p \in {0, 1}
    PROVE  LET r == NewTask(s, status, p)
           IN  /\ r \in Row
               /\ r.status = status /\ r.subject = s /\ r.retry = 0
               /\ ~r.cancel /\ r.token = NoToken /\ r.ttl = 0
BY DEF NewTask, NoRow, Row, Status, NoToken, Subjects

LEMMA UnleasedRow ==
    ASSUME NEW row \in Row, NEW status \in Status
    PROVE  LET r == Unleased(row, status)
           IN  /\ r \in Row
               /\ r.status = status /\ r.subject = row.subject
               /\ r.retry = row.retry /\ r.cancel = row.cancel
               /\ r.token = NoToken /\ r.ttl = 0
BY DEF Unleased, Row, NoToken

LEMMA CancelledRow ==
    ASSUME NEW row \in Row, NEW n \in Nat, RowOK(row, n)
    PROVE  LET r == Cancelled(row)
           IN  /\ r \in Row
               /\ r.subject = row.subject
               /\ RowOK(r, n)
               /\ ~Live(r)
<1>1. CASE row.status \in Terminal \cup {"none", "removed"}
  BY <1>1 DEF Cancelled, Terminal, Live
<1>2. CASE row.status \notin Terminal \cup {"none", "removed"}
  <2>1. "cancelled" \in Status BY DEF Status
  <2> DEFINE u == Unleased(row, "cancelled")
  <2>2. /\ u \in Row
        /\ u.status = "cancelled" /\ u.subject = row.subject
        /\ u.retry = row.retry /\ u.token = NoToken /\ u.ttl = 0
    BY <2>1, UnleasedRow
  <2>3. Cancelled(row) = [u EXCEPT !.cancel = TRUE]
    BY <1>2 DEF Cancelled
  <2> HIDE DEF u
  <2> QED BY <2>2, <2>3 DEF RowOK, Live, Row
<1> QED BY <1>1, <1>2

LEMMA RecoveredRow ==
    ASSUME NEW row \in Row, NEW n \in Nat, RowOK(row, n)
    PROVE  LET r == Recovered(row)
           IN  /\ r \in Row
               /\ r.subject = row.subject
               /\ RowOK(r, n)
               /\ Live(r) => Live(row)
<1>1. {"failed", "pending"} \subseteq Status BY DEF Status
<1>2. CASE row.status = "running" /\ Expired(row)
  <2> DEFINE s == IF row.retry >= MaxRetries THEN "failed" ELSE "pending"
  <2>1. s \in Status BY <1>1
  <2>2. Recovered(row) = Unleased(row, s) BY <1>2 DEF Recovered
  <2>3. (s = "pending" => row.retry < MaxRetries) /\ s \in {"failed", "pending"}
    BY DEF RowOK
  <2> HIDE DEF s
  <2> QED BY <1>2, <2>1, <2>2, <2>3, UnleasedRow DEF RowOK, Live
<1>3. CASE ~(row.status = "running" /\ Expired(row))
  <2>1. ~(row.status = "pending" /\ row.retry >= MaxRetries)
    BY DEF RowOK
  <2>2. Recovered(row) = row BY <1>3, <2>1 DEF Recovered
  <2> QED BY <2>2
<1> QED BY <1>2, <1>3

-----------------------------------------------------------------------------
(* Rewriting the rows *)

\* An operation that writes well-formed rows and makes no further row of a
\* document live preserves the row part of the invariant, whether or not the
\* write succeeds.
LEMMA Rewrite ==
    ASSUME QueueInv, NEW new \in [Tasks -> Row], NEW ok \in BOOLEAN,
           Persist(new, ok), granted' \in [Tasks -> Nat],
           ok \/ granted' = granted,
           ok => \A t \in Tasks : RowOK(new[t], granted'[t]),
           ok => \A t \in Tasks : Live(new[t]) /\ new[t].subject \in Docs =>
                    Live(tasks[t]) /\ new[t].subject = tasks[t].subject
    PROVE  /\ tasks' \in [Tasks -> Row] /\ disk' \in [Tasks -> Row]
           /\ RowInv' /\ FileCurrent' /\ OneLiveRowPerDocument'
<1>1. CASE ok = TRUE
  <2>1. tasks' = new /\ disk' = new BY <1>1 DEF Persist
  <2>2. RowInv' BY <1>1, <2>1 DEF RowInv
  <2>3. FileCurrent' BY <2>1 DEF FileCurrent
  <2>4. OneLiveRowPerDocument'
    BY <1>1, <2>1 DEF OneLiveRowPerDocument, QueueInv, Live
  <2> QED BY <2>1, <2>2, <2>3, <2>4
<1>2. CASE ok = FALSE
  <2>1. UNCHANGED <<tasks, disk, granted>> BY <1>2 DEF Persist
  <2> QED
    BY <2>1 DEF QueueInv, TypeOK, RowInv, FileCurrent, OneLiveRowPerDocument
<1> QED BY <1>1, <1>2

\* The same for an operation that rewrites one row.
LEMMA RewriteRow ==
    ASSUME QueueInv, NEW t \in Tasks, NEW r \in Row, NEW ok \in BOOLEAN,
           Persist([tasks EXCEPT ![t] = r], ok), granted' = granted,
           RowOK(r, granted[t]),
           Live(r) /\ r.subject \in Docs =>
              Live(tasks[t]) /\ r.subject = tasks[t].subject
    PROVE  /\ tasks' \in [Tasks -> Row] /\ disk' \in [Tasks -> Row]
           /\ RowInv' /\ FileCurrent' /\ OneLiveRowPerDocument'
<1> DEFINE new == [tasks EXCEPT ![t] = r]
<1>1. tasks \in [Tasks -> Row] /\ granted \in [Tasks -> Nat]
  BY DEF QueueInv, TypeOK
<1>2. new \in [Tasks -> Row] BY <1>1
<1>3. \A u \in Tasks : RowOK(new[u], granted[u])
  BY <1>1 DEF QueueInv, RowInv
<1>4. \A u \in Tasks : Live(new[u]) /\ new[u].subject \in Docs =>
                    Live(tasks[u]) /\ new[u].subject = tasks[u].subject
  BY <1>1
<1>5. Persist(new, ok) OBVIOUS
<1> HIDE DEF new
<1> QED BY <1>1, <1>2, <1>3, <1>4, <1>5, Rewrite

-----------------------------------------------------------------------------
(* One lemma per group of operations *)

LEMMA CreateStep ==
    ASSUME QueueInv, NEW ok \in BOOLEAN, Create(ok) PROVE QueueInv'
<1>1. UNCHANGED <<leases, issued, granted>>
  BY DEF Create, PushDocument, ReuseDocument, StageMemory, PublishMemory,
         DiscardStaged
<1>2. LeasesInv' BY <1>1 DEF QueueInv, LeasesInv
<1> DEFINE RowsOK == /\ tasks' \in [Tasks -> Row] /\ disk' \in [Tasks -> Row]
                     /\ RowInv' /\ FileCurrent' /\ OneLiveRowPerDocument'
<1>3. SUFFICES RowsOK
  BY <1>1, <1>2 DEF QueueInv, TypeOK
<1>4. \A t \in Tasks : tasks[t] \in Row /\ RowOK(tasks[t], granted[t])
                       /\ granted[t] \in Nat
  BY DEF QueueInv, TypeOK, RowInv
<1>5. {"pending", "staging", "removed"} \subseteq Status BY DEF Status
<1>6. ASSUME NEW d \in Docs, NEW t \in Tasks, NEW p \in {0, 1},
             PushDocument(d, t, p, ok)
      PROVE  RowsOK
  <2> DEFINE r == NewTask(d, "pending", p)
             new == [tasks EXCEPT ![t] = r]
  <2>1. /\ r \in Row /\ r.status = "pending" /\ r.subject = d /\ r.retry = 0
        /\ ~r.cancel /\ r.token = NoToken /\ r.ttl = 0
    <3>1. d \in Subjects /\ "pending" \in Status BY <1>5 DEF Subjects
    <3> QED BY <3>1, NewTaskRow
  <2>2. /\ tasks[t].status = "none" /\ \A u \in Tasks : ~Reusable(tasks[u], d)
        /\ Persist(new, ok)
    BY <1>6 DEF PushDocument
  <2> HIDE DEF r
  <2>3. RowOK(r, granted[t]) BY <1>4, <2>1, <2>2 DEF RowOK
  <2>4. \A u \in Tasks : ~(tasks[u].subject = d /\ Live(tasks[u]))
    BY <1>4, <2>2 DEF Reusable, Live, RowOK
  <2>5. tasks \in [Tasks -> Row] BY DEF QueueInv, TypeOK
  <2>6. CASE ok = TRUE
    <3>1. tasks' = new /\ disk' = new BY <2>2, <2>6 DEF Persist
    <3>2. tasks' \in [Tasks -> Row] /\ disk' = tasks' BY <2>1, <2>5, <3>1
    <3>3. RowInv' BY <1>1, <2>3, <2>5, <3>1 DEF RowInv, QueueInv
    <3>4. FileCurrent' BY <3>2 DEF FileCurrent
    <3>5. \A u \in Tasks : u # t => tasks'[u] = tasks[u]
      BY <2>5, <3>1
    <3>6. tasks'[t] = r BY <2>5, <3>1
    <3>7. OneLiveRowPerDocument'
      BY <2>1, <2>4, <3>5, <3>6 DEF OneLiveRowPerDocument, QueueInv, Live
    <3> QED BY <3>2, <3>3, <3>4, <3>7
  <2>7. CASE ok = FALSE
    <3>1. UNCHANGED <<tasks, disk>> BY <2>2, <2>7 DEF Persist
    <3> QED
      BY <1>1, <3>1 DEF QueueInv, TypeOK, RowInv, FileCurrent,
                        OneLiveRowPerDocument
  <2> QED BY <2>6, <2>7
<1>7. ASSUME NEW d \in Docs, NEW t \in Tasks, NEW p \in {0, 1},
             ReuseDocument(d, t, p, ok)
      PROVE  RowsOK
  <2> DEFINE r == [tasks[t] EXCEPT !.priority = p]
             new == [tasks EXCEPT ![t].priority = p]
  <2>1. r \in Row /\ RowOK(r, granted[t]) BY <1>4 DEF Row, RowOK
  <2>2. r.status = tasks[t].status /\ r.subject = tasks[t].subject
    BY <1>4 DEF Row
  <2>3. new = [tasks EXCEPT ![t] = r] OBVIOUS
  <2>4. CASE tasks[t].status = "pending"
    <3>1. Persist(new, ok) BY <1>7, <2>4 DEF ReuseDocument
    <3> HIDE DEF r, new
    <3> QED BY <1>1, <2>1, <2>2, <2>3, <3>1, RewriteRow DEF Live
  <2>5. CASE tasks[t].status # "pending"
    <3>1. tasks' = new /\ disk' = disk BY <1>7, <2>5 DEF ReuseDocument
    <3>2. tasks[t].status = "running"
      BY <1>7, <2>5 DEF ReuseDocument, Reusable
    <3>3. tasks \in [Tasks -> Row] /\ disk \in [Tasks -> Row]
      BY DEF QueueInv, TypeOK
    <3>4. tasks' \in [Tasks -> Row] /\ tasks'[t] = r
      BY <2>1, <2>3, <3>1, <3>3
    <3>5. \A u \in Tasks : u # t => tasks'[u] = tasks[u] BY <3>1, <3>3
    <3>6. RowInv' BY <1>1, <1>4, <2>1, <3>4, <3>5 DEF RowInv
    <3>7. [disk[t] EXCEPT !.priority = p] = r
      BY <1>4, <3>3 DEF QueueInv, FileCurrent, Row
    <3>8. r.priority = p BY <1>4 DEF Row
    <3>9. FileCurrent'
      BY <2>2, <3>1, <3>2, <3>4, <3>5, <3>7, <3>8 DEF FileCurrent, QueueInv
    <3>10. \A u \in Tasks : /\ tasks'[u].status = tasks[u].status
                            /\ tasks'[u].subject = tasks[u].subject
      BY <2>2, <3>4, <3>5
    <3>11. OneLiveRowPerDocument'
      BY <3>10 DEF OneLiveRowPerDocument, QueueInv
    <3> QED BY <3>1, <3>3, <3>4, <3>6, <3>9, <3>11
  <2> QED BY <2>4, <2>5
<1>8. ASSUME NEW m \in Memories, NEW t \in Tasks, StageMemory(m, t, ok)
      PROVE  RowsOK
  <2> DEFINE r == NewTask(m, "staging", 0)
  <2>1. /\ r \in Row /\ r.status = "staging" /\ r.subject = m /\ r.retry = 0
        /\ ~r.cancel /\ r.token = NoToken /\ r.ttl = 0
    <3>1. m \in Subjects /\ "staging" \in Status /\ 0 \in {0, 1}
      BY <1>5 DEF Subjects
    <3> QED BY <3>1, NewTaskRow
  <2>2. tasks[t].status = "none" /\ Persist([tasks EXCEPT ![t] = r], ok)
    BY <1>8 DEF StageMemory
  <2> HIDE DEF r
  <2>3. RowOK(r, granted[t]) BY <1>4, <2>1, <2>2 DEF RowOK
  <2> QED BY <1>1, <2>1, <2>2, <2>3, RewriteRow DEF Live
<1>9. ASSUME NEW t \in Tasks, PublishMemory(t, ok) PROVE RowsOK
  <2> DEFINE r == [tasks[t] EXCEPT !.status = "pending"]
  <2>1. tasks[t].status = "staging" BY <1>9 DEF PublishMemory
  <2>2. r \in Row /\ RowOK(r, granted[t]) /\ r.subject \notin Docs
    BY <1>4, <1>5, <2>1 DEF Row, RowOK
  <2>3. Persist([tasks EXCEPT ![t] = r], ok) BY <1>9 DEF PublishMemory
  <2> HIDE DEF r
  <2> QED BY <1>1, <2>2, <2>3, RewriteRow
<1>10. ASSUME NEW t \in Tasks, DiscardStaged(t, ok) PROVE RowsOK
  <2> DEFINE r == [NoRow EXCEPT !.status = "removed"]
  <2>1. tasks[t].status = "staging" BY <1>10 DEF DiscardStaged
  <2>2. r \in Row /\ RowOK(r, granted[t]) /\ r.status = "removed"
    BY <1>4, <1>5, <2>1 DEF NoRow, Row, RowOK, NoToken, Subjects
  <2>3. Persist([tasks EXCEPT ![t] = r], ok) BY <1>10 DEF DiscardStaged
  <2> HIDE DEF r
  <2> QED BY <1>1, <2>2, <2>3, RewriteRow DEF Live
<1> QED BY <1>6, <1>7, <1>8, <1>9, <1>10 DEF Create

\* A claim grants a lease newer than all others; every other operation of the
\* workers grants none.
LEMMA WorkStep ==
    ASSUME QueueInv, NEW ok \in BOOLEAN, Work(ok) PROVE QueueInv'
<1> DEFINE RowsOK == /\ tasks' \in [Tasks -> Row] /\ disk' \in [Tasks -> Row]
                     /\ RowInv' /\ FileCurrent' /\ OneLiveRowPerDocument'
<1>1. \A t \in Tasks : tasks[t] \in Row /\ RowOK(tasks[t], granted[t])
                       /\ granted[t] \in Nat
  BY DEF QueueInv, TypeOK, RowInv
<1>2. leases \subseteq Lease /\ issued \in Nat /\ granted \in [Tasks -> Nat]
  BY DEF QueueInv, TypeOK
<1>3. "failed" \in Status /\ ReportStatuses \subseteq Status
  BY DEF Status, ReportStatuses
<1>4. ASSUME leases' \subseteq leases, UNCHANGED <<issued, granted>>, RowsOK
      PROVE  QueueInv'
  BY <1>2, <1>4 DEF QueueInv, TypeOK, LeasesInv
<1>5. ASSUME NEW t \in Tasks, Claim(t, ok) PROVE QueueInv'
  <2> DEFINE r == Claimed(tasks[t], issued + 1)
             new == [tasks EXCEPT ![t] = r]
             l == [task |-> t, token |-> issued + 1, attempt |-> r.retry]
             g == [granted EXCEPT ![t] = @ + 1]
  <2>1. /\ Claimable(tasks[t]) /\ Persist(new, ok)
        /\ leases' = IF ok THEN leases \cup {[task |-> t, token |-> r.token,
                                              attempt |-> r.retry]}
                           ELSE leases
        /\ issued' = IF ok THEN issued + 1 ELSE issued
        /\ granted' = IF ok THEN g ELSE granted
    BY <1>5 DEF Claim
  <2>2. /\ r \in Row /\ r.status = "running" /\ r.subject = tasks[t].subject
        /\ r.retry = tasks[t].retry + 1 /\ r.cancel = tasks[t].cancel
        /\ r.token = issued + 1
    <3>1. /\ tasks[t] \in Row /\ tasks[t].retry + 1 \in Nat
          /\ issued + 1 \in Nat /\ LeaseTicks \in Nat
          /\ "running" \in Status
      BY <1>1, <1>2 DEF Row, Status
    <3> QED BY <3>1 DEF Claimed, Row
  <2>3. RowOK(r, granted[t] + 1) /\ Live(tasks[t])
    BY <1>1, <2>1, <2>2 DEF Claimable, RowOK, Live
  <2>4. new \in [Tasks -> Row] BY <2>2 DEF QueueInv, TypeOK
  <2>5. g \in [Tasks -> Nat] BY <1>2
  <2>6. \A u \in Tasks : u # t => new[u] = tasks[u] /\ g[u] = granted[u]
    BY <1>2 DEF QueueInv, TypeOK
  <2>7. new[t] = r /\ g[t] = granted[t] + 1
    BY <1>2 DEF QueueInv, TypeOK
  <2>8. \A u \in Tasks : RowOK(new[u], g[u])
    BY <1>1, <2>3, <2>6, <2>7
  <2>9. \A u \in Tasks : Live(new[u]) /\ new[u].subject \in Docs =>
                    Live(tasks[u]) /\ new[u].subject = tasks[u].subject
    BY <2>2, <2>3, <2>6, <2>7
  <2>10. l \in Lease BY <1>2, <2>2 DEF Lease, Row
  <2>11. r.token = issued + 1 BY <2>2
  <2> HIDE DEF r, new, g
  <2>12. RowsOK
    <3>1. granted' \in [Tasks -> Nat] /\ (ok \/ granted' = granted)
      BY <1>2, <2>1, <2>5
    <3>2. ok => granted' = g BY <2>1
    <3>3. ok => \A u \in Tasks : RowOK(new[u], granted'[u])
      BY <2>8, <3>2
    <3> QED BY <2>1, <2>4, <2>9, <3>1, <3>3, Rewrite
  <2>13. CASE ok = TRUE
    <3>1. leases' = leases \cup {l} /\ issued' = issued + 1 /\ granted' = g
      BY <2>1, <2>11, <2>13
    <3>2. l.token = issued + 1 OBVIOUS
    <3>3. \A k \in leases : k.token <= issued /\ k.token \in Nat
      BY <1>2 DEF QueueInv, LeasesInv, Lease
    <3> HIDE DEF l
    <3>4. LeasesInv' BY <1>2, <3>1, <3>2, <3>3 DEF QueueInv, LeasesInv
    <3> QED BY <1>2, <2>5, <2>10, <2>12, <3>1, <3>4 DEF QueueInv, TypeOK
  <2>14. CASE ok = FALSE
    <3>1. UNCHANGED <<leases, issued, granted>> BY <2>1, <2>14
    <3> QED BY <1>4, <2>12, <3>1
  <2> QED BY <2>13, <2>14
<1>6. ASSUME NEW t \in Tasks, Reject(t, ok) PROVE QueueInv'
  <2> DEFINE r == Unleased(tasks[t], "failed")
  <2>1. /\ r \in Row /\ r.status = "failed" /\ r.retry = tasks[t].retry
        /\ r.token = NoToken /\ r.ttl = 0
    BY <1>1, <1>3, UnleasedRow
  <2>2. /\ Persist([tasks EXCEPT ![t] = r], ok)
        /\ UNCHANGED <<leases, issued, granted>>
    BY <1>6 DEF Reject
  <2> HIDE DEF r
  <2>3. RowOK(r, granted[t]) BY <1>1, <2>1 DEF RowOK
  <2>4. RowsOK BY <2>1, <2>2, <2>3, RewriteRow DEF Live
  <2> QED BY <1>4, <2>2, <2>4
<1>7. ASSUME NEW k \in leases, Renew(k, ok) PROVE QueueInv'
  <2> DEFINE t == k.task
             r == [tasks[t] EXCEPT !.ttl = LeaseTicks]
  <2>1. t \in Tasks BY <1>2 DEF Lease
  <2>2. tasks[t].status = "running" BY <1>7 DEF Renew, Owns, Holds
  <2>3. /\ Persist([tasks EXCEPT ![t] = r], ok)
        /\ UNCHANGED <<leases, issued, granted>>
    BY <1>7 DEF Renew
  <2>4. /\ r \in Row /\ RowOK(r, granted[t]) /\ r.status = tasks[t].status
        /\ r.subject = tasks[t].subject
    BY <1>1, <2>1, <2>2 DEF Row, RowOK
  <2> HIDE DEF t, r
  <2>5. RowsOK BY <2>1, <2>3, <2>4, RewriteRow DEF Live
  <2> QED BY <1>4, <2>3, <2>5
<1>8. ASSUME NEW k \in leases, NEW st \in ReportStatuses, Report(k, st, ok)
      PROVE  QueueInv'
  <2> DEFINE t == k.task
             r == IF Holds(k) THEN Unleased(tasks[t], st) ELSE tasks[t]
  <2>1. t \in Tasks BY <1>2 DEF Lease
  <2>2. /\ st = "cancelled" => tasks[t].cancel
        /\ st = "pending" => CanRetry(tasks[t])
        /\ Persist([tasks EXCEPT ![t] = r], ok)
        /\ leases' \subseteq leases
        /\ UNCHANGED <<issued, granted>>
    BY <1>8 DEF Report
  <2>3. /\ r \in Row /\ RowOK(r, granted[t])
        /\ Live(r) /\ r.subject \in Docs =>
              Live(tasks[t]) /\ r.subject = tasks[t].subject
    <3>1. CASE Holds(k)
      <4>1. r = Unleased(tasks[t], st) BY <3>1
      <4>2. /\ r \in Row /\ r.status = st /\ r.subject = tasks[t].subject
            /\ r.retry = tasks[t].retry /\ r.cancel = tasks[t].cancel
            /\ r.token = NoToken /\ r.ttl = 0
        BY <1>1, <1>3, <2>1, <4>1, UnleasedRow
      <4>3. tasks[t].status = "running" BY <3>1 DEF Holds
      <4> HIDE DEF r, t
      <4> QED
        BY <1>1, <2>1, <2>2, <4>2, <4>3 DEF RowOK, Live, CanRetry, ReportStatuses
    <3>2. CASE ~Holds(k)
      <4>1. r = tasks[t] BY <3>2
      <4> QED BY <1>1, <2>1, <4>1
    <3> QED BY <3>1, <3>2
  <2> HIDE DEF t, r
  <2>4. RowsOK BY <2>1, <2>2, <2>3, RewriteRow
  <2> QED BY <1>4, <2>2, <2>4
<1> QED BY <1>5, <1>6, <1>7, <1>8 DEF Work

LEMMA CancelStep ==
    ASSUME QueueInv, NEW ok \in BOOLEAN, Cancel(ok) PROVE QueueInv'
<1>1. UNCHANGED <<leases, issued, granted>>
  BY DEF Cancel, RequestCancel, CancelSubject
<1> DEFINE RowsOK == /\ tasks' \in [Tasks -> Row] /\ disk' \in [Tasks -> Row]
                     /\ RowInv' /\ FileCurrent' /\ OneLiveRowPerDocument'
<1>2. SUFFICES RowsOK BY <1>1 DEF QueueInv, TypeOK, LeasesInv
<1>3. \A t \in Tasks : tasks[t] \in Row /\ RowOK(tasks[t], granted[t])
                       /\ granted[t] \in Nat
  BY DEF QueueInv, TypeOK, RowInv
<1>4. \A t \in Tasks : /\ Cancelled(tasks[t]) \in Row
                       /\ RowOK(Cancelled(tasks[t]), granted[t])
                       /\ ~Live(Cancelled(tasks[t]))
  BY <1>3, CancelledRow
<1>5. ASSUME NEW t \in Tasks, RequestCancel(t, ok) PROVE RowsOK
  <2>1. Persist([tasks EXCEPT ![t] = Cancelled(tasks[t])], ok)
    BY <1>5 DEF RequestCancel
  <2> QED BY <1>1, <1>4, <2>1, RewriteRow
<1>6. ASSUME NEW x \in Subjects, CancelSubject(x, ok) PROVE RowsOK
  <2> DEFINE new == [t \in Tasks |-> IF tasks[t].subject = x
                                     THEN Cancelled(tasks[t]) ELSE tasks[t]]
  <2>1. Persist(new, ok) BY <1>6 DEF CancelSubject
  <2>2. new \in [Tasks -> Row] BY <1>3, <1>4
  <2>3. \A t \in Tasks : RowOK(new[t], granted[t]) BY <1>3, <1>4
  <2>4. \A t \in Tasks : Live(new[t]) => new[t] = tasks[t] BY <1>4
  <2>5. granted' \in [Tasks -> Nat] BY <1>1 DEF QueueInv, TypeOK
  <2> HIDE DEF new
  <2> QED BY <1>1, <2>1, <2>2, <2>3, <2>4, <2>5, Rewrite
<1> QED BY <1>5, <1>6 DEF Cancel

LEMMA TickStep == ASSUME QueueInv, Tick PROVE QueueInv'
<1> DEFINE Aged(row) == [row EXCEPT !.ttl = IF @ > 0 THEN @ - 1 ELSE 0]
<1>1. /\ tasks' = [t \in Tasks |-> Aged(tasks[t])]
      /\ disk' = [t \in Tasks |-> Aged(disk[t])]
      /\ UNCHANGED <<leases, issued, granted>>
  BY DEF Tick
<1>2. ASSUME NEW row \in Row
      PROVE  /\ Aged(row) \in Row
             /\ Aged(row).status = row.status /\ Aged(row).subject = row.subject
             /\ Aged(row).retry = row.retry /\ Aged(row).cancel = row.cancel
             /\ Aged(row).token = row.token /\ Aged(row).priority = row.priority
             /\ row.ttl = 0 => Aged(row).ttl = 0
  <2> DEFINE n == IF row.ttl > 0 THEN row.ttl - 1 ELSE 0
  <2>1. n \in Nat /\ (row.ttl = 0 => n = 0) BY DEF Row
  <2>2. Aged(row) = [row EXCEPT !.ttl = n] OBVIOUS
  <2> HIDE DEF n, Aged
  <2> QED BY <2>1, <2>2 DEF Row
<1>3. /\ tasks \in [Tasks -> Row] /\ disk \in [Tasks -> Row]
      /\ granted \in [Tasks -> Nat]
  BY DEF QueueInv, TypeOK
<1>4. \A t \in Tasks : tasks'[t] = Aged(tasks[t]) /\ disk'[t] = Aged(disk[t])
  BY <1>1
<1>5. \A t \in Tasks : tasks[t].priority \in {0, 1} BY <1>3 DEF Row
<1> HIDE DEF Aged
<1>6. tasks' \in [Tasks -> Row] /\ disk' \in [Tasks -> Row]
  BY <1>1, <1>2, <1>3
<1>7. RowInv'
  <2> SUFFICES ASSUME NEW t \in Tasks PROVE RowOK(tasks'[t], granted'[t])
    BY DEF RowInv
  <2>1. RowOK(tasks[t], granted[t]) /\ tasks[t] \in Row
    BY <1>3 DEF QueueInv, RowInv
  <2> QED BY <1>1, <1>2, <1>4, <2>1 DEF RowOK
<1>8. FileCurrent'
  <2> SUFFICES ASSUME NEW t \in Tasks, disk'[t] # tasks'[t]
               PROVE  /\ tasks'[t].status = "running"
                      /\ [disk'[t] EXCEPT !.priority = tasks'[t].priority] = tasks'[t]
    BY DEF FileCurrent
  <2> DEFINE p == tasks[t].priority
  <2>1. disk[t] \in Row /\ tasks[t] \in Row /\ p \in {0, 1} BY <1>3, <1>5
  <2>2. tasks[t].status = "running" /\ [disk[t] EXCEPT !.priority = p] = tasks[t]
    BY <1>4 DEF FileCurrent, QueueInv
  <2>3. tasks'[t] = Aged([disk[t] EXCEPT !.priority = p]) BY <1>4, <2>2
  <2>4. tasks'[t] = [Aged(disk[t]) EXCEPT !.priority = p]
    BY <2>1, <2>3 DEF Aged, Row
  <2>5. tasks'[t].priority = p BY <1>2, <1>4, <2>1
  <2> HIDE DEF p
  <2> QED BY <1>2, <1>4, <2>1, <2>2, <2>4, <2>5
<1>9. OneLiveRowPerDocument'
  BY <1>2, <1>3, <1>4 DEF OneLiveRowPerDocument, QueueInv
<1> QED BY <1>1, <1>6, <1>7, <1>8, <1>9 DEF QueueInv, TypeOK, LeasesInv

\* What the restart loads differs from what was in memory in priorities only.
LEMMA RestartStep == ASSUME QueueInv, Restart PROVE QueueInv'
<1>1. /\ tasks' = [t \in Tasks |-> Recovered(disk[t])] /\ disk' = tasks'
      /\ leases' = {} /\ UNCHANGED <<issued, granted>>
  BY DEF Restart
<1>2. \A t \in Tasks : /\ disk[t] \in Row /\ tasks[t] \in Row
                       /\ granted[t] \in Nat
  BY DEF QueueInv, TypeOK
<1>3. ASSUME NEW t \in Tasks
      PROVE  /\ RowOK(disk[t], granted[t])
             /\ disk[t].status = tasks[t].status
             /\ disk[t].subject = tasks[t].subject
  <2>1. CASE disk[t] = tasks[t] BY <2>1 DEF QueueInv, RowInv
  <2>2. CASE [disk[t] EXCEPT !.priority = tasks[t].priority] = tasks[t]
    <3>1. /\ disk[t].status = tasks[t].status
          /\ disk[t].subject = tasks[t].subject
          /\ disk[t].retry = tasks[t].retry
          /\ disk[t].cancel = tasks[t].cancel
          /\ disk[t].token = tasks[t].token
          /\ disk[t].ttl = tasks[t].ttl
      BY <1>2, <2>2 DEF Row
    <3> QED BY <3>1 DEF QueueInv, RowInv, RowOK
  <2> QED BY <2>1, <2>2 DEF QueueInv, FileCurrent
<1>4. \A t \in Tasks : /\ tasks'[t] \in Row
                       /\ tasks'[t].subject = tasks[t].subject
                       /\ RowOK(tasks'[t], granted[t])
                       /\ Live(tasks'[t]) => Live(tasks[t])
  <2> SUFFICES ASSUME NEW t \in Tasks
               PROVE  /\ tasks'[t] \in Row
                      /\ tasks'[t].subject = tasks[t].subject
                      /\ RowOK(tasks'[t], granted[t])
                      /\ Live(tasks'[t]) => Live(tasks[t])
    OBVIOUS
  <2>1. tasks'[t] = Recovered(disk[t]) BY <1>1
  <2> QED BY <1>2, <1>3, <2>1, RecoveredRow DEF Live
<1>5. tasks' \in [Tasks -> Row] BY <1>1, <1>4
<1>6. RowInv' BY <1>1, <1>4 DEF RowInv
<1>7. OneLiveRowPerDocument'
  BY <1>4 DEF OneLiveRowPerDocument, QueueInv, Live
<1> QED
  BY <1>1, <1>5, <1>6, <1>7 DEF QueueInv, TypeOK, FileCurrent, LeasesInv

\* QueueInv is inductive.
LEMMA InvStep == QueueInv /\ [Next]_vars => QueueInv'
<1> SUFFICES ASSUME QueueInv, [Next]_vars PROVE QueueInv'
  OBVIOUS
<1>1. ASSUME NEW ok \in BOOLEAN, Create(ok) \/ Work(ok) \/ Cancel(ok)
      PROVE  QueueInv'
  BY <1>1, CreateStep, WorkStep, CancelStep
<1>2. ASSUME NEW l \in leases, Abandon(l) PROVE QueueInv'
  BY <1>2 DEF Abandon, QueueInv, TypeOK, RowInv, FileCurrent, LeasesInv,
              OneLiveRowPerDocument
<1>3. CASE UNCHANGED vars
  BY <1>3 DEF vars, QueueInv, TypeOK, RowInv, FileCurrent, LeasesInv,
              OneLiveRowPerDocument
<1> QED BY <1>1, <1>2, <1>3, TickStep, RestartStep DEF Next

LEMMA Inv == Spec => []QueueInv
BY InitInv, InvStep, PTL DEF Spec

-----------------------------------------------------------------------------
(* The properties *)

\* Every variable of the queue always has its type.
THEOREM TypeCorrect == Spec => []TypeOK
BY Inv, PTL DEF QueueInv

\* A document never has two live rows.
THEOREM OneLiveRow == Spec => []OneLiveRowPerDocument
BY Inv, PTL DEF QueueInv

\* No row is claimed more than max_retries times over all failed writes and
\* restarts.
THEOREM ClaimsAreBounded == Spec => []ClaimsBounded
<1>1. QueueInv => ClaimsBounded BY DEF QueueInv, RowInv, RowOK, ClaimsBounded
<1> QED BY <1>1, Inv, PTL

\* The file always holds what a restart needs.
THEOREM FileIsCurrent == Spec => []FileCurrent
BY Inv, PTL DEF QueueInv

\* A row without a worker has no lease, and a cancelled row stays cancelled.
THEOREM SettledRowsSafe == Spec => [](LeaseOnlyWhileRunning /\ CancelledStaysOut)
<1>1. QueueInv => LeaseOnlyWhileRunning /\ CancelledStaysOut
  BY DEF QueueInv, RowInv, RowOK, LeaseOnlyWhileRunning, CancelledStaysOut
<1> QED BY <1>1, Inv, PTL

\* At most one of the workers still going owns a lease on a document: the rows
\* of two owners are both running, hence the same row, hence one token, which
\* names one lease.
THEOREM OneOwner == Spec => []OneOwnerPerDocument
<1>1. QueueInv => OneOwnerPerDocument
  <2> SUFFICES ASSUME QueueInv, NEW k \in leases, NEW l \in leases,
                      Owns(k), Owns(l), tasks[k.task].subject \in Docs,
                      tasks[k.task].subject = tasks[l.task].subject
               PROVE  k = l
    BY DEF OneOwnerPerDocument
  <2>1. k.task \in Tasks /\ l.task \in Tasks
    BY DEF QueueInv, TypeOK, Lease
  <2>2. tasks[k.task].status = "running" /\ tasks[l.task].status = "running"
    BY DEF Owns, Holds
  <2>3. k.task = l.task
    BY <2>1, <2>2 DEF QueueInv, OneLiveRowPerDocument
  <2>4. k.token = l.token BY <2>3 DEF Owns, Holds
  <2> QED BY <2>4 DEF QueueInv, LeasesInv
<1> QED BY <1>1, Inv, PTL

\* A worker that reports or ends without holding its lease changes no row: of
\* all operations only Report, Abandon and Restart end a worker, and a report
\* without the lease writes the rows back as they are.
THEOREM StaleReportsIgnored == Spec => StaleReportIgnored
<1> DEFINE Ignored ==
      \A l \in leases : l \notin leases' /\ ~Holds(l) =>
          tasks'[l.task] \in {tasks[l.task], Recovered(disk[l.task])}
<1>1. ASSUME QueueInv, [Next]_vars PROVE [Ignored]_vars
  <2> SUFFICES ASSUME NEW l \in leases, l \notin leases', ~Holds(l), Next
               PROVE  tasks'[l.task] \in {tasks[l.task], Recovered(disk[l.task])}
    BY <1>1 DEF vars
  <2>1. l.task \in Tasks /\ tasks \in [Tasks -> Row]
    BY <1>1 DEF QueueInv, TypeOK, Lease
  <2>2. ASSUME NEW ok \in BOOLEAN, Create(ok) \/ Cancel(ok) PROVE FALSE
    BY <2>2 DEF Create, PushDocument, ReuseDocument, StageMemory,
                PublishMemory, DiscardStaged, Cancel, RequestCancel,
                CancelSubject
  <2>3. ASSUME NEW ok \in BOOLEAN, Work(ok) PROVE tasks' = tasks
    <3>1. PICK k \in leases, s \in ReportStatuses : Report(k, s, ok)
      BY <2>3 DEF Work, Claim, Reject, Renew
    <3>2. k = l BY <3>1 DEF Report
    <3>3. Persist([tasks EXCEPT ![l.task] = tasks[l.task]], ok)
      BY <3>1, <3>2 DEF Report
    <3>4. [tasks EXCEPT ![l.task] = tasks[l.task]] = tasks BY <2>1
    <3> QED BY <3>3, <3>4 DEF Persist
  <2>4. ASSUME NEW k \in leases, Abandon(k) PROVE tasks' = tasks
    BY <2>4 DEF Abandon
  <2>5. CASE Tick BY <2>5 DEF Tick
  <2>6. CASE Restart BY <2>1, <2>6 DEF Restart
  <2> QED BY <2>2, <2>3, <2>4, <2>5, <2>6 DEF Next
<1> QED BY <1>1, Inv, PTL DEF StaleReportIgnored, Spec

-----------------------------------------------------------------------------
(* Refinement of TaskLifecycle *)

Absent == {"none", "staging", "removed"}

\* What a step may do to the status and the grant count of one row.
RowMove(t) ==
    \/ /\ granted'[t] = granted[t]
       /\ \/ tasks'[t].status \in Terminal
          \/ tasks'[t].status = tasks[t].status
          \/ tasks[t].status \in Absent /\ tasks'[t].status \in Absent \cup {"pending"}
          \/ /\ tasks[t].status = "running" /\ tasks'[t].status = "pending"
             /\ granted[t] < MaxRetries
    \/ /\ granted'[t] = granted[t] + 1 /\ granted[t] < MaxRetries
       /\ Live(tasks[t]) /\ tasks'[t].status = "running"

\* Such a step is one of the lifecycle's.
LEMMA RowMoveIsLifecycle ==
    ASSUME NEW t \in Tasks, RowMove(t)
    PROVE  \/ Lifecycle!Queue(t) \/ Lifecycle!Begin(t) \/ Lifecycle!GiveBack(t)
           \/ Lifecycle!Settle(t) \/ Lifecycle!Stay(t)
<1>1. phaseOfRows[t] = PhaseOf(tasks[t]) /\ phaseOfRows'[t] = PhaseOf(tasks'[t])
  BY DEF phaseOfRows
<1> USE DEF Lifecycle!Queue, Lifecycle!Begin, Lifecycle!GiveBack,
            Lifecycle!Settle, Lifecycle!Stay
<1>2. CASE granted'[t] = granted[t] /\ tasks'[t].status \in Terminal
  <2>1. PhaseOf(tasks'[t]) = "settled" BY <1>2 DEF PhaseOf, Terminal
  <2> QED BY <1>1, <1>2, <2>1
<1>3. CASE granted'[t] = granted[t] /\ tasks'[t].status = tasks[t].status
  <2>1. PhaseOf(tasks'[t]) = PhaseOf(tasks[t]) BY <1>3 DEF PhaseOf
  <2> QED BY <1>1, <1>3, <2>1
<1>4. CASE /\ granted'[t] = granted[t] /\ tasks[t].status \in Absent
           /\ tasks'[t].status \in Absent \cup {"pending"}
  <2>1. /\ PhaseOf(tasks[t]) = "absent"
        /\ PhaseOf(tasks'[t]) \in {"absent", "waiting"}
    BY <1>4 DEF PhaseOf, Absent
  <2> QED BY <1>1, <1>4, <2>1
<1>5. CASE /\ granted'[t] = granted[t] /\ tasks[t].status = "running"
           /\ tasks'[t].status = "pending" /\ granted[t] < MaxRetries
  <2>1. PhaseOf(tasks[t]) = "working" /\ PhaseOf(tasks'[t]) = "waiting"
    BY <1>5 DEF PhaseOf
  <2> QED BY <1>1, <1>5, <2>1
<1>6. CASE /\ granted'[t] = granted[t] + 1 /\ granted[t] < MaxRetries
           /\ Live(tasks[t]) /\ tasks'[t].status = "running"
  <2>1. /\ PhaseOf(tasks[t]) \in {"waiting", "working"}
        /\ PhaseOf(tasks'[t]) = "working"
    BY <1>6 DEF PhaseOf, Live
  <2> QED BY <1>1, <1>6, <2>1
<1> QED BY <1>2, <1>3, <1>4, <1>5, <1>6 DEF RowMove

\* A rewrite of one row moves that row and no other.
LEMMA RewriteMoves ==
    ASSUME TypeOK, NEW t \in Tasks, NEW r, NEW ok \in BOOLEAN,
           Persist([tasks EXCEPT ![t] = r], ok), granted' = granted,
           \/ r.status \in Terminal
           \/ r.status = tasks[t].status
           \/ tasks[t].status \in Absent /\ r.status \in Absent \cup {"pending"}
           \/ /\ tasks[t].status = "running" /\ r.status = "pending"
              /\ granted[t] < MaxRetries
    PROVE  \A u \in Tasks : RowMove(u)
<1>1. CASE ok = TRUE
  <2>1. /\ tasks'[t] = r
        /\ \A u \in Tasks : u # t => tasks'[u] = tasks[u]
    BY <1>1 DEF Persist, TypeOK
  <2> QED BY <2>1 DEF RowMove
<1>2. CASE ok = FALSE
  BY <1>2 DEF Persist, RowMove
<1> QED BY <1>1, <1>2

LEMMA AllRowsMove ==
    ASSUME QueueInv, [Next]_vars PROVE \A u \in Tasks : RowMove(u)
<1>1. TypeOK /\ \A t \in Tasks : /\ tasks[t] \in Row /\ disk[t] \in Row
                                 /\ granted[t] \in Nat /\ RowOK(tasks[t], granted[t])
  BY DEF QueueInv, TypeOK, RowInv
<1>2. ASSUME NEW ok \in BOOLEAN, NEW d \in Docs, NEW t \in Tasks, NEW p \in {0, 1},
             PushDocument(d, t, p, ok)
      PROVE  \A u \in Tasks : RowMove(u)
  <2>1. NewTask(d, "pending", p).status = "pending" BY DEF NewTask, NoRow
  <2> QED BY <1>1, <1>2, <2>1, RewriteMoves DEF PushDocument, Absent
<1>3. ASSUME NEW ok \in BOOLEAN, NEW d \in Docs, NEW t \in Tasks, NEW p \in {0, 1},
             ReuseDocument(d, t, p, ok)
      PROVE  \A u \in Tasks : RowMove(u)
  <2>1. tasks' \in {tasks, [tasks EXCEPT ![t].priority = p]} /\ granted' = granted
    BY <1>3 DEF ReuseDocument, Persist
  <2>2. \A u \in Tasks : tasks'[u].status = tasks[u].status
    BY <1>1, <2>1 DEF Row, TypeOK
  <2> QED BY <2>1, <2>2 DEF RowMove
<1>4. ASSUME NEW ok \in BOOLEAN, NEW m \in Memories, NEW t \in Tasks,
             StageMemory(m, t, ok)
      PROVE  \A u \in Tasks : RowMove(u)
  <2>1. NewTask(m, "staging", 0).status = "staging" BY DEF NewTask, NoRow
  <2> QED BY <1>1, <1>4, <2>1, RewriteMoves DEF StageMemory, Absent
<1>5. ASSUME NEW ok \in BOOLEAN, NEW t \in Tasks, PublishMemory(t, ok)
      PROVE  \A u \in Tasks : RowMove(u)
  <2> DEFINE r == [tasks[t] EXCEPT !.status = "pending"]
  <2>1. r.status = "pending" BY <1>1 DEF Row
  <2>2. Persist([tasks EXCEPT ![t] = r], ok) /\ granted' = granted
        /\ tasks[t].status \in Absent
    BY <1>5 DEF PublishMemory, Absent
  <2> HIDE DEF r
  <2> QED BY <1>1, <2>1, <2>2, RewriteMoves
<1>6. ASSUME NEW ok \in BOOLEAN, NEW t \in Tasks, DiscardStaged(t, ok)
      PROVE  \A u \in Tasks : RowMove(u)
  <2> DEFINE r == [NoRow EXCEPT !.status = "removed"]
  <2>1. r.status \in Absent BY DEF NoRow, Absent
  <2>2. Persist([tasks EXCEPT ![t] = r], ok) /\ granted' = granted
        /\ tasks[t].status \in Absent
    BY <1>6 DEF DiscardStaged, Absent
  <2> HIDE DEF r
  <2> QED BY <1>1, <2>1, <2>2, RewriteMoves
<1>7. ASSUME NEW ok \in BOOLEAN, NEW t \in Tasks, Claim(t, ok)
      PROVE  \A u \in Tasks : RowMove(u)
  <2> DEFINE r == Claimed(tasks[t], issued + 1)
  <2>1. /\ Persist([tasks EXCEPT ![t] = r], ok) /\ Claimable(tasks[t])
        /\ granted' = IF ok THEN [granted EXCEPT ![t] = @ + 1] ELSE granted
    BY <1>7 DEF Claim
  <2>2. r.status = "running" BY <1>1 DEF Claimed, Row
  <2>3. Live(tasks[t]) /\ granted[t] < MaxRetries
    BY <1>1, <2>1 DEF Claimable, Live, RowOK
  <2> HIDE DEF r
  <2>4. CASE ok = TRUE
    <3>1. /\ tasks'[t] = r /\ granted'[t] = granted[t] + 1
          /\ \A u \in Tasks : u # t => /\ tasks'[u] = tasks[u]
                                       /\ granted'[u] = granted[u]
      BY <1>1, <2>1, <2>4 DEF Persist, TypeOK
    <3> QED BY <2>2, <2>3, <3>1 DEF RowMove
  <2>5. CASE ok = FALSE BY <2>1, <2>5 DEF Persist, RowMove
  <2> QED BY <2>4, <2>5
<1>8. ASSUME NEW ok \in BOOLEAN, NEW t \in Tasks, Reject(t, ok)
      PROVE  \A u \in Tasks : RowMove(u)
  <2>1. Unleased(tasks[t], "failed").status = "failed"
    BY <1>1 DEF Unleased, Row
  <2> QED BY <1>1, <1>8, <2>1, RewriteMoves DEF Reject, Terminal
<1>9. ASSUME NEW ok \in BOOLEAN, NEW l \in leases, Renew(l, ok)
      PROVE  \A u \in Tasks : RowMove(u)
  <2> DEFINE t == l.task
             r == [tasks[t] EXCEPT !.ttl = LeaseTicks]
  <2>1. t \in Tasks BY DEF QueueInv, TypeOK, Lease
  <2>2. r.status = tasks[t].status BY <1>1, <2>1 DEF Row
  <2>3. Persist([tasks EXCEPT ![t] = r], ok) /\ granted' = granted
    BY <1>9 DEF Renew
  <2> HIDE DEF t, r
  <2> QED BY <1>1, <2>1, <2>2, <2>3, RewriteMoves
<1>10. ASSUME NEW ok \in BOOLEAN, NEW l \in leases, NEW st \in ReportStatuses,
              Report(l, st, ok)
       PROVE  \A u \in Tasks : RowMove(u)
  <2> DEFINE t == l.task
             r == IF Holds(l) THEN Unleased(tasks[t], st) ELSE tasks[t]
  <2>1. t \in Tasks BY DEF QueueInv, TypeOK, Lease
  <2>2. /\ Persist([tasks EXCEPT ![t] = r], ok) /\ granted' = granted
        /\ st = "pending" => CanRetry(tasks[t])
    BY <1>10 DEF Report
  <2>3. \/ r.status \in Terminal
        \/ r.status = tasks[t].status
        \/ /\ tasks[t].status = "running" /\ r.status = "pending"
           /\ granted[t] < MaxRetries
    <3>1. CASE Holds(l)
      <4>1. r.status = st BY <1>1, <2>1, <3>1 DEF Unleased, Row
      <4>2. tasks[t].status = "running" BY <3>1 DEF Holds
      <4> HIDE DEF r
      <4> QED
        BY <1>1, <2>1, <2>2, <4>1, <4>2
           DEF ReportStatuses, Terminal, CanRetry, RowOK
    <3>2. CASE ~Holds(l) BY <3>2
    <3> QED BY <3>1, <3>2
  <2> HIDE DEF t, r
  <2> QED BY <1>1, <2>1, <2>2, <2>3, RewriteMoves
<1>11. \A t \in Tasks : \/ Cancelled(tasks[t]).status \in Terminal
                        \/ Cancelled(tasks[t]).status = tasks[t].status
  BY <1>1 DEF Cancelled, Unleased, Terminal, Row
<1>12. ASSUME NEW ok \in BOOLEAN, NEW t \in Tasks, RequestCancel(t, ok)
       PROVE  \A u \in Tasks : RowMove(u)
  BY <1>1, <1>11, <1>12, RewriteMoves DEF RequestCancel
<1>13. ASSUME NEW ok \in BOOLEAN, NEW x \in Subjects, CancelSubject(x, ok)
       PROVE  \A u \in Tasks : RowMove(u)
  BY <1>11, <1>13 DEF CancelSubject, Persist, RowMove
<1>14. CASE Tick
  <2>1. \A u \in Tasks : tasks'[u].status = tasks[u].status /\ granted' = granted
    BY <1>1, <1>14 DEF Tick, Row
  <2> QED BY <2>1 DEF RowMove
<1>15. CASE Restart
  <2> SUFFICES ASSUME NEW u \in Tasks PROVE RowMove(u)
    OBVIOUS
  <2>1. tasks'[u] = Recovered(disk[u]) /\ granted' = granted
    BY <1>15 DEF Restart
  <2>2. disk[u].status = tasks[u].status /\ disk[u].retry = granted[u]
    <3>1. CASE disk[u] = tasks[u] BY <1>1, <3>1 DEF RowOK
    <3>2. CASE [disk[u] EXCEPT !.priority = tasks[u].priority] = tasks[u]
      <4>1. disk[u].status = tasks[u].status /\ disk[u].retry = tasks[u].retry
        BY <1>1, <3>2 DEF Row
      <4> QED BY <1>1, <4>1 DEF RowOK
    <3> QED BY <3>1, <3>2 DEF QueueInv, FileCurrent
  <2>3. \/ Recovered(disk[u]).status = disk[u].status
        \/ Recovered(disk[u]).status = "failed"
        \/ /\ Recovered(disk[u]).status = "pending" /\ disk[u].status = "running"
           /\ disk[u].retry < MaxRetries
    BY <1>1 DEF Recovered, Unleased, Row
  <2> QED BY <2>1, <2>2, <2>3 DEF RowMove, Terminal
<1>16. ASSUME NEW l \in leases, Abandon(l) PROVE \A u \in Tasks : RowMove(u)
  BY <1>16 DEF Abandon, RowMove
<1>17. CASE UNCHANGED vars BY <1>17 DEF vars, RowMove
<1> QED
  BY <1>2, <1>3, <1>4, <1>5, <1>6, <1>7, <1>8, <1>9, <1>10, <1>12, <1>13,
     <1>14, <1>15, <1>16, <1>17 DEF Next, Create, Work, Cancel

\* The queue implements the lifecycle: every step of it moves each task as the
\* lifecycle allows.
THEOREM Refinement == Spec => ImplementsLifecycle
<1>1. Init => Lifecycle!Init
  BY DEF Init, Lifecycle!Init, phaseOfRows, PhaseOf, NoRow
<1>2. ASSUME QueueInv, QueueInv', [Next]_vars
      PROVE  Lifecycle!Next
  <2>1. \A t \in Tasks : PhaseOf(tasks'[t]) \in Lifecycle!Phase
    BY <1>2 DEF PhaseOf, Lifecycle!Phase, QueueInv, TypeOK, Row, Status
  <2>2. phaseOfRows' \in [Tasks -> Lifecycle!Phase]
    BY <2>1 DEF phaseOfRows
  <2>3. granted' \in [Tasks -> Nat] BY <1>2 DEF QueueInv, TypeOK
  <2>4. \A t \in Tasks :
          \/ Lifecycle!Queue(t) \/ Lifecycle!Begin(t) \/ Lifecycle!GiveBack(t)
          \/ Lifecycle!Settle(t) \/ Lifecycle!Stay(t)
    BY <1>2, AllRowsMove, RowMoveIsLifecycle
  <2> QED BY <2>2, <2>3, <2>4 DEF Lifecycle!Next
<1> QED
  BY <1>1, <1>2, Inv, PTL DEF Spec, ImplementsLifecycle, Lifecycle!Spec

=============================================================================
