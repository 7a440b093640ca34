------------------------- MODULE TaskExecutorProofs -------------------------
(***************************************************************************)
(* Safety of the task executor for every set of submissions, every pool    *)
(* size, retry limit and counter width.                                    *)
(***************************************************************************)
EXTENDS TaskExecutor, FiniteSetTheorems, TLAPS

USE JobsAssumption, TaskOfAssumption, MaxConcurrentAssumption,
    MaxRetriesAssumption, CounterModulusAssumption, HandlerMayPanicAssumption

\* The counters' wrapping arithmetic stays in their range.
LEMMA FetchRange ==
    ASSUME NEW n \in 0 .. CounterModulus - 1
    PROVE  /\ FetchAdd(n) \in 0 .. CounterModulus - 1
           /\ FetchSub(n) \in 0 .. CounterModulus - 1
BY DEF FetchAdd, FetchSub

\* Every step keeps the variables in their types.
LEMMA TypeStep == TypeOK /\ [Next]_vars => TypeOK'
<1> SUFFICES ASSUME TypeOK, [Next]_vars PROVE TypeOK'
  OBVIOUS
<1>1. {FetchAdd(pending), FetchSub(pending), FetchAdd(running),
       FetchSub(running), FetchAdd(done), FetchAdd(failed)}
        \subseteq 0 .. CounterModulus - 1
  BY FetchRange DEF TypeOK
<1> USE DEF TypeOK, Places, TaskState, Move, counters
<1>2. CASE Spawn BY <1>2 DEF Spawn
<1>3. CASE Shutdown BY <1>3 DEF Shutdown
<1>4. CASE Receive BY <1>4 DEF Receive
<1>5. CASE LoopExit BY <1>5 DEF LoopExit
<1>6. CASE CountPending BY <1>1, <1>6 DEF CountPending
<1>7. ASSUME NEW j \in Jobs,
             Acquire(j) \/ Submit(j) \/ Send(j) \/ RunOne(j)
      PROVE  TypeOK'
  <2>1. CASE Acquire(j) BY <2>1 DEF Acquire
  <2>2. CASE Submit(j) BY <2>2 DEF Submit
  <2>3. CASE Send(j)
    <3>1. CASE loop = "exited" BY <2>3, <3>1 DEF Send
    <3>2. CASE loop # "exited"
      <4>1. queue' = Append(queue, j) BY <2>3, <3>2 DEF Send
      <4>2. queue' \in Seq(Jobs) BY <4>1
      <4>3. /\ place' = [place EXCEPT ![j] = "queued"]
            /\ uncounted' = uncounted + 1
        BY <2>3, <3>2 DEF Send
      <4>4. UNCHANGED <<tx, loop, permits, outcome, attempts, pending,
                        running, done, failed, current>>
        BY <2>3 DEF Send
      <4> QED BY <4>2, <4>3, <4>4
    <3> QED BY <3>1, <3>2
  <2>4. CASE Dequeue(j) BY <1>1, <2>4 DEF Dequeue
  <2>5. CASE Charge(j) BY <1>1, <2>5 DEF Charge
  <2>6. CASE StartHandler(j) BY <2>6 DEF StartHandler
  <2>7. CASE HandlerOk(j) BY <2>7 DEF HandlerOk
  <2>8. CASE HandlerRetry(j) BY <2>8 DEF HandlerRetry
  <2>9. CASE HandlerFail(j) BY <2>9 DEF HandlerFail
  <2>10. CASE HandlerPanic(j) BY <2>10 DEF HandlerPanic
  <2>11. CASE Tally(j) BY <1>1, <2>11 DEF Tally
  <2>12. CASE Uncharge(j) BY <1>1, <2>12 DEF Uncharge
  <2>13. CASE ReleasePermit(j) BY <2>13 DEF ReleasePermit
  <2>14. CASE Resubmit(j) BY <2>14 DEF Resubmit
  <2> QED
    BY <1>7, <2>1, <2>2, <2>3, <2>4, <2>5, <2>6, <2>7, <2>8, <2>9, <2>10,
       <2>11, <2>12, <2>13, <2>14 DEF RunOne, HandlerReturns
<1>8. CASE UNCHANGED vars BY <1>8 DEF vars
<1> QED
  BY <1>2, <1>3, <1>4, <1>5, <1>6, <1>7, <1>8 DEF Next, ManagementLoop

LEMMA TypeInit == Init => TypeOK
BY DEF Init, TypeOK, PoolSize, Places

\* Every variable of the executor always has its type: in particular attempts
\* never exceeds max_retries and the counters never leave their width.
THEOREM TypeCorrect == Spec => []TypeOK
BY TypeInit, TypeStep, PTL DEF Spec

-----------------------------------------------------------------------------

\* Moving one job changes the number of jobs in a set of places by one at most.
LEMMA CountMove ==
    ASSUME TypeOK, NEW j \in Jobs, NEW from, NEW to, NEW S, Move(j, from, to)
    PROVE  /\ Cardinality(At(S)) \in Nat
           /\ Cardinality(At(S)') =
                Cardinality(At(S)) + (IF to \in S THEN 1 ELSE 0)
                                   - (IF from \in S THEN 1 ELSE 0)
<1>1. IsFiniteSet(At(S)) BY FS_Subset DEF At
<1>2. Cardinality(At(S)) \in Nat BY <1>1, FS_CardinalityType
<1>3. /\ Cardinality(At(S) \cup {j}) =
           IF j \in At(S) THEN Cardinality(At(S)) ELSE Cardinality(At(S)) + 1
      /\ Cardinality(At(S) \ {j}) =
           IF j \in At(S) THEN Cardinality(At(S)) - 1 ELSE Cardinality(At(S))
  BY <1>1, FS_AddElement, FS_RemoveElement
<1>4. /\ from \in S <=> j \in At(S)
      /\ At(S)' = IF to \in S THEN At(S) \cup {j} ELSE At(S) \ {j}
  BY DEF TypeOK, Move, At
<1> QED BY <1>2, <1>3, <1>4

LEMMA PermitsInit == Init => PermitsConserved
<1> SUFFICES ASSUME Init PROVE PermitsConserved
  OBVIOUS
<1>1. At(WithPermit) = {} BY DEF Init, At, WithPermit
<1> QED BY <1>1, FS_EmptySet DEF Init, PermitsConserved, PoolSize

\* A step that takes a permit moves its job into WithPermit, a step that frees
\* one moves its job out, and no other step crosses the border.
LEMMA PermitsStep ==
    TypeOK /\ PermitsConserved /\ [Next]_vars => PermitsConserved'
<1> SUFFICES ASSUME TypeOK, PermitsConserved, [Next]_vars
             PROVE  PermitsConserved'
  OBVIOUS
<1>1. ASSUME UNCHANGED <<permits, place>> PROVE PermitsConserved'
  BY <1>1 DEF PermitsConserved, At
<1>2. ASSUME NEW j \in Jobs, NEW from, NEW to, Move(j, from, to),
             permits' = permits + (IF from \in WithPermit THEN 1 ELSE 0)
                                - (IF to \in WithPermit THEN 1 ELSE 0)
      PROVE  PermitsConserved'
  <2>1. /\ Cardinality(At(WithPermit)) \in Nat
        /\ Cardinality(At(WithPermit)') =
             Cardinality(At(WithPermit))
               + (IF to \in WithPermit THEN 1 ELSE 0)
               - (IF from \in WithPermit THEN 1 ELSE 0)
    BY <1>2, CountMove
  <2>2. Cardinality(At(WithPermit))' = Cardinality(At(WithPermit)')
    OBVIOUS
  <2> QED
    BY <1>2, <2>1, <2>2 DEF PermitsConserved, TypeOK, PoolSize
<1>3. ASSUME NEW j \in Jobs, NEW from \in Places, NEW to \in Places,
             Move(j, from, to), permits' = permits,
             from \in WithPermit <=> to \in WithPermit
      PROVE  PermitsConserved'
  BY <1>2, <1>3 DEF TypeOK
<1>4. ASSUME NEW j \in Jobs, NEW from \in Places, NEW to \in Places,
             Move(j, from, to), permits' = permits + 1,
             from \in WithPermit, to \notin WithPermit
      PROVE  PermitsConserved'
  BY <1>2, <1>4 DEF TypeOK
<1>4a. ASSUME NEW j \in Jobs, NEW from \in Places, NEW to \in Places,
              Move(j, from, to), permits' = permits - 1,
              from \notin WithPermit, to \in WithPermit
       PROVE  PermitsConserved'
  BY <1>2, <1>4a DEF TypeOK
<1>5. CASE Receive
  <2>1. Head(queue) \in Jobs BY <1>5 DEF Receive, TypeOK
  <2>2. Move(Head(queue), "queued", "held") /\ permits' = permits
    BY <1>5 DEF Receive
  <2> QED BY <1>3, <2>1, <2>2 DEF WithPermit, Places
<1>6. CASE Spawn \/ Shutdown \/ LoopExit \/ CountPending \/ UNCHANGED vars
  BY <1>1, <1>6 DEF Spawn, Shutdown, LoopExit, CountPending, vars
<1>7. ASSUME NEW j \in Jobs,
             Acquire(j) \/ Submit(j) \/ Send(j) \/ RunOne(j)
      PROVE  PermitsConserved'
  <2> USE DEF WithPermit, Places
  <2>1. CASE Acquire(j)
    <3>1. Move(j, "held", "spawned") /\ permits' = permits - 1
      BY <2>1 DEF Acquire
    <3> QED BY <1>4a, <3>1
  <2>2. CASE Submit(j)
    <3>1. Move(j, "new", "cloned") \/ Move(j, "new", "refused")
      BY <2>2 DEF Submit
    <3> QED BY <1>3, <2>2, <3>1 DEF Submit
  <2>3. CASE Send(j)
    <3>1. \/ Move(j, "cloned", "queued") \/ Move(j, "cloned", "refused")
          \/ Move(j, "cloned", "dropped")
      BY <2>3 DEF Send
    <3> QED BY <1>3, <2>3, <3>1 DEF Send
  <2>4. CASE Dequeue(j) BY <1>3, <2>4 DEF Dequeue
  <2>5. CASE Charge(j) BY <1>3, <2>5 DEF Charge
  <2>6. CASE StartHandler(j) BY <1>3, <2>6 DEF StartHandler
  <2>7. CASE HandlerReturns(j)
    BY <1>3, <2>7 DEF HandlerReturns, HandlerOk, HandlerRetry, HandlerFail
  <2>8. CASE HandlerPanic(j) BY <1>4, <2>8 DEF HandlerPanic
  <2>9. CASE Tally(j) BY <1>3, <2>9 DEF Tally
  <2>10. CASE Uncharge(j) BY <1>3, <2>10 DEF Uncharge
  <2>11. CASE ReleasePermit(j)
    <3>1. Move(j, "uncharged", "backoff") \/ Move(j, "uncharged", "finished")
      BY <2>11 DEF ReleasePermit
    <3> QED BY <1>4, <2>11, <3>1 DEF ReleasePermit
  <2>12. CASE Resubmit(j)
    <3>1. Move(j, "backoff", "cloned") \/ Move(j, "backoff", "dropped")
      BY <2>12 DEF Resubmit
    <3> QED BY <1>3, <2>12, <3>1 DEF Resubmit
  <2> QED
    BY <1>7, <2>1, <2>2, <2>3, <2>4, <2>5, <2>6, <2>7, <2>8, <2>9, <2>10,
       <2>11, <2>12 DEF RunOne
<1> QED BY <1>5, <1>6, <1>7 DEF Next, ManagementLoop

\* Permits are neither leaked nor invented, whatever the retries, backoffs and
\* unwinding handlers.
THEOREM PermitsSafe == Spec => []PermitsConserved
BY TypeInit, TypeStep, PermitsInit, PermitsStep, PTL DEF Spec

\* Never more jobs than max_concurrent (at least one) have their handler
\* running.
COROLLARY ConcurrencyBounded == Spec => [](Cardinality(At({"handling"})) <= PoolSize)
<1>1. TypeOK /\ PermitsConserved => Cardinality(At({"handling"})) <= PoolSize
  <2> SUFFICES ASSUME TypeOK, PermitsConserved
               PROVE  Cardinality(At({"handling"})) <= PoolSize
    OBVIOUS
  <2>1. IsFiniteSet(At(WithPermit)) BY FS_Subset DEF At
  <2>2. At({"handling"}) \subseteq At(WithPermit) BY DEF At, WithPermit
  <2>3. /\ Cardinality(At({"handling"})) <= Cardinality(At(WithPermit))
        /\ Cardinality(At({"handling"})) \in Nat
        /\ Cardinality(At(WithPermit)) \in Nat
    BY <2>1, <2>2, FS_Subset, FS_CardinalityType
  <2> QED BY <2>3 DEF PermitsConserved, TypeOK, PoolSize
<1> QED BY <1>1, TypeCorrect, PermitsSafe, PTL

-----------------------------------------------------------------------------

\* Once the loop is gone nobody can become a sender any more: without this a
\* submission after the exit would find neither a receiver nor an error.
Delivered == DeliveredOnce /\ (loop = "exited" => ~tx)

LEMMA DeliveredInit == Init => Delivered
BY DEF Init, Delivered, DeliveredOnce, At

\* A job that moves neither into nor out of the channel or the loop's hands
\* changes nothing, given that a sender is only cloned while there is one.
LEMMA MoveElsewhere ==
    ASSUME TypeOK, Delivered, NEW j \in Jobs, NEW from, NEW to,
           Move(j, from, to), UNCHANGED <<tx, loop, queue>>,
           from \notin {"queued", "held"}, to \notin {"queued", "held"},
           to = "cloned" => tx
    PROVE  Delivered'
<1>1. \A k \in Jobs : /\ place'[k] = "queued" <=> place[k] = "queued"
                      /\ place'[k] = "held" <=> place[k] = "held"
                      /\ place'[k] = "cloned" => place[k] = "cloned" \/ tx
  BY DEF Move, TypeOK
<1>2. At({"held"})' = At({"held"}) BY <1>1 DEF At
<1>3. loop = "exited" =>
        At({"cloned", "queued", "held"})' \subseteq At({"cloned", "queued", "held"})
  BY <1>1 DEF At, Delivered
<1> QED BY <1>1, <1>2, <1>3 DEF Delivered, DeliveredOnce

\* A job that is sent was not in the channel, and is its last element now.
LEMMA SendDelivers ==
    ASSUME TypeOK, Delivered, NEW j \in Jobs, Send(j) PROVE Delivered'
<1>1. CASE loop = "exited"
  <2>1. /\ Move(j, "cloned", "refused") \/ Move(j, "cloned", "dropped")
        /\ UNCHANGED <<tx, loop, queue>>
    BY <1>1 DEF Send
  <2> QED BY <2>1, MoveElsewhere
<1>2. CASE loop # "exited"
  <2>1. /\ place[j] = "cloned"
        /\ place' = [place EXCEPT ![j] = "queued"]
        /\ queue' = Append(queue, j)
        /\ UNCHANGED <<tx, loop>>
    BY <1>2 DEF Send, Move
  <2>2. /\ DOMAIN queue = 1 .. Len(queue)
        /\ DOMAIN queue' = 1 .. Len(queue) + 1
        /\ \A i \in DOMAIN queue : queue'[i] = queue[i]
        /\ queue'[Len(queue) + 1] = j
        /\ Len(queue) \in Nat
    BY <2>1 DEF TypeOK
  <2>3. \A i \in DOMAIN queue : queue[i] # j
    BY <2>1 DEF Delivered, DeliveredOnce
  <2>4. /\ place'[j] = "queued"
        /\ \A k \in Jobs : k # j => place'[k] = place[k]
    BY <2>1 DEF TypeOK
  <2>5. \A k \in Jobs :
          place'[k] = "queued" <=> \E i \in DOMAIN queue' : queue'[i] = k
    BY <2>2, <2>4 DEF Delivered, DeliveredOnce
  <2>6. \A i, k \in DOMAIN queue' : queue'[i] = queue'[k] => i = k
    BY <2>2, <2>3 DEF Delivered, DeliveredOnce
  <2>7. At({"held"})' = At({"held"}) BY <2>1, <2>4 DEF At
  <2> QED BY <1>2, <2>1, <2>5, <2>6, <2>7 DEF Delivered, DeliveredOnce
<1> QED BY <1>1, <1>2

\* What the loop takes out of the channel was there once, and is now the one
\* task it holds.
LEMMA ReceiveDelivers ==
    ASSUME TypeOK, Delivered, Receive PROVE Delivered'
<1> DEFINE h == Head(queue)
<1>1. /\ loop = "recv" /\ loop' = "acquire"
      /\ place' = [place EXCEPT ![h] = "held"]
      /\ queue # << >> /\ queue' = Tail(queue) /\ queue \in Seq(Jobs)
      /\ UNCHANGED tx
  BY DEF Receive, Move, TypeOK
<1>2. /\ Len(queue) \in Nat \ {0}
      /\ DOMAIN queue = 1 .. Len(queue)
      /\ DOMAIN queue' = 1 .. Len(queue) - 1
      /\ \A i \in DOMAIN queue' : i + 1 \in DOMAIN queue /\ queue'[i] = queue[i + 1]
      /\ \A i \in DOMAIN queue : i = 1 \/ i - 1 \in DOMAIN queue'
      /\ 1 \in DOMAIN queue /\ h = queue[1] /\ h \in Jobs
  BY <1>1
<1> HIDE DEF h
<1>3. /\ place'[h] = "held"
      /\ \A k \in Jobs : k # h => place'[k] = place[k]
  BY <1>1, <1>2 DEF TypeOK
<1>4. \A k \in Jobs :
        (\E i \in DOMAIN queue' : queue'[i] = k)
          <=> k # h /\ \E i \in DOMAIN queue : queue[i] = k
  <2> SUFFICES ASSUME NEW k \in Jobs
               PROVE  (\E i \in DOMAIN queue' : queue'[i] = k)
                        <=> k # h /\ \E i \in DOMAIN queue : queue[i] = k
    OBVIOUS
  <2>1. ASSUME NEW i \in DOMAIN queue', queue'[i] = k
        PROVE  k # h /\ \E n \in DOMAIN queue : queue[n] = k
    <3>1. /\ i + 1 \in DOMAIN queue /\ queue[i + 1] = k /\ i + 1 # 1
      BY <2>1, <1>2
    <3> QED BY <3>1, <1>2 DEF Delivered, DeliveredOnce
  <2>2. ASSUME k # h, NEW i \in DOMAIN queue, queue[i] = k
        PROVE  \E n \in DOMAIN queue' : queue'[n] = k
    <3>1. i # 1 BY <2>2, <1>2
    <3>2. i - 1 \in DOMAIN queue' /\ (i - 1) + 1 = i BY <3>1, <1>2
    <3>3. queue'[i - 1] = queue[i] BY <3>2, <1>2
    <3> QED BY <3>2, <3>3, <2>2
  <2> QED BY <2>1, <2>2
<1>5. \A k \in Jobs :
        place'[k] = "queued" <=> \E i \in DOMAIN queue' : queue'[i] = k
  BY <1>3, <1>4 DEF Delivered, DeliveredOnce
<1>6. \A i, k \in DOMAIN queue' : queue'[i] = queue'[k] => i = k
  <2> SUFFICES ASSUME NEW i \in DOMAIN queue', NEW k \in DOMAIN queue',
                      queue'[i] = queue'[k]
               PROVE  i = k
    OBVIOUS
  <2>1. i + 1 = k + 1 BY <1>2 DEF Delivered, DeliveredOnce
  <2> QED BY <2>1, <1>2
<1>7. At({"held"}) = {} BY <1>1 DEF Delivered, DeliveredOnce
<1>8. At({"held"})' = {h} BY <1>2, <1>3, <1>7 DEF At
<1> QED BY <1>1, <1>5, <1>6, <1>8 DEF Delivered, DeliveredOnce

\* The loop hands on the only task it holds.
LEMMA AcquireDelivers ==
    ASSUME TypeOK, Delivered, NEW j \in Jobs, Acquire(j) PROVE Delivered'
<1>1. /\ loop = "acquire" /\ loop' = "recv"
      /\ place[j] = "held" /\ place' = [place EXCEPT ![j] = "spawned"]
      /\ UNCHANGED <<tx, queue>>
  BY DEF Acquire, Move
<1>2. \A k \in Jobs : /\ place'[k] = "queued" <=> place[k] = "queued"
                      /\ place'[k] = "held" <=> place[k] = "held" /\ k # j
  BY <1>1 DEF TypeOK
<1>3. At({"held"})' = {}
  BY <1>1, <1>2 DEF At, Delivered, DeliveredOnce
<1> QED BY <1>1, <1>2, <1>3 DEF Delivered, DeliveredOnce

LEMMA DeliveredStep == TypeOK /\ Delivered /\ [Next]_vars => Delivered'
<1> SUFFICES ASSUME TypeOK, Delivered, [Next]_vars PROVE Delivered'
  OBVIOUS
<1>1. CASE Spawn BY <1>1 DEF Spawn, Delivered, DeliveredOnce, At
<1>2. CASE Shutdown BY <1>2 DEF Shutdown, Delivered, DeliveredOnce, At
<1>3. CASE LoopExit
  <2>1. /\ loop = "recv" /\ loop' = "exited" /\ queue = << >> /\ ~tx
        /\ UNCHANGED <<tx, queue, place>>
        /\ \A j \in Jobs : place[j] # "cloned"
    BY <1>3 DEF LoopExit
  <2>2. \A j \in Jobs : place[j] # "queued"
    BY <2>1 DEF Delivered, DeliveredOnce
  <2>3. At({"cloned", "queued", "held"})' = {} /\ At({"held"})' = {}
    BY <2>1, <2>2 DEF Delivered, DeliveredOnce, At
  <2> QED BY <2>1, <2>3 DEF Delivered, DeliveredOnce
<1>4. CASE CountPending \/ UNCHANGED vars
  BY <1>4 DEF CountPending, vars, Delivered, DeliveredOnce, At
<1>5. ASSUME NEW j \in Jobs, Submit(j) \/ RunOne(j) PROVE Delivered'
  <2>1. CASE Submit(j) \/ Resubmit(j)
    <3>1. \/ Move(j, "new", "cloned") /\ tx
          \/ Move(j, "new", "refused")
          \/ Move(j, "backoff", "cloned") /\ tx
          \/ Move(j, "backoff", "dropped")
      BY <2>1 DEF Submit, Resubmit
    <3>2. UNCHANGED <<tx, loop, queue>> BY <2>1 DEF Submit, Resubmit
    <3> QED BY <3>1, <3>2, MoveElsewhere
  <2>2. CASE Dequeue(j) BY <2>2, MoveElsewhere DEF Dequeue
  <2>3. CASE Charge(j) BY <2>3, MoveElsewhere DEF Charge
  <2>4. CASE StartHandler(j) BY <2>4, MoveElsewhere DEF StartHandler
  <2>5. CASE HandlerReturns(j)
    BY <2>5, MoveElsewhere
       DEF HandlerReturns, HandlerOk, HandlerRetry, HandlerFail
  <2>6. CASE HandlerPanic(j) BY <2>6, MoveElsewhere DEF HandlerPanic
  <2>7. CASE Tally(j) BY <2>7, MoveElsewhere DEF Tally
  <2>8. CASE Uncharge(j) BY <2>8, MoveElsewhere DEF Uncharge
  <2>9. CASE ReleasePermit(j)
    <3>1. Move(j, "uncharged", "backoff") \/ Move(j, "uncharged", "finished")
      BY <2>9 DEF ReleasePermit
    <3>2. UNCHANGED <<tx, loop, queue>> BY <2>9 DEF ReleasePermit
    <3> QED BY <3>1, <3>2, MoveElsewhere
  <2> QED
    BY <1>5, <2>1, <2>2, <2>3, <2>4, <2>5, <2>6, <2>7, <2>8, <2>9 DEF RunOne
<1> QED
  BY <1>1, <1>2, <1>3, <1>4, <1>5, SendDelivers, ReceiveDelivers,
     AcquireDelivers DEF Next, ManagementLoop

\* No accepted task is lost or handed out twice between submit and run_one, and
\* a shutdown's loop drains the channel before it goes, for any number of
\* submissions and however the senders' clones outlive the executor's own.
THEOREM TasksDeliveredOnce == Spec => []DeliveredOnce
<1>1. Spec => []Delivered
  BY TypeInit, TypeStep, DeliveredInit, DeliveredStep, PTL DEF Spec
<1>2. Delivered => DeliveredOnce BY DEF Delivered
<1> QED BY <1>1, <1>2, PTL

-----------------------------------------------------------------------------

\* Division with remainder, of which the provers know no more than this.
LEMMA Remainder ==
    ASSUME NEW M \in Nat \ {0}, NEW n \in Int
    PROVE  /\ n % M \in 0 .. M - 1
           /\ n \div M \in Int
           /\ n = M * (n \div M) + (n % M)
OBVIOUS

LEMMA RemainderUnique ==
    ASSUME NEW M \in Nat \ {0}, NEW q \in Int, NEW r \in 0 .. M - 1
    PROVE  (M * q + r) % M = r
OBVIOUS

\* A counter that wraps agrees with what it counts, before and after.
LEMMA CounterFollows ==
    ASSUME NEW n \in Int, NEW c, c = n % CounterModulus
    PROVE  /\ FetchAdd(c) = (n + 1) % CounterModulus
           /\ FetchSub(c) = (n - 1) % CounterModulus
<1> DEFINE M == CounterModulus
           q == n \div M
           b == M * q
<1>1. M \in Nat \ {0} /\ c \in 0 .. M - 1 /\ q \in Int /\ n = b + c
  BY Remainder
<1> HIDE DEF M, q
<1>2. b \in Int /\ M * (q + 1) = b + M /\ M * (q - 1) = b - M /\ M * 0 = 0 /\ M * 1 = M
  BY <1>1
<1>3. ASSUME NEW r \in 0 .. M - 1
      PROVE  /\ (b + r) % M = r /\ (b + M + r) % M = r /\ (b - M + r) % M = r
             /\ (0 + r) % M = r /\ (M + r) % M = r
  <2>1. (M * q + r) % M = r BY <1>1, RemainderUnique
  <2>2. (M * (q + 1) + r) % M = r
    <3>1. PICK k \in Int : k = q + 1 BY <1>1
    <3>2. (M * k + r) % M = r BY <1>1, RemainderUnique
    <3> QED BY <3>1, <3>2
  <2>3. (M * (q - 1) + r) % M = r
    <3>1. PICK k \in Int : k = q - 1 BY <1>1
    <3>2. (M * k + r) % M = r BY <1>1, RemainderUnique
    <3> QED BY <3>1, <3>2
  <2>4. (M * 0 + r) % M = r BY <1>1, RemainderUnique
  <2>5. (M * 1 + r) % M = r BY <1>1, RemainderUnique
  <2> QED BY <1>2, <2>1, <2>2, <2>3, <2>4, <2>5
<1> HIDE DEF b
<1>4. (c + 1) % M = (n + 1) % M
  <2>1. CASE c = M - 1
    <3>1. n + 1 = b + M + 0 /\ c + 1 = M + 0 /\ 0 \in 0 .. M - 1 BY <1>1, <1>2, <2>1
    <3> QED BY <3>1, <1>3
  <2>2. CASE c # M - 1
    <3>1. n + 1 = b + (c + 1) /\ c + 1 = 0 + (c + 1) /\ c + 1 \in 0 .. M - 1
      BY <1>1, <1>2, <2>2
    <3> QED BY <3>1, <1>3
  <2> QED BY <2>1, <2>2
<1>5. (c + M - 1) % M = (n - 1) % M
  <2>1. CASE c = 0
    <3>1. /\ n - 1 = b - M + (M - 1) /\ c + M - 1 = 0 + (M - 1)
          /\ M - 1 \in 0 .. M - 1
      BY <1>1, <1>2, <2>1
    <3> QED BY <3>1, <1>3
  <2>2. CASE c # 0
    <3>1. n - 1 = b + (c - 1) /\ c + M - 1 = M + (c - 1) /\ c - 1 \in 0 .. M - 1
      BY <1>1, <1>2, <2>2
    <3> QED BY <3>1, <1>3
  <2> QED BY <2>1, <2>2
<1> QED BY <1>4, <1>5 DEF FetchAdd, FetchSub, M

\* The parts of StatusAgrees: the backlog, the executions, what is shown.
Backlog == {"queued", "held", "spawned"}

Executing == Charged \cup {"panicked"}

PendingAgrees ==
    pending = (Cardinality(At(Backlog)) - uncounted) % CounterModulus

RunningAgrees == running = Cardinality(At(Executing)) % CounterModulus

ShownRuns ==
    \A t \in TaskIds : current[t] = "processing" =>
        \E j \in Jobs : TaskOf[j] = t /\ place[j] \in {"handling", "panicked"}

LEMMA StatusParts == StatusAgrees <=> PendingAgrees /\ RunningAgrees /\ ShownRuns
BY DEF StatusAgrees, PendingAgrees, RunningAgrees, ShownRuns, Backlog, Executing

LEMMA StatusInit == Init => PendingAgrees /\ RunningAgrees /\ ShownRuns
<1> SUFFICES ASSUME Init PROVE PendingAgrees /\ RunningAgrees /\ ShownRuns
  OBVIOUS
<1>1. At(Backlog) = {} /\ At(Executing) = {}
  BY DEF Init, At, Backlog, Executing, Charged
<1>2. 0 % CounterModulus = 0
  <2>1. (CounterModulus * 0 + 0) % CounterModulus = 0 BY RemainderUnique
  <2> QED BY <2>1
<1> QED
  BY <1>1, <1>2, FS_EmptySet
     DEF Init, PendingAgrees, RunningAgrees, ShownRuns

\* The backlog counter when one job moves: what the places and the sends not yet
\* counted make of the backlog is what the counter does.
LEMMA PendingMove ==
    ASSUME TypeOK, PendingAgrees, NEW j \in Jobs, NEW from, NEW to,
           Move(j, from, to), uncounted' \in Nat,
           NEW change \in {-1, 0, 1},
           (IF to \in Backlog THEN 1 ELSE 0) - (IF from \in Backlog THEN 1 ELSE 0)
             = change + (uncounted' - uncounted),
           pending' = CASE change = 1 -> FetchAdd(pending)
                        [] change = -1 -> FetchSub(pending)
                        [] change = 0 -> pending
    PROVE  PendingAgrees'
<1> DEFINE n == Cardinality(At(Backlog)) - uncounted
<1>1. /\ Cardinality(At(Backlog)) \in Nat
      /\ Cardinality(At(Backlog)') =
           Cardinality(At(Backlog)) + (IF to \in Backlog THEN 1 ELSE 0)
                                    - (IF from \in Backlog THEN 1 ELSE 0)
  BY CountMove
<1>2. n \in Int /\ Cardinality(At(Backlog)') - uncounted' = n + change
  <2>1. uncounted \in Nat BY DEF TypeOK
  <2> QED BY <1>1, <2>1
<1>3. pending = n % CounterModulus BY DEF PendingAgrees
<1> HIDE DEF n
<1>4. pending' = (n + change) % CounterModulus
  <2>1. /\ FetchAdd(pending) = (n + 1) % CounterModulus
        /\ FetchSub(pending) = (n - 1) % CounterModulus
    BY <1>2, <1>3, CounterFollows
  <2>2. CASE change = 1 BY <2>1, <2>2
  <2>3. CASE change = -1 BY <1>2, <2>1, <2>3
  <2>4. CASE change = 0 BY <1>2, <1>3, <2>4
  <2> QED BY <2>2, <2>3, <2>4
<1>5. (Cardinality(At(Backlog)) - uncounted)' = n + change BY <1>2
<1> QED BY <1>4, <1>5 DEF PendingAgrees

LEMMA RunningMove ==
    ASSUME TypeOK, RunningAgrees, NEW j \in Jobs, NEW from, NEW to,
           Move(j, from, to),
           NEW change \in {-1, 0, 1},
           (IF to \in Executing THEN 1 ELSE 0) - (IF from \in Executing THEN 1 ELSE 0)
             = change,
           running' = CASE change = 1 -> FetchAdd(running)
                        [] change = -1 -> FetchSub(running)
                        [] change = 0 -> running
    PROVE  RunningAgrees'
<1> DEFINE n == Cardinality(At(Executing))
<1>1. n \in Nat /\ Cardinality(At(Executing)') = n + change
  BY CountMove
<1>2. running = n % CounterModulus BY DEF RunningAgrees
<1> HIDE DEF n
<1>3. running' = (n + change) % CounterModulus
  <2>1. /\ FetchAdd(running) = (n + 1) % CounterModulus
        /\ FetchSub(running) = (n - 1) % CounterModulus
    BY <1>1, <1>2, CounterFollows
  <2>2. CASE change = 1 BY <2>1, <2>2
  <2>3. CASE change = -1 BY <1>1, <2>1, <2>3
  <2>4. CASE change = 0 BY <1>1, <1>2, <2>4
  <2> QED BY <2>2, <2>3, <2>4
<1>4. Cardinality(At(Executing))' = n + change BY <1>1
<1> QED BY <1>3, <1>4 DEF RunningAgrees

\* What is shown stays backed by a job when the job that moves keeps on handling
\* or its own id is shown as something else.
LEMMA ShownMove ==
    ASSUME TypeOK, ShownRuns, NEW j \in Jobs, NEW from, NEW to, Move(j, from, to),
           \A t \in TaskIds :
             current'[t] = "processing" => current[t] = "processing" \/ t = TaskOf[j],
           \/ to \in {"handling", "panicked"}
           \/ from \notin {"handling", "panicked"} /\ current' = current
           \/ current'[TaskOf[j]] # "processing"
    PROVE  ShownRuns'
<1> SUFFICES ASSUME NEW t \in TaskIds, current'[t] = "processing"
             PROVE  \E k \in Jobs :
                      TaskOf[k] = t /\ place'[k] \in {"handling", "panicked"}
  BY DEF ShownRuns
<1>1. /\ place[j] = from /\ place'[j] = to
      /\ \A k \in Jobs : k # j => place'[k] = place[k]
  BY DEF Move, TypeOK
<1>2. CASE to \in {"handling", "panicked"}
  <2>1. CASE t = TaskOf[j] BY <1>1, <1>2, <2>1
  <2>2. CASE t # TaskOf[j]
    <3>1. PICK k \in Jobs : TaskOf[k] = t /\ place[k] \in {"handling", "panicked"}
      BY <2>2 DEF ShownRuns
    <3> QED BY <1>1, <2>2, <3>1
  <2> QED BY <2>1, <2>2
<1>3. CASE from \notin {"handling", "panicked"} /\ current' = current
  <2>1. PICK k \in Jobs : TaskOf[k] = t /\ place[k] \in {"handling", "panicked"}
    BY <1>3 DEF ShownRuns
  <2> QED BY <1>1, <1>3, <2>1
<1>4. CASE current'[TaskOf[j]] # "processing"
  <2>1. t # TaskOf[j] BY <1>4
  <2>2. PICK k \in Jobs : TaskOf[k] = t /\ place[k] \in {"handling", "panicked"}
    BY <2>1 DEF ShownRuns
  <2> QED BY <1>1, <2>1, <2>2
<1> QED BY <1>2, <1>3, <1>4

\* A job that moves and changes no counter, nor what is shown, within or outside
\* of what each counter counts.
LEMMA StatusSteady ==
    ASSUME TypeOK, PendingAgrees, RunningAgrees, ShownRuns,
           NEW j \in Jobs, NEW from, NEW to, Move(j, from, to),
           UNCHANGED <<uncounted, pending, running, current>>,
           to \in Backlog <=> from \in Backlog,
           to \in Executing <=> from \in Executing,
           from = "handling" => to = "panicked", from # "panicked"
    PROVE  PendingAgrees' /\ RunningAgrees' /\ ShownRuns'
<1>1. uncounted \in Nat BY DEF TypeOK
<1>2. PendingAgrees' BY <1>1, PendingMove, 0 \in {-1, 0, 1}
<1>3. RunningAgrees' BY RunningMove, 0 \in {-1, 0, 1}
<1>4. ShownRuns' BY ShownMove
<1> QED BY <1>2, <1>3, <1>4

\* A handler returns: its job was shown as processing, and is no more.
LEMMA StatusReturned ==
    ASSUME TypeOK, PendingAgrees, RunningAgrees, ShownRuns,
           NEW j \in Jobs, Move(j, "handling", "returned"),
           NEW shown \in {"pending", "done", "failed"},
           current' = [current EXCEPT ![TaskOf[j]] = shown],
           UNCHANGED <<uncounted, pending, running>>
    PROVE  PendingAgrees' /\ RunningAgrees' /\ ShownRuns'
<1>1. uncounted \in Nat BY DEF TypeOK
<1>2. PendingAgrees' BY <1>1, PendingMove, 0 \in {-1, 0, 1} DEF Backlog
<1>3. RunningAgrees' BY RunningMove, 0 \in {-1, 0, 1} DEF Executing, Charged
<1>4. /\ current'[TaskOf[j]] # "processing"
      /\ \A t \in TaskIds : current'[t] = "processing" => current[t] = "processing"
  BY DEF TypeOK
<1>5. ShownRuns' BY <1>4, ShownMove
<1> QED BY <1>2, <1>3, <1>5

LEMMA StatusStep ==
    TypeOK /\ PendingAgrees /\ RunningAgrees /\ ShownRuns /\ [Next]_vars
        => PendingAgrees' /\ RunningAgrees' /\ ShownRuns'
<1> SUFFICES ASSUME TypeOK, PendingAgrees, RunningAgrees, ShownRuns, [Next]_vars
             PROVE  PendingAgrees' /\ RunningAgrees' /\ ShownRuns'
  OBVIOUS
<1> DEFINE Agree == PendingAgrees /\ RunningAgrees /\ ShownRuns
<1>t. uncounted \in Nat /\ current \in [TaskIds -> TaskState \cup {"absent"}]
  BY DEF TypeOK
<1>1. ASSUME UNCHANGED <<uncounted, pending, running, current, place>> PROVE Agree'
  BY <1>1 DEF PendingAgrees, RunningAgrees, ShownRuns, At
<1>2. CASE Spawn \/ Shutdown \/ LoopExit \/ UNCHANGED vars
  BY <1>1, <1>2 DEF Spawn, Shutdown, LoopExit, vars, counters
<1>3. CASE CountPending
  <2>1. /\ uncounted' = uncounted - 1 /\ pending' = FetchAdd(pending)
        /\ UNCHANGED <<place, running, current>>
    BY <1>3 DEF CountPending
  <2>2. At(Backlog)' = At(Backlog) /\ Cardinality(At(Backlog)) \in Nat
    <3>1. IsFiniteSet(At(Backlog)) BY FS_Subset DEF At
    <3> QED BY <2>1, <3>1, FS_CardinalityType DEF At
  <2>3. PICK n \in Int : n = Cardinality(At(Backlog)) - uncounted
    BY <1>t, <2>2
  <2>4. pending' = (n + 1) % CounterModulus
    BY <2>1, <2>3, CounterFollows DEF PendingAgrees
  <2>5. (Cardinality(At(Backlog)) - uncounted)' = n + 1 BY <1>t, <2>1, <2>2, <2>3
  <2>6. PendingAgrees' BY <2>4, <2>5 DEF PendingAgrees
  <2> QED BY <2>1, <2>6 DEF RunningAgrees, ShownRuns, At
<1>4. CASE Receive
  <2>1. Head(queue) \in Jobs BY <1>4 DEF Receive, TypeOK
  <2>2. /\ Move(Head(queue), "queued", "held")
        /\ UNCHANGED <<uncounted, pending, running, current>>
    BY <1>4 DEF Receive, counters
  <2> QED BY <2>1, <2>2, StatusSteady DEF Backlog, Executing, Charged
<1>5. ASSUME NEW j \in Jobs, Acquire(j) \/ Submit(j) \/ Send(j) \/ RunOne(j)
      PROVE  Agree'
  <2> DEFINE Kept == UNCHANGED <<uncounted, pending, running, current>>
  <2>1. CASE Acquire(j)
    <3>1. Move(j, "held", "spawned") /\ Kept BY <2>1 DEF Acquire, counters
    <3> QED BY <3>1, StatusSteady DEF Backlog, Executing, Charged
  <2>2. CASE Submit(j) \/ Resubmit(j)
    <3>1. /\ \/ Move(j, "new", "cloned") \/ Move(j, "new", "refused")
             \/ Move(j, "backoff", "cloned") \/ Move(j, "backoff", "dropped")
          /\ Kept
      BY <2>2 DEF Submit, Resubmit, counters
    <3> QED BY <3>1, StatusSteady DEF Backlog, Executing, Charged
  <2>3. CASE Send(j)
    <3>1. CASE loop = "exited"
      <4>1. (Move(j, "cloned", "refused") \/ Move(j, "cloned", "dropped")) /\ Kept
        BY <2>3, <3>1 DEF Send, counters
      <4> QED BY <4>1, StatusSteady DEF Backlog, Executing, Charged
    <3>2. CASE loop # "exited"
      <4>1. /\ Move(j, "cloned", "queued") /\ uncounted' = uncounted + 1
            /\ UNCHANGED <<pending, running, current>>
        BY <2>3, <3>2 DEF Send, counters
      <4>2. PendingAgrees'
        BY <1>t, <4>1, PendingMove, 0 \in {-1, 0, 1} DEF Backlog
      <4>3. RunningAgrees'
        BY <4>1, RunningMove, 0 \in {-1, 0, 1} DEF Executing, Charged
      <4>4. ShownRuns' BY <4>1, ShownMove
      <4> QED BY <4>2, <4>3, <4>4
    <3> QED BY <3>1, <3>2
  <2>4. CASE Dequeue(j)
    <3>1. /\ Move(j, "spawned", "dequeued") /\ pending' = FetchSub(pending)
          /\ UNCHANGED <<uncounted, running, current>>
      BY <2>4 DEF Dequeue
    <3>2. PendingAgrees' BY <1>t, <3>1, PendingMove, -1 \in {-1, 0, 1} DEF Backlog
    <3>3. RunningAgrees'
      BY <3>1, RunningMove, 0 \in {-1, 0, 1} DEF Executing, Charged
    <3>4. ShownRuns' BY <3>1, ShownMove
    <3> QED BY <3>2, <3>3, <3>4
  <2>5. CASE Charge(j)
    <3>1. /\ Move(j, "dequeued", "charged") /\ running' = FetchAdd(running)
          /\ UNCHANGED <<uncounted, pending, current>>
      BY <2>5 DEF Charge
    <3>2. PendingAgrees' BY <1>t, <3>1, PendingMove, 0 \in {-1, 0, 1} DEF Backlog
    <3>3. RunningAgrees'
      BY <3>1, RunningMove, 1 \in {-1, 0, 1} DEF Executing, Charged
    <3>4. ShownRuns' BY <3>1, ShownMove
    <3> QED BY <3>2, <3>3, <3>4
  <2>6. CASE StartHandler(j)
    <3>1. /\ Move(j, "charged", "handling")
          /\ current' = [current EXCEPT ![TaskOf[j]] = "processing"]
          /\ UNCHANGED <<uncounted, pending, running>>
      BY <2>6 DEF StartHandler, counters
    <3>2. PendingAgrees' BY <1>t, <3>1, PendingMove, 0 \in {-1, 0, 1} DEF Backlog
    <3>3. RunningAgrees'
      BY <3>1, RunningMove, 0 \in {-1, 0, 1} DEF Executing, Charged
    <3>4. \A t \in TaskIds :
            current'[t] = "processing" => current[t] = "processing" \/ t = TaskOf[j]
      BY <1>t, <3>1
    <3>5. ShownRuns' BY <3>1, <3>4, ShownMove
    <3> QED BY <3>2, <3>3, <3>5
  <2>7. CASE HandlerReturns(j)
    <3>1. PICK shown \in {"pending", "done", "failed"} :
            /\ Move(j, "handling", "returned")
            /\ current' = [current EXCEPT ![TaskOf[j]] = shown]
            /\ UNCHANGED <<uncounted, pending, running>>
      BY <2>7 DEF HandlerReturns, HandlerOk, HandlerRetry, HandlerFail, counters
    <3> QED BY <3>1, StatusReturned
  <2>8. CASE HandlerPanic(j)
    <3>1. Move(j, "handling", "panicked") /\ Kept
      BY <2>8 DEF HandlerPanic, counters
    <3> QED BY <3>1, StatusSteady DEF Backlog, Executing, Charged
  <2>9. CASE Tally(j)
    <3>1. Move(j, "returned", "tallied") /\ Kept BY <2>9 DEF Tally
    <3> QED BY <3>1, StatusSteady DEF Backlog, Executing, Charged
  <2>10. CASE Uncharge(j)
    <3>1. /\ Move(j, "tallied", "uncharged") /\ running' = FetchSub(running)
          /\ UNCHANGED <<uncounted, pending, current>>
      BY <2>10 DEF Uncharge
    <3>2. PendingAgrees' BY <1>t, <3>1, PendingMove, 0 \in {-1, 0, 1} DEF Backlog
    <3>3. RunningAgrees'
      BY <3>1, RunningMove, -1 \in {-1, 0, 1} DEF Executing, Charged
    <3>4. ShownRuns' BY <3>1, ShownMove
    <3> QED BY <3>2, <3>3, <3>4
  <2>11. CASE ReleasePermit(j)
    <3>1. /\ Move(j, "uncharged", "backoff") \/ Move(j, "uncharged", "finished")
          /\ Kept
      BY <2>11 DEF ReleasePermit, counters
    <3> QED BY <3>1, StatusSteady DEF Backlog, Executing, Charged
  <2> QED
    BY <1>5, <2>1, <2>2, <2>3, <2>4, <2>5, <2>6, <2>7, <2>8, <2>9, <2>10, <2>11
       DEF RunOne
<1> QED BY <1>2, <1>3, <1>4, <1>5 DEF Next, ManagementLoop

\* What the executor reports is right for any number of submissions and any width
\* of its counters: the backlog is off by the sends not yet counted and no more,
\* wrapped around or not, nothing that runs goes uncounted, and what is shown as
\* processing has a handler that runs or unwound.
THEOREM StatusIsTrue == Spec => []StatusAgrees
<1>1. Spec => [](PendingAgrees /\ RunningAgrees /\ ShownRuns)
  BY TypeInit, TypeStep, StatusInit, StatusStep, PTL DEF Spec
<1> QED BY <1>1, StatusParts, PTL

=============================================================================
