------------------------ MODULE DocumentCommitProofs ------------------------
(***************************************************************************)
(* DocumentCommit for any documents, requests and bounds: its types; where *)
(* writes fail but the process does not end and no chunk is invalid, that  *)
(* commits and deletions are atomic; where no chunk is edited, that no     *)
(* fault and no crash brings back what was deleted; and where no count is  *)
(* released and edits are made alone, that the totals, the rows and the    *)
(* index agree between operations, whichever writes failed.                *)
(***************************************************************************)
EXTENDS DocumentCommit, FiniteSetTheorems, WellFoundedInduction, TLAPS

-----------------------------------------------------------------------------
(* Sums of counts: SumFunction over a finite set *)

\* Induction with a set in the place of a predicate.
LEMMA NatSetInduction ==
    ASSUME NEW N, 0 \in N, \A n \in Nat : n \in N => n + 1 \in N
    PROVE  Nat \subseteq N
<1> SUFFICES ASSUME Nat \ N # {} PROVE FALSE
  OBVIOUS
<1>1. PICK n \in Nat \ N : \A m \in Nat \ N : <<m, n>> \notin OpToRel(<, Nat)
  BY NatLessThanWellFounded, WFMin
<1>2. \A m \in Nat \ N : ~(m < n) BY <1>1 DEF OpToRel
<1>3. n # 0 OBVIOUS
<1>4. PICK m \in Nat : n = m + 1 BY <1>3
<1>5. m \in N BY <1>2, <1>4
<1> QED BY <1>4, <1>5

\* The equation of the recursive function that sums f, on the sets in D.
Sums(f, D, g) ==
    g = [s \in D |-> IF s = {} THEN 0
                     ELSE LET c == CHOOSE x \in s : TRUE IN f[c] + g[s \ {c}]]

\* The subsets of S with at most n elements.
UpTo(S, n) == {s \in SUBSET S : Cardinality(s) <= n}

\* Such a function exists on the subsets of a finite set.
LEMMA SumsExist ==
    ASSUME NEW S, IsFiniteSet(S), NEW f
    PROVE  \E g : Sums(f, SUBSET S, g)
<1> DEFINE N == {n \in Nat : \E g : Sums(f, UpTo(S, n), g)}
<1>0. \A s \in SUBSET S : IsFiniteSet(s) /\ Cardinality(s) \in Nat
  BY FS_Subset, FS_CardinalityType
<1>1. 0 \in N
  <2>1. UpTo(S, 0) = {{}} BY <1>0, FS_EmptySet DEF UpTo
  <2>2. Sums(f, UpTo(S, 0), [s \in {{}} |-> 0]) BY <2>1 DEF Sums
  <2> QED BY <2>2
<1>2. ASSUME NEW n \in Nat, n \in N PROVE n + 1 \in N
  <2>1. PICK g : Sums(f, UpTo(S, n), g) BY <1>2
  <2> DEFINE h == [s \in UpTo(S, n + 1) |->
                     IF s = {} THEN 0
                     ELSE LET c == CHOOSE x \in s : TRUE IN f[c] + g[s \ {c}]]
  <2>2. ASSUME NEW s \in UpTo(S, n) PROVE s \in UpTo(S, n + 1) /\ h[s] = g[s]
    <3>1. s \in UpTo(S, n + 1) BY <1>0 DEF UpTo
    <3>2. g[s] = IF s = {} THEN 0
                 ELSE LET c == CHOOSE x \in s : TRUE IN f[c] + g[s \ {c}]
      BY <2>1 DEF Sums
    <3> QED BY <3>1, <3>2
  <2>3. ASSUME NEW s \in UpTo(S, n + 1), s # {}, NEW x \in s
        PROVE  s \ {x} \in UpTo(S, n)
    <3>1. /\ IsFiniteSet(s) /\ Cardinality(s) \in Nat /\ Cardinality(s) <= n + 1
          /\ Cardinality(s \ {x}) = Cardinality(s) - 1
      BY <1>0, <2>3, FS_RemoveElement DEF UpTo
    <3> QED BY <3>1 DEF UpTo
  <2>4. h = [s \in UpTo(S, n + 1) |->
               IF s = {} THEN 0
               ELSE LET c == CHOOSE x \in s : TRUE IN f[c] + h[s \ {c}]]
    <3> SUFFICES ASSUME NEW s \in UpTo(S, n + 1)
                 PROVE  h[s] = IF s = {} THEN 0
                               ELSE LET c == CHOOSE x \in s : TRUE IN f[c] + h[s \ {c}]
      OBVIOUS
    <3>1. CASE s = {} BY <3>1
    <3>2. CASE s # {}
      <4>1. PICK c \in s : c = CHOOSE x \in s : TRUE BY <3>2
      <4>2. s \ {c} \in UpTo(S, n) BY <2>3, <3>2
      <4>3. h[s \ {c}] = g[s \ {c}] BY <2>2, <4>2
      <4> HIDE DEF h
      <4>4. h[s] = f[c] + g[s \ {c}] BY <3>2, <4>1 DEF h
      <4> QED BY <3>2, <4>1, <4>3, <4>4
    <3> QED BY <3>1, <3>2
  <2> HIDE DEF h
  <2>5. Sums(f, UpTo(S, n + 1), h) BY <2>4 DEF Sums
  <2> QED BY <2>5
<1>3. Cardinality(S) \in N
  <2> HIDE DEF N
  <2> QED BY <1>0, <1>1, <1>2, NatSetInduction
<1>4. UpTo(S, Cardinality(S)) = SUBSET S BY <1>0, FS_Subset DEF UpTo
<1> QED BY <1>3, <1>4

\* SumFunctionOnSet is its value.
LEMMA SumIsSums ==
    ASSUME NEW S, IsFiniteSet(S), NEW f
    PROVE  \E g : Sums(f, SUBSET S, g) /\ SumFunctionOnSet(f, S) = g[S]
<1> DEFINE it == CHOOSE it : it = [s \in SUBSET S |->
                    IF s = {} THEN 0
                    ELSE LET c == CHOOSE x \in s : TRUE IN f[c] + it[s \ {c}]]
<1>1. SumFunctionOnSet(f, S) = it[S]
  BY DEF SumFunctionOnSet, FoldFunctionOnSet, MapThenFoldSet
<1>2. \E g : g = [s \in SUBSET S |->
                    IF s = {} THEN 0
                    ELSE LET c == CHOOSE x \in s : TRUE IN f[c] + g[s \ {c}]]
  <2>1. PICK g : Sums(f, SUBSET S, g) BY SumsExist
  <2> QED BY <2>1, Zenon DEF Sums
<1>3. Sums(f, SUBSET S, it)
  BY <1>2, Zenon DEF Sums
<1> QED BY <1>1, <1>3

\* Induction on the subsets of a finite set, with a set in the place of a predicate.
LEMMA SubsetInduction ==
    ASSUME NEW S, IsFiniteSet(S), NEW P,
           \A T \in SUBSET S : (\A U \in SUBSET T : U # T => U \in P) => T \in P
    PROVE  SUBSET S \subseteq P
<1> SUFFICES ASSUME (SUBSET S) \ P # {} PROVE FALSE
  OBVIOUS
<1>1. PICK T \in (SUBSET S) \ P :
        \A U \in (SUBSET S) \ P : <<U, T>> \notin StrictSubsetOrdering(S)
  <2>1. FiniteSubsetsOf(S) = SUBSET S BY FS_FiniteSubsetsOfFinite
  <2>2. IsWellFoundedOn(StrictSubsetOrdering(S), SUBSET S)
    <3>1. IsWellFoundedOn(StrictSubsetOrdering(S), FiniteSubsetsOf(S))
      BY FS_StrictSubsetOrderingWellFounded
    <3> QED BY <2>1, <3>1
  <2>3. PICK Q : Q = (SUBSET S) \ P OBVIOUS
  <2>4. Q \subseteq SUBSET S /\ Q # {} BY <2>3
  <2>5. \E T \in Q : \A U \in Q : <<U, T>> \notin StrictSubsetOrdering(S)
    BY <2>2, <2>4, WFMin
  <2> QED BY <2>3, <2>5
<1>2. ASSUME NEW U \in SUBSET T, U # T PROVE U \in P
  BY <1>1, <1>2 DEF StrictSubsetOrdering
<1> QED BY <1>1, <1>2

\* Any element, not only the chosen one, may be taken out of the sum.
LEMMA SumsRemove ==
    ASSUME NEW S, IsFiniteSet(S), NEW f, \A x \in S : f[x] \in Int,
           NEW g, Sums(f, SUBSET S, g)
    PROVE  /\ g[{}] = 0
           /\ \A T \in SUBSET S :
                /\ g[T] \in Int
                /\ \A x \in T : g[T] = f[x] + g[T \ {x}]
<1>1. g[{}] = 0 BY DEF Sums
<1> DEFINE P == {T \in SUBSET S : /\ g[T] \in Int
                                  /\ \A x \in T : g[T] = f[x] + g[T \ {x}]}
<1>2. ASSUME NEW T \in SUBSET S, \A U \in SUBSET T : U # T => U \in P
      PROVE  T \in P
  <2>1. CASE T = {} BY <1>1, <2>1
  <2>2. CASE T # {}
    <3>1. PICK c \in T : c = CHOOSE x \in T : TRUE BY <2>2
    <3>2. g[T] = f[c] + g[T \ {c}] BY <2>2, <3>1 DEF Sums
    <3>3. T \ {c} \in P BY <1>2
    <3>4. g[T] \in Int BY <3>2, <3>3
    <3>5. ASSUME NEW x \in T, x # c PROVE g[T] = f[x] + g[T \ {x}]
      <4>1. T \ {x} \in P BY <1>2
      <4>2. g[T \ {c}] = f[x] + g[(T \ {c}) \ {x}] BY <3>3, <3>5
      <4>3. g[T \ {x}] = f[c] + g[(T \ {x}) \ {c}] BY <4>1, <3>5
      <4>4. (T \ {c}) \ {x} = (T \ {x}) \ {c} OBVIOUS
      <4>5. (T \ {c}) \ {x} \in P
        <5>1. (T \ {c}) \ {x} \in SUBSET T /\ (T \ {c}) \ {x} # T OBVIOUS
        <5> QED BY <5>1, <1>2
      <4>6. PICK n \in Int : n = g[(T \ {c}) \ {x}] BY <4>5
      <4>7. g[T \ {c}] = f[x] + n /\ g[T \ {x}] = f[c] + n BY <4>2, <4>3, <4>4, <4>6
      <4>8. f[x] \in Int /\ f[c] \in Int OBVIOUS
      <4> QED BY <3>2, <4>7, <4>8
    <3> QED BY <3>2, <3>4, <3>5
  <2> QED BY <2>1, <2>2
<1>3. SUBSET S \subseteq P
  <2> HIDE DEF P
  <2> QED BY <1>2, SubsetInduction
<1> QED BY <1>1, <1>3

\* Functions that agree on a set have the same sum over it.
LEMMA SumsAgree ==
    ASSUME NEW S, IsFiniteSet(S),
           NEW f, \A x \in S : f[x] \in Int, NEW g, Sums(f, SUBSET S, g),
           NEW e, \A x \in S : e[x] \in Int, NEW h, Sums(e, SUBSET S, h)
    PROVE  \A T \in SUBSET S : (\A x \in T : f[x] = e[x]) => g[T] = h[T]
<1> DEFINE P == {T \in SUBSET S : (\A x \in T : f[x] = e[x]) => g[T] = h[T]}
<1>1. ASSUME NEW T \in SUBSET S, \A U \in SUBSET T : U # T => U \in P
      PROVE  T \in P
  <2> SUFFICES ASSUME \A x \in T : f[x] = e[x] PROVE g[T] = h[T]
    OBVIOUS
  <2>1. CASE T = {} BY <2>1, SumsRemove
  <2>2. CASE T # {}
    <3>1. PICK c \in T : TRUE BY <2>2
    <3>2. T \ {c} \in P BY <1>1
    <3>3. g[T] = f[c] + g[T \ {c}] /\ h[T] = e[c] + h[T \ {c}] BY SumsRemove
    <3> QED BY <3>2, <3>3
  <2> QED BY <2>1, <2>2
<1>2. SUBSET S \subseteq P
  <2> HIDE DEF P
  <2> QED BY <1>1, SubsetInduction
<1> QED BY <1>2

\* The sum of a function into Nat is at least each of its values.
LEMMA SumsNat ==
    ASSUME NEW S, IsFiniteSet(S), NEW f, \A x \in S : f[x] \in Nat,
           NEW g, Sums(f, SUBSET S, g)
    PROVE  \A T \in SUBSET S : g[T] \in Nat
<1> DEFINE P == {T \in SUBSET S : g[T] \in Nat}
<1>1. ASSUME NEW T \in SUBSET S, \A U \in SUBSET T : U # T => U \in P
      PROVE  T \in P
  <2>1. CASE T = {} BY <2>1, SumsRemove
  <2>2. CASE T # {}
    <3>1. PICK c \in T : TRUE BY <2>2
    <3>2. T \ {c} \in P BY <1>1
    <3>3. g[T] = f[c] + g[T \ {c}] BY SumsRemove
    <3> QED BY <3>2, <3>3
  <2> QED BY <2>1, <2>2
<1>2. SUBSET S \subseteq P
  <2> HIDE DEF P
  <2> QED BY <1>1, SubsetInduction
<1> QED BY <1>2

\* The same of SumFunctionOnSet.
LEMMA SumOnSet ==
    ASSUME NEW S, IsFiniteSet(S), NEW f, \A x \in S : f[x] \in Nat
    PROVE  /\ SumFunctionOnSet(f, S) \in Nat
           /\ \A d \in S : f[d] <= SumFunctionOnSet(f, S)
<1>1. PICK g : Sums(f, SUBSET S, g) /\ SumFunctionOnSet(f, S) = g[S]
  BY SumIsSums
<1>2. Sums(f, SUBSET S, g) BY <1>1
<1>3. g[S] \in Nat BY <1>2, SumsNat
<1>4. ASSUME NEW d \in S PROVE f[d] <= g[S]
  <2>1. g[S] = f[d] + g[S \ {d}] BY <1>2, SumsRemove
  <2>2. g[S \ {d}] \in Nat BY <1>2, SumsNat
  <2> QED BY <2>1, <2>2
<1> QED BY <1>1, <1>3, <1>4

LEMMA SumOnSetZero ==
    ASSUME NEW S, IsFiniteSet(S), NEW f, \A x \in S : f[x] = 0
    PROVE  SumFunctionOnSet(f, S) = 0
<1>1. PICK g : Sums(f, SUBSET S, g) /\ SumFunctionOnSet(f, S) = g[S]
  BY SumIsSums
<1>2. Sums(f, SUBSET S, g) BY <1>1
<1> DEFINE P == {T \in SUBSET S : g[T] = 0}
<1>3. ASSUME NEW T \in SUBSET S, \A U \in SUBSET T : U # T => U \in P
      PROVE  T \in P
  <2>1. CASE T = {} BY <1>2, <2>1, SumsRemove
  <2>2. CASE T # {}
    <3>1. PICK c \in T : TRUE BY <2>2
    <3>2. T \ {c} \in P BY <1>3
    <3>3. g[T] = f[c] + g[T \ {c}] BY <1>2, SumsRemove
    <3> QED BY <3>2, <3>3
  <2> QED BY <2>1, <2>2
<1>4. SUBSET S \subseteq P
  <2> HIDE DEF P
  <2> QED BY <1>3, SubsetInduction
<1> QED BY <1>1, <1>4

LEMMA SumOnSetUpdate ==
    ASSUME NEW S, IsFiniteSet(S),
           NEW f, \A x \in S : f[x] \in Nat, NEW e, \A x \in S : e[x] \in Nat,
           NEW d \in S, \A x \in S \ {d} : e[x] = f[x]
    PROVE  SumFunctionOnSet(e, S) = SumFunctionOnSet(f, S) - f[d] + e[d]
<1>1. PICK g : Sums(f, SUBSET S, g) /\ SumFunctionOnSet(f, S) = g[S]
  BY SumIsSums
<1>2. PICK h : Sums(e, SUBSET S, h) /\ SumFunctionOnSet(e, S) = h[S]
  BY SumIsSums
<1>3. Sums(f, SUBSET S, g) /\ Sums(e, SUBSET S, h) BY <1>1, <1>2
<1>4. g[S] = f[d] + g[S \ {d}] BY <1>3, SumsRemove
<1>5. h[S] = e[d] + h[S \ {d}] BY <1>3, SumsRemove
<1>6. g[S \ {d}] = h[S \ {d}] BY <1>3, SumsAgree
<1>7. g[S \ {d}] \in Nat BY <1>3, SumsNat
<1> QED BY <1>1, <1>2, <1>4, <1>5, <1>6, <1>7

\* The sum of all rows' counts is at least each of them.
LEMMA SumBounds ==
    ASSUME NEW S, IsFiniteSet(S), NEW f \in [S -> Nat]
    PROVE  /\ SumFunction(f) \in Nat
           /\ \A d \in S : f[d] <= SumFunction(f)
BY SumOnSet DEF SumFunction

LEMMA SumZero ==
    ASSUME NEW S, IsFiniteSet(S), NEW f \in [S -> Nat], \A d \in S : f[d] = 0
    PROVE  SumFunction(f) = 0
BY SumOnSetZero DEF SumFunction

\* What one row's count changes by, the sum does.
LEMMA SumUpdate ==
    ASSUME NEW S, IsFiniteSet(S), NEW f \in [S -> Nat], NEW e \in [S -> Nat],
           NEW d \in S, \A x \in S \ {d} : e[x] = f[x]
    PROVE  SumFunction(e) = SumFunction(f) - f[d] + e[d]
BY SumOnSetUpdate DEF SumFunction

-----------------------------------------------------------------------------
(* The parts of the invariants *)

Row == [state : DocState, chunks : Nat]

\* An edit holds the lock for a request that waits with the count it read.
EditsHeld ==
    lock # Free /\ lock.op \in {"edit", "update"} =>
        /\ lock.by \in Handlers
        /\ req[lock.by].kind = "edit" /\ req[lock.by].at = "apply"

Sound == TypeOK /\ EditsHeld

\* Only the document under the lock changes, and a deletion leaves nothing.
OwnDocumentOnly ==
    lock # Free /\ lock.op \in {"commit", "delete"} =>
        /\ \A d \in Docs \ {lock.doc} : lock.new[d] = lock.prev[d]
        /\ lock.op = "delete" => lock.count = 0

\* What is searched is in the index file, and is what was there before the
\* function under the lock wrote it, or what it wrote.
IndexWritten ==
    /\ file = index
    /\ lock # Free => index = IF lock.at = "index" THEN lock.prev ELSE lock.new

GraphsWritten ==
    lock # Free /\ lock.op \in {"commit", "delete"} =>
        graphs[lock.doc] = IF lock.at \in {"index", "graphs"} THEN lock.prevGraph
                                                             ELSE lock.graph

\* Only commits and deletions write all stores.
InTurn ==
    lock # Free /\ lock.at # "index" =>
        \/ lock.op \in {"commit", "delete"}
        \/ lock.op = "edit" /\ lock.at \in {"docs", "counts"}

Written == InTurn /\ OwnDocumentOnly /\ IndexWritten /\ GraphsWritten

-----------------------------------------------------------------------------
(* The parts of the inductive invariant of NoOrphans *)

Deleted(d) == docs[d].state = "deleted"

NoEdits ==
    /\ \A h \in Handlers : req[h].kind # "edit"
    /\ lock # Free => lock.op \in {"commit", "delete", "reset"}

\* Whatever the function under the lock writes or puts back, nothing of a
\* deleted document is in it; nor is the document of a commit deleted meanwhile.
KeepsOut ==
    lock # Free => \A d \in Docs : Deleted(d) =>
        /\ lock.new[d] = 0 /\ lock.prev[d] = 0
        /\ d = lock.doc => ~lock.graph /\ ~lock.prevGraph

\* A deletion that reaches the row has removed all else.
DeletesFirst ==
    lock # Free /\ lock.op = "delete" =>
        /\ lock.new[lock.doc] = 0 /\ ~lock.graph
        /\ lock.at # "index" => index[lock.doc] = 0 /\ file[lock.doc] = 0
        /\ lock.at \notin {"index", "graphs"} => ~graphs[lock.doc]

Buried == NoEdits /\ KeepsOut /\ DeletesFirst /\ NoOrphans

-----------------------------------------------------------------------------
(* The parts of the inductive invariant of TotalsAgree and IndexAgrees *)

Editing(h) == req[h].kind = "edit"

\* An edit is made while nothing else goes on: what it read still holds when it
\* takes the lock.
EditsAlone ==
    \A h \in Handlers : Editing(h) =>
        /\ "edit" \in Alone
        /\ \A g \in Handlers \ {h} : req[g] = Idle
        /\ lock # Free => lock.op \in {"edit", "update"} /\ lock.by = h
        /\ Present(req[h].doc)
        /\ lock = Free => req[h].count = index[req[h].doc]
        /\ req[h].at = "apply" =>
            /\ req[h].counted \/ req[h].delta = 0
            /\ lock = Free =>
                /\ req[h].chunks = [index EXCEPT ![req[h].doc] = @ + req[h].delta]
                /\ index[req[h].doc] + req[h].delta \in Nat

NothingReleased ==
    /\ \A h \in Handlers : req[h].kind \notin {"reparse", "reset"}
    /\ lock # Free => lock.op # "reset"

\* What the function under the lock computed when it entered is still so.
LockKnows ==
    lock # Free =>
        /\ lock.new = [lock.prev EXCEPT ![lock.doc] = @ + lock.delta]
        /\ lock.count = lock.new[lock.doc]
        /\ lock.op = "update" => lock.delta = 0
        /\ lock.op = "delete" => lock.by \in Handlers /\ req[lock.by].kind = "delete"
        /\ lock.op \in {"edit", "update"} =>
              /\ Editing(lock.by)
              /\ req[lock.by].doc = lock.doc
              /\ req[lock.by].count = lock.prev[lock.doc]

\* The rows count the chunks of the index as it was when the lock was taken; an
\* edit has counted its own before it is in the total.  A row that its upload
\* removed counts nothing.
RowsCount ==
    \A d \in Docs : docs[d].state # "undone" =>
        docs[d].chunks = IF lock = Free THEN index[d]
                         ELSE IF lock.op = "edit" /\ lock.at = "counts"
                         THEN lock.new[d] ELSE lock.prev[d]

\* The index whose chunks the total counts: a commit or deletion has counted what
\* it leaves before it writes the row.
CountedIndex ==
    IF lock = Free THEN index
    ELSE IF lock.op \in {"commit", "delete"} /\ lock.at \in {"metadata", "docs"}
    THEN lock.new ELSE lock.prev

TotalCounted == kb.chunks = SumFunction(CountedIndex)

Balanced == EditsAlone /\ NothingReleased /\ LockKnows /\ RowsCount /\ TotalCounted

USE NoHandlerAssumption, MaxChunksAssumption

-----------------------------------------------------------------------------
(* Types *)

LEMMA SoundInit == Init => Sound
BY DEF Init, Sound, TypeOK, EditsHeld, DocState, Free, Idle

LEMMA CountedType ==
    ASSUME TypeOK, NEW chunks \in Int, NEW documents \in Int
    PROVE  Counted(chunks, documents) \in [chunks : Nat, docs : Nat]
BY DEF TypeOK, Counted, Shifted

UploadPlaces == {"count", "push", "status", "cancel", "remove", "undo"}

\* What a request records, by its kind and by where it is.
LEMMA RequestFields ==
    ASSUME TypeOK, NEW h \in Handlers
    PROVE  /\ req[h].kind = "upload" =>
                req[h] \in [kind : {"upload"}, doc : Docs, at : UploadPlaces]
           /\ req[h].kind = "delete" => req[h] \in [kind : {"delete"}, doc : Docs]
           /\ req[h].kind \in {"reparse", "reset"} =>
                req[h] \in [kind : {"reparse", "reset"}, doc : Docs,
                            at : {"release", "zero", "remove"}, count : Nat]
           /\ req[h].kind = "edit" /\ req[h].at = "read" =>
                req[h] \in [kind : {"edit"}, doc : Docs, at : {"read"}, count : Nat]
           /\ req[h].kind = "edit" /\ req[h].at = "apply" =>
                req[h] \in [kind : {"edit"}, doc : Docs, at : {"apply"}, count : Nat,
                            delta : Int, counted : BOOLEAN, chunks : [Docs -> Nat]]
<1>1. req[h] \in Request \cup {Idle} BY DEF TypeOK
<1> QED BY <1>1 DEF Request, Idle, UploadPlaces

LEMMA LockFields == ASSUME TypeOK, lock # Free PROVE lock \in Locked
BY DEF TypeOK

\* The changes of rows that the actions make.
LEMMA WithoutType ==
    ASSUME TypeOK, NEW d \in Docs, NEW state \in DocState
    PROVE  Without(d, state) \in [Docs -> Row]
<1>1. docs \in [Docs -> Row] BY DEF TypeOK, Row
<1>2. [state |-> state, chunks |-> 0] \in Row BY DEF Row
<1> QED BY <1>1, <1>2 DEF Without

LEMMA RowUpdates ==
    ASSUME TypeOK, NEW d \in Docs, NEW state \in DocState, NEW n \in Nat
    PROVE  /\ [docs EXCEPT ![d].state = state] \in [Docs -> Row]
           /\ [docs EXCEPT ![d].chunks = n] \in [Docs -> Row]
           /\ [docs EXCEPT ![d].chunks = n, ![d].state = state] \in [Docs -> Row]
<1>1. docs \in [Docs -> Row] BY DEF TypeOK, Row
<1>3. [docs[d] EXCEPT !.state = state] \in Row BY <1>1 DEF Row
<1>4. [docs[d] EXCEPT !.chunks = n] \in Row BY <1>1 DEF Row
<1>5. [docs[d] EXCEPT !.chunks = n, !.state = state] \in Row BY <1>1 DEF Row
<1>7. [docs EXCEPT ![d].state = state] \in [Docs -> Row] BY <1>1, <1>3
<1>8. [docs EXCEPT ![d].chunks = n] \in [Docs -> Row] BY <1>1, <1>4
<1>9. [docs EXCEPT ![d].chunks = n, ![d].state = state] \in [Docs -> Row] BY <1>1, <1>5
<1> QED BY <1>7, <1>8, <1>9

\* A request's next step.
LEMMA RequestUpdates ==
    ASSUME TypeOK, NEW h \in Handlers, NEW r \in Request \cup {Idle}
    PROVE  [req EXCEPT ![h] = r] \in [Handlers -> Request \cup {Idle}]
BY DEF TypeOK

\* No step of a request outside the lock takes the request of an edit under it.
LEMMA RequestStep ==
    ASSUME Sound, NEW h \in Handlers, UNCHANGED lock,
           NEW r \in Request \cup {Idle}, req' = [req EXCEPT ![h] = r],
           ~(req[h].kind = "edit" /\ req[h].at = "apply")
    PROVE  /\ req' \in [Handlers -> Request \cup {Idle}]
           /\ EditsHeld'
<1>1. req' \in [Handlers -> Request \cup {Idle}] BY RequestUpdates DEF Sound
<1>2. ASSUME lock # Free, lock.op \in {"edit", "update"}
      PROVE  lock.by # h /\ req'[lock.by] = req[lock.by]
  BY <1>2 DEF Sound, EditsHeld, TypeOK
<1> QED BY <1>1, <1>2 DEF Sound, EditsHeld

LEMMA ServeSound == ASSUME Sound, NEW h \in Handlers, Serve(h) PROVE Sound'
<1> USE DEF Sound
<1> DEFINE Rest == index' \in [Docs -> Nat] /\ file' \in [Docs -> Nat]
                    /\ graphs' \in [Docs -> BOOLEAN] /\ lock' \in Locked \cup {Free}
<1>0. ASSUME UNCHANGED <<index, file, graphs, lock>> PROVE Rest BY <1>0 DEF TypeOK
<1>1. ASSUME NEW d \in Docs, StartUpload(h, d) PROVE Sound'
  <2> DEFINE r == [kind |-> "upload", doc |-> d, at |-> "count"]
  <2>1. r \in Request BY DEF Request
  <2>2. req' = [req EXCEPT ![h] = r] /\ req[h] = Idle /\ UNCHANGED lock
    BY <1>1 DEF StartUpload, Start
  <2>3. req[h].kind # "edit" BY <2>2 DEF Idle
  <2> HIDE DEF r
  <2>4. req' \in [Handlers -> Request \cup {Idle}] /\ EditsHeld'
    BY <2>1, <2>2, <2>3, RequestStep
  <2>5. docs' \in [Docs -> Row] BY <1>1, RowUpdates DEF StartUpload, DocState
  <2> QED BY <1>0, <1>1, <2>4, <2>5 DEF StartUpload, TypeOK, Row
<1>2. ASSUME NEW d \in Docs, StartDelete(h, d) PROVE Sound'
  <2> DEFINE r == [kind |-> "delete", doc |-> d]
  <2>1. r \in Request BY DEF Request
  <2>2. req' = [req EXCEPT ![h] = r] /\ req[h] = Idle /\ UNCHANGED lock
    BY <1>2 DEF StartDelete, Start
  <2>3. req[h].kind # "edit" BY <2>2 DEF Idle
  <2> HIDE DEF r
  <2>4. req' \in [Handlers -> Request \cup {Idle}] /\ EditsHeld'
    BY <2>1, <2>2, <2>3, RequestStep
  <2> QED BY <1>0, <1>2, <2>4 DEF StartDelete, TypeOK
<1>3. ASSUME NEW d \in Docs, StartEdit(h, d) PROVE Sound'
  <2> DEFINE r == [kind |-> "edit", doc |-> d, at |-> "read", count |-> docs[d].chunks]
  <2>1. r \in Request BY DEF Request, TypeOK
  <2>2. req' = [req EXCEPT ![h] = r] /\ req[h] = Idle /\ UNCHANGED lock
    BY <1>3 DEF StartEdit, Start
  <2>3. req[h].kind # "edit" BY <2>2 DEF Idle
  <2> HIDE DEF r
  <2>4. req' \in [Handlers -> Request \cup {Idle}] /\ EditsHeld'
    BY <2>1, <2>2, <2>3, RequestStep
  <2> QED BY <1>0, <1>3, <2>4 DEF StartEdit, TypeOK
<1>4. ASSUME NEW d \in Docs, NEW kind \in {"reparse", "reset"}, StartRelease(h, d, kind)
      PROVE  Sound'
  <2> DEFINE r == [kind |-> kind, doc |-> d, count |-> docs[d].chunks,
                   at |-> IF docs[d].chunks > 0 THEN "release" ELSE "remove"]
  <2>1. r \in Request BY DEF Request, TypeOK
  <2>2. req' = [req EXCEPT ![h] = r] /\ req[h] = Idle /\ UNCHANGED lock
    BY <1>4 DEF StartRelease, Start
  <2>3. req[h].kind # "edit" BY <2>2 DEF Idle
  <2> HIDE DEF r
  <2>4. req' \in [Handlers -> Request \cup {Idle}] /\ EditsHeld'
    BY <2>1, <2>2, <2>3, RequestStep
  <2> QED BY <1>0, <1>4, <2>4 DEF StartRelease, TypeOK
<1>5. ASSUME NEW ok \in BOOLEAN, UploadCount(h, ok) PROVE Sound'
  <2> DEFINE r == IF ok THEN [req[h] EXCEPT !.at = "push"] ELSE Idle
  <2>1. req[h] \in [kind : {"upload"}, doc : Docs, at : UploadPlaces]
    BY <1>5, RequestFields DEF UploadCount
  <2>2. r \in Request \cup {Idle} BY <2>1 DEF Request, UploadPlaces
  <2>3. req' = [req EXCEPT ![h] = r] /\ UNCHANGED lock
    BY <1>5 DEF UploadCount, Finished, TypeOK
  <2> HIDE DEF r
  <2>4. req' \in [Handlers -> Request \cup {Idle}] /\ EditsHeld'
    BY <2>1, <2>2, <2>3, RequestStep
  <2>5. docs' \in [Docs -> Row]
    <3>1. Without(req[h].doc, "undone") \in [Docs -> Row]
      BY <2>1, WithoutType DEF DocState
    <3> QED BY <1>5, <3>1 DEF UploadCount, TypeOK, Row
  <2>6. kb' \in [chunks : Nat, docs : Nat]
    <3>1. Counted(0, 1) \in [chunks : Nat, docs : Nat] BY CountedType
    <3> QED BY <1>5, <3>1 DEF UploadCount, TypeOK
  <2> QED BY <1>0, <1>5, <2>4, <2>5, <2>6 DEF UploadCount, TypeOK, Row
<1>6. ASSUME NEW ok \in BOOLEAN,
             UploadPush(h, ok) \/ UploadStatus(h, ok) \/ UploadCancel(h) \/ UploadRemove(h)
      PROVE  Sound'
  <2> DEFINE d == req[h].doc
  <2>1. req[h] \in [kind : {"upload"}, doc : Docs, at : UploadPlaces]
    BY <1>6, RequestFields DEF UploadPush, UploadStatus, UploadCancel, UploadRemove
  <2>2. PICK r : /\ r = Idle \/ \E at \in UploadPlaces : r = [req[h] EXCEPT !.at = at]
                 /\ req' = [req EXCEPT ![h] = r]
    <3>1. \/ req' = [req EXCEPT ![h] = Idle]
          \/ \E at \in UploadPlaces : req' = [req EXCEPT ![h].at = at]
      BY <1>6 DEF UploadPush, UploadStatus, UploadCancel, UploadRemove, Finished, UploadPlaces
    <3>2. \A at : [req EXCEPT ![h].at = at] = [req EXCEPT ![h] = [req[h] EXCEPT !.at = at]]
      BY DEF TypeOK
    <3> QED BY <3>1, <3>2
  <2>3. r \in Request \cup {Idle} BY <2>1, <2>2 DEF Request, UploadPlaces
  <2>4. UNCHANGED <<index, file, graphs, kb, lock>>
    BY <1>6 DEF UploadPush, UploadStatus, UploadCancel, UploadRemove
  <2>5. req' \in [Handlers -> Request \cup {Idle}] /\ EditsHeld'
    BY <2>1, <2>2, <2>3, <2>4, RequestStep
  <2>6. docs' \in [Docs -> Row]
    <3>1. Without(d, "undone") \in [Docs -> Row] BY <2>1, WithoutType DEF DocState
    <3>2. \A state \in {"parsing", "uploaded"} : Requeued(d, state) \in [Docs -> Row]
      <4> TAKE state \in {"parsing", "uploaded"}
      <4>1. state \in DocState /\ 0 \in Nat /\ d \in Docs BY <2>1 DEF DocState
      <4>2. [docs EXCEPT ![d].state = state] \in [Docs -> Row] BY <4>1, RowUpdates
      <4> QED BY <4>2 DEF Requeued, TypeOK, Row
    <3>3. docs' \in {docs, Without(d, "undone"), Requeued(d, "parsing"), Requeued(d, "uploaded")}
      BY <1>6 DEF UploadPush, UploadStatus, UploadCancel, UploadRemove
    <3> QED BY <3>1, <3>2, <3>3 DEF TypeOK, Row
  <2> QED BY <1>0, <2>4, <2>5, <2>6 DEF TypeOK, Row
<1>7. CASE UploadUndo(h)
  <2>1. req' = [req EXCEPT ![h] = Idle] /\ UNCHANGED lock /\ req[h].kind # "edit"
    BY <1>7 DEF UploadUndo, Finished
  <2>2. req' \in [Handlers -> Request \cup {Idle}] /\ EditsHeld' BY <2>1, RequestStep
  <2>3. kb' \in [chunks : Nat, docs : Nat] BY <1>7, CountedType DEF UploadUndo
  <2> QED BY <1>0, <1>7, <2>2, <2>3 DEF UploadUndo, TypeOK
<1>8. ASSUME NEW ok \in BOOLEAN, Release(h, ok) PROVE Sound'
  <2> DEFINE r == [req[h] EXCEPT !.at = "zero"]
  <2>1. req[h] \in [kind : {"reparse", "reset"}, doc : Docs,
                    at : {"release", "zero", "remove"}, count : Nat]
    BY <1>8, RequestFields DEF Release
  <2>2. r \in Request BY <2>1 DEF Request
  <2>3. req' = [req EXCEPT ![h] = r] /\ UNCHANGED lock BY <1>8 DEF Release, TypeOK
  <2> HIDE DEF r
  <2>4. req' \in [Handlers -> Request \cup {Idle}] /\ EditsHeld'
    BY <2>1, <2>2, <2>3, RequestStep
  <2>5. kb' \in [chunks : Nat, docs : Nat]
    <3> DEFINE n == -req[h].count
    <3>1. n \in Int BY <2>1
    <3>2. kb' = Counted(n, 0) \/ kb' = kb BY <1>8 DEF Release
    <3> HIDE DEF n
    <3>3. Counted(n, 0) \in [chunks : Nat, docs : Nat] BY <3>1, CountedType
    <3> QED BY <3>2, <3>3 DEF TypeOK
  <2> QED BY <1>0, <1>8, <2>4, <2>5 DEF Release, TypeOK
<1>9. ASSUME NEW ok \in BOOLEAN, Zero(h, ok) PROVE Sound'
  <2> DEFINE r == IF req[h].kind = "reparse" THEN Idle ELSE [req[h] EXCEPT !.at = "remove"]
  <2>1. req[h] \in [kind : {"reparse", "reset"}, doc : Docs,
                    at : {"release", "zero", "remove"}, count : Nat]
    BY <1>9, RequestFields DEF Zero
  <2>2. r \in Request \cup {Idle} BY <2>1 DEF Request
  <2>3. req' = [req EXCEPT ![h] = r] /\ UNCHANGED lock
    BY <1>9 DEF Zero, Finished, TypeOK
  <2> HIDE DEF r
  <2>4. req' \in [Handlers -> Request \cup {Idle}] /\ EditsHeld'
    BY <2>1, <2>2, <2>3, RequestStep
  <2>5. docs' \in [Docs -> Row]
    <3> DEFINE d == req[h].doc
               n == IF ok THEN 0 ELSE docs[d].chunks
               state == IF req[h].kind = "reparse" THEN "parsing" ELSE docs[d].state
    <3>1. d \in Docs /\ n \in Nat /\ state \in DocState BY <2>1 DEF TypeOK, DocState
    <3>2. docs' = [docs EXCEPT ![d].chunks = n, ![d].state = state] \/ docs' = docs
      BY <1>9, <3>1 DEF Zero, TypeOK
    <3> HIDE DEF d, n, state
    <3>3. [docs EXCEPT ![d].chunks = n, ![d].state = state] \in [Docs -> Row]
      BY <3>1, RowUpdates
    <3> QED BY <3>2, <3>3 DEF TypeOK, Row
  <2> QED BY <1>0, <1>9, <2>4, <2>5 DEF Zero, TypeOK, Row
<1>10. ASSUME NEW delta \in -MaxChunks .. 1, NEW counted \in BOOLEAN,
              ReadIndex(h, delta, counted)
       PROVE  Sound'
  <2> DEFINE d == req[h].doc
             r == [kind |-> "edit", doc |-> d, at |-> "apply", count |-> req[h].count,
                   delta |-> delta, counted |-> counted,
                   chunks |-> [index EXCEPT ![d] = @ + delta]]
  <2>1. req[h] \in [kind : {"edit"}, doc : Docs, at : {"read"}, count : Nat]
    BY <1>10, RequestFields DEF ReadIndex
  <2>2. [index EXCEPT ![d] = @ + delta] \in [Docs -> Nat] BY <1>10, <2>1 DEF ReadIndex, TypeOK
  <2>3. r \in Request BY <2>1, <2>2 DEF Request
  <2>4. req' = [req EXCEPT ![h] = r] /\ UNCHANGED lock
    BY <1>10 DEF ReadIndex, TypeOK
  <2> HIDE DEF r
  <2>5. req' \in [Handlers -> Request \cup {Idle}] /\ EditsHeld'
    BY <2>1, <2>3, <2>4, RequestStep
  <2> QED BY <1>0, <1>10, <2>5 DEF ReadIndex, TypeOK
<1>11. CASE DropEdit(h)
  <2>1. req' = [req EXCEPT ![h] = Idle] /\ UNCHANGED lock /\ req[h].at # "apply"
    BY <1>11 DEF DropEdit, Finished
  <2>2. req' \in [Handlers -> Request \cup {Idle}] /\ EditsHeld' BY <2>1, RequestStep
  <2> QED BY <1>0, <1>11, <2>2 DEF DropEdit, TypeOK
<1> QED BY <1>1, <1>2, <1>3, <1>4, <1>5, <1>6, <1>7, <1>8, <1>9, <1>10, <1>11 DEF Serve

LEMMA RequeueSound == ASSUME Sound, NEW d \in Docs, Requeue(d) PROVE Sound'
<1>1. docs' \in [Docs -> Row] BY RowUpdates DEF Requeue, Sound, DocState
<1> QED BY <1>1 DEF Requeue, Sound, TypeOK, EditsHeld, Row

LEMMA AcquireSound ==
    ASSUME Sound, NEW op \in {"commit", "delete", "edit", "update", "reset"},
           NEW h \in Handlers \cup {NoHandler}, NEW d \in Docs, NEW count \in Nat,
           NEW delta \in Int, NEW graph \in BOOLEAN, NEW new \in [Docs -> Nat],
           Acquire(op, h, d, count, delta, graph, new),
           op \in {"edit", "update"} =>
               h \in Handlers /\ req[h].kind = "edit" /\ req[h].at = "apply"
    PROVE  Sound'
<1>1. lock' \in Locked BY DEF Acquire, Locked, Sound, TypeOK
<1>2. lock'.op = op /\ lock'.by = h BY DEF Acquire
<1>3. EditsHeld' BY <1>2 DEF Acquire, EditsHeld
<1> QED BY <1>1, <1>3 DEF Sound, TypeOK, Acquire

LEMMA EnterSound == ASSUME Sound, Enter PROVE Sound'
<1> USE DEF Sound
<1>1. ASSUME NEW d \in Docs, NEW n \in 0 .. MaxChunks, NEW graph \in BOOLEAN,
             LockCommit(d, n, graph)
      PROVE  Sound'
  <2> DEFINE delta == CommitDelta(d, n)
             new == [index EXCEPT ![d] = n]
  <2>1. delta \in Int /\ new \in [Docs -> Nat] /\ n \in Nat BY DEF CommitDelta, TypeOK
  <2>2. Acquire("commit", NoHandler, d, n, delta, graph, new) BY <1>1 DEF LockCommit
  <2> HIDE DEF delta, new
  <2> QED BY <2>1, <2>2, AcquireSound
<1>2. ASSUME NEW h \in Handlers, LockDelete(h) PROVE Sound'
  <2> DEFINE d == req[h].doc
             delta == -index[d]
             new == [index EXCEPT ![d] = 0]
  <2>1. d \in Docs BY <1>2, RequestFields DEF LockDelete
  <2>2. delta \in Int /\ new \in [Docs -> Nat] BY <2>1 DEF TypeOK
  <2>3. Acquire("delete", h, d, 0, delta, FALSE, new) BY <1>2 DEF LockDelete
  <2> HIDE DEF d, delta, new
  <2> QED BY <2>1, <2>2, <2>3, AcquireSound
<1>3. ASSUME NEW h \in Handlers, LockEdit(h) PROVE Sound'
  <2> DEFINE r == req[h]
             op == IF r.counted THEN "edit" ELSE "update"
             count == Shifted(r.count, r.delta)
             graph == graphs[r.doc]
  <2>1. r \in [kind : {"edit"}, doc : Docs, at : {"apply"}, count : Nat,
               delta : Int, counted : BOOLEAN, chunks : [Docs -> Nat]]
    BY <1>3, RequestFields DEF LockEdit
  <2>2. /\ op \in {"commit", "delete", "edit", "update", "reset"}
        /\ r.doc \in Docs /\ r.delta \in Int /\ r.chunks \in [Docs -> Nat]
        /\ count \in Nat /\ graph \in BOOLEAN
    BY <2>1 DEF Shifted, TypeOK
  <2>3. Acquire(op, h, r.doc, count, r.delta, graph, r.chunks) BY <1>3 DEF LockEdit
  <2>4. req[h].kind = "edit" /\ req[h].at = "apply" BY <1>3 DEF LockEdit
  <2> HIDE DEF op, count, graph, r
  <2> QED BY <2>2, <2>3, <2>4, AcquireSound
<1>4. ASSUME NEW h \in Handlers, LockReset(h) PROVE Sound'
  <2> DEFINE d == req[h].doc
             new == [index EXCEPT ![d] = 0]
             graph == graphs[d]
  <2>1. d \in Docs BY <1>4, RequestFields DEF LockReset
  <2>2. graph \in BOOLEAN /\ new \in [Docs -> Nat] BY <2>1 DEF TypeOK
  <2>3. Acquire("reset", h, d, 0, 0, graph, new) BY <1>4 DEF LockReset
  <2> HIDE DEF d, graph, new
  <2> QED BY <2>1, <2>2, <2>3, AcquireSound
<1> QED BY <1>1, <1>2, <1>3, <1>4 DEF Enter

LEMMA UnlockSound ==
    ASSUME Sound, lock # Free, Unlock
    PROVE  /\ lock' \in Locked \cup {Free}
           /\ req' \in [Handlers -> Request \cup {Idle}]
           /\ EditsHeld'
<1>1. lock.by \in Handlers \cup {NoHandler} BY LockFields DEF Sound, Locked
<1>2. req' \in [Handlers -> Request \cup {Idle}]
  BY <1>1, RequestUpdates DEF Unlock, Sound, TypeOK
<1> QED BY <1>2 DEF Unlock, EditsHeld

LEMMA ContinueSound ==
    ASSUME Sound, lock # Free, NEW at \in {"graphs", "counts", "metadata", "docs"},
           Continue(at)
    PROVE  /\ lock' \in Locked \cup {Free}
           /\ req' \in [Handlers -> Request \cup {Idle}]
           /\ EditsHeld'
<1>1. lock \in Locked BY LockFields DEF Sound
<1>2. lock' \in Locked /\ lock'.op = lock.op /\ lock'.by = lock.by
  BY <1>1 DEF Continue, Locked
<1> QED BY <1>2 DEF Continue, EditsHeld, Sound, TypeOK

\* What is put back has its type.
LEMMA Restored ==
    ASSUME Sound, lock # Free
    PROVE  /\ RestoreIndex \/ RestoreSnapshot =>
                index' \in [Docs -> Nat] /\ file' \in [Docs -> Nat]
           /\ RestoreGraph => graphs' \in [Docs -> BOOLEAN]
           /\ \A n \in Int : RestoreCounts(n) => kb' \in [chunks : Nat, docs : Nat]
<1>1. lock \in Locked BY LockFields DEF Sound
<1>2. lock.doc \in Docs /\ lock.prev \in [Docs -> Nat] /\ lock.prevGraph \in BOOLEAN
        /\ lock.delta \in Int
  BY <1>1 DEF Locked
<1>3. RestoreIndex \/ RestoreSnapshot =>
        index' \in [Docs -> Nat] /\ file' \in [Docs -> Nat]
  BY <1>2 DEF RestoreIndex, RestoreSnapshot, Sound, TypeOK
<1>4. RestoreGraph => graphs' \in [Docs -> BOOLEAN]
  BY <1>2 DEF RestoreGraph, Sound, TypeOK
<1>5. ASSUME NEW n \in Int, RestoreCounts(n) PROVE kb' \in [chunks : Nat, docs : Nat]
  <2> DEFINE delta == -lock.delta
  <2>1. delta \in Int BY <1>2
  <2>2. kb' = Counted(delta, n) BY <1>5 DEF RestoreCounts
  <2> HIDE DEF delta
  <2> QED BY <2>1, <2>2, CountedType DEF Sound
<1> QED BY <1>3, <1>4, <1>5

LEMMA ProceedSound == ASSUME Sound, Proceed PROVE Sound'
<1> DEFINE Held == /\ lock' \in Locked \cup {Free}
                   /\ req' \in [Handlers -> Request \cup {Idle}]
                   /\ EditsHeld'
           Stores == /\ docs' \in [Docs -> Row] /\ index' \in [Docs -> Nat]
                     /\ file' \in [Docs -> Nat] /\ graphs' \in [Docs -> BOOLEAN]
                     /\ kb' \in [chunks : Nat, docs : Nat]
<1>0. ASSUME Held, Stores PROVE Sound' BY <1>0 DEF Sound, TypeOK, Row
<1>1. lock # Free BY DEF Proceed, WriteIndex, WriteGraphs, WriteCounts, WriteMetadata,
                        WriteDocs, WriteEditedDoc, WriteEditedCounts
<1>2. lock \in Locked BY <1>1, LockFields DEF Sound
<1>3. /\ lock.doc \in Docs /\ lock.count \in Nat /\ lock.delta \in Int
      /\ lock.graph \in BOOLEAN /\ lock.new \in [Docs -> Nat]
  BY <1>2 DEF Locked
<1>4. Unlock => Held BY <1>1, UnlockSound
<1>5. \A at \in {"graphs", "counts", "metadata", "docs"} : Continue(at) => Held
  BY <1>1, ContinueSound
<1>6. /\ docs \in [Docs -> Row] /\ index \in [Docs -> Nat] /\ file \in [Docs -> Nat]
      /\ graphs \in [Docs -> BOOLEAN] /\ kb \in [chunks : Nat, docs : Nat]
  BY DEF Sound, TypeOK, Row
<1>7. [graphs EXCEPT ![lock.doc] = lock.graph] \in [Docs -> BOOLEAN] BY <1>3, <1>6
<1>8. \A n \in {-1, 0} : Counted(lock.delta, n) \in [chunks : Nat, docs : Nat]
  <2> TAKE n \in {-1, 0}
  <2>1. n \in Int /\ lock.delta \in Int /\ TypeOK BY <1>3 DEF Sound
  <2> QED BY <2>1, CountedType
<1>9. /\ RestoreIndex \/ RestoreSnapshot =>
             index' \in [Docs -> Nat] /\ file' \in [Docs -> Nat]
      /\ RestoreGraph => graphs' \in [Docs -> BOOLEAN]
  BY <1>1, Restored
<1>10. \A n \in {0, 1} : RestoreCounts(n) => kb' \in [chunks : Nat, docs : Nat]
  BY <1>1, Restored
<1>11. Without(lock.doc, "deleted") \in [Docs -> Row]
  BY <1>3, WithoutType DEF Sound, DocState
<1>12. \A n \in Nat : [docs EXCEPT ![lock.doc].chunks = n] \in [Docs -> Row]
  <2> TAKE n \in Nat
  <2>1. "parsing" \in DocState /\ TypeOK BY DEF DocState, Sound
  <2> QED BY <1>3, <2>1, RowUpdates
<1> HIDE DEF Held
<1>a. ASSUME NEW result \in {"ok"} \cup (Faults \ {"crash"}), WriteIndex(result) PROVE Sound'
  <2>1. result \in {"ok", "write", "invalid"} BY FaultsAssumption
  <2>2. Held
    <3>1. CASE result = "ok" /\ AfterIndex # "end"
      <4>1. Continue(AfterIndex) BY <1>a, <3>1 DEF WriteIndex
      <4>2. AfterIndex \in {"graphs", "docs"} BY <3>1 DEF AfterIndex
      <4> QED BY <1>5, <4>1, <4>2
    <3>2. CASE ~(result = "ok" /\ AfterIndex # "end") BY <1>a, <1>4, <3>2 DEF WriteIndex
    <3> QED BY <3>1, <3>2
  <2>3. index' \in [Docs -> Nat] /\ file' \in [Docs -> Nat]
    BY <1>a, <1>3, <1>6, <2>1 DEF WriteIndex
  <2> QED BY <1>a, <1>0, <1>6, <2>2, <2>3 DEF WriteIndex
<1>b. ASSUME NEW ok \in BOOLEAN, WriteGraphs(ok) PROVE Sound'
  <2>1. Held BY <1>b, <1>4, <1>5 DEF WriteGraphs
  <2>2. Stores BY <1>b, <1>6, <1>7, <1>9 DEF WriteGraphs
  <2> QED BY <1>0, <2>1, <2>2
<1>c. ASSUME NEW ok \in BOOLEAN, WriteCounts(ok) PROVE Sound'
  <2>1. Held BY <1>c, <1>4, <1>5 DEF WriteCounts
  <2>2. Stores BY <1>c, <1>6, <1>8, <1>9 DEF WriteCounts
  <2> QED BY <1>0, <2>1, <2>2
<1>d. ASSUME NEW ok \in BOOLEAN, WriteMetadata(ok) PROVE Sound'
  <2>1. Held BY <1>d, <1>4, <1>5 DEF WriteMetadata
  <2>2. Stores BY <1>d, <1>6, <1>9, <1>10 DEF WriteMetadata
  <2> QED BY <1>0, <2>1, <2>2
<1>e. ASSUME NEW ok \in BOOLEAN, WriteDocs(ok) PROVE Sound'
  <2>1. Held BY <1>e, <1>4 DEF WriteDocs
  <2>2. CASE ok /\ Present(lock.doc)
    <3>1. UNCHANGED <<index, file, graphs, kb>> BY <1>e, <2>2 DEF WriteDocs
    <3>2. docs' = Without(lock.doc, "deleted") \/ docs' = [docs EXCEPT ![lock.doc].chunks = lock.count]
      BY <1>e, <2>2 DEF WriteDocs
    <3>3. docs' \in [Docs -> Row] BY <1>3, <1>11, <1>12, <3>2
    <3> QED BY <1>0, <1>6, <2>1, <3>1, <3>3
  <2>3. CASE ~(ok /\ Present(lock.doc))
    <3>1. RestoreGraph /\ RestoreIndex /\ UNCHANGED docs
            /\ RestoreCounts(IF lock.op = "delete" THEN 1 ELSE 0)
      BY <1>e, <2>3 DEF WriteDocs
    <3> QED BY <1>0, <1>6, <1>9, <1>10, <2>1, <3>1
  <2> QED BY <2>2, <2>3
<1>f. ASSUME NEW ok \in BOOLEAN, WriteEditedDoc(ok) PROVE Sound'
  <2>1. Held BY <1>f, <1>4, <1>5 DEF WriteEditedDoc
  <2>2. UNCHANGED <<graphs, kb>> BY <1>f DEF WriteEditedDoc
  <2>3. docs' = docs \/ docs' = [docs EXCEPT ![lock.doc].chunks = lock.count]
    BY <1>f DEF WriteEditedDoc
  <2>4. docs' \in [Docs -> Row] BY <1>3, <1>6, <1>12, <2>3
  <2>5. index' \in [Docs -> Nat] /\ file' \in [Docs -> Nat]
    BY <1>f, <1>6, <1>9 DEF WriteEditedDoc
  <2> QED BY <1>0, <1>6, <2>1, <2>2, <2>4, <2>5
<1>g. ASSUME NEW ok \in BOOLEAN, WriteEditedCounts(ok) PROVE Sound'
  <2>1. Held BY <1>g, <1>4 DEF WriteEditedCounts
  <2>2. req[lock.by].count \in Nat
    BY <1>g, <1>1, RequestFields DEF WriteEditedCounts, Sound, EditsHeld
  <2>3. docs' = docs \/ docs' = [docs EXCEPT ![lock.doc].chunks = req[lock.by].count]
    BY <1>g DEF WriteEditedCounts
  <2>4. docs' \in [Docs -> Row] BY <1>6, <1>12, <2>2, <2>3
  <2>5. /\ index' \in [Docs -> Nat] /\ file' \in [Docs -> Nat]
        /\ kb' \in [chunks : Nat, docs : Nat] /\ UNCHANGED graphs
    BY <1>g, <1>6, <1>8, <1>9 DEF WriteEditedCounts
  <2> QED BY <1>0, <1>6, <2>1, <2>4, <2>5
<1> QED BY <1>a, <1>b, <1>c, <1>d, <1>e, <1>f, <1>g DEF Proceed

LEMMA CrashSound == ASSUME Sound, Crash PROVE Sound'
BY DEF Crash, Sound, TypeOK, EditsHeld

LEMMA SoundStep == Sound /\ [Next]_vars => Sound'
<1> SUFFICES ASSUME Sound, [Next]_vars PROVE Sound' OBVIOUS
<1>1. CASE UNCHANGED vars BY <1>1 DEF vars, Sound, TypeOK, EditsHeld
<1>2. CASE Next
  BY <1>2, ServeSound, RequeueSound, EnterSound, ProceedSound, CrashSound DEF Next
<1> QED BY <1>1, <1>2

\* Rows, chunks, totals, requests and the lock have their types, after any
\* failed writes and any crash of commit_indexed_document and the others.
THEOREM TypeCorrect == Spec => []TypeOK
<1>1. Init => Sound BY SoundInit
<1>2. Sound /\ [Next]_vars => Sound' BY SoundStep
<1>3. Sound => TypeOK BY DEF Sound
<1> QED BY <1>1, <1>2, <1>3, PTL DEF Spec

-----------------------------------------------------------------------------
(* Atomicity *)

WritesFailOnly == Faults \subseteq {"write"}

LEMMA AtomicInit == Init => Written
BY DEF Init, Written, InTurn, OwnDocumentOnly, IndexWritten, GraphsWritten, Free

\* Requests do not write what the function under the lock writes.
LEMMA ServeAtomic ==
    ASSUME Written, UNCHANGED <<index, file, graphs, lock>>
    PROVE  Written'
BY DEF Written, InTurn, OwnDocumentOnly, IndexWritten, GraphsWritten

LEMMA RequestsKeep ==
    ASSUME NEW h \in Handlers, Serve(h)
    PROVE  UNCHANGED <<index, file, graphs, lock>>
BY DEF Serve, StartUpload, StartDelete, StartEdit, StartRelease, UploadCount, UploadPush,
       UploadStatus, UploadCancel, UploadRemove, UploadUndo, Release, Zero, ReadIndex, DropEdit

\* A function enters the lock with a copy of the stores.
LEMMA EnterAtomic == ASSUME Sound, Written, Enter PROVE Written'
<1>1. lock = Free /\ UNCHANGED <<index, file, graphs>> /\ lock'.at = "index"
        /\ lock'.prev = index /\ lock'.prevGraph = graphs[lock'.doc]
  BY DEF Enter, LockCommit, LockDelete, LockEdit, LockReset, Acquire
<1>2. lock'.op \in {"commit", "delete"} => \A d \in Docs \ {lock'.doc} : lock'.new[d] = lock'.prev[d]
  BY DEF Enter, LockCommit, LockDelete, LockEdit, LockReset, Acquire, Sound, TypeOK
<1>3. lock'.op = "delete" => lock'.count = 0
  BY DEF Enter, LockCommit, LockDelete, LockEdit, LockReset, Acquire
<1> QED BY <1>1, <1>2, <1>3 DEF Written, InTurn, OwnDocumentOnly, IndexWritten, GraphsWritten

\* What is put back is what was there before.
LEMMA RestoredIndex ==
    ASSUME Sound, Written, lock # Free, lock.op \in {"commit", "delete"}, lock.at # "index",
           RestoreIndex
    PROVE  index' = lock.prev /\ file' = lock.prev
<1>1. lock.doc \in Docs /\ lock.new \in [Docs -> Nat] /\ lock.prev \in [Docs -> Nat]
  BY LockFields DEF Sound, Locked
<1>2. index = lock.new /\ \A d \in Docs \ {lock.doc} : lock.new[d] = lock.prev[d]
  BY DEF Written, InTurn, OwnDocumentOnly, IndexWritten
<1>3. index' = [lock.new EXCEPT ![lock.doc] = lock.prev[lock.doc]] /\ file' = index'
  BY <1>2 DEF RestoreIndex
<1> QED BY <1>1, <1>2, <1>3

LEMMA RestoredGraph ==
    ASSUME Sound, lock # Free, RestoreGraph
    PROVE  graphs'[lock.doc] = lock.prevGraph
<1>1. lock.doc \in Docs BY LockFields DEF Sound, Locked
<1> QED BY <1>1 DEF RestoreGraph, Sound, TypeOK

\* The function returns with the index and its file equal.
LEMMA UnlockAtomic ==
    ASSUME Unlock, file' = index'
    PROVE  Written'
BY DEF Unlock, Written, InTurn, OwnDocumentOnly, IndexWritten, GraphsWritten

\* It goes on after a write of the index, of the graph, or of neither.
LEMMA ContinueAtomic ==
    ASSUME Sound, Written, lock # Free, Continue(lock'.at), lock'.at # "index",
           file' = index', index' = lock.new,
           lock.op \in {"commit", "delete"} \/ (lock.op = "edit" /\ lock'.at \in {"docs", "counts"}),
           lock.op \in {"commit", "delete"} =>
               graphs'[lock.doc] = IF lock'.at = "graphs" THEN lock.prevGraph ELSE lock.graph
    PROVE  Written'
<1>1. lock \in Locked BY LockFields DEF Sound
<1>2. /\ lock'.op = lock.op /\ lock'.doc = lock.doc /\ lock'.new = lock.new
      /\ lock'.prev = lock.prev /\ lock'.graph = lock.graph
      /\ lock'.prevGraph = lock.prevGraph /\ lock'.count = lock.count
  BY <1>1 DEF Continue, Locked
<1> QED BY <1>2 DEF Written, InTurn, OwnDocumentOnly, IndexWritten, GraphsWritten

\* How a commit or deletion may end.
Ended ==
    lock # Free /\ lock.op \in {"commit", "delete"} /\ lock' = Free =>
        LET d == lock.doc
        IN  \/ /\ index' = lock.new /\ file' = lock.new
               /\ graphs'[d] = lock.graph
               /\ docs'[d].chunks = lock.count
               /\ lock.op = "delete" => docs'[d].state = "deleted"
            \/ /\ index' = lock.prev /\ file' = lock.prev
               /\ graphs'[d] = lock.prevGraph
               /\ docs' = docs

\* A function that goes on has not ended.
LEMMA GoingOn ==
    ASSUME Sound, lock # Free, NEW at, Continue(at)
    PROVE  Ended /\ (lock.at # at => lock'.at = at)
<1>1. lock \in Locked BY LockFields DEF Sound
<1>2. lock'.at = at /\ lock'.op = lock.op BY <1>1 DEF Continue, Locked
<1> QED BY <1>1, <1>2 DEF Ended, Free, Locked

LEMMA WriteIndexAtomic ==
    ASSUME Sound, Written, lock # Free, NEW result \in {"ok", "write"}, WriteIndex(result)
    PROVE  Written' /\ Ended
<1>1. lock.at = "index" BY DEF WriteIndex
<1>2. lock \in Locked BY LockFields DEF Sound
<1>3. CASE result = "ok" /\ AfterIndex # "end"
  <2>1. Continue(AfterIndex) /\ AfterIndex \in {"graphs", "docs"}
    BY <1>3 DEF WriteIndex, AfterIndex
  <2>2. \/ lock.op \in {"commit", "delete"} /\ AfterIndex = "graphs"
        \/ lock.op = "edit" /\ AfterIndex = "docs"
    BY <1>2, <2>1 DEF AfterIndex, Locked
  <2>3. Ended /\ lock'.at = AfterIndex BY <1>1, <2>1, GoingOn
  <2>4. index' = lock.new /\ file' = lock.new /\ UNCHANGED graphs BY <1>3 DEF WriteIndex
  <2>5. lock.op \in {"commit", "delete"} =>
          graphs'[lock.doc] = lock.prevGraph /\ lock'.at = "graphs"
    BY <1>1, <2>2, <2>3, <2>4 DEF Written, GraphsWritten
  <2> QED BY <2>1, <2>2, <2>3, <2>4, <2>5, ContinueAtomic
<1>4. CASE ~(result = "ok" /\ AfterIndex # "end")
  <2>1. Unlock BY <1>4 DEF WriteIndex
  <2>2. file' = index' BY DEF WriteIndex, Written, IndexWritten
  <2>3. lock.op \in {"commit", "delete"} => result = "write" BY <1>4 DEF AfterIndex
  <2>4. ASSUME lock.op \in {"commit", "delete"} PROVE Ended
    <3>1. UNCHANGED <<index, file, graphs, docs>> BY <2>3, <2>4 DEF WriteIndex
    <3>2. index = lock.prev /\ file = lock.prev /\ graphs[lock.doc] = lock.prevGraph
      BY <1>1, <2>4 DEF Written, IndexWritten, GraphsWritten
    <3> QED BY <3>1, <3>2 DEF Ended
  <2>5. Ended BY <2>4 DEF Ended
  <2> QED BY <2>1, <2>2, <2>5, UnlockAtomic
<1> QED BY <1>3, <1>4

\* The writes after the index: they go on, or put everything back.
LEMMA Abandoned ==
    ASSUME Sound, Written, lock # Free, lock.at # "index", Unlock, UNCHANGED docs,
           RestoreIndex,
           lock.op \in {"commit", "delete"} => graphs'[lock.doc] = lock.prevGraph
    PROVE  Written' /\ Ended
<1>1. file' = index' BY DEF RestoreIndex
<1>2. Written' BY <1>1, UnlockAtomic
<1>3. Ended BY RestoredIndex DEF Ended
<1> QED BY <1>2, <1>3

LEMMA WriteGraphsAtomic ==
    ASSUME Sound, Written, lock # Free, NEW ok \in BOOLEAN, WriteGraphs(ok)
    PROVE  Written' /\ Ended
<1>1. lock.at = "graphs" /\ lock.op \in {"commit", "delete"}
  BY DEF WriteGraphs, Written, InTurn
<1>2. CASE ok
  <2>1. Continue("counts") /\ graphs' = [graphs EXCEPT ![lock.doc] = lock.graph]
          /\ UNCHANGED <<index, file>>
    BY <1>2 DEF WriteGraphs
  <2>2. Ended /\ lock'.at = "counts" BY <1>1, <2>1, GoingOn
  <2>3. lock.doc \in Docs BY LockFields DEF Sound, Locked
  <2>4. graphs'[lock.doc] = lock.graph BY <2>1, <2>3 DEF Sound, TypeOK
  <2>5. index' = lock.new /\ file' = index' BY <1>1, <2>1 DEF Written, IndexWritten
  <2> QED BY <1>1, <2>1, <2>2, <2>4, <2>5, ContinueAtomic
<1>3. CASE ~ok
  <2>1. RestoreIndex /\ Unlock /\ UNCHANGED <<graphs, docs>> BY <1>3 DEF WriteGraphs
  <2>2. graphs'[lock.doc] = lock.prevGraph BY <1>1, <2>1 DEF Written, GraphsWritten
  <2> QED BY <1>1, <2>1, <2>2, Abandoned
<1> QED BY <1>2, <1>3

LEMMA WriteCountsAtomic ==
    ASSUME Sound, Written, lock # Free, NEW ok \in BOOLEAN, WriteCounts(ok)
    PROVE  Written' /\ Ended
<1>1. lock.at = "counts" /\ lock.op \in {"commit", "delete"}
  BY DEF WriteCounts, Written, InTurn
<1>2. CASE ok
  <2> DEFINE at == IF lock.op = "delete" THEN "metadata" ELSE "docs"
  <2>1. Continue(at) /\ UNCHANGED <<index, file, graphs>> BY <1>2 DEF WriteCounts
  <2>2. Ended /\ lock'.at = at BY <1>1, <2>1, GoingOn
  <2>3. at \in {"metadata", "docs"} OBVIOUS
  <2> HIDE DEF at
  <2>4. index' = lock.new /\ file' = index' /\ graphs'[lock.doc] = lock.graph
    BY <1>1, <2>1 DEF Written, IndexWritten, GraphsWritten
  <2> QED BY <1>1, <2>1, <2>2, <2>3, <2>4, ContinueAtomic
<1>3. CASE ~ok
  <2>1. RestoreGraph /\ RestoreIndex /\ Unlock /\ UNCHANGED docs BY <1>3 DEF WriteCounts
  <2> QED BY <1>1, <2>1, RestoredGraph, Abandoned
<1> QED BY <1>2, <1>3

LEMMA WriteMetadataAtomic ==
    ASSUME Sound, Written, lock # Free, NEW ok \in BOOLEAN, WriteMetadata(ok)
    PROVE  Written' /\ Ended
<1>1. lock.at = "metadata" /\ lock.op \in {"commit", "delete"}
  BY DEF WriteMetadata, Written, InTurn
<1>2. CASE ok
  <2>1. Continue("docs") /\ UNCHANGED <<index, file, graphs>> BY <1>2 DEF WriteMetadata
  <2>2. Ended /\ lock'.at = "docs" BY <1>1, <2>1, GoingOn
  <2>3. index' = lock.new /\ file' = index' /\ graphs'[lock.doc] = lock.graph
    BY <1>1, <2>1 DEF Written, IndexWritten, GraphsWritten
  <2> QED BY <1>1, <2>1, <2>2, <2>3, ContinueAtomic
<1>3. CASE ~ok
  <2>1. RestoreGraph /\ RestoreIndex /\ Unlock /\ UNCHANGED docs BY <1>3 DEF WriteMetadata
  <2> QED BY <1>1, <2>1, RestoredGraph, Abandoned
<1> QED BY <1>2, <1>3

LEMMA WriteDocsAtomic ==
    ASSUME Sound, Written, lock # Free, NEW ok \in BOOLEAN, WriteDocs(ok)
    PROVE  Written' /\ Ended
<1>1. lock.at = "docs" /\ lock.op \in {"commit", "delete"} /\ Unlock
  BY DEF WriteDocs, Written, InTurn
<1>2. CASE ok /\ Present(lock.doc)
  <2>1. /\ UNCHANGED <<index, file, graphs>>
        /\ docs' = IF lock.op = "delete" THEN Without(lock.doc, "deleted")
                   ELSE [docs EXCEPT ![lock.doc].chunks = lock.count]
    BY <1>2 DEF WriteDocs
  <2>2. index = lock.new /\ file = lock.new /\ graphs[lock.doc] = lock.graph
    BY <1>1 DEF Written, IndexWritten, GraphsWritten
  <2>3. lock.doc \in Docs /\ docs \in [Docs -> Row]
    BY LockFields DEF Sound, TypeOK, Locked, Row
  <2>4. lock.op = "delete" => docs'[lock.doc] = [state |-> "deleted", chunks |-> 0]
    BY <1>2, <2>1, <2>3 DEF Without
  <2>5. lock.op = "commit" => docs'[lock.doc].chunks = lock.count
    BY <2>1, <2>3 DEF Row
  <2>6. lock.op = "delete" => lock.count = 0 BY DEF Written, OwnDocumentOnly
  <2>7. Ended BY <1>1, <2>1, <2>2, <2>4, <2>5, <2>6 DEF Ended
  <2> QED BY <1>1, <2>1, <2>2, <2>7, UnlockAtomic
<1>3. CASE ~(ok /\ Present(lock.doc))
  <2>1. RestoreGraph /\ RestoreIndex /\ UNCHANGED docs BY <1>3 DEF WriteDocs
  <2> QED BY <1>1, <2>1, RestoredGraph, Abandoned
<1> QED BY <1>2, <1>3

\* An edit is not under the property, and leaves the index and its file equal.
LEMMA EditAtomic ==
    ASSUME Sound, Written, lock # Free, NEW ok \in BOOLEAN,
           WriteEditedDoc(ok) \/ WriteEditedCounts(ok)
    PROVE  Written' /\ Ended
<1>1. lock.op = "edit" /\ lock.at # "index" /\ UNCHANGED graphs
  BY DEF WriteEditedDoc, WriteEditedCounts
<1>2. Ended BY <1>1 DEF Ended
<1>3. CASE WriteEditedDoc(ok) /\ ok
  <2>1. Continue("counts") /\ UNCHANGED <<index, file>> /\ lock.at = "docs"
    BY <1>3 DEF WriteEditedDoc
  <2>2. lock'.at = "counts" BY <2>1, GoingOn
  <2>3. index' = lock.new /\ file' = index' BY <2>1 DEF Written, IndexWritten
  <2> QED BY <1>1, <1>2, <2>1, <2>2, <2>3, ContinueAtomic
<1>4. CASE ~(WriteEditedDoc(ok) /\ ok)
  <2>1. Unlock /\ file' = index'
    BY <1>4 DEF WriteEditedDoc, WriteEditedCounts, RestoreSnapshot, Written, IndexWritten
  <2> QED BY <1>2, <2>1, UnlockAtomic
<1> QED BY <1>3, <1>4

LEMMA AtomicStep ==
    ASSUME WritesFailOnly
    PROVE  Sound /\ Written /\ [Next]_vars => Written' /\ Ended
<1> SUFFICES ASSUME Sound, Written, [Next]_vars PROVE Written' /\ Ended OBVIOUS
<1>1. CASE UNCHANGED vars
  <2>1. Ended BY <1>1 DEF vars, Ended
  <2> QED BY <1>1, <2>1, ServeAtomic DEF vars
<1>2. ASSUME NEW h \in Handlers, Serve(h) PROVE Written' /\ Ended
  <2>1. UNCHANGED <<index, file, graphs, lock>> BY <1>2, RequestsKeep
  <2> QED BY <2>1, ServeAtomic DEF Ended
<1>3. ASSUME NEW d \in Docs, Requeue(d) PROVE Written' /\ Ended
  BY <1>3, ServeAtomic DEF Requeue, Ended
<1>4. CASE Enter
  <2>1. lock = Free BY <1>4 DEF Enter, LockCommit, LockDelete, LockEdit, LockReset, Acquire
  <2> QED BY <1>4, <2>1, EnterAtomic DEF Ended
<1>5. CASE Proceed
  <2>1. lock # Free
    BY <1>5 DEF Proceed, WriteIndex, WriteGraphs, WriteCounts, WriteMetadata, WriteDocs,
                WriteEditedDoc, WriteEditedCounts
  <2>2. {"ok"} \cup (Faults \ {"crash"}) \subseteq {"ok", "write"} BY DEF WritesFailOnly
  <2> QED BY <1>5, <2>1, <2>2, WriteIndexAtomic, WriteGraphsAtomic, WriteCountsAtomic,
             WriteMetadataAtomic, WriteDocsAtomic, EditAtomic DEF Proceed
<1>6. CASE Crash BY <1>6 DEF Crash, WritesFailOnly
<1> QED BY <1>1, <1>2, <1>3, <1>4, <1>5, <1>6 DEF Next

\* A commit or deletion that does not complete puts back the index, its file,
\* the graph and the row: where writes may fail, but the process goes on and no
\* chunk is invalid, for whatever requests interleave with it.
THEOREM CommitsAtomic == ASSUME WritesFailOnly PROVE Spec => AllOrNothing
<1>1. Init => Sound /\ Written BY SoundInit, AtomicInit
<1>2. Sound /\ Written /\ [Next]_vars => (Sound /\ Written)'
  BY SoundStep, AtomicStep
<1>3. Sound /\ Written /\ [Next]_vars =>
        (lock # Free /\ lock.op \in {"commit", "delete"} /\ lock' = Free =>
            LET d == lock.doc
            IN  \/ /\ index' = lock.new /\ file' = lock.new
                   /\ graphs'[d] = lock.graph
                   /\ docs'[d].chunks = lock.count
                   /\ lock.op = "delete" => docs'[d].state = "deleted"
                \/ /\ index' = lock.prev /\ file' = lock.prev
                   /\ graphs'[d] = lock.prevGraph
                   /\ docs' = docs)
  BY AtomicStep DEF Ended
<1> QED BY <1>1, <1>2, <1>3, PTL DEF Spec, AllOrNothing

-----------------------------------------------------------------------------
(* No orphans *)

WithoutEdits == "edit" \notin Requests

LEMMA BuriedInit == Init => Buried
BY DEF Init, Buried, NoEdits, KeepsOut, DeletesFirst, NoOrphans, Deleted, Free, Idle

\* Steps that write none of the stores keep what is deleted out of them.
LEMMA BuriedKept ==
    ASSUME Buried, UNCHANGED <<index, file, graphs, lock>>,
           \A d \in Docs : Deleted(d)' => Deleted(d),
           \A h \in Handlers : req'[h].kind # "edit"
    PROVE  Buried'
BY DEF Buried, NoEdits, KeepsOut, DeletesFirst, NoOrphans, Deleted

LEMMA ServeBuries ==
    ASSUME WithoutEdits, Sound, Buried, NEW h \in Handlers, Serve(h)
    PROVE  Buried'
<1>1. UNCHANGED <<index, file, graphs, lock>> BY RequestsKeep
<1>2. req[h].kind # "edit" BY DEF Buried, NoEdits
<1>3. ASSUME NEW d \in Docs PROVE Deleted(d)' => Deleted(d)
  <2>1. docs \in [Docs -> Row] BY DEF Sound, TypeOK, Row
  <2>2. CASE \E e \in Docs : StartUpload(h, e)
    BY <2>1, <2>2 DEF StartUpload, Deleted, Row
  <2>3. CASE \E ok \in BOOLEAN : UploadCount(h, ok)
    BY <2>1, <2>3 DEF UploadCount, Without, Deleted, Row
  <2>4. CASE (\E ok \in BOOLEAN : UploadPush(h, ok)) \/ UploadCancel(h) \/ UploadRemove(h)
    <3> DEFINE e == req[h].doc
    <3>1. docs' \in {Without(e, "undone"), Requeued(e, "parsing"), Requeued(e, "uploaded")}
      BY <2>4 DEF UploadPush, UploadCancel, UploadRemove
    <3> QED BY <2>1, <3>1 DEF Without, Requeued, Deleted, Row
  <2>5. CASE \E ok \in BOOLEAN : Zero(h, ok)
    <3> DEFINE e == req[h].doc
    <3>1. \/ docs' = docs
          \/ Present(e) /\ docs'[d].state \in {docs[d].state, "parsing"}
      BY <2>1, <2>5 DEF Zero, Row
    <3> QED BY <3>1 DEF Deleted
  <2>6. CASE UNCHANGED docs BY <2>6 DEF Deleted
  <2> QED BY <1>2, <2>2, <2>3, <2>4, <2>5, <2>6
          DEF Serve, StartDelete, StartEdit, StartRelease, UploadStatus, UploadUndo, Release,
              ReadIndex, DropEdit
<1>4. req'[h].kind # "edit"
  <2> DEFINE Places == UploadPlaces \cup {"zero", "remove"}
             Moves == \/ \E ok \in BOOLEAN : \/ UploadCount(h, ok) \/ UploadPush(h, ok)
                                             \/ UploadStatus(h, ok)
                                             \/ Release(h, ok) \/ Zero(h, ok)
                      \/ UploadCancel(h) \/ UploadRemove(h)
  <2>1. ASSUME NEW at \in Places, req[h].kind \in {"upload", "reparse", "reset"}
        PROVE  [req[h] EXCEPT !.at = at].kind # "edit"
    BY <1>2, <2>1, RequestFields DEF Sound
  <2>2. CASE Moves
    <3>1. req[h].kind \in {"upload", "reparse", "reset"}
      BY <2>2 DEF UploadCount, UploadPush, UploadStatus, UploadCancel, UploadRemove, Release, Zero
    <3>2. req'[h] = Idle \/ \E at \in Places : req'[h] = [req[h] EXCEPT !.at = at]
      BY <2>2 DEF UploadCount, UploadPush, UploadStatus, UploadCancel, UploadRemove,
                  UploadPlaces, Release, Zero, Finished, Sound, TypeOK
    <3>3. CASE req'[h] = Idle BY <3>3 DEF Idle
    <3>4. ASSUME NEW at \in Places, req'[h] = [req[h] EXCEPT !.at = at]
          PROVE  req'[h].kind # "edit"
      <4>1. [req[h] EXCEPT !.at = at].kind # "edit" BY <2>1, <3>1
      <4> QED BY <3>4, <4>1, Zenon
    <3> QED BY <3>2, <3>3, <3>4
  <2>3. CASE ~Moves
    BY <1>2, <2>3 DEF Serve, StartUpload, StartDelete, StartEdit, StartRelease, UploadUndo,
                ReadIndex, DropEdit, Finished, Idle, Start, WithoutEdits, Sound, TypeOK
  <2> QED BY <2>2, <2>3
<1>5. \A g \in Handlers \ {h} : req'[g] = req[g]
  BY <1>2 DEF Serve, StartUpload, StartDelete, StartEdit, StartRelease, UploadCount,
              UploadPush, UploadStatus, UploadCancel, UploadRemove, UploadUndo, Release, Zero,
              ReadIndex, DropEdit, Finished, Sound, TypeOK
<1>6. \A g \in Handlers : req'[g].kind # "edit"
  BY <1>4, <1>5 DEF Buried, NoEdits
<1> QED BY <1>1, <1>3, <1>6, BuriedKept

LEMMA RequeueBuries ==
    ASSUME Sound, Buried, NEW d \in Docs, Requeue(d)
    PROVE  Buried'
<1>1. docs \in [Docs -> Row] BY DEF Sound, TypeOK, Row
<1>2. \A e \in Docs : Deleted(e)' => Deleted(e) BY <1>1 DEF Requeue, Deleted, Row
<1>3. \A h \in Handlers : req'[h].kind # "edit" BY DEF Requeue, Buried, NoEdits
<1> QED BY <1>2, <1>3, BuriedKept DEF Requeue

LEMMA EnterBuries == ASSUME Sound, Buried, Enter PROVE Buried'
<1>1. UNCHANGED <<docs, index, file, graphs, req>>
  BY DEF Enter, LockCommit, LockDelete, LockEdit, LockReset, Acquire
<1>2. /\ index \in [Docs -> Nat] /\ graphs \in [Docs -> BOOLEAN]
      /\ \A d \in Docs : Deleted(d) => index[d] = 0 /\ ~graphs[d]
  BY DEF Sound, TypeOK, Buried, NoOrphans, Deleted
<1>3. NoOrphans' BY <1>1 DEF Buried, NoOrphans
<1>4. ASSUME NEW d \in Docs, NEW n \in 0 .. MaxChunks, NEW graph \in BOOLEAN,
             LockCommit(d, n, graph)
      PROVE  NoEdits' /\ KeepsOut' /\ DeletesFirst'
  <2>1. ~Deleted(d) BY <1>4 DEF LockCommit, Committable, Deleted
  <2>2. /\ lock'.op = "commit" /\ lock'.doc = d /\ lock'.prev = index
        /\ lock'.new = [index EXCEPT ![d] = n]
    BY <1>4 DEF LockCommit, Acquire
  <2> QED BY <1>1, <1>2, <2>1, <2>2 DEF NoEdits, KeepsOut, DeletesFirst, Deleted, Buried
<1>5. ASSUME NEW h \in Handlers, LockDelete(h)
      PROVE  NoEdits' /\ KeepsOut' /\ DeletesFirst'
  <2> DEFINE d == req[h].doc
  <2>1. d \in Docs BY <1>5, RequestFields DEF LockDelete, Sound
  <2>2. /\ lock'.op = "delete" /\ lock'.doc = d /\ lock'.prev = index
        /\ lock'.new = [index EXCEPT ![d] = 0] /\ lock'.graph = FALSE
        /\ lock'.prevGraph = graphs[d] /\ lock'.at = "index"
    BY <1>5 DEF LockDelete, Acquire
  <2> HIDE DEF d
  <2> QED BY <1>1, <1>2, <2>1, <2>2 DEF NoEdits, KeepsOut, DeletesFirst, Deleted, Buried
<1>6. ASSUME NEW h \in Handlers, LockEdit(h) PROVE FALSE
  BY <1>6 DEF LockEdit, Buried, NoEdits
<1>7. ASSUME NEW h \in Handlers, LockReset(h)
      PROVE  NoEdits' /\ KeepsOut' /\ DeletesFirst'
  <2> DEFINE d == req[h].doc
  <2>1. d \in Docs BY <1>7, RequestFields DEF LockReset, Sound
  <2>2. /\ lock'.op = "reset" /\ lock'.doc = d /\ lock'.prev = index
        /\ lock'.new = [index EXCEPT ![d] = 0] /\ lock'.graph = graphs[d]
        /\ lock'.prevGraph = graphs[d]
    BY <1>7 DEF LockReset, Acquire
  <2> HIDE DEF d
  <2> QED BY <1>1, <1>2, <2>1, <2>2 DEF NoEdits, KeepsOut, DeletesFirst, Deleted, Buried
<1> QED BY <1>3, <1>4, <1>5, <1>6, <1>7 DEF Enter, Buried

\* The function returns, or goes on with its next write.
LEMMA LeavesNoEdits ==
    ASSUME Sound, Buried, lock # Free, Unlock \/ \E at \in {"graphs", "counts", "metadata", "docs"} : Continue(at)
    PROVE  NoEdits'
<1>1. lock \in Locked BY LockFields DEF Sound
<1>2. CASE Unlock
  BY <1>1, <1>2 DEF Unlock, Buried, NoEdits, Locked, Idle, Sound, TypeOK
<1>3. CASE \E at \in {"graphs", "counts", "metadata", "docs"} : Continue(at)
  BY <1>1, <1>3 DEF Continue, Buried, NoEdits, Locked
<1> QED BY <1>2, <1>3

\* It returns, with nothing of what is deleted in the stores.
LEMMA UnlockBuries ==
    ASSUME Sound, Buried, lock # Free, Unlock, NoOrphans'
    PROVE  Buried'
BY LeavesNoEdits DEF Unlock, Buried, KeepsOut, DeletesFirst

\* It goes on.
LEMMA ContinueBuries ==
    ASSUME Sound, Buried, lock # Free, NEW at \in {"graphs", "counts", "metadata", "docs"},
           Continue(at), UNCHANGED docs, NoOrphans',
           lock.op = "delete" /\ at # "index" => index'[lock.doc] = 0 /\ file'[lock.doc] = 0,
           lock.op = "delete" /\ at \notin {"index", "graphs"} => ~graphs'[lock.doc]
    PROVE  Buried'
<1>1. lock \in Locked BY LockFields DEF Sound
<1>2. /\ lock' = [lock EXCEPT !.at = at] /\ lock'.at = at /\ lock'.op = lock.op
      /\ lock'.doc = lock.doc /\ lock'.new = lock.new /\ lock'.prev = lock.prev
      /\ lock'.graph = lock.graph /\ lock'.prevGraph = lock.prevGraph
  BY <1>1 DEF Continue, Locked
<1>3. KeepsOut' /\ DeletesFirst'
  BY <1>2 DEF Buried, KeepsOut, DeletesFirst, Deleted
<1> QED BY <1>3, LeavesNoEdits DEF Buried

\* What is put back holds nothing of what is deleted.
LEMMA RestoreBuries ==
    ASSUME Sound, Buried, lock # Free, RestoreIndex, UNCHANGED docs,
           RestoreGraph \/ UNCHANGED graphs
    PROVE  NoOrphans'
<1>1. lock.doc \in Docs BY LockFields DEF Sound, Locked
<1> QED BY <1>1 DEF RestoreIndex, RestoreGraph, Buried, KeepsOut, NoOrphans, Deleted,
                  Sound, TypeOK

LEMMA ProceedBuries == ASSUME Sound, Buried, Proceed PROVE Buried'
<1>1. lock # Free
  BY DEF Proceed, WriteIndex, WriteGraphs, WriteCounts, WriteMetadata, WriteDocs,
         WriteEditedDoc, WriteEditedCounts
<1>2. lock.op \in {"commit", "delete", "reset"} /\ lock.doc \in Docs
  BY <1>1, LockFields DEF Buried, NoEdits, Sound, Locked
<1>a. ASSUME NEW result \in {"ok"} \cup (Faults \ {"crash"}), WriteIndex(result)
      PROVE  Buried'
  <2>1. result \in {"ok", "write", "invalid"} BY FaultsAssumption
  <2>2. UNCHANGED <<docs, graphs>> BY <1>a DEF WriteIndex
  <2>3. /\ index' = lock.new \/ index' = index
        /\ file' = lock.new \/ file' = file
    BY <1>a, <2>1 DEF WriteIndex
  <2>4. NoOrphans' BY <1>1, <2>2, <2>3 DEF Buried, KeepsOut, NoOrphans, Deleted
  <2>5. CASE result = "ok" /\ AfterIndex # "end"
    <3>1. Continue(AfterIndex) /\ index' = lock.new /\ file' = lock.new
      BY <1>a, <2>5 DEF WriteIndex
    <3>2. AfterIndex \in {"graphs", "docs"} /\ (lock.op = "delete" => AfterIndex = "graphs")
      BY <2>5 DEF AfterIndex
    <3>3. lock.op = "delete" => lock.new[lock.doc] = 0 BY <1>1 DEF Buried, DeletesFirst
    <3> QED BY <1>1, <2>2, <2>4, <3>1, <3>2, <3>3, ContinueBuries
  <2>6. CASE ~(result = "ok" /\ AfterIndex # "end")
    <3>1. Unlock BY <1>a, <2>6 DEF WriteIndex
    <3> QED BY <1>1, <2>4, <3>1, UnlockBuries
  <2> QED BY <2>5, <2>6
<1>b. ASSUME NEW ok \in BOOLEAN, WriteGraphs(ok) PROVE Buried'
  <2>1. UNCHANGED docs /\ lock.at = "graphs" BY <1>b DEF WriteGraphs
  <2>2. CASE ok
    <3>1. Continue("counts") /\ graphs' = [graphs EXCEPT ![lock.doc] = lock.graph]
            /\ UNCHANGED <<index, file>>
      BY <1>b, <2>2 DEF WriteGraphs
    <3>2. NoOrphans'
      BY <1>1, <1>2, <2>1, <3>1 DEF Buried, KeepsOut, NoOrphans, Deleted, Sound, TypeOK
    <3>3. lock.op = "delete" => index[lock.doc] = 0 /\ file[lock.doc] = 0 /\ ~lock.graph
      BY <1>1, <2>1 DEF Buried, DeletesFirst
    <3>4. graphs'[lock.doc] = lock.graph BY <1>2, <3>1 DEF Sound, TypeOK
    <3> QED BY <1>1, <2>1, <3>1, <3>2, <3>3, <3>4, ContinueBuries
  <2>3. CASE ~ok
    <3>1. RestoreIndex /\ Unlock /\ UNCHANGED graphs BY <1>b, <2>3 DEF WriteGraphs
    <3> QED BY <1>1, <2>1, <3>1, RestoreBuries, UnlockBuries
  <2> QED BY <2>2, <2>3
<1>c. ASSUME NEW ok \in BOOLEAN, WriteCounts(ok) \/ WriteMetadata(ok) PROVE Buried'
  <2>1. UNCHANGED docs /\ lock.at \in {"counts", "metadata"}
    BY <1>c DEF WriteCounts, WriteMetadata
  <2>2. CASE ok
    <3>1. UNCHANGED <<index, file, graphs>> /\ \E at \in {"metadata", "docs"} : Continue(at)
      BY <1>c, <2>2 DEF WriteCounts, WriteMetadata
    <3>2. NoOrphans' BY <2>1, <3>1 DEF Buried, NoOrphans
    <3>3. lock.op = "delete" =>
            index[lock.doc] = 0 /\ file[lock.doc] = 0 /\ ~graphs[lock.doc]
      BY <1>1, <2>1 DEF Buried, DeletesFirst
    <3> QED BY <1>1, <2>1, <3>1, <3>2, <3>3, ContinueBuries
  <2>3. CASE ~ok
    <3>1. RestoreIndex /\ RestoreGraph /\ Unlock BY <1>c, <2>3 DEF WriteCounts, WriteMetadata
    <3> QED BY <1>1, <2>1, <3>1, RestoreBuries, UnlockBuries
  <2> QED BY <2>2, <2>3
<1>d. ASSUME NEW ok \in BOOLEAN, WriteDocs(ok) PROVE Buried'
  <2>1. Unlock /\ lock.at = "docs" BY <1>d DEF WriteDocs
  <2>2. CASE ok /\ Present(lock.doc)
    <3>1. /\ UNCHANGED <<index, file, graphs>>
          /\ docs' = IF lock.op = "delete" THEN Without(lock.doc, "deleted")
                     ELSE [docs EXCEPT ![lock.doc].chunks = lock.count]
      BY <1>d, <2>2 DEF WriteDocs
    <3>2. docs \in [Docs -> Row] BY DEF Sound, TypeOK, Row
    <3>3. ASSUME NEW d \in Docs, Deleted(d)'
          PROVE  Deleted(d) \/ (d = lock.doc /\ lock.op = "delete")
      BY <1>2, <2>2, <3>1, <3>2, <3>3 DEF Deleted, Without, Row
    <3>4. lock.op = "delete" =>
            index[lock.doc] = 0 /\ file[lock.doc] = 0 /\ ~graphs[lock.doc]
      BY <1>1, <2>1 DEF Buried, DeletesFirst
    <3>5. NoOrphans' BY <3>1, <3>3, <3>4 DEF Buried, NoOrphans, Deleted
    <3> QED BY <1>1, <2>1, <3>5, UnlockBuries
  <2>3. CASE ~(ok /\ Present(lock.doc))
    <3>1. RestoreIndex /\ RestoreGraph /\ UNCHANGED docs BY <1>d, <2>3 DEF WriteDocs
    <3> QED BY <1>1, <2>1, <3>1, RestoreBuries, UnlockBuries
  <2> QED BY <2>2, <2>3
<1>e. ASSUME NEW ok \in BOOLEAN, WriteEditedDoc(ok) \/ WriteEditedCounts(ok) PROVE FALSE
  BY <1>2, <1>e DEF WriteEditedDoc, WriteEditedCounts
<1> QED BY <1>a, <1>b, <1>c, <1>d, <1>e DEF Proceed

LEMMA CrashBuries == ASSUME Buried, Crash PROVE Buried'
BY DEF Crash, Buried, NoEdits, KeepsOut, DeletesFirst, NoOrphans, Idle

\* A deleted document has no chunk left to be found, none in the index file and
\* no graph, whatever parse was still going, whatever write failed in whichever
\* function, and after any crash, as long as no chunk is edited by hand.
THEOREM NoOrphansLeft == ASSUME WithoutEdits PROVE Spec => []NoOrphans
<1>1. Init => Sound /\ Buried BY SoundInit, BuriedInit
<1>2. Sound /\ Buried /\ [Next]_vars => (Sound /\ Buried)'
  <2> SUFFICES ASSUME Sound, Buried, [Next]_vars PROVE Buried' BY SoundStep
  <2>1. CASE UNCHANGED vars
    BY <2>1 DEF vars, Buried, NoEdits, KeepsOut, DeletesFirst, NoOrphans, Deleted
  <2>2. CASE Next
    BY <2>2, ServeBuries, RequeueBuries, EnterBuries, ProceedBuries, CrashBuries DEF Next
  <2> QED BY <2>1, <2>2
<1>3. Sound /\ Buried => NoOrphans BY DEF Buried
<1> QED BY <1>1, <1>2, <1>3, PTL DEF Spec

-----------------------------------------------------------------------------
(* Totals *)

\* Nothing is released, and whatever edits there are are made alone.
NoReleases == Requests \cap {"reparse", "reset"} = {}
EditsMadeAlone == "edit" \in Requests => "edit" \in Alone

USE DocsAssumption, HandlersAssumption

LEMMA BalancedInit == Init => Balanced
<1> SUFFICES ASSUME Init PROVE Balanced OBVIOUS
<1>1. SumFunction(index) = 0
  <2>1. index \in [Docs -> Nat] /\ \A d \in Docs : index[d] = 0 BY DEF Init
  <2> QED BY <2>1, SumZero
<1>2. TotalCounted BY <1>1 DEF Init, TotalCounted, CountedIndex
<1>3. EditsAlone /\ NothingReleased /\ LockKnows
  BY DEF Init, EditsAlone, Editing, NothingReleased, LockKnows, Idle
<1>4. RowsCount BY DEF Init, RowsCount
<1> QED BY <1>2, <1>3, <1>4 DEF Balanced

\* Who edits while something else goes on beside, or at all.
LEMMA NobodyIs ==
    ASSUME TypeOK, Active = 0
    PROVE  /\ \A h \in Handlers : req[h] = Idle
           /\ lock # Free => lock.op # "commit"
<1> DEFINE busy == {h \in Handlers : req[h] # Idle}
<1>1. IsFiniteSet(busy) BY FS_Subset
<1>2. Cardinality(busy) \in Nat BY <1>1, FS_CardinalityType
<1>3. Cardinality(busy) = 0 /\ (lock # Free => lock.op # "commit") BY <1>2 DEF Active
<1>4. busy = {} BY <1>1, <1>3, FS_EmptySet
<1> QED BY <1>3, <1>4

LEMMA NobodyHolds ==
    ASSUME Sound, Balanced, \A h \in Handlers : req[h] = Idle,
           lock # Free => lock.op # "commit"
    PROVE  lock = Free
<1> SUFFICES ASSUME lock # Free PROVE FALSE OBVIOUS
<1>1. lock.op \in {"delete", "edit", "update"}
  BY LockFields DEF Sound, Locked, Balanced, NothingReleased
<1>2. lock.by \in Handlers /\ req[lock.by].kind \in {"delete", "edit"}
  BY <1>1 DEF Sound, EditsHeld, Balanced, LockKnows
<1> QED BY <1>2 DEF Idle

LEMMA NobodyEdits ==
    ASSUME Balanced, Beside
    PROVE  \A g \in Handlers : ~Editing(g)
BY DEF Balanced, EditsAlone, Beside, Editing

LEMMA NobodyElseEdits ==
    ASSUME Balanced, NEW h \in Handlers, req[h] # Idle, ~Editing(h)
    PROVE  \A g \in Handlers : ~Editing(g)
<1>1. ASSUME NEW g \in Handlers, Editing(g) PROVE FALSE
  <2>1. g # h BY <1>1
  <2> QED BY <1>1, <2>1 DEF Balanced, EditsAlone
<1> QED BY <1>1

\* Beside a request that begins nothing is edited; an edit begins alone.
LEMMA Started ==
    ASSUME EditsMadeAlone, Sound, Balanced, NEW h \in Handlers, NEW kind, Start(h, kind)
    PROVE  /\ \A g \in Handlers : ~Editing(g)
           /\ kind = "edit" => lock = Free /\ \A g \in Handlers : req[g] = Idle
<1>1. CASE kind \in Alone
  <2>1. Active = 0 BY <1>1 DEF Start
  <2>2. \A g \in Handlers : req[g] = Idle BY <2>1, NobodyIs DEF Sound
  <2>3. lock = Free
    <3>1. lock # Free => lock.op # "commit" BY <2>1, NobodyIs DEF Sound
    <3> QED BY <2>2, <3>1, NobodyHolds
  <2> QED BY <2>2, <2>3 DEF Editing, Idle
<1>2. CASE kind \notin Alone
  <2>1. Beside /\ kind # "edit" BY <1>2 DEF Start, EditsMadeAlone
  <2> QED BY <2>1, NobodyEdits
<1> QED BY <1>1, <1>2

\* A step outside the lock removes the row of an upload or keeps its count.
RowHeld(d) ==
    docs'[d].state # "undone" =>
        docs[d].state # "undone" /\ docs'[d].chunks = docs[d].chunks

\* A step of a request outside the lock that changes no count.
LEMMA OutsideBalanced ==
    ASSUME Sound, Balanced, UNCHANGED <<index, lock>>, kb'.chunks = kb.chunks,
           \A d \in Docs : RowHeld(d),
           NEW h \in Handlers, req[h].kind # "delete",
           ~(req[h].kind = "edit" /\ req[h].at = "apply"),
           NEW r, req' = [req EXCEPT ![h] = r], r.kind \notin {"reparse", "reset"}
    PROVE  LockKnows' /\ RowsCount' /\ TotalCounted' /\ NothingReleased'
<1>1. TotalCounted' BY DEF Balanced, TotalCounted, CountedIndex
<1>2. RowsCount' BY DEF Balanced, RowsCount, RowHeld
<1>3. ASSUME lock # Free, lock.op \in {"delete", "edit", "update"}
      PROVE  lock.by \in Handlers /\ req'[lock.by] = req[lock.by]
  <2>1. lock.by \in Handlers BY <1>3 DEF Sound, EditsHeld, Balanced, LockKnows
  <2>2. lock.by # h BY <1>3 DEF Sound, EditsHeld, Balanced, LockKnows
  <2> QED BY <2>1, <2>2 DEF Sound, TypeOK
<1>4. LockKnows' BY <1>3 DEF Balanced, LockKnows, Editing
<1>5. NothingReleased' BY DEF Balanced, NothingReleased, Sound, TypeOK
<1> QED BY <1>1, <1>2, <1>4, <1>5

\* Where nobody edits, a request that is no edit changes nothing about edits.
LEMMA StillNoEdits ==
    ASSUME TypeOK, \A g \in Handlers : ~Editing(g), NEW h \in Handlers,
           NEW r, r.kind # "edit", req' = [req EXCEPT ![h] = r]
    PROVE  EditsAlone'
BY DEF EditsAlone, Editing, TypeOK

\* A step of an upload: its row may go, or be queued or cancelled.
LEMMA UploadBalanced ==
    ASSUME Sound, Balanced, UNCHANGED <<index, lock>>, kb'.chunks = kb.chunks,
           NEW h \in Handlers, req[h].kind = "upload", NEW d \in Docs,
           NEW r, req' = [req EXCEPT ![h] = r], r.kind \in {"upload", "none"},
           docs' \in {docs, Without(d, "undone"), Requeued(d, "parsing"),
                      Requeued(d, "uploaded")}
    PROVE  Balanced'
<1>1. docs \in [Docs -> [state : DocState, chunks : Nat]] BY DEF Sound, TypeOK
<1>2. \A e \in Docs : RowHeld(e) BY <1>1 DEF RowHeld, Without, Requeued, Present
<1>3. LockKnows' /\ RowsCount' /\ TotalCounted' /\ NothingReleased'
  BY <1>2, OutsideBalanced
<1>4. \A g \in Handlers : ~Editing(g) BY NobodyElseEdits DEF Editing, Idle
<1>5. EditsAlone' BY <1>4, StillNoEdits DEF Sound
<1> QED BY <1>3, <1>5 DEF Balanced

\* No step of a request outside the lock changes the chunk total or, but of rows
\* that uploads remove, a count.
LEMMA ServeBalanced ==
    ASSUME NoReleases, EditsMadeAlone, Sound, Balanced, NEW h \in Handlers, Serve(h)
    PROVE  Balanced'
<1> DEFINE Rest == LockKnows' /\ RowsCount' /\ TotalCounted' /\ NothingReleased'
<1> USE DEF Sound
<1>0. UNCHANGED <<index, lock>> BY RequestsKeep
<1>t. /\ docs \in [Docs -> [state : DocState, chunks : Nat]]
      /\ req \in [Handlers -> Request \cup {Idle}]
      /\ kb \in [chunks : Nat, docs : Nat]
  BY DEF TypeOK
<1>h. UNCHANGED docs => \A d \in Docs : RowHeld(d) BY DEF RowHeld
<1>1. ASSUME NEW d \in Docs, StartUpload(h, d) PROVE Balanced'
  <2> DEFINE r == [kind |-> "upload", doc |-> d, at |-> "count"]
  <2>1. /\ req' = [req EXCEPT ![h] = r] /\ req[h] = Idle /\ UNCHANGED kb
        /\ docs[d].state = "absent" /\ docs' = [docs EXCEPT ![d].state = "uploaded"]
    BY <1>1 DEF StartUpload, Start
  <2>2. req[h].kind = "none" BY <2>1 DEF Idle
  <2>3. \A e \in Docs : RowHeld(e) BY <1>t, <2>1 DEF RowHeld
  <2>4. Rest
    <3>1. r.kind \notin {"reparse", "reset"} OBVIOUS
    <3> HIDE DEF r
    <3> QED BY <1>0, <2>1, <2>2, <2>3, <3>1, OutsideBalanced
  <2>5. EditsAlone'
    <3>1. \A g \in Handlers : ~Editing(g) BY <1>1, Started DEF StartUpload
    <3>2. r.kind # "edit" OBVIOUS
    <3> HIDE DEF r
    <3> QED BY <2>1, <3>1, <3>2, StillNoEdits
  <2> QED BY <2>4, <2>5 DEF Balanced
<1>2. ASSUME NEW d \in Docs, StartDelete(h, d) PROVE Balanced'
  <2> DEFINE r == [kind |-> "delete", doc |-> d]
  <2>1. req' = [req EXCEPT ![h] = r] /\ req[h] = Idle /\ UNCHANGED <<kb, docs>>
    BY <1>2 DEF StartDelete, Start
  <2>2. req[h].kind = "none" BY <2>1 DEF Idle
  <2>3. r.kind = "delete" OBVIOUS
  <2>4. Rest
    <3> HIDE DEF r
    <3> QED BY <1>0, <1>h, <2>1, <2>2, <2>3, OutsideBalanced
  <2>5. EditsAlone'
    <3>1. \A g \in Handlers : ~Editing(g) BY <1>2, Started DEF StartDelete
    <3> HIDE DEF r
    <3> QED BY <2>1, <2>3, <3>1, StillNoEdits
  <2> QED BY <2>4, <2>5 DEF Balanced
<1>3. ASSUME NEW d \in Docs, StartEdit(h, d) PROVE Balanced'
  <2> DEFINE r == [kind |-> "edit", doc |-> d, at |-> "read", count |-> docs[d].chunks]
  <2>1. /\ req' = [req EXCEPT ![h] = r] /\ req[h] = Idle /\ UNCHANGED <<kb, docs>>
        /\ Present(d) /\ "edit" \in Requests
    BY <1>3 DEF StartEdit, Start
  <2>2. req[h].kind = "none" BY <2>1 DEF Idle
  <2>3. r.kind = "edit" /\ r.at = "read" /\ r.doc = d /\ r.count = docs[d].chunks OBVIOUS
  <2>4. lock = Free /\ \A g \in Handlers : req[g] = Idle BY <1>3, Started DEF StartEdit
  <2> HIDE DEF r
  <2>5. Rest BY <1>0, <1>h, <2>1, <2>2, <2>3, OutsideBalanced
  <2>6. EditsAlone'
    <3>1. req'[h] = r /\ \A g \in Handlers \ {h} : req'[g] = Idle BY <1>t, <2>1, <2>4
    <3>2. docs[d].chunks = index[d] BY <2>1, <2>4 DEF Balanced, RowsCount, Present
    <3>3. \A g \in Handlers : Editing(g)' => g = h BY <3>1 DEF Editing, Idle
    <3>4. lock' = Free /\ Present(d)' /\ index'[d] = index[d] /\ "edit" \in Alone
      BY <1>0, <2>1, <2>4 DEF Present, EditsMadeAlone
    <3> QED BY <2>3, <3>1, <3>2, <3>3, <3>4 DEF EditsAlone
  <2> QED BY <2>5, <2>6 DEF Balanced
<1>4. ASSUME NEW d \in Docs, NEW kind \in {"reparse", "reset"}, StartRelease(h, d, kind)
      PROVE  FALSE
  BY <1>4 DEF StartRelease, Start, NoReleases
<1>5. ASSUME NEW ok \in BOOLEAN, Release(h, ok) \/ Zero(h, ok) PROVE FALSE
  BY <1>5 DEF Release, Zero, Balanced, NothingReleased
<1>6. ASSUME NEW ok \in BOOLEAN,
             \/ UploadCount(h, ok) \/ UploadPush(h, ok) \/ UploadStatus(h, ok)
             \/ UploadCancel(h) \/ UploadRemove(h) \/ UploadUndo(h)
      PROVE  Balanced'
  <2>1. PICK d : d = req[h].doc OBVIOUS
  <2>2. req[h] \in [kind : {"upload"}, doc : Docs, at : UploadPlaces]
    BY <1>6, RequestFields
       DEF UploadCount, UploadPush, UploadStatus, UploadCancel, UploadRemove, UploadUndo
  <2>3. PICK r : /\ r = Idle \/ \E at \in UploadPlaces : r = [req[h] EXCEPT !.at = at]
                 /\ req' = [req EXCEPT ![h] = r]
    <3>1. \/ req' = [req EXCEPT ![h] = Idle]
          \/ \E at \in UploadPlaces : req' = [req EXCEPT ![h].at = at]
      BY <1>6 DEF UploadCount, UploadPush, UploadStatus, UploadCancel, UploadRemove,
                  UploadUndo, Finished, UploadPlaces
    <3>2. \A at : [req EXCEPT ![h].at = at] = [req EXCEPT ![h] = [req[h] EXCEPT !.at = at]]
      BY <1>t
    <3> QED BY <3>1, <3>2
  <2>4. r.kind \in {"upload", "none"} BY <2>2, <2>3 DEF Idle
  <2>5. docs' \in {docs, Without(d, "undone"), Requeued(d, "parsing"), Requeued(d, "uploaded")}
    BY <1>6, <2>1
       DEF UploadCount, UploadPush, UploadStatus, UploadCancel, UploadRemove, UploadUndo
  <2>6. kb'.chunks = kb.chunks
    BY <1>6, <1>t DEF UploadCount, UploadPush, UploadStatus, UploadCancel, UploadRemove,
                      UploadUndo, Counted, Shifted
  <2>7. d \in Docs /\ req[h].kind = "upload" BY <2>1, <2>2
  <2> QED BY <1>0, <2>3, <2>4, <2>5, <2>6, <2>7, UploadBalanced
<1>7. ASSUME NEW delta \in -MaxChunks .. 1, NEW counted \in BOOLEAN,
             ReadIndex(h, delta, counted)
      PROVE  Balanced'
  <2>0. PICK d : d = req[h].doc OBVIOUS
  <2> DEFINE r == [kind |-> "edit", doc |-> d, at |-> "apply", count |-> req[h].count,
                   delta |-> delta, counted |-> counted,
                   chunks |-> [index EXCEPT ![d] = @ + delta]]
  <2>1. /\ req[h].kind = "edit" /\ req[h].at = "read" /\ UNCHANGED <<docs, kb>>
        /\ counted \/ delta = 0
        /\ index[d] + delta \in 0 .. MaxChunks
    BY <1>7, <2>0 DEF ReadIndex
  <2>2. req' = [req EXCEPT ![h] = r] BY <1>7, <1>t, <2>0 DEF ReadIndex
  <2>3. /\ r.kind = "edit" /\ r.at = "apply" /\ r.doc = d /\ r.count = req[h].count
        /\ r.delta = delta /\ r.counted = counted
        /\ r.chunks = [index EXCEPT ![d] = @ + delta]
    OBVIOUS
  <2>4. index[d] + delta \in Nat BY <2>1
  <2> HIDE DEF r
  <2>5. Rest BY <1>0, <1>h, <2>1, <2>2, <2>3, OutsideBalanced
  <2>6. /\ "edit" \in Alone /\ \A g \in Handlers \ {h} : req[g] = Idle
        /\ Present(d) /\ (lock = Free => req[h].count = index[d])
    BY <2>0, <2>1 DEF Balanced, EditsAlone, Editing
  <2>7. lock = Free
    BY <2>1 DEF Balanced, EditsAlone, Editing, EditsHeld
  <2>8. EditsAlone'
    <3>1. req'[h] = r /\ \A g \in Handlers \ {h} : req'[g] = Idle BY <1>t, <2>2, <2>6
    <3>2. \A g \in Handlers : Editing(g)' => g = h BY <3>1 DEF Editing, Idle
    <3>3. lock' = Free /\ Present(d)' /\ index' = index
      BY <1>0, <2>1, <2>6, <2>7 DEF Present
    <3> QED BY <2>1, <2>3, <2>4, <2>6, <2>7, <3>1, <3>2, <3>3 DEF EditsAlone
  <2> QED BY <2>5, <2>8 DEF Balanced
<1>8. CASE DropEdit(h)
  <2>1. /\ req' = [req EXCEPT ![h] = Idle] /\ req[h].kind = "edit" /\ req[h].at = "read"
        /\ UNCHANGED <<docs, kb>>
    BY <1>8 DEF DropEdit, Finished
  <2>2. Idle.kind = "none" BY DEF Idle
  <2>3. Rest BY <1>0, <1>h, <2>1, <2>2, OutsideBalanced
  <2>4. \A g \in Handlers : req'[g] = Idle
    BY <1>t, <2>1 DEF Balanced, EditsAlone, Editing
  <2>5. EditsAlone' BY <2>2, <2>4 DEF EditsAlone, Editing
  <2> QED BY <2>3, <2>5 DEF Balanced
<1> QED BY <1>1, <1>2, <1>3, <1>4, <1>5, <1>6, <1>7, <1>8 DEF Serve

\* A function takes the lock with what it computed from the stores.
LEMMA AcquireBalanced ==
    ASSUME Sound, Balanced, lock = Free, UNCHANGED <<docs, index, kb, req>>,
           lock'.op \in {"commit", "delete", "edit", "update"}, lock'.at = "index",
           lock'.prev = index, lock'.doc \in Docs,
           lock'.new = [index EXCEPT ![lock'.doc] = @ + lock'.delta],
           lock'.count = lock'.new[lock'.doc],
           lock'.op = "update" => lock'.delta = 0,
           lock'.op = "delete" => lock'.by \in Handlers /\ req[lock'.by].kind = "delete",
           lock'.op \in {"edit", "update"} =>
               /\ Editing(lock'.by)
               /\ req[lock'.by].doc = lock'.doc
               /\ req[lock'.by].count = index[lock'.doc],
           \A g \in Handlers : Editing(g) => lock'.op \in {"edit", "update"} /\ lock'.by = g
    PROVE  Balanced'
<1>2. lock' # Free
  <2>1. lock'.op # "none" OBVIOUS
  <2> QED BY <2>1 DEF Free
<1>3. LockKnows' BY DEF LockKnows, Editing
<1>4. RowsCount' BY <1>2 DEF Balanced, RowsCount
<1>5. TotalCounted' BY <1>2 DEF Balanced, TotalCounted, CountedIndex
<1>6. NothingReleased' BY DEF Balanced, NothingReleased
<1>7. EditsAlone'
  <2> SUFFICES ASSUME NEW g \in Handlers, Editing(g)
               PROVE  /\ "edit" \in Alone
                      /\ \A k \in Handlers \ {g} : req[k] = Idle
                      /\ lock'.op \in {"edit", "update"} /\ lock'.by = g
                      /\ Present(req[g].doc)
                      /\ req[g].at = "apply" => req[g].counted \/ req[g].delta = 0
    BY <1>2 DEF EditsAlone, Editing, Present
  <2> QED BY DEF Balanced, EditsAlone
<1> QED BY <1>3, <1>4, <1>5, <1>6, <1>7 DEF Balanced

LEMMA EnterBalanced == ASSUME Sound, Balanced, Enter PROVE Balanced'
<1> USE DEF Sound
<1>t. index \in [Docs -> Nat] /\ docs \in [Docs -> Row] BY DEF TypeOK, Row
<1>c. lock = Free => \A d \in Docs : docs[d].state = "parsing" => docs[d].chunks = index[d]
  BY DEF Balanced, RowsCount
<1>1. ASSUME NEW d \in Docs, NEW n \in 0 .. MaxChunks, NEW graph \in BOOLEAN,
             LockCommit(d, n, graph)
      PROVE  Balanced'
  <2>1. /\ lock = Free /\ UNCHANGED <<docs, index, kb, req>> /\ docs[d].state = "parsing"
        /\ lock'.op = "commit" /\ lock'.doc = d /\ lock'.at = "index" /\ lock'.prev = index
        /\ lock'.count = n /\ lock'.delta = CommitDelta(d, n)
        /\ lock'.new = [index EXCEPT ![d] = n]
    BY <1>1 DEF LockCommit, Committable, Acquire
  <2>2. index[d] \in Nat /\ docs[d].chunks = index[d] BY <1>t, <1>c, <2>1
  <2>3. index[d] + lock'.delta = n BY <2>1, <2>2 DEF CommitDelta
  <2>4. lock'.new = [index EXCEPT ![d] = @ + lock'.delta] /\ n = lock'.new[d]
    BY <1>t, <2>1, <2>3
  <2>5. \A g \in Handlers : ~Editing(g) BY <1>1, NobodyEdits DEF LockCommit
  <2> QED BY <2>1, <2>4, <2>5, AcquireBalanced
<1>2. ASSUME NEW h \in Handlers, LockDelete(h) PROVE Balanced'
  <2>1. PICK d : d = req[h].doc OBVIOUS
  <2>2. d \in Docs /\ req[h].kind = "delete" BY <1>2, <2>1, RequestFields DEF LockDelete
  <2>3. /\ lock = Free /\ UNCHANGED <<docs, index, kb, req>>
        /\ lock'.op = "delete" /\ lock'.doc = d /\ lock'.at = "index" /\ lock'.prev = index
        /\ lock'.count = 0 /\ lock'.delta = -index[d] /\ lock'.by = h
        /\ lock'.new = [index EXCEPT ![d] = 0]
    BY <1>2, <2>1 DEF LockDelete, Acquire
  <2>4. index[d] \in Nat BY <1>t, <2>2
  <2>5. index[d] + lock'.delta = 0 BY <2>3, <2>4
  <2>6. lock'.new = [index EXCEPT ![d] = @ + lock'.delta] /\ 0 = lock'.new[d]
    BY <1>t, <2>2, <2>3, <2>5
  <2>7. \A g \in Handlers : ~Editing(g) BY <2>2, NobodyElseEdits DEF Editing, Idle
  <2> QED BY <2>2, <2>3, <2>6, <2>7, AcquireBalanced
<1>3. ASSUME NEW h \in Handlers, LockEdit(h) PROVE Balanced'
  <2>1. PICK r : r = req[h] OBVIOUS
  <2>2. /\ Editing(h) /\ r.at = "apply" /\ r.doc \in Docs /\ r.delta \in Int
        /\ r.count \in Nat
    BY <1>3, <2>1, RequestFields DEF LockEdit, Editing
  <2>3. /\ lock = Free /\ UNCHANGED <<docs, index, kb, req>>
        /\ lock'.op = (IF r.counted THEN "edit" ELSE "update")
        /\ lock'.doc = r.doc /\ lock'.at = "index" /\ lock'.prev = index
        /\ lock'.count = Shifted(r.count, r.delta) /\ lock'.delta = r.delta
        /\ lock'.by = h /\ lock'.new = r.chunks
    BY <1>3, <2>1 DEF LockEdit, Acquire
  <2>4. /\ r.count = index[r.doc] /\ r.chunks = [index EXCEPT ![r.doc] = @ + r.delta]
        /\ index[r.doc] + r.delta \in Nat /\ (r.counted \/ r.delta = 0)
        /\ \A g \in Handlers \ {h} : req[g] = Idle
    BY <2>1, <2>2, <2>3 DEF Balanced, EditsAlone
  <2>5. lock'.count = r.chunks[r.doc]
    <3>1. lock'.count = index[r.doc] + r.delta BY <1>t, <2>2, <2>3, <2>4 DEF Shifted
    <3> QED BY <1>t, <2>2, <2>4, <3>1
  <2>6. lock'.op \in {"edit", "update"} /\ (lock'.op = "update" => lock'.delta = 0)
    BY <2>3, <2>4
  <2>7. \A g \in Handlers : Editing(g) => h = g BY <2>4 DEF Editing, Idle
  <2>8. lock'.new = [index EXCEPT ![lock'.doc] = @ + lock'.delta]
    BY <2>3, <2>4
  <2> QED BY <2>1, <2>2, <2>3, <2>4, <2>5, <2>6, <2>7, <2>8, AcquireBalanced
<1>4. ASSUME NEW h \in Handlers, LockReset(h) PROVE FALSE
  BY <1>4 DEF LockReset, Balanced, NothingReleased
<1> QED BY <1>1, <1>2, <1>3, <1>4 DEF Enter

\* The function returns: the rows count what is searched, and so does the total.
LEMMA UnlockBalanced ==
    ASSUME Sound, Balanced, lock # Free, Unlock,
           \A d \in Docs : docs'[d].state # "undone" => docs'[d].chunks = index'[d],
           kb'.chunks = SumFunction(index')
    PROVE  Balanced'
<1>1. lock' = Free BY DEF Unlock
<1>2. \A g \in Handlers : req'[g] = req[g] \/ req'[g] = Idle
  BY DEF Unlock, Sound, TypeOK
<1>3. \A g \in Handlers : ~Editing(g)'
  <2> SUFFICES ASSUME NEW g \in Handlers, Editing(g)' PROVE FALSE OBVIOUS
  <2>1. req'[g] = req[g] /\ req'[g] # Idle BY <1>2 DEF Editing, Idle
  <2>2. lock.by = g BY <2>1 DEF Balanced, EditsAlone, Editing
  <2>3. req'[g] = Idle BY <2>2 DEF Unlock, Sound, TypeOK
  <2> QED BY <2>1, <2>3
<1>4. EditsAlone' BY <1>3 DEF EditsAlone
<1>5. NothingReleased' BY <1>1, <1>2 DEF Balanced, NothingReleased, Idle
<1>6. LockKnows' /\ RowsCount' BY <1>1 DEF LockKnows, RowsCount
<1>7. TotalCounted' BY <1>1 DEF TotalCounted, CountedIndex
<1> QED BY <1>4, <1>5, <1>6, <1>7 DEF Balanced

\* The function goes on to its next write.
LEMMA Goes ==
    ASSUME Sound, lock # Free, NEW at, Continue(at)
    PROVE  /\ lock' # Free /\ lock'.at = at /\ req' = req
           /\ lock'.op = lock.op /\ lock'.by = lock.by /\ lock'.doc = lock.doc
           /\ lock'.count = lock.count /\ lock'.delta = lock.delta
           /\ lock'.new = lock.new /\ lock'.prev = lock.prev
<1>1. lock \in Locked BY LockFields DEF Sound
<1>2. lock'.op = lock.op /\ lock.op # "none" BY <1>1 DEF Continue, Locked
<1>3. lock' # Free BY <1>2 DEF Free
<1> QED BY <1>1, <1>3 DEF Continue, Locked

LEMMA ContinueBalanced ==
    ASSUME Sound, Balanced, lock # Free, NEW at, Continue(at),
           \A d \in Docs : docs'[d].state = docs[d].state,
           RowsCount', TotalCounted'
    PROVE  Balanced'
<1>1. lock.doc \in Docs BY LockFields DEF Sound, Locked
<1>2. /\ lock' # Free /\ req' = req
      /\ lock'.op = lock.op /\ lock'.by = lock.by /\ lock'.doc = lock.doc
      /\ lock'.count = lock.count /\ lock'.delta = lock.delta
      /\ lock'.new = lock.new /\ lock'.prev = lock.prev
  BY Goes
<1>3. LockKnows' BY <1>1, <1>2 DEF Balanced, LockKnows, Editing
<1>4. NothingReleased' BY <1>2 DEF Balanced, NothingReleased
<1>5. EditsAlone'
  <2> SUFFICES ASSUME NEW h \in Handlers, Editing(h)
               PROVE  /\ "edit" \in Alone
                      /\ \A g \in Handlers \ {h} : req[g] = Idle
                      /\ lock.op \in {"edit", "update"} /\ lock.by = h
                      /\ Present(req[h].doc)'
                      /\ req[h].at = "apply" => req[h].counted \/ req[h].delta = 0
    BY <1>2 DEF EditsAlone, Editing, Present
  <2>1. Present(req[h].doc)'
    <3>1. req[h].doc \in Docs
      <4>1. req[h] \in Request BY DEF Editing, Sound, TypeOK, Idle
      <4> QED BY <4>1 DEF Request
    <3> QED BY <1>2, <3>1 DEF Balanced, EditsAlone, Present
  <2> QED BY <2>1 DEF Balanced, EditsAlone
<1> QED BY <1>3, <1>4, <1>5 DEF Balanced

\* What the lock record says of the document.
LEMMA LockSays ==
    ASSUME Sound, Balanced, lock # Free
    PROVE  /\ lock.doc \in Docs /\ lock.delta \in Int /\ lock.count \in Nat
           /\ lock.new \in [Docs -> Nat] /\ lock.prev \in [Docs -> Nat]
           /\ lock.op \in {"commit", "delete", "edit", "update"}
           /\ lock.count = lock.new[lock.doc]
           /\ lock.new[lock.doc] = lock.prev[lock.doc] + lock.delta
           /\ \A d \in Docs \ {lock.doc} : lock.new[d] = lock.prev[d]
<1>1. lock \in Locked BY LockFields DEF Sound
<1>2. /\ lock.doc \in Docs /\ lock.delta \in Int /\ lock.count \in Nat
      /\ lock.new \in [Docs -> Nat] /\ lock.prev \in [Docs -> Nat]
      /\ lock.op \in {"commit", "delete", "edit", "update"}
  BY <1>1 DEF Locked, Balanced, NothingReleased
<1>3. lock.new = [lock.prev EXCEPT ![lock.doc] = @ + lock.delta]
        /\ lock.count = lock.new[lock.doc]
  BY DEF Balanced, LockKnows
<1> QED BY <1>2, <1>3

\* The total counts what the function leaves, or what it found: no count is
\* clamped on the way from one to the other.
LEMMA LockSums ==
    ASSUME Sound, Balanced, lock # Free
    PROVE  /\ SumFunction(lock.prev) \in Nat /\ SumFunction(lock.new) \in Nat
           /\ SumFunction(lock.new) = SumFunction(lock.prev) + lock.delta
<1>1. /\ lock.new \in [Docs -> Nat] /\ lock.prev \in [Docs -> Nat] /\ lock.delta \in Int
      /\ lock.new[lock.doc] = lock.prev[lock.doc] + lock.delta
      /\ \A d \in Docs \ {lock.doc} : lock.new[d] = lock.prev[d]
  BY LockSays
<1>2. PICK d \in Docs : d = lock.doc BY LockSays
<1>3. SumFunction(lock.prev) \in Nat /\ SumFunction(lock.new) \in Nat BY <1>1, SumBounds
<1>4. SumFunction(lock.new) = SumFunction(lock.prev) - lock.prev[d] + lock.new[d]
  BY <1>1, <1>2, SumUpdate
<1>5. lock.prev[d] \in Nat /\ lock.new[d] \in Nat BY <1>1
<1> QED BY <1>1, <1>2, <1>3, <1>4, <1>5

\* What is put back is the index as it was.
LEMMA PutBack ==
    ASSUME Sound, Written, Balanced, lock # Free, lock.at # "index",
           RestoreIndex \/ RestoreSnapshot
    PROVE  index' = lock.prev
<1>1. /\ lock.doc \in Docs /\ lock.new \in [Docs -> Nat] /\ lock.prev \in [Docs -> Nat]
      /\ \A d \in Docs \ {lock.doc} : lock.new[d] = lock.prev[d]
  BY LockSays
<1>2. CASE RestoreIndex
  <2>1. index' = [lock.new EXCEPT ![lock.doc] = lock.prev[lock.doc]]
    BY <1>2 DEF RestoreIndex, Written, IndexWritten
  <2> QED BY <1>1, <2>1
<1>3. CASE RestoreSnapshot BY <1>3 DEF RestoreSnapshot
<1> QED BY <1>2, <1>3

\* A function that gives up leaves the rows and puts back the rest.
LEMMA GivesUp ==
    ASSUME Sound, Written, Balanced, lock # Free, Unlock, UNCHANGED docs,
           lock.op # "edit" \/ lock.at # "counts", index' = lock.prev,
           kb'.chunks = SumFunction(lock.prev)
    PROVE  Balanced'
<1>1. \A d \in Docs : docs'[d].state # "undone" => docs'[d].chunks = index'[d]
  BY DEF Balanced, RowsCount
<1> QED BY <1>1, UnlockBalanced

\* It goes on and has not written the rows.
LEMMA GoesOn ==
    ASSUME Sound, Balanced, lock # Free, NEW at, Continue(at), UNCHANGED docs,
           lock.op # "edit" \/ (lock.at # "counts" /\ at # "counts"), TotalCounted'
    PROVE  Balanced'
<1>1. lock' # Free /\ lock'.op = lock.op /\ lock'.at = at /\ lock'.prev = lock.prev BY Goes
<1>2. RowsCount' BY <1>1 DEF Balanced, RowsCount
<1> QED BY <1>2, ContinueBalanced

LEMMA WriteIndexBalanced ==
    ASSUME Sound, Written, Balanced, lock # Free, NEW result \in {"ok", "write"},
           WriteIndex(result)
    PROVE  Balanced'
<1>1. lock.at = "index" /\ UNCHANGED <<docs, kb>> BY DEF WriteIndex
<1>2. kb.chunks = SumFunction(lock.prev) BY <1>1 DEF Balanced, TotalCounted, CountedIndex
<1>3. CASE result = "ok" /\ AfterIndex # "end"
  <2>1. Continue(AfterIndex) BY <1>3 DEF WriteIndex
  <2>2. /\ lock.op \in {"commit", "delete", "edit"}
        /\ AfterIndex = IF lock.op = "edit" THEN "docs" ELSE "graphs"
    BY <1>3, LockSays DEF AfterIndex
  <2>3. TotalCounted' BY <1>1, <1>2, <2>1, <2>2, Goes DEF TotalCounted, CountedIndex
  <2>4. AfterIndex # "counts" BY <2>2
  <2> QED BY <1>1, <2>1, <2>3, <2>4, GoesOn
<1>4. CASE ~(result = "ok" /\ AfterIndex # "end")
  <2>1. Unlock BY <1>4 DEF WriteIndex
  <2>2. index' = lock.prev
    <3>1. CASE result = "write"
      BY <1>1, <3>1 DEF WriteIndex, Written, IndexWritten
    <3>2. CASE result = "ok"
      <4>1. index' = lock.new BY <3>2 DEF WriteIndex
      <4>2. lock.op = "update" BY <1>4, <3>2, LockSays DEF AfterIndex
      <4>3. lock.delta = 0 BY <4>2 DEF Balanced, LockKnows
      <4>4. \A d \in Docs : lock.new[d] = lock.prev[d] BY <4>3, LockSays
      <4>5. lock.new \in [Docs -> Nat] /\ lock.prev \in [Docs -> Nat] BY LockSays
      <4> QED BY <4>1, <4>4, <4>5
    <3> QED BY <3>1, <3>2
  <2> QED BY <1>1, <1>2, <2>1, <2>2, GivesUp
<1> QED BY <1>3, <1>4

LEMMA WriteGraphsBalanced ==
    ASSUME Sound, Written, Balanced, lock # Free, NEW ok \in BOOLEAN, WriteGraphs(ok)
    PROVE  Balanced'
<1>1. /\ lock.at = "graphs" /\ lock.op \in {"commit", "delete"}
      /\ UNCHANGED <<docs, kb>>
  BY DEF WriteGraphs, Written, InTurn
<1>2. kb.chunks = SumFunction(lock.prev) BY <1>1 DEF Balanced, TotalCounted, CountedIndex
<1>3. CASE ok
  <2>1. Continue("counts") BY <1>3 DEF WriteGraphs
  <2>2. TotalCounted' BY <1>1, <1>2, <2>1, Goes DEF TotalCounted, CountedIndex
  <2> QED BY <1>1, <2>1, <2>2, GoesOn
<1>4. CASE ~ok
  <2>1. RestoreIndex /\ Unlock BY <1>4 DEF WriteGraphs
  <2>2. index' = lock.prev BY <1>1, <2>1, PutBack
  <2> QED BY <1>1, <1>2, <2>1, <2>2, GivesUp
<1> QED BY <1>3, <1>4

LEMMA WriteCountsBalanced ==
    ASSUME Sound, Written, Balanced, lock # Free, NEW ok \in BOOLEAN, WriteCounts(ok)
    PROVE  Balanced'
<1>1. /\ lock.at = "counts" /\ lock.op \in {"commit", "delete"} /\ UNCHANGED docs
  BY DEF WriteCounts, Written, InTurn
<1>2. kb.chunks = SumFunction(lock.prev) BY <1>1 DEF Balanced, TotalCounted, CountedIndex
<1>3. CASE ok
  <2>1. PICK at, n : /\ Continue(at) /\ at \in {"metadata", "docs"}
                     /\ kb' = Counted(lock.delta, n)
    BY <1>3 DEF WriteCounts
  <2>2. kb'.chunks = SumFunction(lock.new)
    BY <1>2, <2>1, LockSums, LockSays DEF Counted, Shifted
  <2>3. TotalCounted' BY <1>1, <2>1, <2>2, Goes DEF TotalCounted, CountedIndex
  <2> QED BY <1>1, <2>1, <2>3, GoesOn
<1>4. CASE ~ok
  <2>1. RestoreIndex /\ Unlock /\ UNCHANGED kb BY <1>4 DEF WriteCounts
  <2>2. index' = lock.prev BY <1>1, <2>1, PutBack
  <2> QED BY <1>1, <1>2, <2>1, <2>2, GivesUp
<1> QED BY <1>3, <1>4

\* What was added to the total is taken from it again.
LEMMA TakenBack ==
    ASSUME Sound, Balanced, lock # Free, lock.op \in {"commit", "delete"},
           lock.at \in {"metadata", "docs"}, NEW n, RestoreCounts(n)
    PROVE  kb'.chunks = SumFunction(lock.prev)
<1>1. kb.chunks = SumFunction(lock.new) BY DEF Balanced, TotalCounted, CountedIndex
<1> QED BY <1>1, LockSums, LockSays DEF RestoreCounts, Counted, Shifted

LEMMA WriteMetadataBalanced ==
    ASSUME Sound, Written, Balanced, lock # Free, NEW ok \in BOOLEAN, WriteMetadata(ok)
    PROVE  Balanced'
<1>1. lock.at = "metadata" /\ lock.op \in {"commit", "delete"} /\ UNCHANGED docs
  BY DEF WriteMetadata, Written, InTurn
<1>2. CASE ok
  <2>1. Continue("docs") /\ UNCHANGED kb BY <1>2 DEF WriteMetadata
  <2>2. TotalCounted' BY <1>1, <2>1, Goes DEF Balanced, TotalCounted, CountedIndex
  <2> QED BY <1>1, <2>1, <2>2, GoesOn
<1>3. CASE ~ok
  <2>1. RestoreCounts(1) /\ RestoreIndex /\ Unlock BY <1>3 DEF WriteMetadata
  <2>2. kb'.chunks = SumFunction(lock.prev) BY <1>1, <2>1, TakenBack
  <2>3. index' = lock.prev BY <1>1, <2>1, PutBack
  <2> QED BY <1>1, <2>1, <2>2, <2>3, GivesUp
<1> QED BY <1>2, <1>3

LEMMA WriteDocsBalanced ==
    ASSUME Sound, Written, Balanced, lock # Free, NEW ok \in BOOLEAN, WriteDocs(ok)
    PROVE  Balanced'
<1>1. lock.at = "docs" /\ lock.op \in {"commit", "delete"} /\ Unlock
  BY DEF WriteDocs, Written, InTurn
<1>2. CASE ok /\ Present(lock.doc)
  <2>1. /\ UNCHANGED <<index, kb>>
        /\ docs' = IF lock.op = "delete" THEN Without(lock.doc, "deleted")
                   ELSE [docs EXCEPT ![lock.doc].chunks = lock.count]
    BY <1>2 DEF WriteDocs
  <2>2. lock.doc \in Docs /\ docs \in [Docs -> Row] BY LockSays DEF Sound, TypeOK, Row
  <2>3. /\ \A d \in Docs \ {lock.doc} : docs'[d] = docs[d]
        /\ docs'[lock.doc].chunks = lock.count
    BY <1>2, <2>1, <2>2 DEF Without, Row, Written, OwnDocumentOnly
  <2>4. index' = lock.new /\ kb'.chunks = SumFunction(lock.new)
    BY <1>1, <2>1 DEF Written, IndexWritten, Balanced, TotalCounted, CountedIndex
  <2>5. \A d \in Docs : docs'[d].state # "undone" => docs'[d].chunks = index'[d]
    <3>1. \A d \in Docs \ {lock.doc} :
            docs[d].state # "undone" => docs[d].chunks = lock.new[d]
      BY <1>1, LockSays DEF Balanced, RowsCount
    <3> QED BY <2>3, <2>4, <3>1, LockSays
  <2> QED BY <1>1, <2>4, <2>5, UnlockBalanced
<1>3. CASE ~(ok /\ Present(lock.doc))
  <2>1. PICK n : RestoreCounts(n) /\ RestoreIndex /\ UNCHANGED docs
    BY <1>3 DEF WriteDocs
  <2>2. kb'.chunks = SumFunction(lock.prev) BY <1>1, <2>1, TakenBack
  <2>3. index' = lock.prev BY <1>1, <2>1, PutBack
  <2> QED BY <1>1, <2>1, <2>2, <2>3, GivesUp
<1> QED BY <1>2, <1>3

\* Where an edit holds the lock, its document is there.
LEMMA EditorAlone ==
    ASSUME Sound, Balanced, lock # Free, lock.op = "edit"
    PROVE  /\ Present(lock.doc) /\ lock.doc \in Docs
           /\ req[lock.by].count = lock.prev[lock.doc]
<1>1. /\ lock.by \in Handlers /\ Editing(lock.by) /\ req[lock.by].doc = lock.doc
      /\ req[lock.by].count = lock.prev[lock.doc]
  BY DEF Sound, EditsHeld, Balanced, LockKnows
<1>2. Present(lock.doc) BY <1>1 DEF Balanced, EditsAlone
<1> QED BY <1>1, <1>2, LockSays

LEMMA WriteEditedDocBalanced ==
    ASSUME Sound, Written, Balanced, lock # Free, NEW ok \in BOOLEAN, WriteEditedDoc(ok)
    PROVE  Balanced'
<1>1. lock.at = "docs" /\ lock.op = "edit" /\ UNCHANGED kb BY DEF WriteEditedDoc
<1>2. kb.chunks = SumFunction(lock.prev) BY <1>1 DEF Balanced, TotalCounted, CountedIndex
<1>3. CASE ok
  <2>1. /\ Continue("counts")
        /\ docs' = [docs EXCEPT ![lock.doc].chunks = lock.count]
    BY <1>1, <1>3, EditorAlone DEF WriteEditedDoc
  <2>2. lock.doc \in Docs /\ docs \in [Docs -> Row] BY LockSays DEF Sound, TypeOK, Row
  <2>3. /\ \A d \in Docs \ {lock.doc} : docs'[d] = docs[d]
        /\ docs'[lock.doc].chunks = lock.count
        /\ docs'[lock.doc].state = docs[lock.doc].state
    BY <2>1, <2>2 DEF Row
  <2>4. \A d \in Docs : docs'[d].state = docs[d].state BY <2>3
  <2>5. /\ lock' # Free /\ lock'.op = "edit" /\ lock'.at = "counts"
        /\ lock'.new = lock.new /\ lock'.prev = lock.prev
    BY <1>1, <2>1, Goes
  <2>6. RowsCount'
    <3>1. \A d \in Docs \ {lock.doc} :
            docs[d].state # "undone" => docs[d].chunks = lock.new[d]
      BY <1>1, LockSays DEF Balanced, RowsCount
    <3>2. lock.count = lock.new[lock.doc] BY LockSays
    <3> QED BY <2>3, <2>5, <3>1, <3>2 DEF RowsCount
  <2>7. TotalCounted' BY <1>1, <1>2, <2>5 DEF TotalCounted, CountedIndex
  <2> QED BY <2>1, <2>4, <2>6, <2>7, ContinueBalanced
<1>4. CASE ~ok
  <2>1. RestoreSnapshot /\ Unlock /\ UNCHANGED docs BY <1>4 DEF WriteEditedDoc
  <2>2. index' = lock.prev BY <1>1, <2>1, PutBack
  <2> QED BY <1>1, <1>2, <2>1, <2>2, GivesUp
<1> QED BY <1>3, <1>4

LEMMA WriteEditedCountsBalanced ==
    ASSUME Sound, Written, Balanced, lock # Free, NEW ok \in BOOLEAN, WriteEditedCounts(ok)
    PROVE  Balanced'
<1>1. lock.at = "counts" /\ lock.op = "edit" /\ Unlock BY DEF WriteEditedCounts
<1>2. kb.chunks = SumFunction(lock.prev) BY <1>1 DEF Balanced, TotalCounted, CountedIndex
<1>3. \A d \in Docs : docs[d].state # "undone" => docs[d].chunks = lock.new[d]
  BY <1>1 DEF Balanced, RowsCount
<1>4. CASE ok
  <2>1. kb' = Counted(lock.delta, 0) /\ UNCHANGED <<docs, index>>
    BY <1>4 DEF WriteEditedCounts
  <2>2. kb'.chunks = SumFunction(lock.new)
    BY <1>2, <2>1, LockSums, LockSays DEF Counted, Shifted
  <2>3. index' = lock.new BY <1>1, <2>1 DEF Written, IndexWritten
  <2> QED BY <1>1, <1>3, <2>1, <2>2, <2>3, UnlockBalanced
<1>5. CASE ~ok
  <2>1. /\ RestoreSnapshot /\ UNCHANGED kb
        /\ docs' = [docs EXCEPT ![lock.doc].chunks = lock.prev[lock.doc]]
    BY <1>1, <1>5, EditorAlone DEF WriteEditedCounts
  <2>2. index' = lock.prev BY <1>1, <2>1, PutBack
  <2>3. docs \in [Docs -> Row] BY DEF Sound, TypeOK, Row
  <2>4. /\ \A d \in Docs \ {lock.doc} : docs'[d] = docs[d] /\ lock.new[d] = lock.prev[d]
        /\ docs'[lock.doc].chunks = lock.prev[lock.doc]
    BY <2>1, <2>3, LockSays DEF Row
  <2>5. \A d \in Docs : docs'[d].state # "undone" => docs'[d].chunks = index'[d]
    BY <1>3, <2>2, <2>4
  <2> QED BY <1>1, <1>2, <2>1, <2>2, <2>5, UnlockBalanced
<1> QED BY <1>4, <1>5

LEMMA BalancedStep ==
    ASSUME WritesFailOnly, NoReleases, EditsMadeAlone
    PROVE  Sound /\ Written /\ Balanced /\ [Next]_vars => Balanced'
<1> SUFFICES ASSUME Sound, Written, Balanced, [Next]_vars PROVE Balanced' OBVIOUS
<1>1. CASE UNCHANGED vars
  <2>1. UNCHANGED <<docs, index, file, graphs, kb, lock, req>> BY <1>1 DEF vars
  <2>2. TotalCounted' BY <2>1 DEF Balanced, TotalCounted, CountedIndex
  <2>3. EditsAlone' /\ NothingReleased'
    BY <2>1 DEF Balanced, EditsAlone, Editing, NothingReleased, Present
  <2>4. LockKnows' /\ RowsCount'
    BY <2>1 DEF Balanced, LockKnows, Editing, RowsCount
  <2> QED BY <2>2, <2>3, <2>4 DEF Balanced
<1>2. ASSUME NEW h \in Handlers, Serve(h) PROVE Balanced' BY <1>2, ServeBalanced
<1>3. ASSUME NEW d \in Docs, Requeue(d) PROVE FALSE BY <1>3 DEF Requeue, NoReleases
<1>4. CASE Enter BY <1>4, EnterBalanced
<1>5. CASE Proceed
  <2>1. lock # Free
    BY <1>5 DEF Proceed, WriteIndex, WriteGraphs, WriteCounts, WriteMetadata, WriteDocs,
                WriteEditedDoc, WriteEditedCounts
  <2>2. {"ok"} \cup (Faults \ {"crash"}) \subseteq {"ok", "write"} BY DEF WritesFailOnly
  <2>3. ASSUME NEW result \in {"ok", "write"}, WriteIndex(result) PROVE Balanced'
    BY <2>1, <2>3, WriteIndexBalanced
  <2>4. ASSUME NEW ok \in BOOLEAN, WriteGraphs(ok) \/ WriteCounts(ok) \/ WriteMetadata(ok)
        PROVE  Balanced'
    BY <2>1, <2>4, WriteGraphsBalanced, WriteCountsBalanced, WriteMetadataBalanced
  <2>5. ASSUME NEW ok \in BOOLEAN, WriteDocs(ok) PROVE Balanced'
    BY <2>1, <2>5, WriteDocsBalanced
  <2>6. ASSUME NEW ok \in BOOLEAN, WriteEditedDoc(ok) \/ WriteEditedCounts(ok)
        PROVE  Balanced'
    BY <2>1, <2>6, WriteEditedDocBalanced, WriteEditedCountsBalanced
  <2> QED BY <1>5, <2>2, <2>3, <2>4, <2>5, <2>6 DEF Proceed
<1>6. CASE Crash BY <1>6 DEF Crash, WritesFailOnly
<1> QED BY <1>1, <1>2, <1>3, <1>4, <1>5, <1>6 DEF Next

\* Between operations the chunk total of the knowledge base is the number of its
\* chunks in the index, for any documents and requests: whatever mix of uploads,
\* commits, deletions and edits was made and whichever of their writes failed,
\* uploads that were undone after their commit included.  A reparse or a reset
\* and edits beside other requests do let the total drift, and are excluded.
THEOREM TotalsAreSums ==
    ASSUME WritesFailOnly, NoReleases, EditsMadeAlone
    PROVE  Spec => []TotalsAgree
<1>1. Init => Sound /\ Written /\ Balanced BY SoundInit, AtomicInit, BalancedInit
<1>2. Sound /\ Written /\ Balanced /\ [Next]_vars => (Sound /\ Written /\ Balanced)'
  BY SoundStep, AtomicStep, BalancedStep
<1>3. Sound /\ Written /\ Balanced => TotalsAgree
  BY DEF TotalsAgree, Quiet, Balanced, TotalCounted, CountedIndex
<1> QED BY <1>1, <1>2, <1>3, PTL DEF Spec

\* Under the same conditions every row counts the chunks the index has of its
\* document between operations, and no chunk is without a row but those of an
\* upload undone after its commit; the index file holds what is searched.
THEOREM RowsCountTheIndex ==
    ASSUME WritesFailOnly, NoReleases, EditsMadeAlone
    PROVE  Spec => []IndexAgrees
<1>1. Init => Sound /\ Written /\ Balanced BY SoundInit, AtomicInit, BalancedInit
<1>2. Sound /\ Written /\ Balanced /\ [Next]_vars => (Sound /\ Written /\ Balanced)'
  BY SoundStep, AtomicStep, BalancedStep
<1>3. Sound /\ Written /\ Balanced => IndexAgrees
  BY DEF Written, IndexWritten, Balanced, RowsCount, IndexAgrees, Quiet
<1> QED BY <1>1, <1>2, <1>3, PTL DEF Spec

=============================================================================
