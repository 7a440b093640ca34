------------------------ MODULE AgentWorkflowProofs ------------------------
(***************************************************************************)
(* Safety of AgentWorkflow for any canvases, numbers of items and answers. *)
(*                                                                         *)
(* The invariant is in three parts.  PositionsSound says where a run and a *)
(* checkpoint can be: a checkpoint stands at a UserFillUp that is          *)
(* selected.  RequestSound and ResumeSound say what a resumed run is:      *)
(* until it has given its answer it stands where its checkpoint stands,    *)
(* and after that it has the place that was asked for.  Once says that a   *)
(* run has only been to places behind its cursors; it needs that the edges *)
(* of the plan go forward.                                                 *)
(***************************************************************************)
EXTENDS AgentWorkflow, TLAPS, SequenceTheorems, WellFoundedInduction

Nodes == DOMAIN plan.kind

BodyOf(p) == plan.body[plan.order[p.frame.at]]

\* A cursor that stands at a UserFillUp.
AtFill(order, frame) ==
    /\ frame.at \in 1 .. Len(order)
    /\ order[frame.at] \in frame.selected
    /\ plan.kind[order[frame.at]] = "fill"

\* A cursor that stands at a macro.
AtMacro(frame) ==
    /\ frame.at \in 1 .. Len(plan.order)
    /\ plan.kind[plan.order[frame.at]] # "fill"

PositionSound(p) ==
    /\ p.in = "off" => p = Nothing
    /\ p.in # "items" => p.items = <<>>
    /\ p.in \in {"loop", "items"} => AtMacro(p.frame)
    /\ p.in = "loop" => p.iter > 0
    /\ \A i \in DOMAIN p.items :
          p.items[i].state = "wait" => AtFill(BodyOf(p), p.items[i].frame)

\* What a checkpoint is besides.
Asks(p, a) ==
    /\ p.in = "outer" => AtFill(plan.order, p.frame)
    /\ p.in = "loop" => AtFill(BodyOf(p), p.body)
    /\ p.in = "items" =>
          /\ a \in DOMAIN p.items /\ p.items[a].state = "wait"
          /\ \A i \in DOMAIN p.items : p.items[i].state \in {"wait", "done"}

PositionsSound ==
    TypeOK /\ PositionSound(run) /\ PositionSound(saved) /\ Asks(saved, active)

-----------------------------------------------------------------------------
(* Plans, cursors and runtimes.                                            *)

LEMMA PlanFacts ==
    ASSUME plan \in Plans
    PROVE  /\ Nodes \subseteq Nat \ {0}
           /\ plan.begin \in Nodes
           /\ plan.kind \in [Nodes -> Kind]
           /\ plan.order \in Seq(Nodes) /\ Injective(plan.order)
           /\ plan.down \in [Nodes -> SUBSET Nodes]
           /\ plan.body \in [Nodes -> Seq(Nodes)]
           /\ \A n \in Nodes : Injective(plan.body[n])
           /\ plan.entries \in [Nodes -> SUBSET Nodes]
           /\ plan.maximum \in Nat
BY PlansAssumption DEF Nodes

LEMMA LeastElement ==
    ASSUME NEW S, S \subseteq Nat, S # {}
    PROVE  \E i \in S : \A j \in S : i <= j
<1> DEFINE R == OpToRel(<, Nat)
<1>1. IsWellFoundedOn(R, Nat) BY NatLessThanWellFounded
<1>2. PICK i \in S : \A j \in S : <<j, i>> \notin R
  <2> HIDE DEF R
  <2> QED BY <1>1, WFMin
<1>3. \A j \in S : ~ j < i BY <1>2 DEF OpToRel
<1>4. \A j \in S : i <= j BY <1>3
<1> QED BY <1>4

\* The first selected member from the cursor on.
LEMMA FirstAhead ==
    ASSUME NEW order \in Seq(Nodes), NEW frame \in Frame, Ahead(order, frame) # {}
    PROVE  /\ First(order, frame) \in 1 .. Len(order)
           /\ frame.at <= First(order, frame)
           /\ order[First(order, frame)] \in frame.selected
           /\ order[First(order, frame)] \in Nodes
           /\ \A j \in 1 .. Len(order) :
                 frame.at <= j /\ j < First(order, frame) => order[j] \notin frame.selected
<1> DEFINE A == Ahead(order, frame)
<1>1. frame.at \in Nat \ {0} /\ Len(order) \in Nat BY DEF Frame
<1>2. A \subseteq Nat /\ A # {} /\ A \subseteq 1 .. Len(order) BY <1>1 DEF Ahead
<1>3. \E i \in A : \A j \in A : i <= j
  <2> HIDE DEF A
  <2> QED BY <1>2, LeastElement
<1>4. First(order, frame) \in A /\ \A j \in A : First(order, frame) <= j
  BY <1>3 DEF First
<1>5. \A j \in 1 .. Len(order) :
         frame.at <= j /\ order[j] \in frame.selected => j \in A
  BY <1>1 DEF Ahead
<1>6. First(order, frame) \in Nat BY <1>2, <1>4
<1>7. /\ frame.at <= First(order, frame)
      /\ order[First(order, frame)] \in frame.selected
  BY <1>4 DEF Ahead
<1>8. order[First(order, frame)] \in Nodes BY <1>2, <1>4
<1>9. ASSUME NEW j \in 1 .. Len(order), frame.at <= j, j < First(order, frame),
             order[j] \in frame.selected
      PROVE  FALSE
  <2>1. First(order, frame) <= j BY <1>4, <1>5, <1>9
  <2> QED BY <1>6, <1>9, <2>1
<1> QED BY <1>2, <1>4, <1>7, <1>8, <1>9

\* A cursor at a UserFillUp comes to it.
LEMMA FirstAtFill ==
    ASSUME NEW order \in Seq(Nodes), NEW frame \in Frame, AtFill(order, frame)
    PROVE  Ahead(order, frame) # {} /\ First(order, frame) = frame.at
<1>1. frame.at \in Ahead(order, frame) BY DEF AtFill, Ahead, Frame
<1>2. \A j \in Ahead(order, frame) : j \in Nat /\ frame.at <= j BY DEF Ahead, Frame
<1>3. First(order, frame) \in Nat /\ frame.at \in Nat /\ frame.at <= First(order, frame)
      /\ frame.at \in 1 .. Len(order) /\ order[frame.at] \in frame.selected
  BY <1>1, FirstAhead DEF Frame, AtFill
<1>4. ~ frame.at < First(order, frame)
  BY <1>1, <1>3, FirstAhead
<1> QED BY <1>1, <1>3, <1>4

LEMMA PastFrame ==
    ASSUME plan \in Plans, NEW order \in Seq(Nodes), NEW frame \in Frame,
           NEW i \in 1 .. Len(order), NEW next
    PROVE  /\ Past(order, frame, i, next) \in Frame
           /\ Past(order, frame, i, next).at = i + 1
           /\ Past(order, frame, i, next).selected
                 = frame.selected \cup (next \cap Elems(order))
<1>1. Elems(order) \subseteq Nat BY PlanFacts DEF Elems
<1>2. i + 1 \in Nat \ {0} BY ElementOfSeq
<1> QED BY <1>1, <1>2 DEF Past, Frame

\* What a visit adds to the outputs and the path.
Entry(place, by) ==
    [place |-> place, by |-> by,
     for |-> IF by \in {"inputs", "answer"} THEN request.for ELSE Nowhere]

LEMMA VisitedRuntime ==
    ASSUME NEW rt \in Runtime, NEW place \in Place,
           NEW by \in {"none", "query", "inputs", "answer"}, request \in Request
    PROVE  Visited(rt, place, by) \in Runtime
<1>1. Entry(place, by) \in Visit BY DEF Entry, Visit, Request, Nowhere, Place
<1>2. Visited(rt, place, by) =
        [rt EXCEPT !.done = @ \cup {Entry(place, by)}, !.consumed = @ \/ by = "query"]
  BY DEF Visited, Entry
<1> QED BY <1>1, <1>2 DEF Runtime

LEMMA ByType ==
    ASSUME NEW n, NEW rt
    PROVE  By(n, rt) \in {"none", "query", "inputs", "answer"}
BY DEF By, Initial

-----------------------------------------------------------------------------
(* Where runs and checkpoints are.                                         *)

LEMMA NothingSound ==
    Nothing \in Position /\ PositionSound(Nothing) /\ NoRequest \in Request
BY DEF Nothing, Position, PositionSound, FreshFrame, FreshRuntime, Frame, Runtime,
       NoRequest, Request, Place, Nowhere

LEMMA BodyType ==
    ASSUME plan \in Plans, NEW p \in Position, PositionSound(p),
           p.in \in {"loop", "items"}
    PROVE  /\ plan.order[p.frame.at] \in Nodes
           /\ BodyOf(p) \in Seq(Nodes) /\ Injective(BodyOf(p))
<1>1. plan.order[p.frame.at] \in Nodes
  BY PlanFacts, ElementOfSeq DEF PositionSound, AtMacro
<1> QED BY <1>1, PlanFacts DEF BodyOf

LEMMA ItemType ==
    ASSUME NEW p \in Position, NEW i \in DOMAIN p.items
    PROVE  p.items[i] \in Item /\ i \in Nat \ {0} /\ DOMAIN p.items = 1 .. Len(p.items)
BY ElementOfSeq DEF Position

LEMMA KeptType ==
    ASSUME NEW p \in Position
    PROVE  Kept(p) \subseteq Place
<1>1. ASSUME NEW rt \in Runtime PROVE Places(rt) \subseteq Place
  BY DEF Places, Runtime, Visit
<1>2. \A i \in DOMAIN p.items : p.items[i].rt \in Runtime BY ItemType DEF Item
<1>3. p.rt \in Runtime BY DEF Position
<1> QED BY <1>1, <1>2, <1>3 DEF Kept

\* One item changes.
LEMMA ItemChanged ==
    ASSUME NEW p \in Position, NEW i \in DOMAIN p.items, NEW item \in Item
    PROVE  LET q == [p EXCEPT !.items = [p.items EXCEPT ![i] = item]]
           IN  /\ q \in Position
               /\ q.in = p.in /\ q.frame = p.frame /\ q.rt = p.rt
               /\ q.iter = p.iter /\ q.body = p.body
               /\ DOMAIN q.items = DOMAIN p.items
               /\ q.items[i] = item
               /\ \A j \in DOMAIN p.items : j # i => q.items[j] = p.items[j]
<1> DEFINE items == [p.items EXCEPT ![i] = item]
<1>1. p.items \in Seq(Item) BY DEF Position
<1>2. /\ items \in Seq(Item) /\ DOMAIN items = DOMAIN p.items /\ items[i] = item
      /\ \A j \in DOMAIN p.items : j # i => items[j] = p.items[j]
  BY <1>1
<1> HIDE DEF items
<1> QED BY <1>2 DEF Position

LEMMA ItemSound ==
    ASSUME NEW p \in Position, NEW i \in DOMAIN p.items, NEW item \in Item,
           PositionSound(p), item.state = "wait" => AtFill(BodyOf(p), item.frame)
    PROVE  LET q == [p EXCEPT !.items = [p.items EXCEPT ![i] = item]]
           IN  q \in Position /\ PositionSound(q) /\ q.in = "items"
<1> DEFINE q == [p EXCEPT !.items = [p.items EXCEPT ![i] = item]]
<1>1. /\ q \in Position
      /\ q.in = p.in /\ q.frame = p.frame /\ q.rt = p.rt
      /\ q.iter = p.iter /\ q.body = p.body
      /\ DOMAIN q.items = DOMAIN p.items
      /\ q.items[i] = item
      /\ \A j \in DOMAIN p.items : j # i => q.items[j] = p.items[j]
  BY ItemChanged
<1>2. p.in = "items" BY DEF PositionSound
<1> HIDE DEF q
<1>3. BodyOf(q) = BodyOf(p) BY <1>1 DEF BodyOf
<1>4. ASSUME NEW j \in DOMAIN q.items, q.items[j].state = "wait"
      PROVE  AtFill(BodyOf(q), q.items[j].frame)
  <2>1. CASE j = i BY <1>1, <1>3, <1>4, <2>1
  <2>2. CASE j # i BY <1>1, <1>3, <1>4, <2>2 DEF PositionSound
  <2> QED BY <2>1, <2>2
<1>5. PositionSound(q) BY <1>1, <1>2, <1>4 DEF PositionSound
<1> QED BY <1>1, <1>2, <1>5 DEF q

LEMMA StaysSound ==
    ASSUME PositionsSound, UNCHANGED <<plan, saved, active>>,
           run' \in Position, PositionSound(run'), request' \in Request,
           began' \subseteq Place, again' \subseteq Place
    PROVE  PositionsSound'
BY DEF PositionsSound, TypeOK, PositionSound, AtMacro, Asks, AtFill, BodyOf, Nothing

LEMMA EndsSound ==
    ASSUME PositionsSound, Ends
    PROVE  /\ run' \in Position /\ PositionSound(run') /\ request' \in Request
           /\ began' \subseteq Place /\ again' \subseteq Place
BY NothingSound DEF Ends, PositionsSound, TypeOK

LEMMA PauseSound ==
    ASSUME PositionsSound, NEW p \in Position, NEW a \in Nat,
           PositionSound(p), Asks(p, a), Pause(p, a)
    PROVE  PositionsSound'
<1>1. saved' = p /\ active' = a /\ plan' = plan /\ Ends BY DEF Pause
<1> QED
  BY <1>1, EndsSound DEF PositionsSound, TypeOK, PositionSound, AtMacro, Asks, AtFill, BodyOf,
                         Nothing

LEMMA BeginsType ==
    ASSUME TypeOK, NEW place \in Place, Begins(place)
    PROVE  began' \subseteq Place /\ again' \subseteq Place
BY DEF Begins, TypeOK

LEMMA FeedsType ==
    ASSUME TypeOK, NEW n, Feeds(n)
    PROVE  request' \in Request
BY DEF Feeds, TypeOK, Request

-----------------------------------------------------------------------------
(* Every action leaves run and checkpoint where they can be.               *)

\* A run without items, outside of the macros or in a Loop.
LEMMA NoItems ==
    ASSUME NEW p \in Position, p.items = <<>>, p.in \in {"outer", "loop"},
           p.in = "loop" => p.iter > 0 /\ AtMacro(p.frame)
    PROVE  PositionSound(p)
BY DEF PositionSound

\* The run that goes on from a checkpoint.
LEMMA ResumedItems ==
    ASSUME PositionsSound, saved.in # "off"
    PROVE  /\ Resumed(saved) \in Position
           /\ Resumed(saved).in = saved.in /\ Resumed(saved).frame = saved.frame
           /\ Resumed(saved).iter = saved.iter /\ Resumed(saved).body = saved.body
           /\ Resumed(saved).rt = [saved.rt EXCEPT !.query = FALSE]
           /\ saved.in # "items" => Resumed(saved).items = <<>>
           /\ saved.in = "items" =>
                /\ active \in DOMAIN saved.items
                /\ Resumed(saved).items = [saved.items EXCEPT ![active] =
                      [saved.items[active] EXCEPT !.state = "run", !.rt.query = FALSE]]
<1>1. saved \in Position /\ PositionSound(saved) BY DEF PositionsSound, TypeOK
<1> DEFINE p == [saved EXCEPT !.rt.query = FALSE]
<1>2. /\ p \in Position /\ p.items = saved.items /\ p.in = saved.in
      /\ p.frame = saved.frame /\ p.iter = saved.iter /\ p.body = saved.body
      /\ p.rt = [saved.rt EXCEPT !.query = FALSE]
  BY <1>1 DEF Position, Runtime
<1>3. CASE saved.in # "items"
  <2>1. Resumed(saved) = p BY <1>3 DEF Resumed
  <2>2. saved.items = <<>> BY <1>1, <1>3 DEF PositionSound
  <2> HIDE DEF p
  <2> QED BY <1>2, <1>3, <2>1, <2>2
<1>4. CASE saved.in = "items"
  <2> DEFINE item == [saved.items[active] EXCEPT !.state = "run", !.rt.query = FALSE]
             on == [saved.items EXCEPT ![active] = [saved.items[active] EXCEPT !.state = "run"]]
  <2>1. active \in DOMAIN saved.items /\ saved.items[active] \in Item
    BY <1>1, <1>4, ItemType DEF PositionsSound, Asks
  <2>2. saved.items \in Seq(Item) BY <1>1 DEF Position
  <2>3. [p EXCEPT !.items[active].state = "run"] = [p EXCEPT !.items = on]
    BY <1>2
  <2>4. [on EXCEPT ![active].rt.query = FALSE] = [saved.items EXCEPT ![active] = item]
    BY <2>1, <2>2
  <2>5. Resumed(saved) = [[p EXCEPT !.items[active].state = "run"]
                            EXCEPT !.items[active].rt.query = FALSE]
    BY <1>4 DEF Resumed
  <2>6. item \in Item BY <2>1 DEF Item, Runtime
  <2> HIDE DEF p, on, item
  <2>7. Resumed(saved) = [[p EXCEPT !.items = on] EXCEPT !.items[active].rt.query = FALSE]
    BY <2>3, <2>5
  <2>8. Resumed(saved) = [p EXCEPT !.items = [on EXCEPT ![active].rt.query = FALSE]]
    BY <1>2, <2>7 DEF Position
  <2>9. Resumed(saved) = [p EXCEPT !.items = [p.items EXCEPT ![active] = item]]
    BY <1>2, <2>4, <2>8
  <2> DEFINE q == [p EXCEPT !.items = [p.items EXCEPT ![active] = item]]
  <2>10. q \in Position /\ q.in = p.in /\ q.frame = p.frame /\ q.rt = p.rt
         /\ q.iter = p.iter /\ q.body = p.body
    BY <1>2, <2>1, <2>6, ItemChanged
  <2>11. q.items = [p.items EXCEPT ![active] = item] BY <1>2 DEF Position
  <2> HIDE DEF q
  <2>12. Resumed(saved) = q BY <2>9 DEF q
  <2> QED BY <1>2, <1>4, <2>1, <2>10, <2>11, <2>12 DEF item
<1> QED BY <1>3, <1>4

LEMMA RequestsStep ==
    ASSUME PositionsSound, Start \/ Resume \/ Fail
    PROVE  PositionsSound'
<1>1. CASE Start
  <2>1. PICK query, inputs \in BOOLEAN :
          /\ run' = [Nothing EXCEPT !.in = "outer", !.frame = FreshFrame({plan.begin}),
                                    !.rt = FreshRuntime(query)]
          /\ request' = [NoRequest EXCEPT !.inputs = inputs]
    BY <1>1 DEF Start
  <2>2. FreshFrame({plan.begin}) \in Frame /\ FreshRuntime(query) \in Runtime
    BY PlanFacts DEF PositionsSound, TypeOK, FreshFrame, FreshRuntime, Frame, Runtime
  <2>3. /\ run' \in Position /\ run'.items = <<>> /\ run'.in = "outer"
        /\ request' \in Request
    BY <2>1, <2>2, NothingSound DEF Nothing, Position, NoRequest, Request
  <2>4. UNCHANGED <<plan, saved, active, again>> /\ began' = {} BY <1>1 DEF Start
  <2> QED BY <2>3, <2>4, NoItems, StaysSound DEF PositionsSound, TypeOK
<1>2. CASE Resume
  <2>1. /\ saved.in # "off" /\ run' = Resumed(saved)
        /\ request' = [resumed |-> TRUE, inputs |-> AnswersAsInputs, answer |-> TRUE,
                       for |-> Asked]
        /\ began' = Kept(saved) /\ UNCHANGED <<plan, saved, active, again>>
    BY <1>2 DEF Resume
  <2>2. saved \in Position /\ PositionSound(saved) /\ plan \in Plans
    BY DEF PositionsSound, TypeOK
  <2>3. Kept(saved) \subseteq Place
    BY <2>2, KeptType
  <2>4. run' \in Position /\ PositionSound(run')
    <3>1. /\ run' \in Position
          /\ run'.in = saved.in /\ run'.frame = saved.frame /\ run'.iter = saved.iter
          /\ saved.in # "items" => run'.items = <<>>
          /\ saved.in = "items" =>
                /\ active \in DOMAIN saved.items
                /\ run'.items = [saved.items EXCEPT ![active] =
                      [saved.items[active] EXCEPT !.state = "run", !.rt.query = FALSE]]
      BY <2>1, ResumedItems
    <3>2. BodyOf(run') = BodyOf(saved) BY <3>1 DEF BodyOf
    <3>3. ASSUME NEW i \in DOMAIN run'.items, run'.items[i].state = "wait"
          PROVE  AtFill(BodyOf(saved), run'.items[i].frame)
      <4> DEFINE item == [saved.items[active] EXCEPT !.state = "run", !.rt.query = FALSE]
      <4>1. saved.in = "items" BY <3>1, <3>3
      <4>2. saved.items \in Seq(Item) /\ saved.items[active] \in Item
        BY <2>2, <3>1, <4>1, ItemType DEF Position
      <4>3. item.state = "run" BY <4>2 DEF Item
      <4>4. run'.items = [saved.items EXCEPT ![active] = item] BY <3>1, <4>1
      <4> HIDE DEF item
      <4>5. i # active /\ i \in DOMAIN saved.items /\ run'.items[i] = saved.items[i]
        BY <3>1, <3>3, <4>1, <4>2, <4>3, <4>4
      <4> QED BY <2>2, <3>3, <4>5 DEF PositionSound
    <3> QED BY <2>1, <2>2, <3>1, <3>2, <3>3 DEF PositionSound
  <2>5. Asked \in Place
    <3>1. CASE saved.in = "outer"
      <4>1. plan.order[saved.frame.at] \in Nodes
        BY <2>2, <3>1, PlanFacts, ElementOfSeq DEF PositionsSound, Asks, AtFill
      <4> QED BY <2>2, <3>1, <4>1, PlanFacts DEF Asked, Place
    <3>2. CASE saved.in = "loop"
      <4>1. BodyOf(saved)[saved.body.at] \in Nodes
        BY <2>2, <3>2, BodyType, ElementOfSeq DEF PositionsSound, Asks, AtFill
      <4> QED BY <2>2, <3>2, <4>1, PlanFacts DEF Asked, Place, BodyOf, Position
    <3>3. CASE saved.in = "items"
      <4>1. AtFill(BodyOf(saved), saved.items[active].frame) /\ active \in Nat
        BY <2>2, <3>3 DEF PositionsSound, TypeOK, Asks, PositionSound
      <4>2. BodyOf(saved)[saved.items[active].frame.at] \in Nodes
        BY <2>2, <3>3, <4>1, BodyType, ElementOfSeq DEF AtFill
      <4> QED BY <2>2, <3>3, <4>1, <4>2, PlanFacts DEF Asked, Place, BodyOf
    <3> QED BY <2>1, <2>2, <3>1, <3>2, <3>3 DEF Position
  <2>6. request' \in Request BY <2>1, <2>5, AnswersAssumption DEF Request
  <2> QED BY <2>1, <2>3, <2>4, <2>6, StaysSound DEF PositionsSound, TypeOK
<1>3. CASE Fail BY <1>3, EndsSound, StaysSound DEF Fail
<1> QED BY <1>1, <1>2, <1>3

\* Where a run is outside of the macros.
LEMMA OuterFirst ==
    ASSUME PositionsSound, InOuter
    PROVE  /\ OuterIndex \in 1 .. Len(plan.order) /\ OuterIndex \in Nat \ {0}
           /\ plan.order[OuterIndex] \in Nodes
           /\ plan.order[OuterIndex] \in run.frame.selected
           /\ run.in = "outer" /\ run.items = <<>> /\ run.frame \in Frame
           /\ run.rt \in Runtime
<1>1. run.frame \in Frame /\ run.rt \in Runtime /\ plan.order \in Seq(Nodes)
  BY PlanFacts DEF PositionsSound, TypeOK, Position
<1>2. run.in = "outer" /\ run.items = <<>>
  BY DEF InOuter, PositionsSound, PositionSound
<1> QED BY <1>1, <1>2, FirstAhead DEF InOuter, OuterIndex

LEMMA OuterStep ==
    ASSUME PositionsSound, Component \/ OuterPause \/ Complete
    PROVE  PositionsSound'
<1> USE DEF PositionsSound
<1>1. plan \in Plans /\ run \in Position /\ request \in Request /\ again \subseteq Place
  BY DEF TypeOK
<1>2. plan.order \in Seq(Nodes) BY <1>1, PlanFacts
<1>3. CASE Component
  <2> DEFINE n == plan.order[OuterIndex]
             rt == Visited(run.rt, <<n, 0>>, By(n, run.rt))
  <2>1. PICK next \in Selects(n) :
          run' = [run EXCEPT !.frame = Past(plan.order, run.frame, OuterIndex, next),
                             !.rt = rt]
    BY <1>3 DEF Component
  <2>2. <<n, 0>> \in Place BY <1>1, OuterFirst, <1>3, PlanFacts DEF Component, Place
  <2>3. rt \in Runtime
    <3>1. By(n, run.rt) \in {"none", "query", "inputs", "answer"} BY ByType
    <3>2. run.rt \in Runtime BY OuterFirst, <1>3 DEF Component
    <3> HIDE DEF n
    <3> QED BY <1>1, <2>2, <3>1, <3>2, VisitedRuntime
  <2>4. Past(plan.order, run.frame, OuterIndex, next) \in Frame
    BY <1>1, <1>2, OuterFirst, <1>3, PastFrame DEF Component
  <2>5. Feeds(n) /\ Begins(<<n, 0>>) /\ UNCHANGED <<plan, saved, active>>
    BY <1>3 DEF Component
  <2> HIDE DEF n, rt
  <2>6. run' \in Position /\ run'.in = "outer" /\ run'.items = <<>>
    BY <1>1, OuterFirst, <1>3, <2>1, <2>3, <2>4 DEF Component, Position
  <2> QED BY <2>2, <2>5, <2>6, NoItems, StaysSound, BeginsType, FeedsType
<1>4. CASE OuterPause
  <2> DEFINE p == [run EXCEPT !.frame.at = OuterIndex]
  <2>1. p \in Position /\ p.in = "outer" /\ p.items = <<>>
        /\ p.frame.at = OuterIndex /\ p.frame.selected = run.frame.selected
    BY <1>1, OuterFirst, <1>4 DEF OuterPause, Position, Frame
  <2>2. InOuter /\ plan.kind[plan.order[OuterIndex]] = "fill" /\ Pause(p, 0)
    BY <1>4 DEF OuterPause, Pauses
  <2> HIDE DEF p
  <2>3. PositionSound(p) BY <2>1, NoItems
  <2>4. Asks(p, 0) BY OuterFirst, <2>1, <2>2 DEF Asks, AtFill
  <2> QED BY <2>1, <2>2, <2>3, <2>4, PauseSound
<1>5. CASE Complete
  <2>1. Pause(Nothing, 0) BY <1>5 DEF Complete, Pause
  <2>2. Asks(Nothing, 0) BY DEF Asks, Nothing
  <2> QED BY <2>1, <2>2, NothingSound, PauseSound
<1> QED BY <1>3, <1>4, <1>5

\* A macro comes to its end with the runtime rt.
LEMMA MacroStep ==
    ASSUME PositionsSound, run.in \in {"loop", "items"}, NEW rt \in Runtime, MacroEnds(rt)
    PROVE  PositionsSound'
<1>1. plan \in Plans /\ run \in Position /\ request \in Request
      /\ PositionSound(run)
  BY DEF PositionsSound, TypeOK
<1>2. plan.order \in Seq(Nodes) /\ MacroNode \in Nodes /\ MacroNode \in Nat
  BY <1>1, PlanFacts, BodyType DEF MacroNode
<1>3. <<MacroNode, 0>> \in Place BY <1>2 DEF Place
<1>4. Visited(rt, <<MacroNode, 0>>, "none") \in Runtime
  BY <1>1, <1>3, VisitedRuntime
<1>5. Past(plan.order, run.frame, run.frame.at, plan.down[MacroNode]) \in Frame
  <2>1. run.frame \in Frame /\ run.frame.at \in 1 .. Len(plan.order)
    BY <1>1 DEF Position, PositionSound, AtMacro
  <2> QED BY <1>1, <1>2, <2>1, PastFrame
<1>6. run' \in Position /\ run'.in = "outer" /\ run'.items = <<>>
  BY <1>4, <1>5, NothingSound DEF MacroEnds, Position, Nothing
<1>7. /\ Begins(<<MacroNode, 0>>) /\ UNCHANGED <<plan, request, saved, active>>
  BY DEF MacroEnds
<1> QED
  BY <1>1, <1>3, <1>6, <1>7, NoItems, StaysSound, BeginsType DEF PositionsSound

LEMMA InMacro ==
    ASSUME PositionsSound, run.in \in {"loop", "items"}
    PROVE  /\ plan \in Plans /\ run \in Position /\ PositionSound(run)
           /\ run.frame \in Frame /\ run.rt \in Runtime
           /\ AtMacro(run.frame) /\ run.frame.at \in 1 .. Len(plan.order)
           /\ Body = BodyOf(run) /\ Body \in Seq(Nodes) /\ Injective(Body)
           /\ MacroNode \in Nodes /\ MacroNode = plan.order[run.frame.at]
           /\ plan.entries[MacroNode] \subseteq Nat
<1>1. plan \in Plans /\ run \in Position /\ PositionSound(run)
  BY DEF PositionsSound, TypeOK
<1>2. plan.entries[MacroNode] \subseteq Nat
  BY <1>1, PlanFacts, BodyType DEF MacroNode
<1> QED
  BY <1>1, <1>2, BodyType DEF Position, PositionSound, AtMacro, Body, BodyOf, MacroNode

LEMMA LoopFirst ==
    ASSUME PositionsSound, InLoop
    PROVE  /\ run.in = "loop" /\ run.items = <<>> /\ run.body \in Frame
           /\ run.iter \in Nat \ {0}
           /\ BodyIndex \in 1 .. Len(Body) /\ BodyIndex \in Nat \ {0}
           /\ Body[BodyIndex] \in Nodes /\ Body[BodyIndex] \in run.body.selected
           /\ <<Body[BodyIndex], run.iter>> \in Place
<1>1. /\ run.in = "loop" /\ run.items = <<>> /\ run.body \in Frame
      /\ run.iter \in Nat \ {0}
  BY DEF InLoop, PositionsSound, PositionSound, TypeOK, Position
<1>2. /\ BodyIndex \in 1 .. Len(Body) /\ BodyIndex \in Nat \ {0}
      /\ Body[BodyIndex] \in Nodes /\ Body[BodyIndex] \in run.body.selected
  BY <1>1, InMacro, FirstAhead DEF InLoop, BodyIndex
<1> QED BY <1>1, <1>2, InMacro, PlanFacts DEF Place

LEMMA FreshFrameType ==
    ASSUME NEW selected, selected \subseteq Nat PROVE FreshFrame(selected) \in Frame
BY DEF FreshFrame, Frame

LEMMA LoopStep ==
    ASSUME PositionsSound,
           LoopStart \/ LoopMember \/ LoopPause \/ LoopTerminates \/ LoopRepeats \/ LoopExceeds
    PROVE  PositionsSound'
<1>1. plan \in Plans /\ run \in Position /\ request \in Request /\ PositionSound(run)
      /\ began \subseteq Place /\ again \subseteq Place
  BY DEF TypeOK, PositionsSound
<1>2. CASE LoopStart
  <2> DEFINE n == plan.order[OuterIndex]
  <2>1. /\ run' = [run EXCEPT !.in = "loop", !.frame.at = OuterIndex, !.iter = 1,
                              !.body = FreshFrame(plan.entries[n])]
        /\ InOuter /\ plan.kind[n] = "loop"
        /\ UNCHANGED <<plan, request, saved, active, began, again>>
    BY <1>2 DEF LoopStart
  <2>2. n \in Nodes BY <2>1, OuterFirst
  <2>3. FreshFrame(plan.entries[n]) \in Frame
    BY <1>1, <2>2, PlanFacts, FreshFrameType
  <2> HIDE DEF n
  <2>4. run.items = <<>> /\ OuterIndex \in 1 .. Len(plan.order) /\ OuterIndex \in Nat \ {0}
    BY <2>1, OuterFirst
  <2>5. /\ run' \in Position /\ run'.in = "loop" /\ run'.items = <<>>
        /\ run'.iter > 0 /\ AtMacro(run'.frame)
    <3> DEFINE frame == [run.frame EXCEPT !.at = OuterIndex]
    <3>1. frame \in Frame /\ frame.at = OuterIndex BY <1>1, <2>4 DEF Position, Frame
    <3>2. run' = [run EXCEPT !.in = "loop", !.frame = frame, !.iter = 1,
                             !.body = FreshFrame(plan.entries[n])]
      BY <2>1
    <3> DEFINE body == FreshFrame(plan.entries[n])
    <3> HIDE DEF frame, body
    <3>3. run'.in = "loop" /\ run'.items = run.items /\ run'.iter = 1 /\ run'.frame = frame
      BY <1>1, <3>2 DEF Position
    <3>4. run' \in Position BY <1>1, <2>3, <3>1, <3>2 DEF Position
    <3>5. AtMacro(run'.frame) BY <2>1, <2>4, <3>1, <3>3 DEF AtMacro, n
    <3> QED BY <2>4, <3>1, <3>3, <3>4, <3>5
  <2> QED BY <1>1, <2>1, <2>5, NoItems, StaysSound
<1>3. CASE LoopMember
  <2> DEFINE n == Body[BodyIndex]
             rt == Visited(run.rt, <<n, run.iter>>, By(n, run.rt))
  <2>1. PICK next \in Selects(n) :
          run' = [run EXCEPT !.body = Past(Body, run.body, BodyIndex, next), !.rt = rt]
    BY <1>3 DEF LoopMember
  <2>2. InLoop /\ Feeds(n) /\ Begins(<<n, run.iter>>) /\ UNCHANGED <<plan, saved, active>>
    BY <1>3 DEF LoopMember
  <2>3. run.in = "loop" /\ <<n, run.iter>> \in Place BY <2>2, LoopFirst
  <2>4. run.rt \in Runtime /\ AtMacro(run.frame) /\ Body \in Seq(Nodes)
    BY <2>3, InMacro
  <2>5. Past(Body, run.body, BodyIndex, next) \in Frame
    BY <1>1, <2>2, <2>4, LoopFirst, PastFrame
  <2>6. By(n, run.rt) \in {"none", "query", "inputs", "answer"} BY ByType
  <2>7. rt \in Runtime
    <3> HIDE DEF n
    <3> QED BY <1>1, <2>3, <2>4, <2>6, VisitedRuntime
  <2> HIDE DEF n, rt
  <2>8. /\ run' \in Position /\ run'.in = "loop" /\ run'.items = <<>>
        /\ run'.iter > 0 /\ AtMacro(run'.frame)
    <3>1. run.in = "loop" /\ run.items = <<>> /\ run.iter > 0 BY <2>2, LoopFirst
    <3> QED BY <1>1, <2>1, <2>4, <2>5, <2>7, <3>1 DEF Position
  <2> QED BY <1>1, <2>2, <2>3, <2>8, NoItems, StaysSound, BeginsType, FeedsType
             DEF PositionsSound
<1>4. CASE LoopPause
  <2> DEFINE p == [run EXCEPT !.body.at = BodyIndex]
  <2>1. InLoop /\ plan.kind[Body[BodyIndex]] = "fill" /\ Pause(p, 0)
    BY <1>4 DEF LoopPause, Pauses
  <2>2. run.in = "loop" BY <2>1, LoopFirst
  <2>3. p \in Position /\ p.in = "loop" /\ p.items = <<>> /\ p.frame = run.frame
        /\ p.iter = run.iter /\ p.body = [run.body EXCEPT !.at = BodyIndex]
    BY <1>1, <2>1, LoopFirst DEF Position, Frame
  <2>4. p.body.at = BodyIndex /\ p.body.selected = run.body.selected
    BY <2>1, <2>3, LoopFirst DEF Frame
  <2> HIDE DEF p
  <2>5. BodyOf(p) = Body BY <2>2, <2>3, InMacro DEF BodyOf
  <2>6. PositionSound(p) BY <2>1, <2>2, <2>3, LoopFirst, InMacro, NoItems
  <2>7. Asks(p, 0) BY <2>1, <2>3, <2>4, <2>5, LoopFirst DEF Asks, AtFill
  <2> QED BY <2>1, <2>3, <2>6, <2>7, PauseSound
<1>5. CASE LoopTerminates
  BY <1>1, <1>5, MacroStep DEF LoopTerminates, IterationOver, Position
<1>6. CASE LoopRepeats
  <2>1. /\ run' = [run EXCEPT !.iter = @ + 1, !.body = FreshFrame(plan.entries[MacroNode])]
        /\ run.in = "loop" /\ UNCHANGED <<plan, request, saved, active, began, again>>
    BY <1>6 DEF LoopRepeats, IterationOver
  <2>2. FreshFrame(plan.entries[MacroNode]) \in Frame /\ run.items = <<>> /\ run.iter \in Nat
        /\ AtMacro(run.frame)
    BY <1>1, <2>1, InMacro, FreshFrameType DEF Position, PositionSound
  <2>3. run.iter + 1 \in Nat /\ run.iter + 1 > 0 BY <2>2
  <2>4. /\ run' \in Position /\ run'.in = "loop" /\ run'.items = <<>>
        /\ run'.iter > 0 /\ AtMacro(run'.frame)
    BY <1>1, <2>1, <2>2, <2>3 DEF Position
  <2> QED BY <1>1, <2>1, <2>4, NoItems, StaysSound
<1>7. CASE LoopExceeds BY <1>7, EndsSound, StaysSound DEF LoopExceeds
<1> QED BY <1>2, <1>3, <1>4, <1>5, <1>6, <1>7

LEMMA ItemFirst ==
    ASSUME PositionsSound, NEW i, InItem(i), Ahead(Body, run.items[i].frame) # {}
    PROVE  /\ run.items[i].frame \in Frame /\ run.items[i].rt \in Runtime
           /\ ItemIndex(i) \in 1 .. Len(Body) /\ ItemIndex(i) \in Nat \ {0}
           /\ Body[ItemIndex(i)] \in Nodes
           /\ Body[ItemIndex(i)] \in run.items[i].frame.selected
           /\ <<Body[ItemIndex(i)], i>> \in Place
<1>1. run.in = "items" /\ i \in DOMAIN run.items BY DEF InItem, Items
<1>2. run.items[i] \in Item /\ i \in Nat BY <1>1, ItemType, InMacro
<1>3. run.items[i].frame \in Frame /\ run.items[i].rt \in Runtime BY <1>2 DEF Item
<1>4. /\ ItemIndex(i) \in 1 .. Len(Body) /\ ItemIndex(i) \in Nat \ {0}
      /\ Body[ItemIndex(i)] \in Nodes
      /\ Body[ItemIndex(i)] \in run.items[i].frame.selected
  BY <1>1, <1>3, InMacro, FirstAhead DEF ItemIndex
<1> QED BY <1>1, <1>2, <1>3, <1>4, InMacro, PlanFacts DEF Place

\* What an item becomes.
Becomes(i, item) ==
    /\ i \in Items
    /\ item \in Item
    /\ item.state = "wait" => AtFill(Body, item.frame)
    /\ run' = [run EXCEPT !.items = [run.items EXCEPT ![i] = item]]

LEMMA BecomesSound ==
    ASSUME PositionsSound, NEW i, NEW item, Becomes(i, item),
           UNCHANGED <<plan, saved, active>>, request' \in Request,
           began' \subseteq Place, again' \subseteq Place
    PROVE  PositionsSound'
<1>1. run \in Position /\ PositionSound(run) /\ i \in DOMAIN run.items /\ item \in Item
  BY DEF PositionsSound, TypeOK, Becomes, Items
<1>2. run.in = "items" BY <1>1 DEF PositionSound
<1>3. BodyOf(run) = Body BY <1>2, InMacro
<1>4. run' \in Position /\ PositionSound(run')
  BY <1>1, <1>3, ItemSound DEF Becomes
<1> QED BY <1>4, StaysSound

\* The states an item goes through.
ItemGoes(i, item) ==
    /\ Becomes(i, item)
    /\ UNCHANGED <<plan, request, saved, active, began, again>>

LEMMA ItemStateMoves ==
    ASSUME PositionsSound, NEW i
    PROVE  /\ ItemStart(i) => ItemGoes(i, [run.items[i] EXCEPT !.state = "run"])
           /\ ItemWaits(i) => ItemGoes(i, [run.items[i] EXCEPT !.state = "wait",
                                                               !.frame.at = ItemIndex(i)])
           /\ ItemEnds(i) => ItemGoes(i, [run.items[i] EXCEPT !.state = "done"])
           /\ ItemFails(i) => ItemGoes(i, [run.items[i] EXCEPT !.state = "error"])
<1>1. run \in Position BY DEF PositionsSound, TypeOK
<1>2. ASSUME i \in Items, NEW state \in {"run", "done", "error"},
             run' = [run EXCEPT !.items[i].state = state]
      PROVE  Becomes(i, [run.items[i] EXCEPT !.state = state])
  <2>1. run.items[i] \in Item BY <1>1, <1>2, ItemType DEF Items
  <2>2. [run.items[i] EXCEPT !.state = state] \in Item
        /\ [run.items[i] EXCEPT !.state = state].state # "wait"
    BY <2>1 DEF Item
  <2> QED BY <1>1, <1>2, <2>2 DEF Becomes, Position
<1>3. ASSUME ItemWaits(i)
      PROVE  ItemGoes(i, [run.items[i] EXCEPT !.state = "wait", !.frame.at = ItemIndex(i)])
  <2> DEFINE item == [run.items[i] EXCEPT !.state = "wait", !.frame.at = ItemIndex(i)]
  <2>1. InItem(i) /\ Ahead(Body, run.items[i].frame) # {} /\ i \in Items
        /\ plan.kind[Body[ItemIndex(i)]] = "fill"
    BY <1>3 DEF ItemWaits, Pauses, InItem
  <2>2. run.items[i] \in Item BY <1>1, <2>1, ItemType DEF Items
  <2>3. item \in Item /\ item.frame.at = ItemIndex(i)
        /\ item.frame.selected = run.items[i].frame.selected
    BY <2>1, <2>2, ItemFirst DEF Item, Frame
  <2>4. run' = [run EXCEPT !.items = [run.items EXCEPT ![i] = item]]
    <3> DEFINE on == [run.items EXCEPT ![i] = [run.items[i] EXCEPT !.state = "wait"]]
    <3>1. run.items \in Seq(Item) BY <1>1 DEF Position
    <3>2. [run EXCEPT !.items[i].state = "wait"] = [run EXCEPT !.items = on]
      OBVIOUS
    <3>3. [on EXCEPT ![i].frame.at = ItemIndex(i)] = [run.items EXCEPT ![i] = item]
      BY <2>1, <2>2, <3>1 DEF Items
    <3>4. run' = [[run EXCEPT !.items[i].state = "wait"]
                    EXCEPT !.items[i].frame.at = ItemIndex(i)]
      BY <1>3 DEF ItemWaits
    <3> HIDE DEF on, item
    <3>5. run' = [[run EXCEPT !.items = on] EXCEPT !.items[i].frame.at = ItemIndex(i)]
      BY <3>2, <3>4
    <3>6. run' = [run EXCEPT !.items = [on EXCEPT ![i].frame.at = ItemIndex(i)]]
      BY <1>1, <3>5 DEF Position
    <3> QED BY <3>3, <3>6
  <2>5. UNCHANGED <<plan, request, saved, active, began, again>> BY <1>3 DEF ItemWaits
  <2> HIDE DEF item
  <2>6. AtFill(Body, item.frame) BY <2>1, <2>3, ItemFirst DEF AtFill
  <2>7. Becomes(i, item) BY <2>1, <2>3, <2>4, <2>6 DEF Becomes
  <2> QED BY <2>5, <2>7 DEF ItemGoes, item
<1>4. ItemStart(i) => ItemGoes(i, [run.items[i] EXCEPT !.state = "run"])
  BY <1>2 DEF ItemStart, ItemGoes
<1>5. ItemEnds(i) => ItemGoes(i, [run.items[i] EXCEPT !.state = "done"])
  BY <1>2 DEF ItemEnds, InItem, ItemGoes
<1>6. ItemFails(i) => ItemGoes(i, [run.items[i] EXCEPT !.state = "error"])
  BY <1>2 DEF ItemFails, InItem, ItemGoes
<1> QED BY <1>3, <1>4, <1>5, <1>6

\* An item after its member n, that selects next.
ItemPast(i, next) ==
    LET n == Body[ItemIndex(i)]
    IN  [run.items[i] EXCEPT !.frame = Past(Body, run.items[i].frame, ItemIndex(i), next),
                             !.rt = Visited(run.items[i].rt, <<n, i>>,
                                            By(n, run.items[i].rt))]

LEMMA ItemMemberMoves ==
    ASSUME PositionsSound, NEW i, ItemMember(i)
    PROVE  LET n == Body[ItemIndex(i)]
           IN  /\ InItem(i) /\ Ahead(Body, run.items[i].frame) # {}
               /\ ~Pauses(n, run.items[i].rt)
               /\ \E next \in Selects(n) : Becomes(i, ItemPast(i, next))
               /\ Feeds(n) /\ Begins(<<n, i>>) /\ UNCHANGED <<plan, saved, active>>
<1> DEFINE n == Body[ItemIndex(i)]
           frame(next) == Past(Body, run.items[i].frame, ItemIndex(i), next)
           rt == Visited(run.items[i].rt, <<n, i>>, By(n, run.items[i].rt))
<1>1. run \in Position /\ plan \in Plans /\ request \in Request
  BY DEF PositionsSound, TypeOK
<1>2. /\ InItem(i) /\ Ahead(Body, run.items[i].frame) # {}
      /\ ~Pauses(n, run.items[i].rt) /\ i \in Items
      /\ Feeds(n) /\ Begins(<<n, i>>) /\ UNCHANGED <<plan, saved, active>>
  BY DEF ItemMember, InItem
<1>3. PICK next \in Selects(n) :
        run' = [run EXCEPT !.items[i].frame = frame(next), !.items[i].rt = rt]
  BY DEF ItemMember
<1>4. run.items[i] \in Item /\ run.items[i].state = "run" /\ run.in = "items"
  BY <1>1, <1>2, ItemType DEF Items, InItem
<1>5. frame(next) \in Frame
  BY <1>1, <1>2, <1>4, ItemFirst, InMacro, PastFrame
<1>6. rt \in Runtime
  <2>1. By(n, run.items[i].rt) \in {"none", "query", "inputs", "answer"} BY ByType
  <2>2. <<n, i>> \in Place /\ run.items[i].rt \in Runtime BY <1>2, ItemFirst
  <2> HIDE DEF n
  <2> QED BY <1>1, <2>1, <2>2, VisitedRuntime
<1>7. ItemPast(i, next) = [run.items[i] EXCEPT !.frame = frame(next), !.rt = rt]
  BY DEF ItemPast
<1> DEFINE f == frame(next)
<1>8. ItemPast(i, next) = [run.items[i] EXCEPT !.frame = f, !.rt = rt] /\ f \in Frame
      /\ run' = [run EXCEPT !.items[i].frame = f, !.items[i].rt = rt]
  BY <1>3, <1>5, <1>7
<1> HIDE DEF f, rt, n
<1> DEFINE it == [run.items[i] EXCEPT !.frame = f, !.rt = rt]
<1>9. it \in Item /\ it.state = "run" BY <1>4, <1>6, <1>8 DEF Item
<1>10. run' = [run EXCEPT !.items = [run.items EXCEPT ![i] = it]]
  <2> DEFINE on == [run.items EXCEPT ![i] = [run.items[i] EXCEPT !.frame = f]]
  <2>1. run.items \in Seq(Item) BY <1>1 DEF Position
  <2>2. [run EXCEPT !.items[i].frame = f] = [run EXCEPT !.items = on] OBVIOUS
  <2>3. [on EXCEPT ![i].rt = rt] = [run.items EXCEPT ![i] = it]
    BY <1>2, <1>4, <2>1 DEF Items
  <2>4. run' = [[run EXCEPT !.items[i].frame = f] EXCEPT !.items[i].rt = rt] BY <1>8
  <2> HIDE DEF on, it
  <2>5. run' = [[run EXCEPT !.items = on] EXCEPT !.items[i].rt = rt] BY <2>2, <2>4
  <2>6. run' = [run EXCEPT !.items = [on EXCEPT ![i].rt = rt]] BY <1>1, <2>5 DEF Position
  <2> QED BY <2>3, <2>6
<1>11. Becomes(i, ItemPast(i, next))
  <2> HIDE DEF it
  <2>1. ItemPast(i, next) = it BY <1>8 DEF it
  <2> QED BY <1>2, <1>9, <1>10, <2>1 DEF Becomes
<1> QED BY <1>2, <1>3, <1>11 DEF n

\* The items of a Parallel, at its start.
NewItem == [state |-> "todo", frame |-> FreshFrame(plan.entries[plan.order[OuterIndex]]),
            rt |-> [run.rt EXCEPT !.done = {}]]

LEMMA ParallelStartMoves ==
    ASSUME PositionsSound, ParallelStart
    PROVE  /\ InOuter /\ plan.kind[plan.order[OuterIndex]] = "parallel"
           /\ UNCHANGED <<plan, request, saved, active, began, again>>
           /\ NewItem \in Item /\ NewItem.state = "todo"
           /\ \E count \in Nat :
                /\ run' = [run EXCEPT !.in = "items", !.frame.at = OuterIndex,
                                      !.items = [i \in 1 .. count |-> NewItem]]
                /\ run' \in Position /\ run'.in = "items" /\ run'.rt = run.rt
                /\ run'.frame = [run.frame EXCEPT !.at = OuterIndex]
                /\ run'.items = [i \in 1 .. count |-> NewItem]
                /\ DOMAIN run'.items = 1 .. count
<1>1. run \in Position /\ plan \in Plans BY DEF PositionsSound, TypeOK
<1>2. InOuter /\ plan.kind[plan.order[OuterIndex]] = "parallel"
      /\ UNCHANGED <<plan, request, saved, active, began, again>>
  BY DEF ParallelStart
<1>3. PICK count \in 0 .. MaxItems :
        run' = [run EXCEPT !.in = "items", !.frame.at = OuterIndex,
                           !.items = [i \in 1 .. count |-> NewItem]]
  BY DEF ParallelStart, NewItem
<1>4. NewItem \in Item /\ NewItem.state = "todo"
  <2>1. FreshFrame(plan.entries[plan.order[OuterIndex]]) \in Frame
    BY <1>1, <1>2, OuterFirst, PlanFacts, FreshFrameType
  <2>2. [run.rt EXCEPT !.done = {}] \in Runtime BY <1>2, OuterFirst DEF Runtime
  <2> QED BY <2>1, <2>2 DEF NewItem, Item
<1>5. [run.frame EXCEPT !.at = OuterIndex] \in Frame BY <1>2, OuterFirst DEF Frame
<1> DEFINE frame == [run.frame EXCEPT !.at = OuterIndex]
           items == [i \in 1 .. count |-> NewItem]
<1>6. items \in Seq(Item) /\ count \in Nat /\ DOMAIN items = 1 .. count
  BY <1>4, ItemsAssumption
<1>7. run' = [run EXCEPT !.in = "items", !.frame = frame, !.items = items] BY <1>3
<1>8. /\ run' \in Position /\ run'.in = "items" /\ run'.rt = run.rt
      /\ run'.frame = frame /\ run'.items = items
  <2> HIDE DEF frame, items
  <2>1. frame \in Frame BY <1>5 DEF frame
  <2> QED BY <1>1, <1>6, <1>7, <2>1 DEF Position
<1> QED BY <1>2, <1>3, <1>4, <1>6, <1>8

LEMMA ItemsStep ==
    ASSUME PositionsSound,
           \/ ParallelStart \/ ParallelFails \/ ParallelPause \/ ParallelEnds
           \/ \E i \in Items :
                ItemStart(i) \/ ItemMember(i) \/ ItemWaits(i) \/ ItemEnds(i) \/ ItemFails(i)
    PROVE  PositionsSound'
<1>1. plan \in Plans /\ run \in Position /\ request \in Request /\ PositionSound(run)
      /\ began \subseteq Place /\ again \subseteq Place /\ TypeOK
  BY DEF TypeOK, PositionsSound
<1>2. CASE ParallelStart
  <2>1. /\ InOuter /\ plan.kind[plan.order[OuterIndex]] = "parallel"
        /\ UNCHANGED <<plan, request, saved, active, began, again>>
        /\ NewItem.state = "todo"
        /\ run' \in Position /\ run'.in = "items"
        /\ run'.frame = [run.frame EXCEPT !.at = OuterIndex]
        /\ \A i \in DOMAIN run'.items : run'.items[i] = NewItem
    BY <1>2, ParallelStartMoves
  <2>2. AtMacro(run'.frame) BY <2>1, OuterFirst DEF Frame, AtMacro
  <2>3. PositionSound(run') BY <2>1, <2>2 DEF PositionSound
  <2> QED BY <1>1, <2>1, <2>3, StaysSound
<1>3. CASE ParallelFails BY <1>3, EndsSound, StaysSound DEF ParallelFails
<1>4. CASE ParallelPause
  <2> DEFINE a == CHOOSE i \in In("wait") : \A j \in In("wait") : i <= j
  <2>1. AllSettled /\ In("error") = {} /\ In("wait") # {} /\ Pause(run, a)
    BY <1>4 DEF ParallelPause
  <2>2. In("wait") \subseteq Nat /\ In("wait") \subseteq Items
    BY <1>1, ItemType DEF In, Items
  <2>3. a \in In("wait")
    <3>1. \E i \in In("wait") : \A j \in In("wait") : i <= j
      BY <2>1, <2>2, LeastElement
    <3> QED BY <3>1
  <2> HIDE DEF a
  <2>4. Asks(run, a)
    BY <2>1, <2>2, <2>3 DEF Asks, AllSettled, Settled, In, Items
  <2> QED BY <1>1, <2>1, <2>2, <2>3, <2>4, PauseSound
<1>5. CASE ParallelEnds
  <2> DEFINE rt == [run.rt EXCEPT !.done = @ \cup UNION {run.items[i].rt.done : i \in Items}]
  <2>1. MacroEnds(rt) /\ run.in = "items" BY <1>5 DEF ParallelEnds, AllSettled
  <2>2. \A i \in Items : run.items[i].rt.done \subseteq Visit
    BY <1>1, ItemType DEF Items, Item, Runtime
  <2>3. rt \in Runtime BY <1>1, <2>2 DEF Position, Runtime
  <2> HIDE DEF rt
  <2> QED BY <2>1, <2>3, MacroStep
<1>6. ASSUME NEW i \in Items, NEW item, ItemGoes(i, item) PROVE PositionsSound'
  BY <1>1, <1>6, BecomesSound DEF ItemGoes
<1>7. ASSUME NEW i \in Items, ItemMember(i) PROVE PositionsSound'
  <2>1. PICK next : Becomes(i, ItemPast(i, next)) BY <1>7, ItemMemberMoves
  <2>2. /\ InItem(i) /\ Ahead(Body, run.items[i].frame) # {}
        /\ Feeds(Body[ItemIndex(i)]) /\ Begins(<<Body[ItemIndex(i)], i>>)
        /\ UNCHANGED <<plan, saved, active>>
    BY <1>7, ItemMemberMoves
  <2>3. <<Body[ItemIndex(i)], i>> \in Place BY <2>2, ItemFirst
  <2> QED BY <1>1, <2>1, <2>2, <2>3, BeginsType, FeedsType, BecomesSound
<1> QED BY <1>2, <1>3, <1>4, <1>5, <1>6, <1>7, ItemStateMoves

LEMMA PositionsInit == Init => PositionsSound
<1> SUFFICES ASSUME Init PROVE PositionsSound
  OBVIOUS
<1>1. Asks(Nothing, 0) BY DEF Asks, Nothing
<1> QED BY <1>1, NothingSound DEF Init, PositionsSound, TypeOK

LEMMA PositionsStep == PositionsSound /\ [Next]_vars => PositionsSound'
<1> SUFFICES ASSUME PositionsSound, [Next]_vars PROVE PositionsSound'
  OBVIOUS
<1>1. CASE Start \/ Resume \/ Fail BY <1>1, RequestsStep
<1>2. CASE Runs
  BY <1>2, OuterStep, LoopStep, ItemsStep DEF Runs
<1>3. CASE \E i \in Items : ItemFails(i) BY <1>3, ItemsStep
<1>4. CASE UNCHANGED vars
  BY <1>4 DEF vars, PositionsSound, TypeOK, PositionSound, AtMacro, Asks, AtFill, BodyOf, Nothing
<1> QED BY <1>1, <1>2, <1>3, <1>4 DEF Next

\* Every variable has its type, whatever the canvas; a Parallel's items and the
\* cursors of their bodies included.
THEOREM TypeCorrect == Spec => []TypeOK
<1>1. Spec => []PositionsSound BY PositionsInit, PositionsStep, PTL DEF Spec
<1>2. PositionsSound => TypeOK BY DEF PositionsSound
<1> QED BY <1>1, <1>2, PTL

-----------------------------------------------------------------------------
(* What the actions add to the outputs and paths.                          *)

Done(p) == p.rt.done \cup UNION {p.items[i].rt.done : i \in DOMAIN p.items}

\* Neither the run nor an item that goes on has the query.
Quiet(p) ==
    /\ ~p.rt.query
    /\ \A i \in DOMAIN p.items :
          p.items[i].state \in {"todo", "run"} => ~p.items[i].rt.query

LEMMA KeptIsDone == ASSUME NEW p PROVE Kept(p) = {v.place : v \in Done(p)}
BY DEF Kept, Done, Places

LEMMA DoneItem ==
    ASSUME NEW p \in Position, NEW i \in DOMAIN p.items, NEW item \in Item, NEW S,
           item.rt.done = p.items[i].rt.done \cup S
    PROVE  LET q == [p EXCEPT !.items = [p.items EXCEPT ![i] = item]]
           IN  /\ Done(q) = Done(p) \cup S
               /\ Quiet(p) /\ (item.state \in {"todo", "run"} => ~item.rt.query) => Quiet(q)
<1> DEFINE q == [p EXCEPT !.items = [p.items EXCEPT ![i] = item]]
<1>1. /\ q.rt = p.rt /\ DOMAIN q.items = DOMAIN p.items /\ q.items[i] = item
      /\ \A j \in DOMAIN p.items : j # i => q.items[j] = p.items[j]
  BY ItemChanged
<1> HIDE DEF q
<1>2. Quiet(p) /\ (item.state \in {"todo", "run"} => ~item.rt.query) => Quiet(q)
  BY <1>1 DEF Quiet
<1>3. Done(q) = Done(p) \cup S
  <2>1. ASSUME NEW v \in Done(q) PROVE v \in Done(p) \cup S
    <3>1. CASE v \in q.rt.done BY <1>1, <3>1 DEF Done
    <3>2. CASE v \notin q.rt.done
      <4>1. PICK j \in DOMAIN p.items : v \in q.items[j].rt.done
        BY <1>1, <2>1, <3>2 DEF Done
      <4>2. v \in p.items[j].rt.done \cup S BY <1>1, <4>1
      <4> QED BY <4>2 DEF Done
    <3> QED BY <3>1, <3>2
  <2>2. ASSUME NEW v \in Done(p) \cup S PROVE v \in Done(q)
    <3>1. CASE v \in S
      <4>1. v \in q.items[i].rt.done BY <1>1, <3>1
      <4> QED BY <1>1, <4>1 DEF Done
    <3>2. CASE v \notin S
      <4>1. CASE v \in p.rt.done BY <1>1, <4>1 DEF Done
      <4>2. CASE v \notin p.rt.done
        <5>1. PICK j \in DOMAIN p.items : v \in p.items[j].rt.done
          BY <2>2, <3>2, <4>2 DEF Done
        <5>2. v \in q.items[j].rt.done BY <1>1, <5>1
        <5> QED BY <1>1, <5>2 DEF Done
      <4> QED BY <4>1, <4>2
    <3> QED BY <3>1, <3>2
  <2> QED BY <2>1, <2>2
<1> QED BY <1>2, <1>3 DEF q

\* The step to a member at place, with the runtime rt.
Visits(place, rt) ==
    /\ place \in Place /\ rt \in Runtime
    /\ ~Pauses(place[1], rt)
    /\ Feeds(place[1]) /\ Begins(place) /\ UNCHANGED <<plan, saved, active>>
    /\ Done(run') = Done(run) \cup {Entry(place, By(place[1], rt))}
    /\ Quiet(run) => ~rt.query /\ Quiet(run')
    /\ run.in # "off" /\ run'.in = run.in

LEMMA ComponentVisits ==
    ASSUME PositionsSound, Component
    PROVE  Visits(<<plan.order[OuterIndex], 0>>, run.rt)
<1> DEFINE n == plan.order[OuterIndex]
           rt == Visited(run.rt, <<n, 0>>, By(n, run.rt))
<1>1. /\ InOuter /\ ~Pauses(n, run.rt) /\ Feeds(n) /\ Begins(<<n, 0>>)
      /\ UNCHANGED <<plan, saved, active>>
  BY DEF Component
<1>2. PICK next \in Selects(n) :
        run' = [run EXCEPT !.frame = Past(plan.order, run.frame, OuterIndex, next),
                           !.rt = rt]
  BY DEF Component
<1>3. run \in Position /\ request \in Request /\ plan \in Plans
  BY DEF PositionsSound, TypeOK
<1>4. run.rt \in Runtime /\ n \in Nodes /\ run.in = "outer" BY <1>1, OuterFirst
<1>5. <<n, 0>> \in Place BY <1>3, <1>4, PlanFacts DEF Place
<1>6. By(n, run.rt) \in {"none", "query", "inputs", "answer"} BY ByType
<1>7. rt.done = run.rt.done \cup {Entry(<<n, 0>>, By(n, run.rt))} /\ rt.query = run.rt.query
  <2> DEFINE by == By(n, run.rt)
             place == <<n, 0>>
  <2>1. by \in {"none", "query", "inputs", "answer"} /\ place \in Place /\ run.rt \in Runtime
        /\ rt = Visited(run.rt, place, by)
    BY <1>4, <1>5, <1>6
  <2> HIDE DEF n, by, place, rt
  <2>2. /\ Visited(run.rt, place, by).done = run.rt.done \cup {Entry(place, by)}
        /\ Visited(run.rt, place, by).query = run.rt.query
    BY <2>1 DEF Visited, Entry, Runtime
  <2>3. rt.done = run.rt.done \cup {Entry(place, by)} /\ rt.query = run.rt.query
    BY <2>1, <2>2
  <2> QED BY <2>3 DEF by, place
<1>8. run'.rt = rt /\ run'.items = run.items /\ run'.in = run.in
  BY <1>2, <1>3 DEF Position
<1> HIDE DEF n, rt
<1>9. Done(run') = Done(run) \cup {Entry(<<n, 0>>, By(n, run.rt))}
  BY <1>7, <1>8 DEF Done
<1>10. Quiet(run) => ~run.rt.query /\ Quiet(run') BY <1>7, <1>8 DEF Quiet
<1> QED BY <1>1, <1>4, <1>5, <1>8, <1>9, <1>10 DEF Visits, n

LEMMA LoopMemberVisits ==
    ASSUME PositionsSound, LoopMember
    PROVE  Visits(<<Body[BodyIndex], run.iter>>, run.rt)
<1> DEFINE n == Body[BodyIndex]
           rt == Visited(run.rt, <<n, run.iter>>, By(n, run.rt))
<1>1. /\ InLoop /\ ~Pauses(n, run.rt) /\ Feeds(n) /\ Begins(<<n, run.iter>>)
      /\ UNCHANGED <<plan, saved, active>>
  BY DEF LoopMember
<1>2. PICK next \in Selects(n) :
        run' = [run EXCEPT !.body = Past(Body, run.body, BodyIndex, next), !.rt = rt]
  BY DEF LoopMember
<1>3. run \in Position /\ request \in Request BY DEF PositionsSound, TypeOK
<1>4. run.in = "loop" /\ <<n, run.iter>> \in Place BY <1>1, LoopFirst
<1>5. run.rt \in Runtime BY <1>4, InMacro
<1>6. By(n, run.rt) \in {"none", "query", "inputs", "answer"} BY ByType
<1>7. rt.done = run.rt.done \cup {Entry(<<n, run.iter>>, By(n, run.rt))}
      /\ rt.query = run.rt.query
  <2> DEFINE by == By(n, run.rt)
             place == <<n, run.iter>>
  <2>1. by \in {"none", "query", "inputs", "answer"} /\ place \in Place /\ run.rt \in Runtime
        /\ rt = Visited(run.rt, place, by)
    BY <1>4, <1>5, <1>6
  <2> HIDE DEF n, by, place, rt
  <2>2. /\ Visited(run.rt, place, by).done = run.rt.done \cup {Entry(place, by)}
        /\ Visited(run.rt, place, by).query = run.rt.query
    BY <2>1 DEF Visited, Entry, Runtime
  <2>3. rt.done = run.rt.done \cup {Entry(place, by)} /\ rt.query = run.rt.query
    BY <2>1, <2>2
  <2> QED BY <2>3 DEF by, place
<1>8. run'.rt = rt /\ run'.items = run.items /\ run'.in = run.in
  BY <1>2, <1>3 DEF Position
<1> HIDE DEF n, rt
<1>9. Done(run') = Done(run) \cup {Entry(<<n, run.iter>>, By(n, run.rt))}
  BY <1>7, <1>8 DEF Done
<1>10. Quiet(run) => ~run.rt.query /\ Quiet(run') BY <1>7, <1>8 DEF Quiet
<1> QED BY <1>1, <1>4, <1>5, <1>8, <1>9, <1>10 DEF Visits, n

LEMMA ItemMemberVisits ==
    ASSUME PositionsSound, NEW i, ItemMember(i)
    PROVE  Visits(<<Body[ItemIndex(i)], i>>, run.items[i].rt)
<1> DEFINE n == Body[ItemIndex(i)]
           rt == run.items[i].rt
           place == <<n, i>>
           by == By(n, rt)
<1>1. /\ InItem(i) /\ ~Pauses(n, rt) /\ Feeds(n) /\ Begins(place)
      /\ UNCHANGED <<plan, saved, active>>
      /\ Ahead(Body, run.items[i].frame) # {}
  BY ItemMemberMoves
<1>2. PICK next : Becomes(i, ItemPast(i, next)) BY ItemMemberMoves
<1>3. run \in Position /\ run.items[i] \in Item /\ run.items[i].state = "run"
      /\ i \in DOMAIN run.items /\ run.in = "items"
  BY <1>1, ItemType DEF PositionsSound, TypeOK, InItem, Items
<1>4. place \in Place /\ rt \in Runtime BY <1>1, ItemFirst
<1> DEFINE item == ItemPast(i, next)
<1>5. item.rt.done = rt.done \cup {Entry(place, by)} /\ item.rt.query = rt.query
  <2>1. item.rt = Visited(rt, place, by) BY <1>3 DEF ItemPast, Item
  <2> HIDE DEF item, place, by, rt
  <2> QED BY <1>4, <2>1 DEF Visited, Entry, Runtime
<1>6. item \in Item /\ run' = [run EXCEPT !.items = [run.items EXCEPT ![i] = item]]
  BY <1>2 DEF Becomes
<1> HIDE DEF item, by
<1>7. /\ Done(run') = Done(run) \cup {Entry(place, by)}
      /\ Quiet(run) /\ (item.state \in {"todo", "run"} => ~item.rt.query) => Quiet(run')
  <2> DEFINE S == {Entry(place, by)}
  <2>1. item.rt.done = run.items[i].rt.done \cup S BY <1>5
  <2> HIDE DEF place, S
  <2>2. /\ Done(run') = Done(run) \cup S
        /\ Quiet(run) /\ (item.state \in {"todo", "run"} => ~item.rt.query) => Quiet(run')
    <3> DEFINE q == [run EXCEPT !.items = [run.items EXCEPT ![i] = item]]
    <3>1. run \in Position /\ i \in DOMAIN run.items /\ item \in Item BY <1>3, <1>6
    <3>2. /\ Done(q) = Done(run) \cup S
          /\ Quiet(run) /\ (item.state \in {"todo", "run"} => ~item.rt.query) => Quiet(q)
      BY <2>1, <3>1, DoneItem, Zenon
    <3> QED BY <1>6, <3>2
  <2> QED BY <2>2 DEF S
<1>8. Quiet(run) => ~rt.query BY <1>3 DEF Quiet
<1>9. Quiet(run) => Quiet(run') BY <1>5, <1>7, <1>8
<1>10. run'.in = run.in BY <1>3, <1>6, ItemChanged
<1>11. place[1] = n OBVIOUS
<1>12. /\ Done(run') = Done(run) \cup {Entry(place, By(place[1], rt))}
       /\ Feeds(place[1]) /\ ~Pauses(place[1], rt)
  BY <1>1, <1>7, <1>11 DEF by
<1>13. run.in # "off" BY <1>3
<1> HIDE DEF rt, n, place
<1>14. Visits(place, rt) BY <1>1, <1>4, <1>8, <1>9, <1>10, <1>12, <1>13 DEF Visits
<1> QED BY <1>14 DEF rt, n, place

\* The end of a macro is a visit that takes nothing.
Finishes(place) ==
    /\ place \in Place /\ plan.kind[place[1]] # "fill"
    /\ Begins(place) /\ UNCHANGED <<plan, request, saved, active>>
    /\ Done(run') = Done(run) \cup {Entry(place, "none")}
    /\ Quiet(run) => Quiet(run')
    /\ run.in # "off" /\ run'.in # "off"

LEMMA MacroFinishes ==
    ASSUME PositionsSound, LoopTerminates \/ ParallelEnds
    PROVE  Finishes(<<MacroNode, 0>>)
<1>1. PICK rt \in Runtime :
        /\ MacroEnds(rt) /\ rt.done = Done(run) /\ rt.query = run.rt.query
        /\ run.in \in {"loop", "items"}
  <2>1. run.rt \in Runtime /\ run \in Position /\ PositionSound(run)
    BY DEF PositionsSound, TypeOK, Position
  <2>2. CASE LoopTerminates
    <3>1. run.items = <<>> /\ run.in = "loop"
      BY <2>1, <2>2 DEF LoopTerminates, IterationOver, PositionSound
    <3> QED BY <2>1, <2>2, <3>1 DEF LoopTerminates, Done
  <2>3. CASE ParallelEnds
    <3> DEFINE rt == [run.rt EXCEPT !.done = @ \cup UNION {run.items[i].rt.done : i \in Items}]
    <3>1. MacroEnds(rt) /\ run.in = "items" BY <2>3 DEF ParallelEnds, AllSettled
    <3>2. \A i \in Items : run.items[i].rt.done \subseteq Visit
      BY <2>1, ItemType DEF Items, Item, Runtime
    <3>3. rt \in Runtime /\ rt.query = run.rt.query BY <2>1, <3>2 DEF Runtime
    <3>4. rt.done = Done(run) BY <2>1 DEF Done, Items, Runtime
    <3> HIDE DEF rt
    <3> QED BY <3>1, <3>3, <3>4
  <2> QED BY <2>2, <2>3
<1> DEFINE place == <<MacroNode, 0>>
<1>2. place \in Place /\ plan.kind[place[1]] # "fill"
  BY <1>1, InMacro, PlanFacts DEF AtMacro, Place
<1>3. run'.rt = Visited(rt, place, "none") /\ run'.items = <<>> /\ run'.in = "outer"
  BY <1>1 DEF MacroEnds, Nothing
<1> HIDE DEF place
<1>4. run'.rt.done = rt.done \cup {Entry(place, "none")} /\ run'.rt.query = rt.query
  BY <1>1, <1>3 DEF Visited, Entry, Runtime
<1>5. Done(run') = Done(run) \cup {Entry(place, "none")}
  BY <1>1, <1>3, <1>4 DEF Done
<1>6. Quiet(run) => Quiet(run') BY <1>1, <1>3, <1>4 DEF Quiet
<1>7. Begins(place) /\ UNCHANGED <<plan, request, saved, active>>
  BY <1>1 DEF MacroEnds, place
<1> QED BY <1>1, <1>2, <1>3, <1>5, <1>6, <1>7 DEF Finishes, place

\* The other steps of a run that goes on.
Moves ==
    /\ UNCHANGED <<plan, request, saved, active, began, again>>
    /\ Done(run') = Done(run)
    /\ Quiet(run) => Quiet(run')
    /\ run.in # "off" /\ run'.in # "off"

LEMMA ItemMoves ==
    ASSUME PositionsSound, NEW i \in Items,
           ItemStart(i) \/ ItemWaits(i) \/ ItemEnds(i) \/ ItemFails(i)
    PROVE  Moves
<1>1. run \in Position /\ run.items[i] \in Item /\ i \in DOMAIN run.items
      /\ run.in = "items"
  BY ItemType DEF PositionsSound, TypeOK, Items, ItemStart, ItemWaits, ItemEnds,
                  ItemFails, InItem
<1>2. ASSUME NEW item \in Item, ItemGoes(i, item), item.rt = run.items[i].rt,
             item.state \in {"todo", "run"} => run.items[i].state \in {"todo", "run"}
      PROVE  Moves
  <2> DEFINE q == [run EXCEPT !.items = [run.items EXCEPT ![i] = item]]
  <2>1. run' = q /\ UNCHANGED <<plan, request, saved, active, began, again>>
    BY <1>2 DEF ItemGoes, Becomes
  <2>2. item.rt.done = run.items[i].rt.done \cup {} BY <1>2
  <2>3. /\ Done(q) = Done(run) \cup {}
        /\ Quiet(run) /\ (item.state \in {"todo", "run"} => ~item.rt.query) => Quiet(q)
    BY <1>1, <2>2, DoneItem, Zenon
  <2>4. Quiet(run) => (item.state \in {"todo", "run"} => ~item.rt.query)
    BY <1>1, <1>2 DEF Quiet
  <2>5. q.in = run.in BY <1>1 DEF Position
  <2> HIDE DEF q
  <2> QED BY <1>1, <2>1, <2>3, <2>4, <2>5 DEF Moves
<1>3. CASE ItemStart(i)
  <2> DEFINE item == [run.items[i] EXCEPT !.state = "run"]
  <2>1. item \in Item /\ item.rt = run.items[i].rt /\ run.items[i].state = "todo"
    BY <1>1, <1>3 DEF Item, ItemStart, Started
  <2>2. ItemGoes(i, item) BY <1>3, ItemStateMoves
  <2> HIDE DEF item
  <2> QED BY <1>2, <2>1, <2>2
<1>4. CASE ItemWaits(i)
  <2> DEFINE item == [run.items[i] EXCEPT !.state = "wait", !.frame.at = ItemIndex(i)]
  <2>1. item.rt = run.items[i].rt /\ item.state = "wait" BY <1>1 DEF Item
  <2>2. ItemGoes(i, item) BY <1>4, ItemStateMoves
  <2>3. item \in Item BY <2>2 DEF ItemGoes, Becomes
  <2> HIDE DEF item
  <2> QED BY <1>2, <2>1, <2>2, <2>3
<1>5. CASE ItemEnds(i)
  <2> DEFINE item == [run.items[i] EXCEPT !.state = "done"]
  <2>1. item \in Item /\ item.rt = run.items[i].rt /\ item.state = "done"
    BY <1>1 DEF Item
  <2>2. ItemGoes(i, item) BY <1>5, ItemStateMoves
  <2> HIDE DEF item
  <2> QED BY <1>2, <2>1, <2>2
<1>6. CASE ItemFails(i)
  <2> DEFINE item == [run.items[i] EXCEPT !.state = "error"]
  <2>1. item \in Item /\ item.rt = run.items[i].rt /\ item.state = "error"
    BY <1>1 DEF Item
  <2>2. ItemGoes(i, item) BY <1>6, ItemStateMoves
  <2> HIDE DEF item
  <2> QED BY <1>2, <2>1, <2>2
<1> QED BY <1>3, <1>4, <1>5, <1>6

LEMMA ScopeMoves ==
    ASSUME PositionsSound, LoopStart \/ LoopRepeats \/ ParallelStart
    PROVE  Moves
<1>1. run \in Position BY DEF PositionsSound, TypeOK
<1>2. ASSUME run'.rt = run.rt, run'.items = run.items, run'.in # "off", run.in # "off",
             UNCHANGED <<plan, request, saved, active, began, again>>
      PROVE  Moves
  BY <1>2 DEF Moves, Done, Quiet
<1>3. CASE LoopStart
  <2> DEFINE n == plan.order[OuterIndex]
             body == FreshFrame(plan.entries[n])
  <2>1. run' = [run EXCEPT !.in = "loop", !.frame.at = OuterIndex, !.iter = 1, !.body = body]
        /\ run.in = "outer" /\ UNCHANGED <<plan, request, saved, active, began, again>>
    BY <1>3 DEF LoopStart, InOuter
  <2> HIDE DEF body
  <2>2. run'.rt = run.rt /\ run'.items = run.items /\ run'.in = "loop"
    BY <1>1, <2>1 DEF Position
  <2> QED BY <1>2, <2>1, <2>2
<1>4. CASE LoopRepeats
  <2> DEFINE body == FreshFrame(plan.entries[MacroNode])
  <2>1. run' = [run EXCEPT !.iter = @ + 1, !.body = body]
        /\ run.in = "loop" /\ UNCHANGED <<plan, request, saved, active, began, again>>
    BY <1>4 DEF LoopRepeats, IterationOver
  <2> HIDE DEF body
  <2>2. run'.rt = run.rt /\ run'.items = run.items /\ run'.in = "loop"
    BY <1>1, <2>1 DEF Position
  <2> QED BY <1>2, <2>1, <2>2
<1>5. CASE ParallelStart
  <2>1. /\ InOuter /\ UNCHANGED <<plan, request, saved, active, began, again>>
        /\ run'.in = "items" /\ run'.rt = run.rt
        /\ \A i \in DOMAIN run'.items : run'.items[i] = NewItem
    BY <1>5, ParallelStartMoves
  <2>2. run.items = <<>> /\ run.in = "outer" /\ run.rt \in Runtime BY <2>1, OuterFirst
  <2>3. NewItem.rt.done = {} /\ NewItem.rt.query = run.rt.query
    BY <2>2 DEF NewItem, Runtime
  <2>4. Done(run') = Done(run) BY <2>1, <2>2, <2>3 DEF Done
  <2>5. Quiet(run) => Quiet(run') BY <2>1, <2>3 DEF Quiet
  <2> QED BY <2>1, <2>2, <2>4, <2>5 DEF Moves
<1> QED BY <1>3, <1>4, <1>5

LEMMA PausesKeep ==
    ASSUME PositionsSound, OuterPause \/ LoopPause \/ ParallelPause
    PROVE  Done(saved') = Done(run) /\ Ends /\ run.in # "off" /\ plan' = plan
<1>1. run \in Position BY DEF PositionsSound, TypeOK
<1>2. CASE OuterPause
  <2>1. Pause([run EXCEPT !.frame.at = OuterIndex], 0) /\ run.in = "outer"
    BY <1>2 DEF OuterPause, InOuter
  <2> QED BY <1>1, <2>1 DEF Pause, Done, Position
<1>3. CASE LoopPause
  <2>1. Pause([run EXCEPT !.body.at = BodyIndex], 0) /\ run.in = "loop"
    BY <1>3 DEF LoopPause, InLoop
  <2> QED BY <1>1, <2>1 DEF Pause, Done, Position
<1>4. CASE ParallelPause BY <1>4 DEF ParallelPause, AllSettled, Pause
<1> QED BY <1>2, <1>3, <1>4

-----------------------------------------------------------------------------
(* Resumed runs.                                                           *)

RequestSound ==
    /\ run.in = "off" => request = NoRequest
    /\ run.in # "off" => (request.resumed <=> saved.in # "off")
    /\ request.answer => request.resumed
    /\ request.inputs /\ request.resumed => AnswersAsInputs
    /\ request.resumed => request.for = Asked

\* The run has not given its answer: it stands where the checkpoint stands, or
\* its item failed there.
AnswerPending ==
    \/ run = Resumed(saved)
    \/ /\ saved.in = "items"
       /\ run = [Resumed(saved) EXCEPT !.items[active].state = "error"]

ResumeSound ==
    run.in # "off" /\ request.resumed =>
        /\ Kept(saved) \subseteq Kept(run)
        /\ request.answer => AnswerPending
        /\ ~request.answer => Asked \in Kept(run)
        /\ Quiet(run)

\* A run that was resumed and did nothing yet.
LEMMA StandsAsAsked ==
    ASSUME PositionsSound, saved.in # "off", run = Resumed(saved)
    PROVE  /\ run.in = saved.in
           /\ saved.in = "outer" =>
                /\ Asked = <<plan.order[OuterIndex], 0>>
                /\ plan.kind[plan.order[OuterIndex]] = "fill"
                /\ Ahead(plan.order, run.frame) # {}
           /\ saved.in = "loop" =>
                /\ Asked = <<Body[BodyIndex], run.iter>>
                /\ plan.kind[Body[BodyIndex]] = "fill"
                /\ Ahead(Body, run.body) # {}
           /\ saved.in = "items" =>
                /\ active \in Items /\ run.items[active].state = "run"
                /\ Asked = <<Body[ItemIndex(active)], active>>
                /\ plan.kind[Body[ItemIndex(active)]] = "fill"
                /\ Ahead(Body, run.items[active].frame) # {}
                /\ \A i \in Items : i # active => run.items[i].state \in {"wait", "done"}
<1>1. /\ saved \in Position /\ PositionSound(saved) /\ Asks(saved, active)
      /\ plan \in Plans
  BY DEF PositionsSound, TypeOK
<1>2. run.in = saved.in /\ run.frame = saved.frame /\ run.iter = saved.iter
      /\ run.body = saved.body
  BY ResumedItems
<1>3. Body = BodyOf(saved) BY <1>2 DEF Body, MacroNode, BodyOf
<1>4. CASE saved.in = "outer"
  <2>1. AtFill(plan.order, run.frame) /\ run.frame \in Frame /\ plan.order \in Seq(Nodes)
    BY <1>1, <1>2, <1>4, PlanFacts DEF Asks, Position
  <2>2. Ahead(plan.order, run.frame) # {} /\ OuterIndex = saved.frame.at
    BY <1>2, <2>1, FirstAtFill DEF OuterIndex
  <2> QED BY <1>2, <1>4, <2>1, <2>2 DEF Asked, AtFill
<1>5. CASE saved.in = "loop"
  <2>1. AtFill(Body, run.body) /\ run.body \in Frame /\ Body \in Seq(Nodes)
    BY <1>1, <1>2, <1>3, <1>5, BodyType DEF Asks, Position
  <2>2. Ahead(Body, run.body) # {} /\ BodyIndex = saved.body.at
    BY <1>2, <2>1, FirstAtFill DEF BodyIndex
  <2> QED BY <1>2, <1>3, <1>5, <2>1, <2>2 DEF Asked, AtFill, BodyOf
<1>6. CASE saved.in = "items"
  <2>1. /\ active \in DOMAIN saved.items
        /\ run.items = [saved.items EXCEPT ![active] =
              [saved.items[active] EXCEPT !.state = "run", !.rt.query = FALSE]]
    BY <1>6, ResumedItems
  <2>2. saved.items[active] \in Item /\ saved.items \in Seq(Item)
    BY <1>1, <2>1, ItemType DEF Position
  <2>3. /\ Items = DOMAIN saved.items
        /\ run.items[active].state = "run"
        /\ run.items[active].frame = saved.items[active].frame
        /\ \A i \in Items : i # active => run.items[i] = saved.items[i]
    BY <2>1, <2>2 DEF Items, Item
  <2>4. \A i \in Items : i # active => run.items[i].state \in {"wait", "done"}
    BY <1>1, <1>6, <2>3 DEF Asks
  <2>5. AtFill(Body, saved.items[active].frame)
    BY <1>1, <1>3, <1>6, <2>1 DEF Asks, PositionSound
  <2>6. saved.items[active].frame \in Frame /\ Body \in Seq(Nodes)
    BY <1>1, <1>3, <1>6, <2>2, BodyType DEF Item
  <2>7. Ahead(Body, run.items[active].frame) # {}
        /\ ItemIndex(active) = saved.items[active].frame.at
    BY <2>3, <2>5, <2>6, FirstAtFill DEF ItemIndex
  <2> QED BY <1>2, <1>3, <1>6, <2>1, <2>3, <2>4, <2>5, <2>7 DEF Asked, AtFill, BodyOf
<1> QED BY <1>1, <1>2, <1>4, <1>5, <1>6 DEF Position

\* Until it has given its answer, a run gives it, fails, or ends.
LEMMA AnswerStep ==
    ASSUME PositionsSound, saved.in # "off", AnswerPending, request.answer,
           Runs \/ \E i \in Items : ItemFails(i)
    PROVE  \/ /\ plan.kind[Asked[1]] = "fill"
              /\ \E rt \in Runtime : Visits(Asked, rt)
           \/ Moves /\ AnswerPending'
           \/ Ends /\ UNCHANGED <<plan, saved, active>>
<1>1. CASE run = Resumed(saved)
  <2>1. ASSUME NEW n, NEW rt, plan.kind[n] = "fill" PROVE ~Pauses(n, rt)
    BY <2>1 DEF Pauses, By
  <2>2. CASE saved.in = "outer"
    <3>1. /\ run.in = "outer" /\ Ahead(plan.order, run.frame) # {}
          /\ Asked = <<plan.order[OuterIndex], 0>>
          /\ plan.kind[plan.order[OuterIndex]] = "fill"
      BY <1>1, <2>2, StandsAsAsked
    <3>2. Component
      BY <2>1, <3>1 DEF Runs, OuterPause, Complete, LoopStart, LoopMember, LoopPause,
             LoopTerminates, LoopRepeats, LoopExceeds, IterationOver, InLoop,
             ParallelStart, ItemStart, ItemMember, ItemWaits, ItemEnds, ItemFails, InItem,
             ParallelFails, ParallelPause, ParallelEnds, AllSettled
    <3>3. run.rt \in Runtime BY DEF PositionsSound, TypeOK, Position
    <3>4. Asked[1] = plan.order[OuterIndex] BY <3>1
    <3> QED BY <3>1, <3>2, <3>3, <3>4, ComponentVisits
  <2>3. CASE saved.in = "loop"
    <3>1. /\ run.in = "loop" /\ Ahead(Body, run.body) # {}
          /\ Asked = <<Body[BodyIndex], run.iter>>
          /\ plan.kind[Body[BodyIndex]] = "fill"
      BY <1>1, <2>3, StandsAsAsked
    <3>2. LoopMember
      BY <2>1, <3>1 DEF Runs, Component, InOuter, OuterPause, Complete, LoopStart,
             LoopPause, LoopTerminates, LoopRepeats, LoopExceeds, IterationOver,
             ParallelStart, ItemStart, ItemMember, ItemWaits, ItemEnds, ItemFails, InItem,
             ParallelFails, ParallelPause, ParallelEnds, AllSettled
    <3>3. run.rt \in Runtime BY DEF PositionsSound, TypeOK, Position
    <3>4. Asked[1] = Body[BodyIndex] BY <3>1
    <3> QED BY <3>1, <3>2, <3>3, <3>4, LoopMemberVisits
  <2>4. CASE saved.in = "items"
    <3>1. /\ run.in = "items" /\ Ahead(Body, run.items[active].frame) # {}
          /\ Asked = <<Body[ItemIndex(active)], active>>
          /\ plan.kind[Body[ItemIndex(active)]] = "fill"
          /\ active \in Items /\ run.items[active].state = "run"
          /\ \A i \in Items : i # active => run.items[i].state \in {"wait", "done"}
      BY <1>1, <2>4, StandsAsAsked
    <3>2. ~AllSettled /\ (\A i \in Items : Started(i) /\ (InItem(i) => i = active))
      BY <3>1 DEF AllSettled, Settled, Started, InItem
    <3>3. ~Pauses(Body[ItemIndex(active)], run.items[active].rt) BY <2>1, <3>1
    <3>4. ~ItemWaits(active) /\ ~ItemEnds(active)
      BY <3>1, <3>3 DEF ItemWaits, ItemEnds
    <3>5. ItemMember(active) \/ ItemFails(active)
      BY <3>1, <3>2, <3>4 DEF Runs, Component, InOuter, OuterPause, Complete, LoopStart,
             LoopMember, LoopPause, LoopTerminates, LoopRepeats, LoopExceeds,
             IterationOver, InLoop, ParallelStart, ItemStart, ItemMember, ItemWaits,
             ItemEnds, ItemFails, ParallelFails, ParallelPause, ParallelEnds
    <3>6. CASE ItemMember(active)
      <4>1. run.items[active] \in Item
        BY <3>1, ItemType DEF PositionsSound, TypeOK, Items
      <4>2. run.items[active].rt \in Runtime BY <4>1 DEF Item
      <4>3. Asked[1] = Body[ItemIndex(active)] BY <3>1
      <4> QED BY <3>1, <3>6, <4>2, <4>3, ItemMemberVisits
    <3>7. CASE ItemFails(active)
      <4>1. Moves BY <3>1, <3>7, ItemMoves
      <4>2. run' = [Resumed(saved) EXCEPT !.items[active].state = "error"]
            /\ UNCHANGED <<plan, saved, active>>
        BY <1>1, <3>7 DEF ItemFails
      <4>3. Resumed(saved)' = Resumed(saved) BY <4>2 DEF Resumed
      <4> QED BY <2>4, <4>1, <4>2, <4>3 DEF AnswerPending
    <3> QED BY <3>5, <3>6, <3>7
  <2> QED BY <2>2, <2>3, <2>4 DEF PositionsSound, TypeOK, Position
<1>2. CASE run # Resumed(saved)
  <2>1. saved.in = "items" /\ run = [Resumed(saved) EXCEPT !.items[active].state = "error"]
    BY <1>2 DEF AnswerPending
  <2>2. /\ active \in DOMAIN saved.items /\ saved.items[active] \in Item
        /\ saved.items \in Seq(Item) /\ Resumed(saved) \in Position
        /\ Resumed(saved).in = "items"
        /\ Resumed(saved).items = [saved.items EXCEPT ![active] =
              [saved.items[active] EXCEPT !.state = "run", !.rt.query = FALSE]]
        /\ \A i \in DOMAIN saved.items : saved.items[i].state \in {"wait", "done"}
    BY <2>1, ResumedItems, ItemType DEF PositionsSound, TypeOK, Position, Asks
  <2>3. /\ run.in = "items" /\ Items = DOMAIN saved.items
        /\ run.items[active].state = "error"
        /\ \A i \in Items : i # active => run.items[i].state \in {"wait", "done"}
    <3> DEFINE items == Resumed(saved).items
    <3>1. /\ DOMAIN items = DOMAIN saved.items
          /\ \A i \in DOMAIN items : i # active => items[i].state \in {"wait", "done"}
      BY <2>2
    <3>2. run.in = "items" /\ run.items = [items EXCEPT ![active].state = "error"]
      BY <2>1, <2>2 DEF Position
    <3> HIDE DEF items
    <3> QED BY <2>2, <3>1, <3>2 DEF Items
  <2>4. \A i \in Items : Started(i) /\ Settled(i) /\ ~InItem(i)
    BY <2>3 DEF Started, Settled, InItem
  <2>5. active \in In("error") /\ active \notin In("done") /\ active \in Items
    BY <2>2, <2>3 DEF In
  <2>6. ParallelFails
    BY <2>3, <2>4, <2>5 DEF Runs, Component, InOuter, OuterPause, Complete, LoopStart,
           LoopMember, LoopPause, LoopTerminates, LoopRepeats, LoopExceeds,
           IterationOver, InLoop, ParallelStart, ItemStart, ItemMember, ItemWaits,
           ItemEnds, ItemFails, ParallelPause, ParallelEnds
  <2> QED BY <2>6 DEF ParallelFails
<1> QED BY <1>1, <1>2

LEMMA StepKinds ==
    ASSUME PositionsSound, Runs \/ \E i \in Items : ItemFails(i)
    PROVE  \/ \E place \in Place, rt \in Runtime : Visits(place, rt)
           \/ \E place \in Place : Finishes(place)
           \/ Moves
           \/ Ends
<1>1. ASSUME NEW place, NEW rt, Visits(place, rt)
      PROVE  \E q \in Place, r \in Runtime : Visits(q, r)
  BY <1>1 DEF Visits
<1>2. CASE Component BY <1>1, <1>2, ComponentVisits
<1>3. CASE LoopMember BY <1>1, <1>3, LoopMemberVisits
<1>4. ASSUME NEW i \in Items, ItemMember(i)
      PROVE  \E q \in Place, r \in Runtime : Visits(q, r)
  BY <1>1, <1>4, ItemMemberVisits
<1>5. CASE LoopTerminates \/ ParallelEnds
  <2>1. Finishes(<<MacroNode, 0>>) BY <1>5, MacroFinishes
  <2>2. <<MacroNode, 0>> \in Place BY <2>1 DEF Finishes
  <2> QED BY <2>1, <2>2
<1>6. CASE LoopStart \/ LoopRepeats \/ ParallelStart BY <1>6, ScopeMoves
<1>7. ASSUME NEW i \in Items, ItemStart(i) \/ ItemWaits(i) \/ ItemEnds(i) \/ ItemFails(i)
      PROVE  Moves
  BY <1>7, ItemMoves
<1>8. CASE OuterPause \/ LoopPause \/ ParallelPause BY <1>8, PausesKeep
<1>9. CASE Complete \/ LoopExceeds \/ ParallelFails
  BY <1>9 DEF Complete, LoopExceeds, ParallelFails
<1> QED BY <1>2, <1>3, <1>4, <1>5, <1>6, <1>7, <1>8, <1>9 DEF Runs

ResumeInv ==
    /\ PositionsSound /\ RequestSound /\ ResumeSound
    /\ ~AnswersAsInputs => OwnAnswers

\* A resumed run knows that its answers are its own.
Own(v) ==
    plan.kind[v.place[1]] = "fill" /\ v.place \notin Kept(saved) =>
        v.by = "answer" /\ v.for = v.place

LEMMA OwnAnswersOfDone ==
    OwnAnswers <=> (run.in # "off" /\ request.resumed => \A v \in Done(run) : Own(v))
BY DEF OwnAnswers, Own, Done, Items

LEMMA SameCheckpoint ==
    ASSUME UNCHANGED <<plan, saved, active>>
    PROVE  /\ Asked' = Asked /\ Kept(saved)' = Kept(saved)
           /\ \A v : Own(v)' <=> Own(v)
           /\ Kept(run)' = {v.place : v \in Done(run')}
           /\ Done(run)' = Done(run') /\ Quiet(run)' = Quiet(run')
           /\ Kept(saved) = {v.place : v \in Done(saved)}
           /\ Kept(run) = {v.place : v \in Done(run)}
<1>1. Kept(run') = {v.place : v \in Done(run')} BY KeptIsDone
<1>2. Kept(run)' = Kept(run') BY DEF Kept, Places
<1> QED BY <1>1, <1>2, KeptIsDone DEF Asked, Kept, Places, Own, Done, Quiet

LEMMA ResumeStarts ==
    ASSUME PositionsSound, Resume
    PROVE  (RequestSound /\ ResumeSound /\ OwnAnswers)'
<1>1. /\ run.in = "off" /\ saved.in # "off" /\ run' = Resumed(saved)
      /\ request' = [resumed |-> TRUE, inputs |-> AnswersAsInputs, answer |-> TRUE,
                     for |-> Asked]
      /\ UNCHANGED <<plan, saved, active>>
  BY DEF Resume
<1>2. Asked' = Asked /\ Resumed(saved)' = Resumed(saved)
  BY <1>1, SameCheckpoint DEF Resumed
<1>3. run'.in # "off" BY <1>1, ResumedItems
<1>4. RequestSound' BY <1>1, <1>2, <1>3 DEF RequestSound
<1>5. AnswerPending' BY <1>1, <1>2 DEF AnswerPending
<1>6. saved \in Position /\ PositionSound(saved) /\ Asks(saved, active)
  BY DEF PositionsSound, TypeOK
<1>7. saved.rt \in Runtime BY <1>6 DEF Position
<1>8. run'.rt.done = saved.rt.done /\ ~run'.rt.query
  BY <1>1, <1>7, ResumedItems DEF Runtime
<1>9. /\ DOMAIN run'.items = DOMAIN saved.items
      /\ \A i \in DOMAIN saved.items :
            /\ run'.items[i].rt.done = saved.items[i].rt.done
            /\ run'.items[i].state \in {"todo", "run"} => ~run'.items[i].rt.query
  <2>1. CASE saved.in # "items"
    <3>1. saved.items = <<>> BY <1>6, <2>1 DEF PositionSound
    <3> QED BY <1>1, <2>1, <3>1, ResumedItems
  <2>2. CASE saved.in = "items"
    <3>1. /\ active \in DOMAIN saved.items
          /\ run'.items = [saved.items EXCEPT ![active] =
                [saved.items[active] EXCEPT !.state = "run", !.rt.query = FALSE]]
      BY <1>1, <2>2, ResumedItems
    <3>2. saved.items[active] \in Item BY <1>6, <3>1, ItemType
    <3>3. \A i \in DOMAIN saved.items : saved.items[i].state \in {"wait", "done"}
      BY <1>6, <2>2 DEF Asks
    <3> QED BY <3>1, <3>2, <3>3 DEF Item, Runtime
  <2> QED BY <2>1, <2>2
<1>10. Done(run') = Done(saved) BY <1>8, <1>9 DEF Done
<1>11. Quiet(run') BY <1>8, <1>9 DEF Quiet
<1>12. Kept(run)' = Kept(saved)' /\ Kept(saved)' = {v.place : v \in Done(saved)}
  BY <1>1, <1>10, SameCheckpoint
<1>13. ResumeSound'
  BY <1>1, <1>5, <1>11, <1>12, SameCheckpoint DEF ResumeSound
<1>14. OwnAnswers'
  <2>1. \A v \in Done(run)' : v.place \in Kept(saved)'
    BY <1>1, <1>10, <1>12, SameCheckpoint
  <2>2. \A v \in Done(run)' : Own(v)' BY <2>1 DEF Own
  <2>3. OwnAnswers' <=> (run.in # "off" /\ request.resumed => \A v \in Done(run) : Own(v))'
    BY OwnAnswersOfDone, PTL
  <2> QED BY <2>2, <2>3
<1> QED BY <1>4, <1>13, <1>14

\* A resumed run gives its answer to what was asked.
LEMMA AnswerGiven ==
    ASSUME ResumeInv, run.in # "off", request.resumed, request.answer,
           plan.kind[Asked[1]] = "fill", NEW rt \in Runtime, Visits(Asked, rt)
    PROVE  (RequestSound /\ ResumeSound /\ (~AnswersAsInputs => OwnAnswers))'
<1>1. /\ request' = [request EXCEPT !.answer = FALSE] /\ request \in Request
      /\ UNCHANGED <<plan, saved, active>> /\ run'.in # "off"
      /\ Done(run') = Done(run) \cup {Entry(Asked, "answer")} /\ Quiet(run')
  BY DEF Visits, Feeds, By, ResumeInv, ResumeSound, PositionsSound, TypeOK, Request
<1>2. /\ request'.resumed /\ ~request'.answer /\ request'.inputs = request.inputs
      /\ request'.for = request.for
  BY <1>1 DEF Request
<1>3. Entry(Asked, "answer").place = Asked /\ Entry(Asked, "answer").by = "answer"
      /\ Entry(Asked, "answer").for = Asked
  BY DEF Entry, ResumeInv, RequestSound
<1>4. RequestSound' BY <1>1, <1>2, SameCheckpoint DEF ResumeInv, RequestSound
<1>5. Kept(run)' = Kept(run) \cup {Asked} BY <1>1, <1>3, SameCheckpoint
<1>6. ResumeSound'
  BY <1>1, <1>2, <1>5, SameCheckpoint DEF ResumeInv, ResumeSound
<1>7. ASSUME ~AnswersAsInputs PROVE OwnAnswers'
  <2>1. \A v \in Done(run) : Own(v) BY <1>7, OwnAnswersOfDone DEF ResumeInv
  <2>2. Own(Entry(Asked, "answer")) BY <1>3 DEF Own
  <2>3. \A v \in Done(run)' : Own(v)' BY <1>1, <2>1, <2>2, SameCheckpoint
  <2>4. OwnAnswers' <=> (run.in # "off" /\ request.resumed => \A v \in Done(run) : Own(v))'
    BY OwnAnswersOfDone, PTL
  <2> QED BY <2>3, <2>4
<1> QED BY <1>4, <1>6, <1>7

\* Any other step of a run: S is what it adds to what is done.
LEMMA RunGoesOn ==
    ASSUME ResumeInv, run.in # "off", run'.in # "off", UNCHANGED <<plan, saved, active>>,
           request \in Request,
           request' = request \/ request' = [request EXCEPT !.answer = FALSE],
           request.resumed /\ request.answer => request' = request /\ AnswerPending',
           NEW S, Done(run') = Done(run) \cup S, Quiet(run) => Quiet(run'),
           request.resumed /\ ~AnswersAsInputs => \A v \in S : Own(v)
    PROVE  (RequestSound /\ ResumeSound /\ (~AnswersAsInputs => OwnAnswers))'
<1>1. /\ request'.resumed = request.resumed /\ request'.inputs = request.inputs
      /\ request'.for = request.for /\ (request'.answer => request' = request)
  BY DEF Request
<1>2. RequestSound' BY <1>1, SameCheckpoint DEF ResumeInv, RequestSound
<1>3. Kept(run) \subseteq Kept(run)' BY SameCheckpoint
<1>4. ResumeSound'
  <2> SUFFICES ASSUME request'.resumed
               PROVE  /\ Kept(saved)' \subseteq Kept(run)'
                      /\ request'.answer => AnswerPending'
                      /\ ~request'.answer => Asked' \in Kept(run)'
                      /\ Quiet(run)'
    BY DEF ResumeSound
  <2>1. request.resumed /\ ResumeSound BY <1>1 DEF ResumeInv
  <2>2. Kept(saved)' \subseteq Kept(run)' /\ Quiet(run)'
    BY <1>3, <2>1, SameCheckpoint DEF ResumeSound
  <2>3. request'.answer => AnswerPending' BY <1>1, <2>1
  <2>4. ~request'.answer => Asked' \in Kept(run)'
    BY <1>1, <1>3, <2>1, SameCheckpoint DEF ResumeSound
  <2> QED BY <2>2, <2>3, <2>4
<1>5. ASSUME ~AnswersAsInputs PROVE OwnAnswers'
  <2>1. request.resumed => \A v \in Done(run)' : Own(v)'
    BY <1>5, OwnAnswersOfDone, SameCheckpoint DEF ResumeInv
  <2>2. OwnAnswers' <=> (run.in # "off" /\ request.resumed => \A v \in Done(run) : Own(v))'
    BY OwnAnswersOfDone, PTL
  <2> QED BY <1>1, <2>1, <2>2
<1> QED BY <1>2, <1>4, <1>5

LEMMA RunEnded ==
    ASSUME Ends PROVE (RequestSound /\ ResumeSound /\ OwnAnswers)'
BY DEF Ends, RequestSound, ResumeSound, OwnAnswers, Nothing, NoRequest

LEMMA ResumeRuns ==
    ASSUME ResumeInv, Runs \/ \E i \in Items : ItemFails(i)
    PROVE  (RequestSound /\ ResumeSound /\ (~AnswersAsInputs => OwnAnswers))'
<1>1. PositionsSound /\ RequestSound /\ ResumeSound /\ request \in Request
      /\ plan \in Plans
  BY DEF ResumeInv, PositionsSound, TypeOK
<1>2. CASE request.resumed /\ request.answer
  <2>1. run.in # "off" BY <1>1, <1>2 DEF RequestSound, NoRequest
  <2>2. saved.in # "off" /\ AnswerPending
    BY <1>1, <1>2, <2>1 DEF RequestSound, ResumeSound
  <2>3. CASE plan.kind[Asked[1]] = "fill" /\ \E rt \in Runtime : Visits(Asked, rt)
    BY <1>2, <2>1, <2>3, AnswerGiven
  <2>4. CASE Moves /\ AnswerPending'
    <3>1. Done(run') = Done(run) \cup {} BY <2>4 DEF Moves
    <3> QED BY <1>1, <2>1, <2>4, <3>1, RunGoesOn DEF Moves
  <2>5. CASE Ends BY <2>5, RunEnded
  <2> QED BY <1>1, <1>2, <2>2, <2>3, <2>4, <2>5, AnswerStep
<1>3. CASE ~(request.resumed /\ request.answer)
  <2>1. CASE Ends BY <2>1, RunEnded
  <2>2. CASE Moves
    <3>1. Done(run') = Done(run) \cup {} BY <2>2 DEF Moves
    <3> QED BY <1>1, <1>3, <2>2, <3>1, RunGoesOn DEF Moves
  <2>3. ASSUME NEW place \in Place, Finishes(place)
        PROVE  (RequestSound /\ ResumeSound /\ (~AnswersAsInputs => OwnAnswers))'
    <3> DEFINE S == {Entry(place, "none")}
    <3>1. \A v \in S : Own(v) BY <2>3 DEF Finishes, Own, Entry
    <3>2. Done(run') = Done(run) \cup S BY <2>3 DEF Finishes
    <3> HIDE DEF S
    <3> QED BY <1>1, <1>3, <2>3, <3>1, <3>2, RunGoesOn DEF Finishes
  <2>4. ASSUME NEW place \in Place, NEW rt \in Runtime, Visits(place, rt)
        PROVE  (RequestSound /\ ResumeSound /\ (~AnswersAsInputs => OwnAnswers))'
    <3> DEFINE n == place[1]
               S == {Entry(place, By(n, rt))}
    <3>1. run.in # "off" /\ run'.in = run.in /\ UNCHANGED <<plan, saved, active>>
          /\ (Quiet(run) => ~rt.query /\ Quiet(run')) /\ ~Pauses(n, rt) /\ Feeds(n)
          /\ Done(run') = Done(run) \cup S
      BY <2>4 DEF Visits
    <3>2. request.resumed /\ ~AnswersAsInputs => plan.kind[n] # "fill"
      <4> SUFFICES ASSUME request.resumed, ~AnswersAsInputs, plan.kind[n] = "fill"
                   PROVE  FALSE
        OBVIOUS
      <4>1. ~request.answer /\ ~request.inputs BY <1>1, <1>3 DEF RequestSound
      <4>2. ~rt.query BY <1>1, <3>1 DEF ResumeSound
      <4>3. Initial(n, rt) = "none" BY <4>1, <4>2 DEF Initial
      <4>4. By(n, rt) = "none" BY <4>1, <4>3 DEF By
      <4> QED BY <3>1, <4>4 DEF Pauses
    <3>3. request.resumed /\ ~AnswersAsInputs => \A v \in S : Own(v)
      BY <3>2 DEF Own, Entry
    <3>4. request' = request \/ request' = [request EXCEPT !.answer = FALSE]
      <4>1. request.answer \in BOOLEAN BY <1>1 DEF Request
      <4>2. CASE request.answer /\ plan.kind[n] # "fill"
        BY <1>1, <3>1, <4>1, <4>2 DEF Feeds, Request
      <4>3. CASE ~(request.answer /\ plan.kind[n] # "fill")
        BY <3>1, <4>1, <4>3 DEF Feeds
      <4> QED BY <4>2, <4>3
    <3> HIDE DEF n, S
    <3> QED BY <1>1, <1>3, <3>1, <3>3, <3>4, RunGoesOn
  <2> QED BY <1>1, <2>1, <2>2, <2>3, <2>4, StepKinds
<1> QED BY <1>2, <1>3

LEMMA ResumeInit == Init => ResumeInv
BY PositionsInit DEF Init, ResumeInv, RequestSound, ResumeSound, OwnAnswers, Nothing,
                     NoRequest

LEMMA ResumeStep == ResumeInv /\ [Next]_vars => ResumeInv'
<1> SUFFICES ASSUME ResumeInv, [Next]_vars
             PROVE  (RequestSound /\ ResumeSound /\ (~AnswersAsInputs => OwnAnswers))'
  BY PositionsStep DEF ResumeInv
<1>1. CASE Start
  <2>1. /\ run.in = "off" /\ saved.in = "off" /\ UNCHANGED <<plan, saved, active>>
        /\ \E inputs \in BOOLEAN : request' = [NoRequest EXCEPT !.inputs = inputs]
        /\ run'.in # "off"
    BY <1>1 DEF Start, Nothing
  <2>2. ~request'.resumed /\ ~request'.answer BY <2>1 DEF NoRequest
  <2> QED BY <2>1, <2>2 DEF RequestSound, ResumeSound, OwnAnswers
<1>2. CASE Resume BY <1>2, ResumeStarts DEF ResumeInv
<1>3. CASE Fail BY <1>3, RunEnded DEF Fail
<1>4. CASE Runs \/ \E i \in Items : ItemFails(i) BY <1>4, ResumeRuns
<1>5. CASE UNCHANGED vars
  <2>1. UNCHANGED <<plan, run, request, saved, active>> BY <1>5 DEF vars
  <2>2. RequestSound' BY <2>1, SameCheckpoint DEF ResumeInv, RequestSound, NoRequest
  <2>3. AnswerPending' <=> AnswerPending BY <2>1 DEF AnswerPending, Resumed
  <2>4. ResumeSound'
    BY <2>1, <2>3, SameCheckpoint DEF ResumeInv, ResumeSound, Quiet
  <2>5. OwnAnswers' <=> OwnAnswers BY <2>1 DEF OwnAnswers, Items, Kept, Places
  <2> QED BY <2>2, <2>4, <2>5 DEF ResumeInv
<1> QED BY <1>1, <1>2, <1>3, <1>4, <1>5 DEF Next

LEMMA ResumeAlways == Spec => []ResumeInv
BY ResumeInit, ResumeStep, PTL DEF Spec

\* A UserFillUp of a resumed run takes the answer to its own question or asks,
\* for any canvas: as long as the user answers in resume_data.  With answers in
\* the inputs it is not so (the run workflow_inputs).
THEOREM AnswersStayOwn == ~AnswersAsInputs => (Spec => []OwnAnswers)
<1>1. ASSUME ~AnswersAsInputs PROVE ResumeInv => OwnAnswers
  BY <1>1 DEF ResumeInv
<1>2. ASSUME ~AnswersAsInputs PROVE Spec => []OwnAnswers
  <2>1. ResumeInv => OwnAnswers BY <1>1, <1>2
  <2> QED BY <2>1, ResumeAlways, PTL
<1> QED BY <1>2

\* A checkpoint that replaces another has everything that one had and the
\* answer to its question, for any canvas and however often the run before it
\* failed: a run that did not give its answer saves no checkpoint, and one that
\* did has kept all that it was resumed with.
THEOREM CheckpointsGrow == Spec => CheckpointGrows
<1> DEFINE Grows == saved.in # "off" /\ saved'.in # "off" /\ saved' # saved =>
                        Kept(saved) \cup {Asked} \subseteq Kept(saved')
<1>1. ASSUME ResumeInv, Next, saved.in # "off", saved'.in # "off", saved' # saved
      PROVE  Kept(saved) \cup {Asked} \subseteq Kept(saved')
  <2>1. PositionsSound /\ RequestSound /\ ResumeSound BY <1>1 DEF ResumeInv
  <2>2. Nothing.in = "off" /\ saved' # Nothing
    <3>1. Nothing.in = "off" BY DEF Nothing
    <3> QED BY <1>1, <3>1
  <2>3. OuterPause \/ LoopPause \/ ParallelPause
    BY <1>1, <2>2 DEF Next, Start, Resume, Fail, Runs, Component, Complete, LoopStart,
           LoopMember, LoopTerminates, LoopRepeats, LoopExceeds, MacroEnds, ParallelStart,
           ItemStart, ItemMember, ItemWaits, ItemEnds, ItemFails, ParallelFails,
           ParallelEnds
  <2>4. Done(saved') = Done(run) /\ run.in # "off" BY <2>1, <2>3, PausesKeep
  <2>5. request.resumed BY <1>1, <2>1, <2>4 DEF RequestSound
  <2>6. ~request.answer
    <3> SUFFICES ASSUME request.answer PROVE FALSE
      OBVIOUS
    <3>1. AnswerPending BY <2>1, <2>4, <2>5 DEF ResumeSound
    <3>2. saved' = saved
      BY <1>1, <2>1, <2>3, <3>1, AnswerStep DEF Runs, Visits, Moves
    <3> QED BY <1>1, <3>2
  <2>7. Kept(saved) \cup {Asked} \subseteq Kept(run)
    BY <2>1, <2>4, <2>5, <2>6 DEF ResumeSound
  <2> QED BY <2>4, <2>7, KeptIsDone
<1>2. ResumeInv /\ [Next]_vars => [Grows]_vars
  BY <1>1 DEF vars
<1> QED BY <1>2, ResumeAlways, PTL DEF CheckpointGrows, Spec

-----------------------------------------------------------------------------
(* Every selected component runs once.                                     *)

\* The edges of a plan go forward in its orders, and bodies have no component
\* in common.
Forward(p, order) ==
    \A i, j \in DOMAIN order : order[j] \in p.down[order[i]] => i < j

Ordered(p) ==
    /\ Forward(p, p.order)
    /\ \A n \in DOMAIN p.kind : Forward(p, p.body[n])
    /\ \A i, j \in DOMAIN p.order :
          i # j => Elems(p.body[p.order[i]]) \cap Elems(p.body[p.order[j]]) = {}

\* A place behind the outer cursor, in the body of a macro there included.
Behind(p, place) ==
    \E i \in 1 .. Len(plan.order) :
        /\ i < p.frame.at
        /\ \/ place = <<plan.order[i], 0>>
           \/ place[1] \in Elems(plan.body[plan.order[i]]) /\ place[2] > 0

BehindInLoop(p, place) ==
    /\ p.in = "loop"
    /\ \E j \in 1 .. Len(BodyOf(p)) :
        /\ place[1] = BodyOf(p)[j]
        /\ \/ place[2] \in 1 .. p.iter - 1
           \/ place[2] = p.iter /\ j < p.body.at

BehindInItem(p, i, place) ==
    \E j \in 1 .. Len(BodyOf(p)) :
        j < p.items[i].frame.at /\ place = <<BodyOf(p)[j], i>>

\* A position has been behind its cursors only, and everywhere there that is
\* selected.
Orderly(p) ==
    /\ \A place \in Places(p.rt) : Behind(p, place) \/ BehindInLoop(p, place)
    /\ \A i \in DOMAIN p.items :
          \A place \in Places(p.items[i].rt) : BehindInItem(p, i, place)
    /\ Whole(p)

Once ==
    /\ again = {}
    /\ run.in # "off" => began = Kept(run)
    /\ Orderly(run) /\ Orderly(saved)

LEMMA VisitedPlaces ==
    ASSUME NEW rt \in Runtime, NEW place, NEW by
    PROVE  Places(Visited(rt, place, by)) = Places(rt) \cup {place}
<1>1. Visited(rt, place, by).done = rt.done \cup {Entry(place, by)}
  BY DEF Visited, Entry, Runtime
<1>2. Entry(place, by).place = place BY DEF Entry
<1> QED BY <1>1, <1>2 DEF Places

\* The cursor goes on past i, and members that i leads to are selected.
LEMMA FollowedPast ==
    ASSUME plan \in Plans, NEW order \in Seq(Nodes), Forward(plan, order),
           NEW frame \in Frame, NEW scope, NEW rt, NEW after,
           Followed(order, frame, scope, rt),
           NEW i \in 1 .. Len(order), frame.at <= i,
           \A j \in 1 .. Len(order) : frame.at <= j /\ j < i => order[j] \notin frame.selected,
           NEW next, next \subseteq plan.down[order[i]],
           Places(after) = Places(rt) \cup {<<order[i], scope>>}
    PROVE  Followed(order, Past(order, frame, i, next), scope, after)
<1>1. /\ Past(order, frame, i, next).at = i + 1
      /\ Past(order, frame, i, next).selected = frame.selected \cup (next \cap Elems(order))
  BY PastFrame
<1>2. DOMAIN order = 1 .. Len(order) /\ i \in Nat /\ frame.at \in Nat /\ Len(order) \in Nat
  BY DEF Frame
<1> SUFFICES ASSUME NEW j \in 1 .. Len(order), j < i + 1,
                    order[j] \in frame.selected \cup (next \cap Elems(order))
             PROVE  <<order[j], scope>> \in Places(after)
  BY <1>1 DEF Followed
<1>3. CASE j = i BY <1>3
<1>4. CASE j # i
  <2>1. j < i BY <1>2, <1>4
  <2>2. CASE order[j] \in frame.selected
    <3>1. j < frame.at BY <1>2, <2>1, <2>2
    <3> QED BY <2>2, <3>1 DEF Followed
  <2>3. CASE order[j] \notin frame.selected
    <3>1. order[j] \in plan.down[order[i]] BY <2>3
    <3>2. i < j BY <1>2, <3>1 DEF Forward
    <3> QED BY <1>2, <2>1, <3>2
  <2> QED BY <2>2, <2>3
<1> QED BY <1>3, <1>4

\* The cursor comes to i, and nothing that is selected is left out.
LEMMA FollowedTo ==
    ASSUME NEW order \in Seq(Nodes), NEW frame \in Frame, NEW scope, NEW rt,
           Followed(order, frame, scope, rt), NEW i \in Nat, frame.at <= i,
           \A j \in 1 .. Len(order) : frame.at <= j /\ j < i => order[j] \notin frame.selected
    PROVE  Followed(order, [frame EXCEPT !.at = i], scope, rt)
BY DEF Followed, Frame

LEMMA FollowedMore ==
    ASSUME NEW order, NEW frame, NEW scope, NEW rt, NEW after,
           Followed(order, frame, scope, rt), Places(rt) \subseteq Places(after)
    PROVE  Followed(order, frame, scope, after)
BY DEF Followed

LEMMA FollowedFresh ==
    ASSUME NEW order \in Seq(Nodes), NEW selected, NEW scope, NEW rt
    PROVE  Followed(order, FreshFrame(selected), scope, rt)
BY DEF Followed, FreshFrame

LEMMA ElemsHas ==
    ASSUME NEW S, NEW s \in Seq(S), NEW i \in 1 .. Len(s)
    PROVE  s[i] \in Elems(s)
BY DEF Elems

LEMMA SelectsDown ==
    ASSUME NEW n, NEW next \in Selects(n)
    PROVE  next \subseteq plan.down[n]
BY DEF Selects

LEMMA SamePlan ==
    ASSUME plan' = plan
    PROVE  /\ Orderly(run') => Orderly(run)'
           /\ Orderly(saved') => Orderly(saved)'
BY DEF Orderly, Behind, BehindInLoop, BehindInItem, BodyOf, Whole, Followed, Places

\* Without items, outside of the macros.
LEMMA OuterOrderly ==
    ASSUME NEW p, p.in # "loop", p.items = <<>>,
           \A place \in Places(p.rt) : Behind(p, place),
           Followed(plan.order, p.frame, 0, p.rt)
    PROVE  Orderly(p)
BY DEF Orderly, Whole

\* In a Loop.
LEMMA LoopOrderly ==
    ASSUME NEW p, p.in = "loop", p.items = <<>>,
           \A place \in Places(p.rt) : Behind(p, place) \/ BehindInLoop(p, place),
           Followed(plan.order, p.frame, 0, p.rt),
           Followed(BodyOf(p), p.body, p.iter, p.rt)
    PROVE  Orderly(p)
BY DEF Orderly, Whole, BodyOf

\* With the items of a Parallel.
LEMMA ItemsOrderly ==
    ASSUME NEW p, p.in # "loop",
           \A place \in Places(p.rt) : Behind(p, place),
           Followed(plan.order, p.frame, 0, p.rt),
           \A i \in DOMAIN p.items :
              /\ \A place \in Places(p.items[i].rt) : BehindInItem(p, i, place)
              /\ Followed(BodyOf(p), p.items[i].frame, i, p.items[i].rt)
    PROVE  Orderly(p)
BY DEF Orderly, Whole, BodyOf

LEMMA BehindMore ==
    ASSUME NEW p, NEW q, NEW place, Behind(p, place), p.frame.at \in Nat, q.frame.at \in Nat,
           p.frame.at <= q.frame.at
    PROVE  Behind(q, place)
BY DEF Behind

\* A run that is where it was is where its path says.
LEMMA OrderlySame ==
    ASSUME NEW p, NEW q, Orderly(p), q.in = p.in, q.frame = p.frame, q.iter = p.iter,
           q.body = p.body, Places(q.rt) = Places(p.rt),
           DOMAIN q.items = DOMAIN p.items,
           \A i \in DOMAIN p.items : /\ q.items[i].frame = p.items[i].frame
                                     /\ Places(q.items[i].rt) = Places(p.items[i].rt)
    PROVE  Orderly(q)
BY DEF Orderly, Behind, BehindInLoop, BehindInItem, BodyOf, Whole, Followed

LEMMA NothingOrderly == Orderly(Nothing)
<1>1. /\ Nothing.in = "off" /\ Nothing.items = <<>> /\ Nothing.rt.done = {}
      /\ Nothing.frame.at = 1 /\ Nothing.frame = FreshFrame({})
  BY DEF Nothing, FreshFrame, FreshRuntime
<1>2. Places(Nothing.rt) = {} BY <1>1 DEF Places
<1>3. Followed(plan.order, Nothing.frame, 0, Nothing.rt)
  BY <1>1 DEF Followed, FreshFrame
<1> QED BY <1>1, <1>2, <1>3, OuterOrderly

LEMMA PlanOrders ==
    ASSUME plan \in Plans, Ordered(plan)
    PROVE  /\ plan.order \in Seq(Nodes) /\ Injective(plan.order) /\ Forward(plan, plan.order)
           /\ \A i \in 1 .. Len(plan.order) :
                 /\ plan.order[i] \in Nodes
                 /\ plan.body[plan.order[i]] \in Seq(Nodes)
                 /\ Injective(plan.body[plan.order[i]])
                 /\ Forward(plan, plan.body[plan.order[i]])
           /\ \A i, j \in 1 .. Len(plan.order) : i # j =>
                 /\ plan.order[i] # plan.order[j]
                 /\ Elems(plan.body[plan.order[i]]) \cap Elems(plan.body[plan.order[j]]) = {}
<1>1. plan.order \in Seq(Nodes) /\ Injective(plan.order) BY PlanFacts
<1>2. DOMAIN plan.order = 1 .. Len(plan.order) BY <1>1
<1>3. \A i \in 1 .. Len(plan.order) : plan.order[i] \in Nodes BY <1>1, ElementOfSeq
<1>4. \A i \in 1 .. Len(plan.order) :
         /\ plan.body[plan.order[i]] \in Seq(Nodes)
         /\ Injective(plan.body[plan.order[i]])
         /\ Forward(plan, plan.body[plan.order[i]])
  BY <1>3, PlanFacts DEF Ordered, Nodes
<1> QED BY <1>1, <1>2, <1>3, <1>4 DEF Ordered, Injective

\* Components outside of the macros.
LEMMA ComponentOnce ==
    ASSUME PositionsSound, Ordered(plan), Orderly(run), Component
    PROVE  Orderly(run') /\ <<plan.order[OuterIndex], 0>> \notin Kept(run)
<1> DEFINE n == plan.order[OuterIndex]
           rt == Visited(run.rt, <<n, 0>>, By(n, run.rt))
           frame(next) == Past(plan.order, run.frame, OuterIndex, next)
<1>1. run \in Position /\ plan \in Plans /\ InOuter
  BY DEF PositionsSound, TypeOK, Component
<1>2. PICK next \in Selects(n) : run' = [run EXCEPT !.frame = frame(next), !.rt = rt]
  BY DEF Component
<1>3. /\ run.in = "outer" /\ run.items = <<>> /\ run.frame \in Frame /\ run.rt \in Runtime
      /\ OuterIndex \in 1 .. Len(plan.order) /\ OuterIndex \in Nat \ {0}
  BY <1>1, OuterFirst
<1>4. /\ run'.in = "outer" /\ run'.items = <<>> /\ run'.frame = frame(next)
      /\ run'.rt = rt
  BY <1>1, <1>2, <1>3 DEF Position
<1>5. run'.frame.at = OuterIndex + 1 /\ run.frame.at \in Nat
      /\ run.frame.at <= OuterIndex
      /\ \A j \in 1 .. Len(plan.order) :
            run.frame.at <= j /\ j < OuterIndex => plan.order[j] \notin run.frame.selected
  <2>1. plan.order \in Seq(Nodes) BY <1>1, PlanFacts
  <2>2. run'.frame.at = OuterIndex + 1 BY <1>1, <1>3, <1>4, <2>1, PastFrame
  <2>3. /\ run.frame.at <= OuterIndex
        /\ \A j \in 1 .. Len(plan.order) :
              run.frame.at <= j /\ j < OuterIndex => plan.order[j] \notin run.frame.selected
    BY <1>1, <1>3, <2>1, FirstAhead DEF InOuter, OuterIndex
  <2> QED BY <1>3, <2>2, <2>3 DEF Frame
<1>6. Places(run'.rt) = Places(run.rt) \cup {<<n, 0>>} BY <1>3, <1>4, VisitedPlaces
<1>7. \A place \in Places(run.rt) : Behind(run, place)
  BY <1>3 DEF Orderly, BehindInLoop
<1>8. \A place \in Places(run'.rt) : Behind(run', place)
  <2>1. Behind(run', <<n, 0>>) BY <1>3, <1>5 DEF Behind
  <2>2. \A place \in Places(run.rt) : Behind(run', place)
    BY <1>3, <1>5, <1>7, BehindMore
  <2> QED BY <1>6, <2>1, <2>2
<1>9. Followed(plan.order, run'.frame, 0, run'.rt)
  <2>1. next \subseteq plan.down[n] BY SelectsDown
  <2>2. Followed(plan.order, run.frame, 0, run.rt) BY DEF Orderly, Whole
  <2>3. plan.order \in Seq(Nodes) /\ Forward(plan, plan.order) BY <1>1, PlanOrders
  <2> QED BY <1>1, <1>3, <1>4, <1>5, <1>6, <2>1, <2>2, <2>3, FollowedPast
<1>10. <<n, 0>> \notin Kept(run)
  <2>1. Kept(run) = Places(run.rt) BY <1>3 DEF Kept
  <2>2. ~Behind(run, <<n, 0>>)
    BY <1>1, <1>3, <1>5, PlanOrders DEF Behind
  <2> QED BY <1>7, <2>1, <2>2
<1> QED BY <1>4, <1>8, <1>9, <1>10, OuterOrderly

\* Where the cursor of a Loop's body is.
LEMMA LoopAhead ==
    ASSUME PositionsSound, InLoop
    PROVE  /\ run.body.at \in Nat /\ run.body.at <= BodyIndex
           /\ \A j \in 1 .. Len(Body) :
                 run.body.at <= j /\ j < BodyIndex => Body[j] \notin run.body.selected
<1>1. run.body \in Frame /\ Body \in Seq(Nodes) BY LoopFirst, InMacro
<1> QED BY <1>1, FirstAhead DEF InLoop, BodyIndex, Frame

LEMMA LoopMemberOnce ==
    ASSUME PositionsSound, Ordered(plan), Orderly(run), LoopMember
    PROVE  Orderly(run') /\ <<Body[BodyIndex], run.iter>> \notin Kept(run)
<1> DEFINE n == Body[BodyIndex]
           rt == Visited(run.rt, <<n, run.iter>>, By(n, run.rt))
           body(next) == Past(Body, run.body, BodyIndex, next)
<1>1. run \in Position /\ plan \in Plans /\ InLoop
  BY DEF PositionsSound, TypeOK, LoopMember
<1>2. PICK next \in Selects(n) : run' = [run EXCEPT !.body = body(next), !.rt = rt]
  BY DEF LoopMember
<1>3. /\ run.in = "loop" /\ run.items = <<>> /\ run.body \in Frame
      /\ run.iter \in Nat \ {0}
      /\ BodyIndex \in 1 .. Len(Body) /\ BodyIndex \in Nat \ {0}
  BY <1>1, LoopFirst
<1>4. /\ run.rt \in Runtime /\ run.frame \in Frame /\ Body \in Seq(Nodes)
      /\ Body = BodyOf(run) /\ Body = plan.body[plan.order[run.frame.at]]
      /\ run.frame.at \in 1 .. Len(plan.order)
  BY <1>3, InMacro DEF BodyOf
<1>5. /\ run'.in = "loop" /\ run'.items = <<>> /\ run'.frame = run.frame
      /\ run'.iter = run.iter /\ run'.body = body(next) /\ run'.rt = rt
  BY <1>1, <1>2, <1>3 DEF Position
<1>6. run'.body.at = BodyIndex + 1 BY <1>1, <1>3, <1>4, <1>5, PastFrame
<1>7. BodyOf(run') = Body BY <1>4, <1>5 DEF BodyOf
<1>8. Places(run'.rt) = Places(run.rt) \cup {<<n, run.iter>>}
  <2> DEFINE place == <<n, run.iter>>
             by == By(n, run.rt)
  <2>1. run'.rt = Visited(run.rt, place, by) BY <1>5
  <2> HIDE DEF place, by, rt
  <2>2. Places(run'.rt) = Places(run.rt) \cup {place} BY <1>4, <2>1, VisitedPlaces
  <2> QED BY <2>2 DEF place
<1>9. \A place \in Places(run'.rt) : Behind(run', place) \/ BehindInLoop(run', place)
  <2>1. BehindInLoop(run', <<n, run.iter>>)
    BY <1>3, <1>5, <1>6, <1>7 DEF BehindInLoop
  <2>2. ASSUME NEW place, Behind(run, place) PROVE Behind(run', place)
    BY <1>5, <2>2 DEF Behind
  <2>3. ASSUME NEW place, BehindInLoop(run, place) PROVE BehindInLoop(run', place)
    <3>1. PICK j \in 1 .. Len(Body) :
            /\ place[1] = Body[j]
            /\ place[2] \in 1 .. run.iter - 1 \/ (place[2] = run.iter /\ j < run.body.at)
      BY <1>4, <2>3 DEF BehindInLoop
    <3>2. j < run.body.at => j < run'.body.at
      BY <1>1, <1>3, <1>6, LoopAhead
    <3> QED BY <1>5, <1>7, <3>1, <3>2 DEF BehindInLoop
  <2> QED BY <1>8, <2>1, <2>2, <2>3 DEF Orderly
<1>10. Followed(plan.order, run'.frame, 0, run'.rt)
  BY <1>5, <1>8, FollowedMore DEF Orderly, Whole
<1>11. Followed(BodyOf(run'), run'.body, run'.iter, run'.rt)
  <2>1. next \subseteq plan.down[n] BY SelectsDown
  <2>2. Followed(Body, run.body, run.iter, run.rt) BY <1>3, <1>4 DEF Orderly, Whole
  <2>3. Forward(plan, Body) BY <1>1, <1>4, PlanOrders
  <2>4. Followed(Body, body(next), run.iter, rt)
    BY <1>1, <1>3, <1>4, <1>5, <1>8, <2>1, <2>2, <2>3, LoopAhead, FollowedPast
  <2> QED BY <1>5, <1>7, <2>4
<1>12. <<n, run.iter>> \notin Kept(run)
  <2>1. Kept(run) = Places(run.rt) BY <1>3 DEF Kept
  <2>2. ~Behind(run, <<n, run.iter>>)
    <3> SUFFICES ASSUME Behind(run, <<n, run.iter>>) PROVE FALSE
      OBVIOUS
    <3>1. PICK i \in 1 .. Len(plan.order) :
            i < run.frame.at /\ n \in Elems(plan.body[plan.order[i]])
      BY <1>3 DEF Behind
    <3>2. n \in Elems(Body) BY <1>3, <1>4, ElemsHas
    <3>3. i # run.frame.at BY <1>4, <3>1
    <3> QED BY <1>1, <1>4, <3>1, <3>2, <3>3, PlanOrders
  <2>3. ~BehindInLoop(run, <<n, run.iter>>)
    <3> SUFFICES ASSUME BehindInLoop(run, <<n, run.iter>>) PROVE FALSE
      OBVIOUS
    <3>1. PICK j \in 1 .. Len(Body) : n = Body[j] /\ j < run.body.at
      <4> HIDE DEF n
      <4>1. PICK j \in 1 .. Len(BodyOf(run)) :
              /\ n = BodyOf(run)[j]
              /\ run.iter \in 1 .. run.iter - 1 \/ j < run.body.at
        BY DEF BehindInLoop
      <4>2. run.iter \notin 1 .. run.iter - 1 BY <1>3
      <4> QED BY <1>4, <4>1, <4>2
    <3>2. Injective(Body) BY <1>3, InMacro
    <3>3. j = BodyIndex BY <1>3, <3>1, <3>2 DEF Injective
    <3> QED BY <1>1, <1>3, <3>1, <3>3, LoopAhead
  <2> QED BY <2>1, <2>2, <2>3 DEF Orderly
<1> QED BY <1>5, <1>9, <1>10, <1>11, <1>12, LoopOrderly

LEMMA LoopScopeOnce ==
    ASSUME PositionsSound, Orderly(run), LoopStart \/ LoopRepeats
    PROVE  Orderly(run')
<1>1. run \in Position /\ plan \in Plans BY DEF PositionsSound, TypeOK
<1>2. CASE LoopStart
  <2> DEFINE frame == [run.frame EXCEPT !.at = OuterIndex]
             body == FreshFrame(plan.entries[plan.order[OuterIndex]])
  <2>1. InOuter /\ run' = [run EXCEPT !.in = "loop", !.frame.at = OuterIndex, !.iter = 1,
                                      !.body = body]
    BY <1>2 DEF LoopStart
  <2>2. /\ run.in = "outer" /\ run.items = <<>> /\ run.frame \in Frame
        /\ OuterIndex \in 1 .. Len(plan.order) /\ OuterIndex \in Nat \ {0}
        /\ plan.order \in Seq(Nodes)
    BY <1>1, <2>1, OuterFirst, PlanFacts
  <2>3. /\ run.frame.at \in Nat /\ run.frame.at <= OuterIndex
        /\ \A j \in 1 .. Len(plan.order) :
              run.frame.at <= j /\ j < OuterIndex => plan.order[j] \notin run.frame.selected
    BY <2>1, <2>2, FirstAhead DEF InOuter, OuterIndex, Frame
  <2>4. frame.at = OuterIndex BY <2>2 DEF Frame
  <2>5. Followed(plan.order, frame, 0, run.rt)
    BY <2>2, <2>3, FollowedTo DEF Orderly, Whole
  <2> HIDE DEF body
  <2>6. /\ run'.in = "loop" /\ run'.items = <<>> /\ run'.rt = run.rt
        /\ run'.body = body /\ run'.frame = frame
    BY <1>1, <2>1, <2>2 DEF Position
  <2> HIDE DEF frame
  <2>7. \A place \in Places(run'.rt) : Behind(run', place)
    <3>1. \A place \in Places(run.rt) : Behind(run, place)
      BY <2>2 DEF Orderly, BehindInLoop
    <3>2. run'.frame.at = OuterIndex BY <2>4, <2>6
    <3> QED BY <2>2, <2>3, <2>6, <3>1, <3>2, BehindMore
  <2>8. Followed(BodyOf(run'), run'.body, run'.iter, run'.rt)
    <3>1. BodyOf(run') \in Seq(Nodes)
      BY <1>1, <2>2, <2>4, <2>6, PlanFacts, OuterFirst, <2>1 DEF BodyOf
    <3> QED BY <2>6, <3>1, FollowedFresh DEF body
  <2> QED BY <2>5, <2>6, <2>7, <2>8, LoopOrderly
<1>3. CASE LoopRepeats
  <2> DEFINE body == FreshFrame(plan.entries[MacroNode])
  <2>1. run.in = "loop" /\ run' = [run EXCEPT !.iter = @ + 1, !.body = body]
    BY <1>3 DEF LoopRepeats, IterationOver
  <2>2. run.items = <<>> /\ run.iter \in Nat /\ Body \in Seq(Nodes) /\ Body = BodyOf(run)
    BY <1>1, <2>1, InMacro DEF PositionsSound, PositionSound, Position
  <2> HIDE DEF body
  <2>3. /\ run'.in = "loop" /\ run'.items = <<>> /\ run'.rt = run.rt
        /\ run'.body = body /\ run'.frame = run.frame /\ run'.iter = run.iter + 1
    BY <1>1, <2>1, <2>2 DEF Position
  <2>4. BodyOf(run') = Body BY <2>2, <2>3 DEF BodyOf
  <2>5. ASSUME NEW place, Behind(run, place) PROVE Behind(run', place)
    BY <2>3, <2>5 DEF Behind
  <2>6. ASSUME NEW place, BehindInLoop(run, place) PROVE BehindInLoop(run', place)
    <3>1. run.iter > 0 BY <2>1 DEF PositionsSound, PositionSound
    <3>2. PICK j \in 1 .. Len(Body) :
            place[1] = Body[j] /\ (place[2] \in 1 .. run.iter - 1 \/ place[2] = run.iter)
      BY <2>2, <2>6 DEF BehindInLoop
    <3>3. place[2] \in 1 .. (run.iter + 1) - 1 BY <2>2, <3>1, <3>2
    <3> QED BY <2>3, <2>4, <3>2, <3>3 DEF BehindInLoop
  <2>7. Followed(plan.order, run'.frame, 0, run'.rt) BY <2>3 DEF Orderly, Whole
  <2>8. Followed(BodyOf(run'), run'.body, run'.iter, run'.rt)
    BY <2>2, <2>3, <2>4, FollowedFresh DEF body
  <2>9. \A place \in Places(run'.rt) : Behind(run', place) \/ BehindInLoop(run', place)
    BY <2>3, <2>5, <2>6 DEF Orderly
  <2> QED BY <2>3, <2>7, <2>8, <2>9, LoopOrderly
<1> QED BY <1>2, <1>3

\* The places of a macro are behind the cursor that passes it.
LEMMA MacroKept ==
    ASSUME PositionsSound, Orderly(run), run.in \in {"loop", "items"}
    PROVE  \A place \in Kept(run) :
              Behind(run, place) \/ (place[1] \in Elems(Body) /\ place[2] > 0)
<1>1. run \in Position /\ Body \in Seq(Nodes) /\ Body = BodyOf(run) BY InMacro
<1>2. ASSUME NEW place, BehindInLoop(run, place)
      PROVE  place[1] \in Elems(Body) /\ place[2] > 0
  <2>1. run.iter \in Nat \ {0}
    BY <1>1, <1>2 DEF BehindInLoop, PositionsSound, PositionSound, Position
  <2>2. PICK j \in 1 .. Len(Body) :
          place[1] = Body[j] /\ (place[2] \in 1 .. run.iter - 1 \/ place[2] = run.iter)
    BY <1>1, <1>2 DEF BehindInLoop
  <2>3. place[1] \in Elems(Body) BY <1>1, <2>2, ElemsHas
  <2> QED BY <2>1, <2>2, <2>3
<1>3. ASSUME NEW i \in DOMAIN run.items, NEW place, BehindInItem(run, i, place)
      PROVE  place[1] \in Elems(Body) /\ place[2] > 0
  <2>1. i \in Nat \ {0} BY <1>1, <1>3, ItemType
  <2>2. PICK j \in 1 .. Len(Body) : place = <<Body[j], i>>
    BY <1>1, <1>3 DEF BehindInItem
  <2>3. Body[j] \in Elems(Body) BY <1>1, <2>2, ElemsHas
  <2> QED BY <2>1, <2>2, <2>3
<1> QED BY <1>2, <1>3 DEF Orderly, Kept

LEMMA MacroOnce ==
    ASSUME PositionsSound, Ordered(plan), Orderly(run), LoopTerminates \/ ParallelEnds
    PROVE  Orderly(run') /\ <<MacroNode, 0>> \notin Kept(run)
<1> DEFINE place == <<MacroNode, 0>>
           all == [done |-> Done(run)]
           i == run.frame.at
           next == plan.down[MacroNode]
<1>1. run.in \in {"loop", "items"}
  BY DEF LoopTerminates, IterationOver, ParallelEnds, AllSettled
<1>2. /\ plan \in Plans /\ run \in Position /\ run.frame \in Frame
      /\ i \in 1 .. Len(plan.order) /\ i \in Nat \ {0}
      /\ MacroNode = plan.order[i] /\ Body = plan.body[plan.order[i]]
      /\ plan.order \in Seq(Nodes) /\ Forward(plan, plan.order)
  BY <1>1, InMacro, PlanOrders DEF Frame, BodyOf
<1>3. PICK rt : MacroEnds(rt) BY DEF LoopTerminates, ParallelEnds
<1>4. /\ run'.in = "outer" /\ run'.items = <<>>
      /\ run'.frame = Past(plan.order, run.frame, i, next)
  BY <1>3 DEF MacroEnds, Nothing
<1>5. run'.frame.at = i + 1 BY <1>2, <1>4, PastFrame
<1>6. Places(run'.rt) = Kept(run) \cup {place}
  <2>1. Done(run') = Done(run) \cup {Entry(place, "none")}
    BY MacroFinishes DEF Finishes
  <2>2. Entry(place, "none").place = place BY DEF Entry
  <2>3. Done(run') = run'.rt.done BY <1>4 DEF Done
  <2> HIDE DEF place
  <2> QED BY <2>1, <2>2, <2>3, KeptIsDone DEF Places
<1>7. \A q \in Kept(run) : Behind(run, q) \/ (q[1] \in Elems(Body) /\ q[2] > 0)
  BY <1>1, MacroKept
<1>8. \A q \in Places(run'.rt) : Behind(run', q)
  <2>1. Behind(run', place) BY <1>2, <1>5 DEF Behind
  <2>2. ASSUME NEW q, Behind(run, q) PROVE Behind(run', q)
    BY <1>2, <1>5, <2>2, BehindMore
  <2>3. ASSUME NEW q, q[1] \in Elems(Body), q[2] > 0 PROVE Behind(run', q)
    BY <1>2, <1>5, <2>3 DEF Behind
  <2> QED BY <1>6, <1>7, <2>1, <2>2, <2>3
<1>9. Followed(plan.order, run'.frame, 0, run'.rt)
  <2>1. Places(all) = Kept(run) BY KeptIsDone DEF Places
  <2>2. Places(run.rt) \subseteq Kept(run) BY DEF Kept
  <2>3. Followed(plan.order, run.frame, 0, all)
    <3> HIDE DEF all
    <3> QED BY <2>1, <2>2, FollowedMore DEF Orderly, Whole
  <2>4. Places(run'.rt) = Places(all) \cup {<<plan.order[i], 0>>}
    BY <1>2, <1>6, <2>1
  <2>5. next \subseteq plan.down[plan.order[i]] BY <1>2
  <2>6. \A j \in 1 .. Len(plan.order) :
           run.frame.at <= j /\ j < i => plan.order[j] \notin run.frame.selected
    BY <1>2
  <2>7. i \in 1 .. Len(plan.order) /\ run.frame.at <= i BY <1>2
  <2> HIDE DEF all, next, i
  <2> QED BY <1>2, <1>4, <2>3, <2>4, <2>5, <2>6, <2>7, FollowedPast
<1>10. place \notin Kept(run)
  <2>1. ~Behind(run, place) BY <1>2, PlanOrders DEF Behind
  <2>2. ~(place[2] > 0) OBVIOUS
  <2> HIDE DEF place
  <2> QED BY <1>7, <2>1, <2>2
<1> QED BY <1>4, <1>8, <1>9, <1>10, OuterOrderly

\* The items of a Parallel start where nothing was.
LEMMA ParallelStartOnce ==
    ASSUME PositionsSound, Orderly(run), ParallelStart
    PROVE  Orderly(run')
<1> DEFINE frame == [run.frame EXCEPT !.at = OuterIndex]
<1>1. run \in Position /\ plan \in Plans BY DEF PositionsSound, TypeOK
<1>2. PICK count \in Nat :
        /\ run'.in = "items" /\ run'.rt = run.rt /\ run'.frame = frame
        /\ run'.items = [i \in 1 .. count |-> NewItem]
  BY ParallelStartMoves
<1>3. InOuter BY DEF ParallelStart
<1>4. /\ run.in = "outer" /\ run.items = <<>> /\ run.frame \in Frame
      /\ OuterIndex \in 1 .. Len(plan.order) /\ OuterIndex \in Nat \ {0}
      /\ plan.order[OuterIndex] \in Nodes
      /\ plan.order \in Seq(Nodes) /\ run.rt \in Runtime
  BY <1>1, <1>3, OuterFirst, PlanFacts
<1>5. /\ run.frame.at \in Nat /\ run.frame.at <= OuterIndex
      /\ \A j \in 1 .. Len(plan.order) :
            run.frame.at <= j /\ j < OuterIndex => plan.order[j] \notin run.frame.selected
  BY <1>3, <1>4, FirstAhead DEF InOuter, OuterIndex, Frame
<1>6. run'.frame.at = OuterIndex BY <1>2, <1>4 DEF Frame
<1>7. Followed(plan.order, run'.frame, 0, run'.rt)
  BY <1>2, <1>4, <1>5, FollowedTo DEF Orderly, Whole
<1>8. \A place \in Places(run'.rt) : Behind(run', place)
  <2>1. \A place \in Places(run.rt) : Behind(run, place)
    BY <1>4 DEF Orderly, BehindInLoop
  <2> QED BY <1>2, <1>4, <1>5, <1>6, <2>1, BehindMore
<1>9. ASSUME NEW i \in DOMAIN run'.items
      PROVE  /\ \A place \in Places(run'.items[i].rt) : BehindInItem(run', i, place)
             /\ Followed(BodyOf(run'), run'.items[i].frame, i, run'.items[i].rt)
  <2>1. run'.items[i] = NewItem BY <1>2
  <2>2. Places(NewItem.rt) = {} BY <1>4 DEF NewItem, Runtime, Places
  <2>3. NewItem.frame = FreshFrame(plan.entries[plan.order[OuterIndex]]) BY DEF NewItem
  <2>4. BodyOf(run') \in Seq(Nodes) BY <1>1, <1>4, <1>6, PlanFacts DEF BodyOf
  <2> QED BY <2>1, <2>2, <2>3, <2>4, FollowedFresh
<1> QED BY <1>2, <1>7, <1>8, <1>9, ItemsOrderly

\* One item changes, and it is where its path says.
LEMMA BecomesOnce ==
    ASSUME PositionsSound, Orderly(run), NEW i, NEW item, Becomes(i, item),
           \A place \in Places(item.rt) :
              \E j \in 1 .. Len(Body) : j < item.frame.at /\ place = <<Body[j], i>>,
           Followed(Body, item.frame, i, item.rt)
    PROVE  Orderly(run')
<1>1. run \in Position /\ PositionSound(run) /\ i \in DOMAIN run.items /\ item \in Item
  BY DEF PositionsSound, TypeOK, Becomes, Items
<1>2. run.in = "items" BY <1>1 DEF PositionSound
<1>3. BodyOf(run) = Body BY <1>2, InMacro
<1>4. /\ run'.in = run.in /\ run'.frame = run.frame /\ run'.rt = run.rt
      /\ DOMAIN run'.items = DOMAIN run.items
      /\ run'.items[i] = item
      /\ \A j \in DOMAIN run.items : j # i => run'.items[j] = run.items[j]
  <2> DEFINE q == [run EXCEPT !.items = [run.items EXCEPT ![i] = item]]
  <2>1. /\ q.in = run.in /\ q.frame = run.frame /\ q.rt = run.rt
        /\ DOMAIN q.items = DOMAIN run.items
        /\ q.items[i] = item
        /\ \A j \in DOMAIN run.items : j # i => q.items[j] = run.items[j]
    BY <1>1, ItemChanged
  <2>2. run' = q BY DEF Becomes
  <2> HIDE DEF q
  <2> QED BY <2>1, <2>2
<1>5. BodyOf(run') = Body BY <1>3, <1>4 DEF BodyOf
<1>6. \A place \in Places(run'.rt) : Behind(run', place)
  BY <1>2, <1>4 DEF Orderly, Behind, BehindInLoop
<1>7. Followed(plan.order, run'.frame, 0, run'.rt) BY <1>4 DEF Orderly, Whole
<1>8. ASSUME NEW k \in DOMAIN run'.items
      PROVE  /\ \A place \in Places(run'.items[k].rt) : BehindInItem(run', k, place)
             /\ Followed(BodyOf(run'), run'.items[k].frame, k, run'.items[k].rt)
  <2>1. CASE k = i BY <1>4, <1>5, <2>1 DEF BehindInItem
  <2>2. CASE k # i
    <3>1. run'.items[k] = run.items[k] /\ k \in DOMAIN run.items BY <1>4, <1>8, <2>2
    <3>2. Followed(Body, run.items[k].frame, k, run.items[k].rt)
      BY <1>3, <3>1 DEF Orderly, Whole, BodyOf
    <3>3. \A place \in Places(run.items[k].rt) : BehindInItem(run, k, place)
      BY <3>1 DEF Orderly
    <3> QED BY <1>3, <1>5, <3>1, <3>2, <3>3 DEF BehindInItem
  <2> QED BY <2>1, <2>2
<1> QED BY <1>2, <1>4, <1>6, <1>7, <1>8, ItemsOrderly

\* What an item that runs has behind it.
LEMMA ItemBehind ==
    ASSUME PositionsSound, Orderly(run), NEW i \in Items, run.in = "items"
    PROVE  /\ run.items[i] \in Item /\ run.items[i].frame \in Frame
           /\ run.items[i].rt \in Runtime /\ run.items[i].frame.at \in Nat
           /\ \A place \in Places(run.items[i].rt) :
                 \E j \in 1 .. Len(Body) :
                    j < run.items[i].frame.at /\ place = <<Body[j], i>>
           /\ Followed(Body, run.items[i].frame, i, run.items[i].rt)
<1>1. Body = BodyOf(run) /\ run \in Position BY InMacro
<1>2. run.items[i] \in Item /\ i \in DOMAIN run.items BY <1>1, ItemType DEF Items
<1>3. /\ run.items[i].frame \in Frame /\ run.items[i].rt \in Runtime
      /\ run.items[i].frame.at \in Nat
  BY <1>2 DEF Item, Frame
<1>4. Followed(Body, run.items[i].frame, i, run.items[i].rt)
  BY <1>1, <1>2 DEF Orderly, Whole, BodyOf
<1> QED BY <1>1, <1>2, <1>3, <1>4 DEF Orderly, BehindInItem

\* Where the cursor of an item is.
LEMMA ItemAhead ==
    ASSUME PositionsSound, NEW i, InItem(i), Ahead(Body, run.items[i].frame) # {}
    PROVE  /\ run.items[i].frame.at \in Nat /\ run.items[i].frame.at <= ItemIndex(i)
           /\ \A j \in 1 .. Len(Body) :
                 run.items[i].frame.at <= j /\ j < ItemIndex(i) =>
                    Body[j] \notin run.items[i].frame.selected
<1>1. run.items[i].frame \in Frame /\ run.in = "items" BY ItemFirst DEF InItem
<1>2. Body \in Seq(Nodes) BY <1>1, InMacro
<1> QED BY <1>1, <1>2, FirstAhead DEF ItemIndex, Frame

LEMMA ItemMovesOnce ==
    ASSUME PositionsSound, Orderly(run), NEW i \in Items,
           ItemStart(i) \/ ItemWaits(i) \/ ItemEnds(i) \/ ItemFails(i)
    PROVE  Orderly(run')
<1>1. run.in = "items"
  BY DEF ItemStart, ItemWaits, ItemEnds, ItemFails, InItem
<1>2. /\ run.items[i] \in Item /\ run.items[i].frame \in Frame
      /\ run.items[i].rt \in Runtime /\ run.items[i].frame.at \in Nat
      /\ \A place \in Places(run.items[i].rt) :
            \E j \in 1 .. Len(Body) : j < run.items[i].frame.at /\ place = <<Body[j], i>>
      /\ Followed(Body, run.items[i].frame, i, run.items[i].rt)
  BY <1>1, ItemBehind
<1>3. ASSUME NEW item, ItemGoes(i, item), item.rt = run.items[i].rt,
             item.frame = run.items[i].frame
      PROVE  Orderly(run')
  BY <1>2, <1>3, BecomesOnce DEF ItemGoes
<1>4. CASE ItemStart(i)
  <2> DEFINE item == [run.items[i] EXCEPT !.state = "run"]
  <2>1. item.rt = run.items[i].rt /\ item.frame = run.items[i].frame BY <1>2 DEF Item
  <2>2. ItemGoes(i, item) BY <1>4, ItemStateMoves
  <2> HIDE DEF item
  <2> QED BY <1>3, <2>1, <2>2
<1>5. CASE ItemEnds(i)
  <2> DEFINE item == [run.items[i] EXCEPT !.state = "done"]
  <2>1. item.rt = run.items[i].rt /\ item.frame = run.items[i].frame BY <1>2 DEF Item
  <2>2. ItemGoes(i, item) BY <1>5, ItemStateMoves
  <2> HIDE DEF item
  <2> QED BY <1>3, <2>1, <2>2
<1>6. CASE ItemFails(i)
  <2> DEFINE item == [run.items[i] EXCEPT !.state = "error"]
  <2>1. item.rt = run.items[i].rt /\ item.frame = run.items[i].frame BY <1>2 DEF Item
  <2>2. ItemGoes(i, item) BY <1>6, ItemStateMoves
  <2> HIDE DEF item
  <2> QED BY <1>3, <2>1, <2>2
<1>7. CASE ItemWaits(i)
  <2> DEFINE item == [run.items[i] EXCEPT !.state = "wait", !.frame.at = ItemIndex(i)]
             frame == [run.items[i].frame EXCEPT !.at = ItemIndex(i)]
  <2>1. InItem(i) /\ Ahead(Body, run.items[i].frame) # {} BY <1>7 DEF ItemWaits
  <2>2. item.rt = run.items[i].rt /\ item.frame = frame /\ frame.at = ItemIndex(i)
    BY <1>2 DEF Item, Frame
  <2>3. ItemIndex(i) \in Nat /\ Body \in Seq(Nodes) BY <1>1, <2>1, ItemFirst, InMacro
  <2>4. /\ run.items[i].frame.at <= ItemIndex(i)
        /\ \A j \in 1 .. Len(Body) :
              run.items[i].frame.at <= j /\ j < ItemIndex(i) =>
                 Body[j] \notin run.items[i].frame.selected
    BY <2>1, ItemAhead
  <2>5. Followed(Body, frame, i, run.items[i].rt)
    BY <1>2, <2>3, <2>4, FollowedTo
  <2>6. ItemGoes(i, item) BY <1>7, ItemStateMoves
  <2> HIDE DEF item, frame
  <2>7. \A place \in Places(item.rt) :
           \E j \in 1 .. Len(Body) : j < item.frame.at /\ place = <<Body[j], i>>
    <3>1. \A j \in 1 .. Len(Body) : j < run.items[i].frame.at => j < item.frame.at
      BY <1>2, <2>2, <2>3, <2>4
    <3> QED BY <1>2, <2>2, <3>1
  <2>8. Followed(Body, item.frame, i, item.rt) BY <2>2, <2>5
  <2> QED BY <2>6, <2>7, <2>8, BecomesOnce DEF ItemGoes
<1> QED BY <1>4, <1>5, <1>6, <1>7

LEMMA ItemMemberOnce ==
    ASSUME PositionsSound, Ordered(plan), Orderly(run), NEW i, ItemMember(i)
    PROVE  Orderly(run') /\ <<Body[ItemIndex(i)], i>> \notin Kept(run)
<1> DEFINE n == Body[ItemIndex(i)]
           place == <<n, i>>
           rt == run.items[i].rt
           frame == run.items[i].frame
<1>1. InItem(i) /\ Ahead(Body, frame) # {} BY ItemMemberMoves
<1>2. run.in = "items" /\ i \in Items BY <1>1 DEF InItem
<1>3. PICK next \in Selects(n) : Becomes(i, ItemPast(i, next)) BY ItemMemberMoves
<1>4. /\ run.items[i] \in Item /\ frame \in Frame /\ rt \in Runtime /\ frame.at \in Nat
      /\ \A q \in Places(rt) : \E j \in 1 .. Len(Body) : j < frame.at /\ q = <<Body[j], i>>
      /\ Followed(Body, frame, i, rt)
  BY <1>2, ItemBehind
<1>5. /\ plan \in Plans /\ Body \in Seq(Nodes) /\ Injective(Body) /\ Forward(plan, Body)
      /\ run \in Position /\ Body = BodyOf(run)
      /\ Body = plan.body[plan.order[run.frame.at]] /\ run.frame.at \in 1 .. Len(plan.order)
      /\ plan.order \in Seq(Nodes)
  BY <1>2, InMacro, PlanOrders DEF BodyOf
<1>6. /\ ItemIndex(i) \in 1 .. Len(Body) /\ ItemIndex(i) \in Nat
      /\ frame.at <= ItemIndex(i)
      /\ \A j \in 1 .. Len(Body) :
            frame.at <= j /\ j < ItemIndex(i) => Body[j] \notin frame.selected
  BY <1>1, ItemFirst, ItemAhead
<1> DEFINE item == ItemPast(i, next)
           by == By(n, rt)
           past == Past(Body, frame, ItemIndex(i), next)
<1>7. item.frame = past /\ item.rt = Visited(rt, place, by)
  BY <1>4 DEF ItemPast, Item
<1>8. past.at = ItemIndex(i) + 1
  <2>1. /\ frame \in Frame /\ Body \in Seq(Nodes) /\ plan \in Plans
        /\ ItemIndex(i) \in 1 .. Len(Body)
    BY <1>4, <1>5, <1>6
  <2> HIDE DEF rt, frame, n, place
  <2> QED BY <2>1, PastFrame
<1>9. next \subseteq plan.down[Body[ItemIndex(i)]] BY <1>3, SelectsDown
<1>10. Places(item.rt) = Places(rt) \cup {<<Body[ItemIndex(i)], i>>}
  <2>1. place = <<Body[ItemIndex(i)], i>> OBVIOUS
  <2> HIDE DEF place, by, item, rt, n
  <2> QED BY <1>4, <1>7, <2>1, VisitedPlaces
<1> HIDE DEF item, past, by
<1>11. Followed(Body, past, i, item.rt)
  <2> HIDE DEF rt, frame, place, n
  <2> QED BY <1>4, <1>5, <1>6, <1>9, <1>10, FollowedPast DEF past
<1>12. \A q \in Places(item.rt) :
          \E j \in 1 .. Len(Body) : j < item.frame.at /\ q = <<Body[j], i>>
  <2>1. \A j \in 1 .. Len(Body) : j < frame.at => j < item.frame.at
    BY <1>4, <1>6, <1>7, <1>8
  <2>2. ItemIndex(i) < item.frame.at BY <1>6, <1>7, <1>8
  <2> HIDE DEF rt, frame, place, n
  <2> QED BY <1>4, <1>6, <1>10, <2>1, <2>2
<1>13. Orderly(run')
  <2>1. Becomes(i, item) BY <1>3 DEF item
  <2>2. Followed(Body, item.frame, i, item.rt) BY <1>7, <1>11
  <2> QED BY <1>12, <2>1, <2>2, BecomesOnce
<1>14. place \notin Places(run.rt)
  <2> SUFFICES ASSUME place \in Places(run.rt) PROVE FALSE
    OBVIOUS
  <2>1. Behind(run, place) BY <1>2 DEF Orderly, BehindInLoop
  <2>2. i \in Nat \ {0} BY <1>2, <1>5, ItemType DEF Items
  <2>3. PICK k \in 1 .. Len(plan.order) :
          k < run.frame.at /\ n \in Elems(plan.body[plan.order[k]])
    BY <2>1, <2>2 DEF Behind
  <2>4. n \in Elems(Body) BY <1>5, <1>6, ElemsHas
  <2>5. k # run.frame.at
    <3>1. Len(plan.order) \in Nat BY <1>5
    <3>2. run.frame.at \in Nat BY <1>5, <3>1
    <3>3. k < run.frame.at BY <2>3
    <3> HIDE DEF place, n
    <3>4. k \in Nat BY <3>1
    <3> QED BY <3>2, <3>3, <3>4
  <2> HIDE DEF n
  <2> QED BY <1>5, <2>3, <2>4, <2>5, PlanOrders
<1>15. ASSUME NEW k \in Items PROVE place \notin Places(run.items[k].rt)
  <2> SUFFICES ASSUME place \in Places(run.items[k].rt) PROVE FALSE
    OBVIOUS
  <2>1. PICK j \in 1 .. Len(Body) :
          j < run.items[k].frame.at /\ place = <<Body[j], k>>
    BY <1>2, ItemBehind
  <2>2. k = i /\ Body[j] = Body[ItemIndex(i)] BY <2>1
  <2>3. j = ItemIndex(i) BY <1>5, <1>6, <2>2 DEF Injective
  <2> QED BY <1>4, <1>6, <2>1, <2>2, <2>3
<1> QED BY <1>13, <1>14, <1>15 DEF Kept, Items

LEMMA PausesOnce ==
    ASSUME PositionsSound, Orderly(run), OuterPause \/ LoopPause \/ ParallelPause
    PROVE  Orderly(saved')
<1>1. run \in Position /\ plan \in Plans BY DEF PositionsSound, TypeOK
<1>2. CASE OuterPause
  <2> DEFINE frame == [run.frame EXCEPT !.at = OuterIndex]
  <2>1. InOuter /\ saved' = [run EXCEPT !.frame = frame] BY <1>2 DEF OuterPause, Pause
  <2>2. /\ run.in = "outer" /\ run.items = <<>> /\ run.frame \in Frame
        /\ OuterIndex \in Nat /\ plan.order \in Seq(Nodes)
    BY <1>1, <2>1, OuterFirst, PlanFacts
  <2>3. /\ run.frame.at \in Nat /\ run.frame.at <= OuterIndex
        /\ \A j \in 1 .. Len(plan.order) :
              run.frame.at <= j /\ j < OuterIndex => plan.order[j] \notin run.frame.selected
    BY <2>1, <2>2, FirstAhead DEF InOuter, OuterIndex, Frame
  <2>4. frame.at = OuterIndex BY <2>2 DEF Frame
  <2>5. Followed(plan.order, frame, 0, run.rt)
    BY <2>2, <2>3, FollowedTo DEF Orderly, Whole
  <2> HIDE DEF frame
  <2>6. /\ saved'.in = "outer" /\ saved'.items = <<>> /\ saved'.rt = run.rt
        /\ saved'.frame = frame
    BY <1>1, <2>1, <2>2 DEF Position
  <2>7. \A place \in Places(saved'.rt) : Behind(saved', place)
    <3>1. \A place \in Places(run.rt) : Behind(run, place)
      BY <2>2 DEF Orderly, BehindInLoop
    <3>2. saved'.frame.at = OuterIndex BY <2>4, <2>6
    <3> QED BY <2>2, <2>3, <2>6, <3>1, <3>2, BehindMore
  <2> QED BY <2>5, <2>6, <2>7, OuterOrderly
<1>3. CASE LoopPause
  <2> DEFINE body == [run.body EXCEPT !.at = BodyIndex]
  <2>1. InLoop /\ saved' = [run EXCEPT !.body = body] BY <1>3 DEF LoopPause, Pause
  <2>2. /\ run.in = "loop" /\ run.items = <<>> /\ run.body \in Frame
        /\ BodyIndex \in Nat /\ Body \in Seq(Nodes) /\ Body = BodyOf(run)
    BY <2>1, LoopFirst, InMacro
  <2>3. body.at = BodyIndex BY <2>2 DEF Frame
  <2>4. Followed(Body, body, run.iter, run.rt)
    <3>1. Followed(Body, run.body, run.iter, run.rt) BY <2>2 DEF Orderly, Whole, BodyOf
    <3> QED BY <2>1, <2>2, <3>1, LoopAhead, FollowedTo
  <2> HIDE DEF body
  <2>5. /\ saved'.in = "loop" /\ saved'.items = <<>> /\ saved'.rt = run.rt
        /\ saved'.frame = run.frame /\ saved'.body = body /\ saved'.iter = run.iter
    BY <1>1, <2>1, <2>2 DEF Position
  <2>6. BodyOf(saved') = Body BY <2>2, <2>5 DEF BodyOf
  <2>7. ASSUME NEW place, Behind(run, place) PROVE Behind(saved', place)
    BY <2>5, <2>7 DEF Behind
  <2>8. ASSUME NEW place, BehindInLoop(run, place) PROVE BehindInLoop(saved', place)
    <3>1. \A j \in 1 .. Len(Body) : j < run.body.at => j < saved'.body.at
      BY <2>1, <2>2, <2>3, <2>5, LoopAhead
    <3> QED BY <2>2, <2>5, <2>6, <2>8, <3>1 DEF BehindInLoop
  <2>9. \A place \in Places(saved'.rt) : Behind(saved', place) \/ BehindInLoop(saved', place)
    BY <2>5, <2>7, <2>8 DEF Orderly
  <2>10. Followed(plan.order, saved'.frame, 0, saved'.rt) BY <2>5 DEF Orderly, Whole
  <2>11. Followed(BodyOf(saved'), saved'.body, saved'.iter, saved'.rt)
    BY <2>4, <2>5, <2>6
  <2> QED BY <2>5, <2>9, <2>10, <2>11, LoopOrderly
<1>4. CASE ParallelPause BY <1>4 DEF ParallelPause, Pause
<1> QED BY <1>2, <1>3, <1>4

LEMMA ResumeOnce ==
    ASSUME PositionsSound, Orderly(saved), Resume
    PROVE  Orderly(run') /\ Kept(run') = Kept(saved)
<1>1. saved.in # "off" /\ run' = Resumed(saved) BY DEF Resume
<1>2. /\ run'.in = saved.in /\ run'.frame = saved.frame
      /\ run'.iter = saved.iter /\ run'.body = saved.body
      /\ run'.rt = [saved.rt EXCEPT !.query = FALSE]
      /\ saved.in # "items" => run'.items = <<>>
      /\ saved.in = "items" =>
            /\ active \in DOMAIN saved.items
            /\ run'.items = [saved.items EXCEPT ![active] =
                  [saved.items[active] EXCEPT !.state = "run", !.rt.query = FALSE]]
  BY <1>1, ResumedItems
<1>3. saved \in Position /\ PositionSound(saved) BY DEF PositionsSound, TypeOK
<1>4. Places(run'.rt) = Places(saved.rt) BY <1>2, <1>3 DEF Places, Position, Runtime
<1>5. /\ DOMAIN run'.items = DOMAIN saved.items
      /\ \A i \in DOMAIN saved.items :
            /\ run'.items[i].frame = saved.items[i].frame
            /\ Places(run'.items[i].rt) = Places(saved.items[i].rt)
  <2>1. CASE saved.in # "items" BY <1>2, <1>3, <2>1 DEF PositionSound
  <2>2. CASE saved.in = "items"
    <3> DEFINE item == [saved.items[active] EXCEPT !.state = "run", !.rt.query = FALSE]
    <3>1. saved.items[active] \in Item BY <1>2, <1>3, <2>2, ItemType
    <3>2. item.frame = saved.items[active].frame /\ item.rt.done = saved.items[active].rt.done
      BY <3>1 DEF Item, Runtime
    <3>3. Places(item.rt) = Places(saved.items[active].rt) BY <3>2 DEF Places
    <3>4. saved.items \in Seq(Item) /\ run'.items = [saved.items EXCEPT ![active] = item]
      BY <1>2, <1>3, <2>2 DEF Position
    <3> HIDE DEF item
    <3> QED BY <1>2, <2>2, <3>2, <3>3, <3>4
  <2> QED BY <2>1, <2>2
<1>6. Orderly(run') BY <1>2, <1>4, <1>5, OrderlySame
<1>7. Kept(run') = Kept(saved) BY <1>4, <1>5 DEF Kept
<1> QED BY <1>6, <1>7

\* A run goes on to places it has not been to.
LEMMA OnceGoesOn ==
    ASSUME Once, run.in # "off", Orderly(run'), plan' = plan, saved' = saved,
           NEW S, S \cap Kept(run) = {}, Kept(run') = Kept(run) \cup S,
           began' = began \cup S, again' = again \cup (S \cap began)
    PROVE  Once'
<1>1. again' = {} /\ began' = Kept(run') BY DEF Once
<1>2. Orderly(saved)'
  <2>1. Orderly(saved') BY DEF Once
  <2> QED BY <2>1, SamePlan
<1> QED BY <1>1, <1>2, SamePlan DEF Once

LEMMA OnceVisits ==
    ASSUME Once, NEW place, NEW rt, Visits(place, rt) \/ Finishes(place), Orderly(run'),
           place \notin Kept(run)
    PROVE  Once'
<1>1. /\ Begins(place) /\ plan' = plan /\ saved' = saved /\ run.in # "off"
      /\ \E by : Done(run') = Done(run) \cup {Entry(place, by)}
  BY DEF Visits, Finishes
<1>2. Kept(run') = Kept(run) \cup {place}
  <2>1. PICK by : Done(run') = Done(run) \cup {Entry(place, by)} BY <1>1
  <2>2. Entry(place, by).place = place BY DEF Entry
  <2> QED BY <2>1, <2>2, KeptIsDone
<1> QED BY <1>1, <1>2, OnceGoesOn DEF Begins

LEMMA OnceMoves ==
    ASSUME Once, Moves, Orderly(run')
    PROVE  Once'
<1> DEFINE S == {}
<1>1. Kept(run') = Kept(run) \cup S BY KeptIsDone DEF Moves
<1>2. began' = began \cup S /\ again' = again \cup (S \cap began) BY DEF Moves
<1>3. S \cap Kept(run) = {} OBVIOUS
<1> HIDE DEF S
<1> QED BY <1>1, <1>2, <1>3, OnceGoesOn DEF Moves

LEMMA OnceEnds ==
    ASSUME Once, Ends, plan' = plan, Orderly(saved')
    PROVE  Once'
<1>1. run' = Nothing /\ again' = again BY DEF Ends
<1>2. Orderly(run)' BY <1>1, NothingOrderly, SamePlan
<1>3. Orderly(saved)' BY SamePlan
<1>4. Nothing.in = "off" BY DEF Nothing
<1> QED BY <1>1, <1>2, <1>3, <1>4 DEF Once

LEMMA OnceInit == Init => Once
<1> SUFFICES ASSUME Init PROVE Once
  OBVIOUS
<1>1. run = Nothing /\ saved = Nothing /\ again = {} BY DEF Init
<1>2. Nothing.in = "off" BY DEF Nothing
<1> QED BY <1>1, <1>2, NothingOrderly DEF Once

LEMMA OnceStep == PositionsSound /\ Ordered(plan) /\ Once /\ [Next]_vars => Once'
<1> SUFFICES ASSUME PositionsSound, Ordered(plan), Once, [Next]_vars PROVE Once'
  OBVIOUS
<1>1. Orderly(run) /\ Orderly(saved) BY DEF Once
<1>2. CASE Start
  <2>1. /\ run'.in = "outer" /\ run'.items = <<>> /\ run'.rt.done = {}
        /\ run'.frame = FreshFrame({plan.begin}) /\ began' = {} /\ again' = again
        /\ plan' = plan /\ saved' = saved
    BY <1>2 DEF Start, Nothing, FreshRuntime
  <2>2. Places(run'.rt) = {} BY <2>1 DEF Places
  <2>3. Kept(run') = {} BY <2>1, <2>2 DEF Kept
  <2>4. Followed(plan.order, run'.frame, 0, run'.rt)
    <3>1. plan.order \in Seq(Nodes) BY PlanFacts DEF PositionsSound, TypeOK
    <3> QED BY <2>1, <3>1, FollowedFresh
  <2>5. Orderly(run') BY <2>1, <2>2, <2>4, OuterOrderly
  <2>6. Orderly(saved') BY <1>1, <2>1
  <2> QED BY <2>1, <2>3, <2>5, <2>6, SamePlan DEF Once
<1>3. CASE Resume
  <2>1. Orderly(run') /\ Kept(run') = Kept(saved) BY <1>1, <1>3, ResumeOnce
  <2>2. began' = Kept(saved) /\ again' = again /\ plan' = plan /\ saved' = saved
    BY <1>3 DEF Resume
  <2>3. Orderly(saved') BY <1>1, <2>2
  <2> QED BY <2>1, <2>2, <2>3, SamePlan DEF Once
<1>4. CASE Fail \/ LoopExceeds \/ ParallelFails
  BY <1>1, <1>4, OnceEnds DEF Fail, LoopExceeds, ParallelFails
<1>5. CASE Complete
  <2>1. Ends /\ plan' = plan /\ saved' = Nothing BY <1>5 DEF Complete
  <2>2. Orderly(saved') BY <2>1, NothingOrderly
  <2> QED BY <2>1, <2>2, OnceEnds
<1>6. CASE OuterPause \/ LoopPause \/ ParallelPause
  BY <1>1, <1>6, PausesKeep, PausesOnce, OnceEnds
<1>7. CASE Component BY <1>1, <1>7, ComponentVisits, ComponentOnce, OnceVisits
<1>8. CASE LoopMember BY <1>1, <1>8, LoopMemberVisits, LoopMemberOnce, OnceVisits
<1>9. CASE LoopTerminates \/ ParallelEnds
  BY <1>1, <1>9, MacroFinishes, MacroOnce, OnceVisits
<1>10. CASE LoopStart \/ LoopRepeats BY <1>1, <1>10, ScopeMoves, LoopScopeOnce, OnceMoves
<1>11. CASE ParallelStart BY <1>1, <1>11, ScopeMoves, ParallelStartOnce, OnceMoves
<1>12. ASSUME NEW i \in Items,
              ItemStart(i) \/ ItemWaits(i) \/ ItemEnds(i) \/ ItemFails(i)
       PROVE  Once'
  BY <1>1, <1>12, ItemMoves, ItemMovesOnce, OnceMoves
<1>13. ASSUME NEW i \in Items, ItemMember(i) PROVE Once'
  BY <1>1, <1>13, ItemMemberVisits, ItemMemberOnce, OnceVisits
<1>14. CASE UNCHANGED vars
  <2>1. /\ plan' = plan /\ run' = run /\ saved' = saved /\ began' = began
        /\ again' = again
    BY <1>14 DEF vars
  <2>2. Orderly(run') /\ Orderly(saved') BY <1>1, <2>1
  <2> QED BY <2>1, <2>2, SamePlan DEF Once
<1> QED
  BY <1>2, <1>3, <1>4, <1>5, <1>6, <1>7, <1>8, <1>9, <1>10, <1>11, <1>12, <1>13, <1>14
  DEF Next, Runs

\* In a plan whose edges go forward in its orders a component that is selected
\* runs once: it is behind the cursor when it has run, no component selects one
\* behind the cursor, and a checkpoint keeps the cursors with the outputs.  The
\* orders of canvas_topological_order are like that (AgentCanvas), the order in
\* which a canvas lists its components need not be.
THEOREM ExecutesOnce == (\A p \in Plans : Ordered(p)) => (Spec => []ExactlyOnce)
<1>1. ASSUME \A p \in Plans : Ordered(p) PROVE Spec => []ExactlyOnce
  <2>1. PositionsSound => Ordered(plan) BY <1>1 DEF PositionsSound, TypeOK
  <2>2. Init => PositionsSound /\ Once BY PositionsInit, OnceInit
  <2>3. PositionsSound /\ Once /\ [Next]_vars => (PositionsSound /\ Once)'
    BY <2>1, PositionsStep, OnceStep
  <2>4. PositionsSound /\ Once => ExactlyOnce BY DEF Once, Orderly, ExactlyOnce
  <2> QED BY <2>2, <2>3, <2>4, PTL DEF Spec
<1> QED BY <1>1

=============================================================================
