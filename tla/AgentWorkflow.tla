--------------------------- MODULE AgentWorkflow ---------------------------
(***************************************************************************)
(* How a compiled canvas runs (run_interactive_inner): the outer           *)
(* components in their order as far as they are selected, a Loop its body  *)
(* iteration after iteration, a Parallel its body once for each item and   *)
(* several items at a time.  A UserFillUp that finds no input pauses the   *)
(* run in a checkpoint; the request that brings the answer goes on from    *)
(* there, or fails and leaves the checkpoint for the next attempt.         *)
(*                                                                         *)
(* One conversation: AgentSessions has the claims by which one request at  *)
(* a time resumes it, so at most one run is on and the checkpoint is one   *)
(* variable.  Left out: what components compute, except which components   *)
(* they select and which inputs a UserFillUp takes; the validation of a    *)
(* checkpoint against its canvas, which a canvas with the same fingerprint *)
(* passes; the events and the trace, which follow the path.                *)
(***************************************************************************)
EXTENDS Integers, Sequences, FiniteSets

CONSTANTS
    Plans,              \* compiled canvases
    MaxItems,           \* bound: the items a Parallel may find
    AnswersAsInputs     \* whether users answer in `inputs`, not in `resume_data`

Kind == {"begin", "step", "switch", "fill", "loop", "parallel"}

Injective(s) == \A i, j \in 1 .. Len(s) : s[i] = s[j] => i = j

\* A plan has, for each node, its kind, the nodes its edges lead to and what it
\* takes of a first request; the outer order and, for each macro, the order and
\* the entries of its body; max_concurrency and maximum_loop_count.
ASSUME PlansAssumption ==
    \A p \in Plans :
        LET nodes == DOMAIN p.kind
        IN  /\ nodes \subseteq Nat \ {0}
            /\ p.begin \in nodes
            /\ p.kind \in [nodes -> Kind]
            /\ p.order \in Seq(nodes) /\ Injective(p.order)
            /\ p.down \in [nodes -> SUBSET nodes]
            /\ p.body \in [nodes -> Seq(nodes)]
            /\ \A n \in nodes : Injective(p.body[n])
            /\ p.entries \in [nodes -> SUBSET nodes]
            /\ p.takes \in [nodes -> SUBSET {"query", "inputs"}]
            /\ p.width \in Nat
            /\ p.maximum \in Nat \ {0}
ASSUME ItemsAssumption == MaxItems \in Nat
ASSUME AnswersAssumption == AnswersAsInputs \in BOOLEAN

VARIABLES
    plan,       \* the canvas of the conversation
    run,        \* where the request that runs it is, and its runtime
    request,    \* what the request brought
    saved,      \* the checkpoint: where a paused run was
    active,     \* active_index of a paused Parallel
    began,      \* history: the places whose effects the run's line has had
    again       \* history: the places whose effects it had a second time

vars == <<plan, run, request, saved, active, began, again>>

\* A node in a scope: 0 outside of the macros, else the iteration or the item.
Place == Nat \X Nat
Nowhere == <<0, 0>>

\* What a place took, and the place whose question that answered.
Visit == [place : Place, by : {"none", "query", "inputs", "answer"}, for : Place]

\* SubgraphCursor, and the two that run_interactive_inner keeps.
Frame == [at : Nat \ {0}, selected : SUBSET Nat]

\* CanvasRuntime: done is what its outputs and its path tell; sys.query and
\* __initial_user_input_consumed__.
Runtime == [done : SUBSET Visit, query : BOOLEAN, consumed : BOOLEAN]

Item == [state : {"todo", "run", "wait", "done", "error"},
         frame : Frame, rt : Runtime]

Position == [in : {"off", "outer", "loop", "items"}, frame : Frame, rt : Runtime,
             iter : Nat, body : Frame, items : Seq(Item)]

Request == [resumed : BOOLEAN, inputs : BOOLEAN, answer : BOOLEAN, for : Place]

\* Mutant: indices from 0, as in the checkpoint.
FrameFromZero(selected) == [at |-> 0, selected |-> selected]

FreshFrame(selected) == [at |-> 1, selected |-> selected]
FreshRuntime(query) == [done |-> {}, query |-> query, consumed |-> FALSE]

Nothing == [in |-> "off", frame |-> FreshFrame({}), rt |-> FreshRuntime(FALSE),
            iter |-> 0, body |-> FreshFrame({}), items |-> <<>>]

NoRequest == [resumed |-> FALSE, inputs |-> FALSE, answer |-> FALSE, for |-> Nowhere]

Init ==
    /\ plan \in Plans
    /\ run = Nothing
    /\ request = NoRequest
    /\ saved = Nothing
    /\ active = 0
    /\ began = {}
    /\ again = {}

-----------------------------------------------------------------------------
(* The pieces of a step.                                                   *)

Elems(s) == {s[i] : i \in DOMAIN s}

Places(rt) == {v.place : v \in rt.done}

\* Everything a position has the outputs of.
Kept(p) == Places(p.rt) \cup UNION {Places(p.items[i].rt) : i \in DOMAIN p.items}

\* The selected members from the cursor on, and the first of them.
Ahead(order, frame) == {i \in frame.at .. Len(order) : order[i] \in frame.selected}
First(order, frame) ==
    CHOOSE i \in Ahead(order, frame) : \A j \in Ahead(order, frame) : i <= j

Past(order, frame, i, next) ==
    [at |-> i + 1, selected |-> frame.selected \cup (next \cap Elems(order))]

\* What execute_user_fill_up_initial finds, and what execute_begin takes.
Initial(n, rt) ==
    IF rt.consumed /\ plan.kind[n] = "fill" THEN "none"
    ELSE IF request.inputs /\ (plan.kind[n] = "begin" \/ "inputs" \in plan.takes[n])
         THEN "inputs"
    ELSE IF rt.query /\ "query" \in plan.takes[n] THEN "query"
    ELSE "none"

By(n, rt) ==
    IF plan.kind[n] = "fill" /\ request.answer THEN "answer"
    ELSE IF plan.kind[n] \in {"fill", "begin"} THEN Initial(n, rt)
    ELSE "none"

Pauses(n, rt) == plan.kind[n] = "fill" /\ By(n, rt) = "none"

\* A Switch or Categorize selects some of the declared edges, others all.
Selects(n) ==
    IF plan.kind[n] = "switch" THEN (SUBSET plan.down[n]) \ {{}} ELSE {plan.down[n]}

Visited(rt, place, by) ==
    [rt EXCEPT !.done = @ \cup {[place |-> place, by |-> by,
                                 for |-> IF by \in {"inputs", "answer"}
                                         THEN request.for ELSE Nowhere]},
               !.consumed = @ \/ by = "query"]

\* A place has its effects.
Begins(place) ==
    /\ began' = began \cup {place}
    /\ again' = again \cup ({place} \cap began)

\* resume_data.take().
Feeds(n) == request' = [request EXCEPT !.answer = @ /\ plan.kind[n] # "fill"]

\* The run is over.
Ends == run' = Nothing /\ request' = NoRequest /\ began' = {} /\ UNCHANGED again

-----------------------------------------------------------------------------
(* Requests.                                                               *)

\* A first request, with or without a query and explicit inputs.
Start ==
    /\ run.in = "off" /\ saved.in = "off"
    /\ \E query, inputs \in BOOLEAN :
        /\ run' = [Nothing EXCEPT !.in = "outer", !.frame = FreshFrame({plan.begin}),
                                  !.rt = FreshRuntime(query)]
        /\ request' = [NoRequest EXCEPT !.inputs = inputs]
    /\ began' = {}
    /\ UNCHANGED <<plan, saved, active, again>>

\* The place whose question the user sees.
Asked ==
    LET body == plan.body[plan.order[saved.frame.at]]
    IN  CASE saved.in = "outer" -> <<plan.order[saved.frame.at], 0>>
          [] saved.in = "loop"  -> <<body[saved.body.at], saved.iter>>
          [] saved.in = "items" -> <<body[saved.items[active].frame.at], active>>

\* Mutant: the query of the first request stays.
ResumedWithQuery(p) ==
    IF p.in = "items" THEN [p EXCEPT !.items[active].state = "run"] ELSE p

\* Mutant: an item's path is cleared as for a new item.
ResumedCleared(p) ==
    IF p.in = "items"
    THEN [p EXCEPT !.rt.query = FALSE, !.items[active].state = "run",
                   !.items[active].rt = FreshRuntime(FALSE)]
    ELSE [p EXCEPT !.rt.query = FALSE]

\* sys.query is emptied: the answer belongs to the paused node only.
Resumed(p) ==
    IF p.in = "items"
    THEN [p EXCEPT !.rt.query = FALSE, !.items[active].state = "run",
                   !.items[active].rt.query = FALSE]
    ELSE [p EXCEPT !.rt.query = FALSE]

\* The answer to the question of the checkpoint.
Resume ==
    /\ run.in = "off" /\ saved.in # "off"
    /\ run' = Resumed(saved)
    /\ request' = [resumed |-> TRUE, inputs |-> AnswersAsInputs, answer |-> TRUE,
                   for |-> Asked]
    /\ began' = Kept(saved)
    /\ UNCHANGED <<plan, saved, active, again>>

\* A component fails or times out, the client leaves, the process ends.
Fail ==
    /\ run.in # "off"
    /\ Ends
    /\ UNCHANGED <<plan, saved, active>>

Pause(p, a) ==
    /\ saved' = p
    /\ active' = a
    /\ Ends
    /\ UNCHANGED plan

-----------------------------------------------------------------------------
(* The outer components.                                                   *)

InOuter == run.in = "outer" /\ Ahead(plan.order, run.frame) # {}

OuterIndex == First(plan.order, run.frame)

Component ==
    /\ InOuter
    /\ LET n == plan.order[OuterIndex]
       IN  /\ plan.kind[n] \notin {"loop", "parallel"} /\ ~Pauses(n, run.rt)
           /\ \E next \in Selects(n) :
                run' = [run EXCEPT
                    !.frame = Past(plan.order, run.frame, OuterIndex, next),
                    !.rt = Visited(run.rt, <<n, 0>>, By(n, run.rt))]
           /\ Feeds(n)
           /\ Begins(<<n, 0>>)
    /\ UNCHANGED <<plan, saved, active>>

OuterPause ==
    /\ InOuter
    /\ Pauses(plan.order[OuterIndex], run.rt)
    /\ Pause([run EXCEPT !.frame.at = OuterIndex], 0)

Complete ==
    /\ run.in = "outer" /\ Ahead(plan.order, run.frame) = {}
    /\ saved' = Nothing
    /\ active' = 0
    /\ Ends
    /\ UNCHANGED plan

\* The macro that is running, and its end.
MacroNode == plan.order[run.frame.at]

MacroEnds(rt) ==
    /\ run' = [Nothing EXCEPT
           !.in = "outer",
           !.frame = Past(plan.order, run.frame, run.frame.at, plan.down[MacroNode]),
           !.rt = Visited(rt, <<MacroNode, 0>>, "none")]
    /\ Begins(<<MacroNode, 0>>)
    /\ UNCHANGED <<plan, request, saved, active>>

-----------------------------------------------------------------------------
(* Loop.                                                                   *)

LoopStart ==
    /\ InOuter
    /\ LET n == plan.order[OuterIndex]
       IN  /\ plan.kind[n] = "loop"
           /\ run' = [run EXCEPT !.in = "loop", !.frame.at = OuterIndex, !.iter = 1,
                                 !.body = FreshFrame(plan.entries[n])]
    /\ UNCHANGED <<plan, request, saved, active, began, again>>

Body == plan.body[MacroNode]

InLoop == run.in = "loop" /\ Ahead(Body, run.body) # {}

BodyIndex == First(Body, run.body)

LoopMember ==
    /\ InLoop
    /\ LET n == Body[BodyIndex]
       IN  /\ ~Pauses(n, run.rt)
           /\ \E next \in Selects(n) :
                run' = [run EXCEPT
                    !.body = Past(Body, run.body, BodyIndex, next),
                    !.rt = Visited(run.rt, <<n, run.iter>>, By(n, run.rt))]
           /\ Feeds(n)
           /\ Begins(<<n, run.iter>>)
    /\ UNCHANGED <<plan, saved, active>>

LoopPause ==
    /\ InLoop
    /\ Pauses(Body[BodyIndex], run.rt)
    /\ Pause([run EXCEPT !.body.at = BodyIndex], 0)

IterationOver == run.in = "loop" /\ Ahead(Body, run.body) = {}

LoopTerminates == IterationOver /\ MacroEnds(run.rt)

\* Mutant: the iterations are not counted.
LoopUncounted ==
    /\ IterationOver
    /\ run' = [run EXCEPT !.body = FreshFrame(plan.entries[MacroNode])]
    /\ UNCHANGED <<plan, request, saved, active, began, again>>

LoopRepeats ==
    /\ IterationOver
    /\ run.iter < plan.maximum
    /\ run' = [run EXCEPT !.iter = @ + 1, !.body = FreshFrame(plan.entries[MacroNode])]
    /\ UNCHANGED <<plan, request, saved, active, began, again>>

\* LoopMaxIterationsExceeded.
LoopExceeds ==
    /\ IterationOver
    /\ run.iter >= plan.maximum
    /\ Ends
    /\ UNCHANGED <<plan, saved, active>>

-----------------------------------------------------------------------------
(* Parallel.                                                               *)

\* The items it finds; the body of an item starts from a copy of the runtime,
\* with a path of its own.
ParallelStart ==
    /\ InOuter
    /\ LET n == plan.order[OuterIndex]
           item == [state |-> "todo", frame |-> FreshFrame(plan.entries[n]),
                    rt |-> [run.rt EXCEPT !.done = {}]]
       IN  /\ plan.kind[n] = "parallel"
           /\ \E count \in 0 .. MaxItems :
                run' = [run EXCEPT !.in = "items", !.frame.at = OuterIndex,
                                   !.items = [i \in 1 .. count |-> item]]
    /\ UNCHANGED <<plan, request, saved, active, began, again>>

Items == DOMAIN run.items

Started(i) == run.items[i].state # "todo"
Settled(i) == run.items[i].state \in {"wait", "done", "error"}

\* One after the other, or the first on its own and then as many as
\* max_concurrency at a time.
ItemStart(i) ==
    /\ run.in = "items"
    /\ i \in Items /\ ~Started(i)
    /\ \A j \in 1 .. i - 1 : Started(j)
    /\ i > 1 => Settled(1)
    /\ IF plan.width <= 1 THEN \A j \in 1 .. i - 1 : Settled(j)
       ELSE Cardinality({j \in Items : run.items[j].state = "run"}) < plan.width
    /\ run' = [run EXCEPT !.items[i].state = "run"]
    /\ UNCHANGED <<plan, request, saved, active, began, again>>

InItem(i) ==
    /\ run.in = "items"
    /\ i \in Items /\ run.items[i].state = "run"

ItemIndex(i) == First(Body, run.items[i].frame)

ItemMember(i) ==
    /\ InItem(i) /\ Ahead(Body, run.items[i].frame) # {}
    /\ LET n == Body[ItemIndex(i)]
           rt == run.items[i].rt
       IN  /\ ~Pauses(n, rt)
           /\ \E next \in Selects(n) :
                run' = [run EXCEPT
                    !.items[i].frame = Past(Body, @, ItemIndex(i), next),
                    !.items[i].rt = Visited(rt, <<n, i>>, By(n, rt))]
           /\ Feeds(n)
           /\ Begins(<<n, i>>)
    /\ UNCHANGED <<plan, saved, active>>

ItemWaits(i) ==
    /\ InItem(i) /\ Ahead(Body, run.items[i].frame) # {}
    /\ Pauses(Body[ItemIndex(i)], run.items[i].rt)
    /\ run' = [run EXCEPT !.items[i].state = "wait", !.items[i].frame.at = ItemIndex(i)]
    /\ UNCHANGED <<plan, request, saved, active, began, again>>

ItemEnds(i) ==
    /\ InItem(i) /\ Ahead(Body, run.items[i].frame) = {}
    /\ run' = [run EXCEPT !.items[i].state = "done"]
    /\ UNCHANGED <<plan, request, saved, active, began, again>>

\* The other items go on.
ItemFails(i) ==
    /\ InItem(i)
    /\ run' = [run EXCEPT !.items[i].state = "error"]
    /\ UNCHANGED <<plan, request, saved, active, began, again>>

AllSettled == run.in = "items" /\ \A i \in Items : Settled(i)

In(state) == {i \in Items : run.items[i].state = state}

\* The first error of the items.
ParallelFails ==
    /\ AllSettled /\ In("error") # {}
    /\ Ends
    /\ UNCHANGED <<plan, saved, active>>

\* The question of the first item that waits.
ParallelPause ==
    /\ AllSettled /\ In("error") = {} /\ In("wait") # {}
    /\ Pause(run, CHOOSE i \in In("wait") : \A j \in In("wait") : i <= j)

\* finish_parallel: the results of all items, in their order.
ParallelEnds ==
    /\ AllSettled /\ In("done") = Items
    /\ MacroEnds([run.rt EXCEPT !.done = @ \cup UNION {run.items[i].rt.done : i \in Items}])

-----------------------------------------------------------------------------

Runs ==
    \/ Component \/ OuterPause \/ Complete
    \/ LoopStart \/ LoopMember \/ LoopPause \/ LoopTerminates \/ LoopRepeats \/ LoopExceeds
    \/ ParallelStart
    \/ \E i \in Items : ItemStart(i) \/ ItemMember(i) \/ ItemWaits(i) \/ ItemEnds(i)
    \/ ParallelFails \/ ParallelPause \/ ParallelEnds

Next ==
    \/ Start \/ Resume \/ Fail
    \/ Runs
    \/ \E i \in Items : ItemFails(i)

\* A workflow future that can go on is polled.
Spec == Init /\ [][Next]_vars /\ WF_vars(Runs)

-----------------------------------------------------------------------------
(* Properties.                                                             *)

TypeOK ==
    /\ plan \in Plans
    /\ run \in Position
    /\ request \in Request
    /\ saved \in Position
    /\ active \in Nat
    /\ began \subseteq Place
    /\ again \subseteq Place

\* Every selected member of the order that the cursor has passed is done.
Followed(order, frame, scope, rt) ==
    \A i \in 1 .. Len(order) :
        i < frame.at /\ order[i] \in frame.selected => <<order[i], scope>> \in Places(rt)

Whole(p) ==
    LET body == plan.body[plan.order[p.frame.at]]
    IN  /\ Followed(plan.order, p.frame, 0, p.rt)
        /\ p.in = "loop" => Followed(body, p.body, p.iter, p.rt)
        /\ \A i \in DOMAIN p.items : Followed(body, p.items[i].frame, i, p.items[i].rt)

\* A component that is selected runs once: none is selected behind the cursor
\* (the order of the canvas), and none runs again when a run goes on from a
\* checkpoint (agent.rs: "so resume does not rerun upstream effects").
ExactlyOnce == again = {} /\ Whole(run) /\ Whole(saved)

\* An answer is given to the question it was asked for, and a UserFillUp that
\* comes later in the same run asks its own (agent.rs: "A resume payload belongs
\* only to the paused node").
OwnAnswers ==
    run.in # "off" /\ request.resumed =>
        \A v \in run.rt.done \cup UNION {run.items[i].rt.done : i \in Items} :
            plan.kind[v.place[1]] = "fill" /\ v.place \notin Kept(saved) =>
                v.by = "answer" /\ v.for = v.place

\* A checkpoint that replaces another has everything that one had, and the
\* answer to its question.
CheckpointGrows ==
    [][saved.in # "off" /\ saved'.in # "off" /\ saved' # saved =>
        Kept(saved) \cup {Asked} \subseteq Kept(saved')]_vars

\* A request comes to an end, whatever the items and iterations.
RunEnds == run.in # "off" ~> run.in = "off"

=============================================================================
