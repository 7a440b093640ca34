-------------------------- MODULE MCAgentWorkflow --------------------------
(* TLC instance of AgentWorkflow, for the plans of a few canvases. *)
EXTENDS AgentWorkflow, AgentCanvas

Canvas(kind, down, parent, takes, width) ==
    [nodes |-> DOMAIN kind, kind |-> kind, down |-> down, parent |-> parent,
     takes |-> takes, width |-> width, maximum |-> 2]

All == {"query", "inputs"}

\* A branch that joins in a UserFillUp whose id comes before those it follows.
Branch == Canvas(<<"fill", "begin", "fill", "step", "switch">>,
                 <<<<>>, <<5>>, <<1>>, <<1>>, <<3, 4>> >>,
                 <<0, 0, 0, 0, 0>>, <<All, {"query"}, {}, {}, {}>>, 0)

\* A Loop that asks in each iteration, and a question after it.
Asking == Canvas(<<"begin", "loop", "fill", "step", "fill">>,
                 <<<<2>>, <<4, 5>>, <<>>, <<3>>, <<>> >>,
                 <<0, 0, 2, 2, 0>>, <<{}, {}, {"inputs"}, {}, {"query"}>>, 0)

\* A Parallel whose items ask up to twice, two items at a time.
Fanout == Canvas(<<"begin", "parallel", "switch", "fill", "fill", "step">>,
                 <<<<2>>, <<3, 6>>, <<4, 5>>, <<5>>, <<>>, <<>> >>,
                 <<0, 0, 2, 2, 2, 0>>, <<{}, {}, {}, {}, All, {}>>, 2)

\* A Parallel that owns what it reaches, up to the edge back, item by item.
Ungrouped == Canvas(<<"begin", "parallel", "step", "fill">>,
                    <<<<2>>, <<3>>, <<4>>, <<2>> >>,
                    <<0, 0, 0, 0>>, <<{}, {}, {}, {}>>, 1)

Canvases == {Branch, Asking, Fanout, Ungrouped}

MCPlans == {Compile(c) : c \in {d \in Canvases : Compiles(d)}}

\* An answer has the fields of the question it was asked for: a Loop asks the
\* same question again.
LoopPlans == {Compile(Asking)}

ASSUME CanvasesCompile == \A c \in Canvases : Compiles(c)

=============================================================================
