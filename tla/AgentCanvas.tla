---------------------------- MODULE AgentCanvas ----------------------------
(***************************************************************************)
(* How the DSL of an agent becomes what the scheduler runs                 *)
(* (AgentWorkflow::from_value): the Loop and Parallel components take      *)
(* other components in as their body, and the components that are left,    *)
(* like those of each body, get an order in which an edge never goes back. *)
(*                                                                         *)
(* A canvas is [nodes, kind, down, parent, takes, width, maximum].  A node *)
(* is a positive number, in the order of the ids, which is that of the     *)
(* BTreeMap that holds them; parent is 0 for a top-level node; down lists  *)
(* a node's downstream, which has no duplicates, and upstream is taken to  *)
(* be its inverse, as the editor writes it.  Left out: the checks of the   *)
(* parameters of each kind of component.                                   *)
(***************************************************************************)
EXTENDS Integers, Sequences, FiniteSets, SequencesExt

Macro == {"loop", "parallel"}

Macros(c) == {n \in c.nodes : c.kind[n] \in Macro /\ c.parent[n] = 0}

Targets(c, n) == Range(c.down[n])

\* collect_macro_descendants: a macro without grouped components owns all that
\* can be reached from it, up to the edges that come back to it.
Descendants(c, m) ==
    LET closed(S) == /\ Targets(c, m) \ {m} \subseteq S
                     /\ \A n \in S : Targets(c, n) \ {m} \subseteq S
    IN  {n \in c.nodes : \A S \in SUBSET c.nodes : closed(S) => n \in S}

Members(c, m) ==
    LET grouped == {n \in c.nodes : c.parent[n] = m}
    IN  IF grouped = {} THEN Descendants(c, m) ELSE grouped

AllMembers(c) == UNION {Members(c, m) : m \in Macros(c)}

Outer(c) == c.nodes \ AllMembers(c)

Within(targets, nodes) == SelectSeq(targets, LAMBDA n : n \in nodes)

\* Mutant: the nodes in the order of their ids.
IdOrder(c, nodes) == SetToSortSeq(nodes, <)

\* canvas_topological_order and canvas_subset_topological_order: the nodes whose
\* edges have all been followed, in the order in which they became ready.
TopologicalOrder(c, nodes) ==
    LET indegree(n) == Cardinality({m \in nodes : n \in Targets(c, m)})
        step[i \in 0 .. Cardinality(nodes)] ==
            IF i = 0
            THEN [ready |-> SetToSortSeq({n \in nodes : indegree(n) = 0}, <),
                  degree |-> [n \in nodes |-> indegree(n)],
                  order |-> <<>>]
            ELSE LET s == step[i - 1]
                 IN  IF s.ready = <<>> THEN s
                     ELSE LET n == Head(s.ready)
                              degree == [m \in nodes |->
                                  s.degree[m] - IF m \in Targets(c, n) THEN 1 ELSE 0]
                              freed == SelectSeq(Within(c.down[n], nodes),
                                                 LAMBDA m : degree[m] = 0)
                          IN  [ready |-> Tail(s.ready) \o freed,
                               degree |-> degree,
                               order |-> Append(s.order, n)]
    IN  step[Cardinality(nodes)].order

Acyclic(c, nodes) == Len(TopologicalOrder(c, nodes)) = Cardinality(nodes)

\* What from_value refuses: no one Begin, a component in two bodies, a macro in
\* a body, a Parallel without a body, an edge that goes back.
Compiles(c) ==
    /\ \E b \in c.nodes : {n \in c.nodes : c.kind[n] = "begin" /\ c.parent[n] = 0} = {b}
    /\ \A m, o \in Macros(c) : m # o => Members(c, m) \cap Members(c, o) = {}
    /\ \A m \in Macros(c) : \A n \in Members(c, m) : c.kind[n] \notin Macro
    /\ \A m \in Macros(c) : c.kind[m] = "parallel" => Members(c, m) # {}
    /\ \A m \in Macros(c) : Acyclic(c, Members(c, m))
    /\ Acyclic(c, Outer(c))

\* The members of a body that each iteration and item starts with.
Entries(c, m) ==
    {n \in Members(c, m) : \A o \in Members(c, m) : n \notin Targets(c, o)}

Compile(c) ==
    [begin   |-> CHOOSE n \in c.nodes : c.kind[n] = "begin" /\ c.parent[n] = 0,
     kind    |-> c.kind,
     order   |-> TopologicalOrder(c, Outer(c)),
     down    |-> [n \in c.nodes |-> Targets(c, n)],
     body    |-> [n \in c.nodes |-> IF n \in Macros(c)
                                    THEN TopologicalOrder(c, Members(c, n)) ELSE <<>>],
     entries |-> [n \in c.nodes |-> IF n \in Macros(c) THEN Entries(c, n) ELSE {}],
     takes   |-> c.takes,
     width   |-> c.width,
     maximum |-> c.maximum]

=============================================================================
