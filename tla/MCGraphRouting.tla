--------------------------- MODULE MCGraphRouting ---------------------------
(* Graphs for TLC: the shipped discovery graph, the part of the delivery graph
   that branches, and every graph of three stages in a family with loops, dead
   ends, unknown targets and conditions that overlap. *)
EXTENDS GraphRouting

Stage(gate, next) == [gate |-> gate, sound |-> TRUE, next |-> next]

Discovery ==
  [start |-> "epic", terminal |-> {"done"},
   nodes |-> [epic    |-> Stage({"epic.md"}, <<"stories">>),
              stories |-> Stage({"stories.md"}, <<"mapping">>),
              mapping |-> Stage({"mapping.md"}, <<"done">>),
              done    |-> Stage({}, <<"done">>)]]

Delivery ==
  [start |-> "spec", terminal |-> {"done"},
   nodes |-> [spec   |-> Stage({"epic.md", "stories.md"}, <<"design_required", "design", "build">>),
              design |-> Stage({"mapping.md"}, <<"build">>),
              build  |-> Stage({}, <<"done">>),
              done   |-> Stage({}, <<"done">>)]]

Listed(edges) == [gate |-> {}, sound |-> TRUE, transitions |-> edges]

Conditions == {<<"none", TRUE>>, <<"always", TRUE>>, <<"design_required", TRUE>>, <<"design_required", FALSE>>}
EdgesTo(stages, conditions) == {Edge(t, c[1], c[2]) : t \in stages, c \in conditions}

AtA == UNION {[1..k -> EdgesTo({"b", "z"}, Conditions)] : k \in 0..2}
AtB == UNION {[1..k -> EdgesTo({"a", "z", "x"}, {<<"none", TRUE>>})] : k \in {0, 1}}
         \cup {<<Edge("a", "design_required", TRUE), Edge(t, "design_required", FALSE)>> : t \in {"a", "b", "z"}}
AtZ == {<<>>, <<Edge("a", "none", TRUE)>>}

Family ==
  {[start |-> "a", terminal |-> t,
    nodes |-> [a |-> Listed(ea), b |-> Listed(eb), z |-> Listed(ez)]] :
      t \in {{"z"}, {}}, ea \in AtA, eb \in AtB, ez \in AtZ}

Unsound == [Discovery EXCEPT !.nodes["epic"].sound = FALSE]

Shipped == {Discovery, Delivery, Unsound}
AllDocuments == Family \cup Shipped
AllArtifacts == {"epic.md", "stories.md", "mapping.md"}
AllFlags == {"design_required"}
=============================================================================
