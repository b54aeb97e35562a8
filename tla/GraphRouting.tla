---------------------------- MODULE GraphRouting ----------------------------
(***************************************************************************)
(* Flow graphs: model.py (FlowGraph, GraphNode) and graph_engine.py        *)
(* (validate_graph, route, record_route, TrailStore), with the command     *)
(* `specjam route --trail` as the caller that follows the decisions of one *)
(* run.  A stage is a name; a node is its artifact gate, its edges in      *)
(* order, and whether its local policy (agent, reviewers, skills, session  *)
(* policy) is sound.  An edge is taken when flag `when` has the value      *)
(* `want`, or always.                                                      *)
(***************************************************************************)
EXTENDS Integers, Sequences, SequencesExt, FiniteSets

CONSTANTS
  Documents,   \* the graph files a run may begin with, as parsed from JSON
  Updates,     \* those of them an update of the workspace may bring
  Artifacts,   \* the artifacts of a run
  Flags,       \* the flags a condition may name
  MaxTrail     \* bound: lines of the trail file

Unconditional == {"none", "always", "true"}
NoStage == "no stage"

VARIABLES
  document,   \* the graph file of the workspace
  replaced,   \* history: the file was replaced since the run began
  stage,      \* where the caller takes the run to be
  present,    \* the artifacts it passes with --artifact
  flags,      \* the flags it passes with --flag
  trail,      \* the lines of the run trail
  open        \* whether the last of them lacks its newline

runVars == <<document, replaced, stage, present, flags, trail, open>>

-----------------------------------------------------------------------------
(* Loading: the canonical JSON normalised to nodes with edges. *)

Edge(to, when, want) == [to |-> to, when |-> when, want |-> want]

(* "transitions" as written; else "next": one stage, or a flag with the stages
   for true and false; else nothing. *)
Edges(raw) ==
  IF "transitions" \in DOMAIN raw THEN raw.transitions
  ELSE IF "next" \notin DOMAIN raw THEN <<>>
  ELSE IF Len(raw.next) = 3
    THEN <<Edge(raw.next[2], raw.next[1], TRUE), Edge(raw.next[3], raw.next[1], FALSE)>>
    ELSE <<Edge(raw.next[1], "none", TRUE)>>

FromDict(d) ==
  [start    |-> d.start,
   terminal |-> d.terminal,
   nodes    |-> [n \in DOMAIN d.nodes |->
     [gate |-> d.nodes[n].gate, sound |-> d.nodes[n].sound, edges |-> Edges(d.nodes[n])]]]

(* Documents are finite and list the conditions of their edges as FromDict reads
   them: a flag that has to be set or, with "!", must not be; or none at all. *)
ASSUME RoutingAssumption ==
  /\ "none" \notin Flags
  /\ Updates \subseteq Documents
  /\ MaxTrail \in Nat
  /\ \A d \in Documents :
       /\ IsFiniteSet(DOMAIN d.nodes)
       /\ \A n \in DOMAIN d.nodes : LET edges == Edges(d.nodes[n]) IN
            /\ d.nodes[n].gate \subseteq Artifacts
            /\ edges \in Seq([to: STRING, when: STRING, want: BOOLEAN])
            /\ \A i \in DOMAIN edges :
                 edges[i].when \in Flags \/ (edges[i].when \in Unconditional /\ edges[i].want)

-----------------------------------------------------------------------------
(* Validation. *)

Stages(g) == DOMAIN g.nodes
EdgesOf(g, n) == ToSet(g.nodes[n].edges)

(* MUTANT of Visit: the successors replace what was still pending. *)
VisitForgetful(g, work) ==
  IF work.pending = <<>> THEN work
  ELSE LET current == Last(work.pending)
       IN IF current \in work.found \/ current \notin DOMAIN g.nodes
            THEN [work EXCEPT !.pending = Front(work.pending)]
            ELSE [found   |-> work.found \cup {current},
                  pending |-> [i \in DOMAIN g.nodes[current].edges |-> g.nodes[current].edges[i].to]]

(* One iteration of the worklist: the stage pushed last is visited. *)
Visit(g, work) ==
  IF work.pending = <<>> THEN work
  ELSE LET current == Last(work.pending)
           rest == Front(work.pending)
       IN IF current \in work.found \/ current \notin DOMAIN g.nodes
            THEN [work EXCEPT !.pending = rest]
            ELSE [found   |-> work.found \cup {current},
                  pending |-> rest \o [i \in DOMAIN g.nodes[current].edges |->
                                         g.nodes[current].edges[i].to]]

Places(g) == UNION {{n} \X DOMAIN g.nodes[n].edges : n \in DOMAIN g.nodes}

Work(g) ==
  LET work[k \in Nat] == IF k = 0 THEN [found |-> {}, pending |-> <<g.start>>]
                                  ELSE Visit(g, work[k - 1])
  IN work

(* The worklist runs until it is empty: every edge is pushed once at most. *)
Reachable(g) == Work(g)[1 + Cardinality(Places(g))].found

Condition(e) == <<e.when, e.want>>

NodeValid(g, n) ==
  LET edges == g.nodes[n].edges IN
  /\ g.nodes[n].sound
  /\ \A i \in DOMAIN edges : edges[i].to \in DOMAIN g.nodes
  /\ \A i, j \in DOMAIN edges : i # j => Condition(edges[i]) # Condition(edges[j])
  /\ IF n \in g.terminal THEN \A i \in DOMAIN edges : edges[i].to = n
                         ELSE edges # <<>>

Valid(g) ==
  /\ g.start \in DOMAIN g.nodes
  /\ g.terminal \subseteq DOMAIN g.nodes
  /\ \A n \in DOMAIN g.nodes : NodeValid(g, n)
  /\ DOMAIN g.nodes \subseteq Reachable(g)

-----------------------------------------------------------------------------
(* Routing. *)

Matches(e, fl) == IF e.when \in Unconditional /\ e.want THEN TRUE ELSE fl[e.when] = e.want

Decision(next, missing, blocked) == [next |-> next, missing |-> missing, blocked |-> blocked]

Hits(g, n, fl) == {i \in DOMAIN g.nodes[n].edges : Matches(g.nodes[n].edges[i], fl)}

(* MUTANT of Choose: the last edge that matches decides. *)
ChooseLast(g, n, fl) ==
  IF Hits(g, n, fl) = {} THEN NoStage ELSE g.nodes[n].edges[Max(Hits(g, n, fl))].to

(* The first edge that matches decides. *)
Choose(g, n, fl) ==
  IF Hits(g, n, fl) = {} THEN NoStage ELSE g.nodes[n].edges[Min(Hits(g, n, fl))].to

(* MUTANT of Route: one artifact of the gate is enough. *)
RouteAnyArtifact(g, n, artifacts, fl) ==
  LET missing == g.nodes[n].gate \ artifacts
      next == Choose(g, n, fl)
  IN IF missing # {} /\ missing = g.nodes[n].gate THEN Decision(NoStage, missing, TRUE)
     ELSE IF n \in g.terminal THEN Decision(NoStage, {}, FALSE)
     ELSE Decision(next, {}, next = NoStage)

(* The gate first, terminal stages next, then the edges. *)
Route(g, n, artifacts, fl) ==
  LET missing == g.nodes[n].gate \ artifacts
      next == Choose(g, n, fl)
  IN IF missing # {} THEN Decision(NoStage, missing, TRUE)
     ELSE IF n \in g.terminal THEN Decision(NoStage, {}, FALSE)
     ELSE Decision(next, {}, next = NoStage)

-----------------------------------------------------------------------------
(* The run and its trail. *)

Line == [stage: STRING, artifacts: SUBSET Artifacts, next: STRING]
Spoilt == [stage |-> NoStage, artifacts |-> {}, next |-> "spoilt"]   \* does not parse

(* The file is opened for appending: what follows a line without its newline is
   glued to it, and neither can be read any more. *)
Write(line, cut) ==
  /\ trail' = IF open THEN Append(Front(trail), Spoilt) ELSE Append(trail, line)
  /\ open' = cut

LineOf(decision) == [stage |-> stage, artifacts |-> present, next |-> decision.next]

RunInit ==
  /\ document \in Documents
  /\ replaced = FALSE
  /\ stage = document.start
  /\ present = {}
  /\ flags = [f \in Flags |-> FALSE]
  /\ trail = <<>>
  /\ open = FALSE

Callable == /\ Valid(FromDict(document))
            /\ stage \in DOMAIN document.nodes
            /\ Len(trail) < MaxTrail

(* route() of the run's stage, recorded; the caller moves where it is sent. *)
RecordRoute ==
  /\ Callable
  /\ LET decision == Route(FromDict(document), stage, present, flags) IN
     /\ Write(LineOf(decision), FALSE)
     /\ stage' = IF decision.next = NoStage THEN stage ELSE decision.next
  /\ UNCHANGED <<document, replaced, present, flags>>

(* The process is killed after some of the line reached the file, up to its
   newline or with it: the caller learns nothing. *)
RecordCut ==
  /\ Callable
  /\ \/ Write(Spoilt, TRUE)
     \/ \E cut \in BOOLEAN :
          Write(LineOf(Route(FromDict(document), stage, present, flags)), cut)
  /\ UNCHANGED <<document, replaced, stage, present, flags>>

(* The work of a stage produces its artifacts; an artifact may be withdrawn. *)
Produce ==
  /\ \E a \in Artifacts \ present :
       /\ \E n \in DOMAIN document.nodes : a \in document.nodes[n].gate
       /\ present' = present \cup {a}
  /\ UNCHANGED <<document, replaced, stage, flags, trail, open>>

SetFlag ==
  /\ \E f \in Flags :
       /\ \E n \in DOMAIN document.nodes :
            \E e \in EdgesOf(FromDict(document), n) : e.when = f
       /\ flags' = [flags EXCEPT ![f] = ~@]
  /\ UNCHANGED <<document, replaced, stage, present, trail, open>>

(* An update of the installation, or its user, replaces the graph file (once
   in a run, a bound). *)
Replace ==
  /\ ~replaced
  /\ \E d \in Updates : d # document /\ document' = d
  /\ replaced' = TRUE
  /\ UNCHANGED <<stage, present, flags, trail, open>>

RunNext == RecordRoute \/ RecordCut \/ Produce \/ SetFlag \/ Replace

RunSpec == RunInit /\ [][RunNext]_runVars

-----------------------------------------------------------------------------
(* Properties. *)

(* The least set that holds `from` and is closed under `arcs`. *)
ClosureOf(S, from, arcs) ==
  {n \in S : \A C \in SUBSET S :
     (from \in C /\ \A a \in arcs : a[1] \in C => a[2] \in C) => n \in C}

(* The worklist of _reachable finds exactly the stages a path of edges leads
   to, in graphs with loops, dead ends and targets that do not exist. *)
ReachabilityIsExact ==
  LET g == FromDict(document)
      arcs == {a \in Stages(g) \X Stages(g) : \E e \in EdgesOf(g, a[1]) : e.to = a[2]}
  IN g.start \in DOMAIN g.nodes
       => Reachable(g) = ClosureOf(DOMAIN g.nodes, g.start, arcs)

(* Nothing shadows an edge of the graph: only the last edge of a stage is
   unconditional, and no flag is asked twice except for its two values. *)
Unshadowed(g) ==
  \A n \in DOMAIN g.nodes : LET edges == g.nodes[n].edges IN
    \A i, j \in DOMAIN edges : i < j =>
      /\ edges[i].when \notin Unconditional
      /\ edges[i].when = edges[j].when => Len(edges) = 2

(* Validation only follows edges, routing takes the first that matches: in a
   valid graph without shadowed edges each stage it found can also be routed
   to, by some flags at each stage on the way. *)
EveryStageCanBeRouted ==
  LET g == FromDict(document)
      routes == {a \in Stages(g) \X Stages(g) :
                   \E fl \in [Flags -> BOOLEAN] : Route(g, a[1], g.nodes[a[1]].gate, fl).next = a[2]}
  IN Valid(g) /\ Unshadowed(g)
       => ClosureOf(DOMAIN g.nodes, g.start, routes) = DOMAIN g.nodes

(* The stage `s` is the start, or some line of `lines` left another stage for
   it with the whole gate of that stage in place. *)
EarnedBy(lines, s) ==
  \/ s = document.start
  \/ \E i \in DOMAIN lines :
       /\ lines[i].next = s
       /\ document.nodes[lines[i].stage].gate \subseteq lines[i].artifacts

(* A trail that reads cleanly accounts for where the run is: each stage it was
   asked at, and the one it is at, was earned by an earlier line, with calls
   repeated because their answer was lost among them. *)
StageIsEarned ==
  Spoilt \notin ToSet(trail) /\ ~replaced =>
    /\ EarnedBy(trail, stage)
    /\ \A i \in DOMAIN trail : EarnedBy(SubSeq(trail, 1, i - 1), trail[i].stage)

=============================================================================
