--------------------------- MODULE MCMetaRuntime ---------------------------
(***************************************************************************)
(* Instances of MetaRuntime small enough for TLC.                          *)
(***************************************************************************)
EXTENDS MetaRuntime, TLC

CONSTANTS l1,      \* the execution of a local process
          r1, r2   \* those of remote sessions

RemoteOnes      == {r1, r2}
MixedExecutions == {l1, r1, r2}

Implementation == [run |-> <<"R">>, increment |-> <<"i">>,
                   role |-> <<"implementation">>, harness |-> "devin"]
Reviewer == [Implementation EXCEPT !.role = <<"review", "risk">>, !.harness = "codex"]
Unregistered == [Implementation EXCEPT !.harness = "missing"]
AllRequests == {Implementation, Reviewer, Unregistered}

\* An increment implemented far away and reviewed here, and one whose graph names
\* a harness that is not there.
ReviewedIncrement == <<Implementation, Reviewer>>
StrayIncrement    == <<Unregistered>>
BothIncrements == {ReviewedIncrement, StrayIncrement}

\* One reflection that earns its place, and one that is semantic and
\* comes from a graph that is not trusted for that.
Learned == [id |-> "learned", kind |-> "procedure", layer |-> "episodic",
            confidence |-> 75]
Doubtful == [id |-> "doubtful", kind |-> "procedure", layer |-> "semantic",
             confidence |-> 90]
BothReflections == {Learned, Doubtful}

RemoteSymmetry == Permutations(RemoteOnes)
=============================================================================
