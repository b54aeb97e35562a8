-------------------------- MODULE MCSessionManager --------------------------
(***************************************************************************)
(* Instances of SessionManager small enough for TLC.                       *)
(***************************************************************************)
EXTENDS SessionManager, TLC

CONSTANTS l1, l2, r1    \* two local executions and a remote one

MCExecutions == {l1, l2, r1}
MCRemoteExecutions == {r1}

\* One increment of run R: its implementation on a local harness and the
\* reviewer session planned with it on a remote one.
Implementation == [run |-> <<"R">>, increment |-> <<"i">>,
                   role |-> <<"implementation">>, harness |-> "codex"]
Reviewer == [run |-> <<"R">>, increment |-> <<"i">>,
             role |-> <<"review", "risk">>, harness |-> "devin"]
Unregistered == [Implementation EXCEPT !.harness = "missing"]
IncrementRequests == {Implementation, Reviewer}
AllRequests == {Implementation, Reviewer, Unregistered}

\* A single local session with a single execution, for the long trails of a
\* sink that fails.
OneRequest == {Implementation}
OneExecution == {l1}

\* The two local executions are interchangeable.
LocalSymmetry == Permutations({l1, l2})

=============================================================================
