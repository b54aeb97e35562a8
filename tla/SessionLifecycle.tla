-------------------------- MODULE SessionLifecycle --------------------------
(***************************************************************************)
(* What a reader of the session trail is promised (README.md "An accepted  *)
(* increment follows a validated lifecycle"): a session is worked on while *)
(* it is open, is judged, and a judgement either re-opens it or settles it *)
(* for good.  Settled work can only be closed; it is never cancelled,      *)
(* retried or judged again, and an abandoned session never comes back.     *)
(* SessionManager implements this module through its trail, not through    *)
(* its in-memory records.                                                  *)
(***************************************************************************)

CONSTANT Sessions    \* every session identifier that can occur

VARIABLE phase       \* phase of each session opened so far

Phases == {"open", "judging", "settled", "closed", "abandoned"}

\* Where each phase may go.  Leaving "judging" is the only way to "settled".
NextPhases == [p \in Phases |->
  CASE p = "open"      -> {"open", "judging", "abandoned"}
    [] p = "judging"   -> {"judging", "open", "settled"}
    [] p = "settled"   -> {"settled", "closed"}
    [] p = "closed"    -> {}
    [] p = "abandoned" -> {}]

Init == phase = [s \in {} |-> "open"]

Open(s) ==
  /\ s \notin DOMAIN phase
  /\ phase' = [t \in DOMAIN phase \cup {s} |->
                 IF t = s THEN "open" ELSE phase[t]]

Move(s, p) ==
  /\ s \in DOMAIN phase
  /\ p \in NextPhases[phase[s]]
  /\ phase' = [phase EXCEPT ![s] = p]

Next == \E s \in Sessions : Open(s) \/ \E p \in Phases : Move(s, p)

Spec == Init /\ [][Next]_phase
=============================================================================
