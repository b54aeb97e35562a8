----------------------------- MODULE MCSkillLock -----------------------------
(* Two processes, one of them offline, and two references for TLC. *)
EXTENDS SkillLock

CONSTANTS p1, p2, a, b

=============================================================================
