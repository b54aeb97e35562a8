------------------------- MODULE MCMemoryProjection -------------------------
(***************************************************************************)
(* Instances of MemoryProjection small enough for TLC.                     *)
(***************************************************************************)
EXTENDS MemoryProjection, TLC

CONSTANTS c1, c2, m1, r1, r2, r3

ClientPair == {c1, c2}
OneCurator == {c1}
OneMemory  == {m1}
ThreeRetrievals == {r1, r2, r3}

\* The states the command line asks for by default, and no filter.
DefaultAndAny == {{"validated", "trusted"}, {}}

\* Retrieval ids are random.
TripleSymmetry == Permutations({r1, r2, r3})
=============================================================================
