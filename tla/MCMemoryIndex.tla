---------------------------- MODULE MCMemoryIndex ----------------------------
(* Two processes that open one database as any of five clients. *)
EXTENDS MemoryIndex, TLC

CONSTANTS p1, p2, m1, m2, m3

Client(backend, dimensions, space, kind) ==
  [backend |-> backend, dimensions |-> dimensions, space |-> space, kind |-> kind]

AllClients ==
  {Client("sqlite-vec", "384", "bge", "semantic"), Client("exact", "384", "bge", "semantic"),
   Client("sqlite-vec", "384", "by hand", "manual"), Client("exact", "2", "pairs", "manual"),
   Client("exact", "384", "own", "library")}

Symmetry == Permutations({p1, p2}) \cup Permutations({m1, m2, m3})

=============================================================================
