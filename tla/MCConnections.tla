--------------------------- MODULE MCConnections ---------------------------
(* Connections for TLC.  Blocks, workers and accepters are interchangeable; *)
(* Symmetry is used by the runs without liveness properties.                *)
EXTENDS Connections

Symmetry == Permutations(PoolOvs) \cup Permutations(HeapOvs)
              \cup Permutations(Workers) \cup Permutations(Accepters)
============================================================================
