---------------------------- MODULE MCMySQLPool ----------------------------
(* MySQLPool for TLC.  The threads are interchangeable, and so are the      *)
(* connections; Symmetry is used by the runs without liveness properties.   *)
EXTENDS MySQLPool, TLC

Symmetry == Permutations(Threads) \cup Permutations(Conns)
============================================================================
