---------------------------- MODULE MCSendQueue ----------------------------
(* SendQueue for TLC.  The Redis threads are interchangeable, and so are    *)
(* the workers; Symmetry is used by the runs without liveness properties.   *)
EXTENDS SendQueue, TLC

Symmetry == Permutations(Pushers) \cup Permutations(Workers)
============================================================================
