---------------------------- MODULE MCLoginFlow ----------------------------
(* LoginFlow for TLC, with two users: each has asked the other to be a      *)
(* friend, and only alice's request was accepted.                           *)
EXTENDS LoginFlow, TLC

CONSTANTS alice, bob

MCFriends == [u \in Users |-> IF u = alice THEN Users \ {alice} ELSE {}]
MCRequested == [u \in Users |-> IF u = bob THEN Users \ {bob} ELSE {}]

Symmetry == Permutations(Threads) \cup Permutations(Lobbies)
=============================================================================
