---------------------------- MODULE MCReceiveQueue ----------------------------
(* ReceiveQueue for TLC: a client that waits sends twice, one that does not  *)
(* sends until its ring is full.                                            *)
EXTENDS ReceiveQueue

MCMaxSent == [c \in Clients |-> IF c \in Patient THEN 2 ELSE MaxPackets]
=============================================================================
