--------------------------- MODULE MCServerLifecycle ---------------------------
(* ServerLifecycle for TLC.                                                 *)
EXTENDS ServerLifecycle
=============================================================================
