--------------------------- MODULE ConnectionPool ---------------------------
(***************************************************************************)
(* What the MySQL connection pool promises its callers: every established  *)
(* connection has at most one user at a time, and only that user gives it  *)
(* back.  Permits, the mutex and the queue of idle connections of the code *)
(* are not visible here; MySQLPool implements this module.                 *)
(***************************************************************************)

CONSTANTS Threads,   \* the threads that run queries
          Conns,     \* the connections the server tries to establish
          Idle,      \* owner of a connection nobody uses
          Closed     \* owner of a connection not established

VARIABLE owner

Init == owner = [c \in Conns |-> Closed]

Open(c) == owner[c] = Closed /\ owner' = [owner EXCEPT ![c] = Idle]

Take(t, c) == owner[c] = Idle /\ owner' = [owner EXCEPT ![c] = t]

Give(t, c) == owner[c] = t /\ owner' = [owner EXCEPT ![c] = Idle]

Next == \E c \in Conns : \/ Open(c)
                         \/ \E t \in Threads : Take(t, c) \/ Give(t, c)

Spec == Init /\ [][Next]_owner
=============================================================================
