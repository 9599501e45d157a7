------------------------------- MODULE Leases -------------------------------
(***************************************************************************)
(* What a set of connection pools promises its users: a connection is      *)
(* leased to one thread at a time, and goes back before it is leased again.*)
(***************************************************************************)
CONSTANTS Thread, Pool, Conn

VARIABLE leases      \* {<<pool, connection, thread>>}

Init == leases = {}

Lease(p, c, t) ==
    /\ \A u \in Thread : <<p, c, u>> \notin leases
    /\ leases' = leases \cup {<<p, c, t>>}

Return(p, c, t) ==
    /\ <<p, c, t>> \in leases
    /\ leases' = leases \ {<<p, c, t>>}

Next == \E p \in Pool, c \in Conn, t \in Thread : Lease(p, c, t) \/ Return(p, c, t)

Spec == Init /\ [][Next]_leases
=============================================================================
