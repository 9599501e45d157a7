---------------------------- MODULE MCProxyConn -----------------------------
(* ProxyConn for TLC: two handles, so that a later connection gets the handle *)
(* of an earlier one; two workers, so that answers overtake each other.       *)
EXTENDS ProxyConn

CONSTANTS s1, s2, w1, w2

MCHandle  == {1, 2}
MCHandle1 == {1}
MCServer  == {s1, s2}
MCServer1 == {s1}
MCWorker  == {w1, w2}
MCWorker1 == {w1}
=============================================================================
