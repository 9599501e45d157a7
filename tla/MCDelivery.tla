---------------------------- MODULE MCDelivery ----------------------------
(* Delivery for TLC: two users, two msg_servers; one user has two           *)
(* connections on one of them, of the same handle or not.                   *)
EXTENDS Delivery

CONSTANTS a, b, s1, s2, c1, c2, c3, c4

Users == c1 :> a @@ c2 :> a @@ c3 :> a @@ c4 :> b
Servers == c1 :> s1 @@ c2 :> s1 @@ c3 :> s2 @@ c4 :> s2
==========================================================================
