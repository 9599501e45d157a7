----------------------------- MODULE MCPresence -----------------------------
(* Presence for TLC: two msg_servers, one user, one PC and one mobile client   *)
(* type; three links, so that one server reconnects once.                      *)
EXTENDS Presence, TLC

CONSTANTS a, b, l1, l2, l3, u1

MCServer == {a, b}
MCLink   == {l1, l2, l3}
MCUser   == {u1}
MCType   == {"MAC", "IOS"}

MCSymmetry == Permutations(MCServer) \cup Permutations(MCLink)
=============================================================================
