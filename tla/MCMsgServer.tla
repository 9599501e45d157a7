---------------------------- MODULE MCMsgServer ----------------------------
(* MsgServer for TLC: one user with two login names (the database matches the  *)
(* name against the numeric id column).                                        *)
EXTENDS MsgServer, TLC

CONSTANTS c1, c2, c3, n1, n2, u1

MCConn    == {c1, c2, c3}
MCHandle2 == {1, 2}
MCName    == {n1, n2}
MCUser    == {u1}
MCUserOf  == n1 :> u1 @@ n2 :> u1
MCPc      == {"MAC", "IOS"}

\* Connections differ in nothing, and the two names belong to one user.
MCSymmetry == Permutations(MCConn) \cup Permutations(MCName)
=============================================================================
