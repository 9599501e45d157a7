--------------------------- MODULE MCGroupMember ---------------------------
(* GroupMember for TLC: one founder and one user to add.                    *)
EXTENDS GroupMember, TLC

Workers == Permutations(Worker)
=============================================================================
