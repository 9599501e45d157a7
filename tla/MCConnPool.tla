----------------------------- MODULE MCConnPool -----------------------------
(* ConnPool for TLC: small pools, so that threads wait, and the programs of   *)
(* DbTasks.  One pool may grow, and may fail to.                              *)
EXTENDS ConnPool, DbTasks

CONSTANTS t1, t2, t3

MCThread2 == {t1, t2}
MCThread3 == {t1, t2, t3}
MCPool    == {PoolOfSlot[s] : s \in Slots}
MCMax     == [p \in MCPool |-> IF p = "slave" THEN 2 ELSE 1]
MCMaxMaster == [p \in MCPool |-> IF p = "master" THEN 2 ELSE 1]
MCMax1    == [p \in MCPool |-> 1]
MCFail    == {"slave"}
MCNone    == {}

(* the functions that return every connection at most once *)
MCDisciplined ==
    {SendMessage, GetMsgIdFromDb, IsInGroup2, IsValidateGroupId2, UnknownGroup,
     InsertNewMember, RemoveMember}

MCGroup   == {SendGroupMessage}
MCUnknown == {UnknownGroup, InsertNewMember}

(* What is left of these functions at any point, after a refused get too:    *)
(* they keep to the rule under which ConnPoolProofs proves the invariants.   *)
MCRemainders ==
    LET R == UNION {Suffixes(g) : g \in MCDisciplined}
        refused == {g \in R \ {<<>>} : Head(g).op = "get" /\ PoolOf[Head(g).slot] \in Fallible}
    IN  R \cup UNION {Suffixes(Head(g).orElse) : g \in refused}

ASSUME MCDisciplineAssumption ==
    Program = MCDisciplined => Disciplined(MCRemainders)
=============================================================================
