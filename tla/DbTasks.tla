------------------------------ MODULE DbTasks -------------------------------
(***************************************************************************)
(* What the functions of db_proxy_server do to the connection pools, as    *)
(* straight-line programs over local connection variables ("slots").  A    *)
(* query, an update or a redis command is one "use" of a slot.             *)
(* A "leave" is the end of a function that has not released a slot.        *)
(*                                                                         *)
(* A "get" carries in orElse the steps that follow when the pool answers   *)
(* NULL: most functions skip the block that needed the connection.  Where  *)
(* the code uses the NULL connection instead, orElse is the same block and *)
(* ConnPool must be told that the pool never fails (Fallible).             *)
(***************************************************************************)
EXTENDS Sequences

Get(slot, orElse) == [op |-> "get", slot |-> slot, orElse |-> orElse]
Use(slot) == [op |-> "use", slot |-> slot]
Rel(slot) == [op |-> "rel", slot |-> slot]
Leave(slot) == [op |-> "leave", slot |-> slot]

(* pDBConn / pCacheConn of one function, and the variable of a function it   *)
(* calls while it still holds a connection of the same pool.                 *)
Slots == {"slave", "master", "master of the callee", "unread", "group_member"}

PoolOfSlot ==
    [s \in Slots |-> IF s = "master of the callee" THEN "master" ELSE s]

(* get, use, release; nothing further when there is no connection *)
Brief(slot) == <<Get(slot, <<>>), Use(slot), Rel(slot)>>

-----------------------------------------------------------------------------

(* CMessageModel::sendMessage: the insert, then incMsgCount. *)
SendMessage == Brief("master") \o Brief("unread")

(* CMessageModel::getMsgId when redis answers 0; the answer of the database  *)
(* is written back to redis.                                                 *)
GetMsgIdFromDb ==
    <<Get("unread", <<>>), Use("unread"),
      Get("slave", <<Rel("unread")>>), Use("slave"), Rel("slave"),
      Use("unread"), Rel("unread")>>

(* The member list, copied to redis: the cache connection inside the         *)
(* database one, released after it.                                          *)
CopyMembers ==
    LET copy == <<Use("slave"), Use("group_member"), Rel("slave"), Rel("group_member")>>
    IN  <<Get("group_member", copy)>> \o copy

IsInGroup2 == <<Get("slave", <<>>)>> \o CopyMembers

(* CGroupModel::isValidateGroupId2 for a group the database knows.           *)
IsValidateGroupId2 == <<Get("slave", <<>>), Use("slave")>> \o CopyMembers

(* The same for a group it does not know, or when the query fails.           *)
UnknownGroup == <<Get("slave", <<>>), Use("slave"), Leave("slave")>>

(* Mutant of InsertNewMember: the cache connection is taken first.           *)
CacheConnFirst ==
    <<Get("group_member", <<>>), Get("slave", <<Rel("group_member")>>), Use("slave"),
      Rel("slave"), Get("master", <<Rel("group_member")>>), Use("master"),
      Use("group_member"), Rel("group_member"), Rel("master")>>

(* CGroupModel::insertNewMember *)
InsertNewMember ==
    <<Get("slave", <<>>), Use("slave"), Rel("slave"),
      Get("master", <<>>), Get("group_member", <<Rel("master")>>),
      Use("master"), Use("group_member"), Rel("group_member"), Rel("master")>>

(* CGroupModel::removeMember, then getGroupUser *)
RemoveMember ==
    <<Get("master", <<>>), Get("group_member", <<Rel("master")>>),
      Use("master"), Use("group_member"), Rel("group_member"), Rel("master")>>
        \o Brief("group_member")

(* CGroupMessageModel::sendMessage after isInGroup: updateGroupChat takes a  *)
(* second connection of the master pool before the first is released;        *)
(* incMessageCount; clearMessageCount, which writes after the release.       *)
SendGroupMessage ==
    LET counters == Brief("unread") \o Brief("unread") \o <<Use("unread"), Rel("master")>>
    IN  <<Get("master", <<>>), Use("master"), Get("master of the callee", counters),
          Use("master of the callee"), Rel("master of the callee")>> \o counters
=============================================================================
