---------------------------- MODULE GroupMember ----------------------------
(***************************************************************************)
(* Who is in a group, and what of it a member has not read: the workers of *)
(* db_proxy_server keep the members in the table on_IMGroupMember, which a *)
(* slave has later, and in a redis hash that lists them for the delivery   *)
(* of messages (GroupModel), and per member a copy of the group's message  *)
(* counter (GroupMessageModel).                                            *)
(*                                                                         *)
(* Table, hash and counters are changed by single commands; the workers    *)
(* interleave between any two.  When the hash lacks the key or a user it   *)
(* is filled from the slave.  redis may lose the hash, and db_proxy_server *)
(* may stop, at any time.                                                  *)
(***************************************************************************)
EXTENDS Integers, Sequences

CONSTANTS Worker, User,
          Founder,   \* the members the group was created with
          MaxReq     \* bound: requests in a behaviour

ASSUME FounderAssumption == Founder \subseteq User /\ Founder # {}
ASSUME BoundAssumption == MaxReq \in Nat

VARIABLES rows,     \* on_IMGroupMember on the master: the status of a user's rows,
                    \* more than one if he was inserted twice
          binlog,   \* states of the master that the slave has not reached
          slave,    \* on_IMGroupMember on the slave
          cache,    \* the fields of group_member_<id>
          total,    \* the group's message counter
          counted,  \* each user's copy of it
          task,     \* per worker: the request it carries out
          reqs,     \* requests so far (bounded)
          due,      \* history: messages of others counted since a user's copy was read
          apart     \* history: users whose row and field may differ, because adding and
                    \* removing them overlapped or because of a failure

table == <<rows, binlog, slave>>
counters == <<total, counted, due>>
vars == <<table, cache, counters, task, reqs, apart>>

Idle == [op |-> "none"]
Op == {"add", "del", "send", "clear"}
Pc == {"valid", "check", "recheck", "read", "fill", "repeat", "look", "write",
       "hset", "update", "hdel", "inc", "copy", "set"}

\* back: where a fill of the hash goes on; round: the copies of the counter to make.
Task == [op : Op, user : User, pc : Pc, back : Pc, found : BOOLEAN,
         todo : SUBSET User, fresh : BOOLEAN, round : 0..2, n : Nat]

Status == {"in", "out"}

TypeOK ==
  /\ rows \in [User -> SUBSET Status]
  /\ binlog \in Seq([User -> SUBSET Status])
  /\ slave \in [User -> SUBSET Status]
  /\ cache \subseteq User
  /\ total \in Nat
  /\ counted \in [User -> 0..total]
  /\ task \in [Worker -> Task \cup {Idle}]
  /\ reqs \in 0..MaxReq
  /\ due \in [User -> Nat]
  /\ apart \subseteq User

\* After createGroup, whose group nobody else can name before it is answered.
Init ==
  /\ rows = [u \in User |-> IF u \in Founder THEN {"in"} ELSE {}]
  /\ binlog = <<>>
  /\ slave = rows
  /\ cache = Founder
  /\ total = 0
  /\ counted = [u \in User |-> 0]
  /\ task = [w \in Worker |-> Idle]
  /\ reqs = 0
  /\ due = [u \in User |-> 0]
  /\ apart = {}

-----------------------------------------------------------------------------
(* Requests *)

At(w, pc) == task[w] # Idle /\ task[w].pc = pc
Who(w) == task[w].user
Go(w, pc) == task' = [task EXCEPT ![w].pc = pc]
Done(w) == task' = [task EXCEPT ![w] = Idle]

Changing(op, u) == \E w \in Worker : task[w] # Idle /\ task[w].op = op /\ task[w].user = u
Busy(u) == Changing("add", u) \/ Changing("del", u)

\* A worker takes up a request: modifyMember, sendMessage, or clearUnreadMsgCounter.
\* The lists of a modifyMember are handled user by user; here they name one.
Begin(w, op, u) ==
  /\ task[w] = Idle /\ reqs < MaxReq
  /\ reqs' = reqs + 1
  /\ task' = [task EXCEPT ![w] = [op |-> op, user |-> u,
                pc |-> IF op = "clear" THEN "copy" ELSE "valid", back |-> "valid",
                found |-> FALSE, todo |-> {}, fresh |-> FALSE, n |-> 0,
                round |-> IF op = "send" THEN 2 ELSE 1]]
  /\ apart' = IF \/ op = "add" /\ Changing("del", u)
                 \/ op = "del" /\ Changing("add", u) THEN apart \cup {u} ELSE apart
  /\ UNCHANGED <<table, cache, counters>>

\* What follows once the group is known to exist.
First(op) == IF op = "add" THEN "repeat" ELSE IF op = "del" THEN "update" ELSE "check"

\* isValidateGroupId: by the hash, or else by the slave, which also fills the hash.
isValidateGroupId(w) ==
  /\ At(w, "valid")
  /\ IF cache # {} THEN Go(w, First(task[w].op))
     ELSE task' = [task EXCEPT ![w].pc = "read", ![w].back = First(task[w].op)]
  /\ UNCHANGED <<table, cache, counters, reqs, apart>>

\* isInGroup: the same for a user. sendMessage asks twice, before it takes a message
\* id and before it inserts the message.
isInGroup(w, pc, next) ==
  /\ At(w, pc)
  /\ IF Who(w) \in cache THEN Go(w, next)
     ELSE task' = [task EXCEPT ![w].pc = "read", ![w].back = next]
  /\ UNCHANGED <<table, cache, counters, reqs, apart>>

-----------------------------------------------------------------------------
(* Filling the hash: isValidateGroupId2 and isInGroup2 *)

\* Rows of whatever status: the query does not look at it.
Listed == {u \in User : slave[u] # {}}

ReadRows(w) ==
  /\ At(w, "read")
  /\ task' = [task EXCEPT ![w].pc = "fill", ![w].todo = Listed, ![w].fresh = TRUE,
                          ![w].found = Who(w) \in Listed]
  /\ UNCHANGED <<table, cache, counters, reqs, apart>>

FillOne(w, u) ==
  /\ At(w, "fill") /\ u \in task[w].todo
  /\ cache' = cache \cup {u}
  /\ task' = [task EXCEPT ![w].todo = @ \ {u}]
  /\ apart' = IF task[w].fresh /\ ~Busy(u) THEN apart \ {u} ELSE apart
  /\ UNCHANGED <<table, counters, reqs>>

\* A user without a row is refused; for the group any row will do, and it has some.
Filled(w) ==
  /\ At(w, "fill") /\ task[w].todo = {}
  /\ IF task[w].back \in {"recheck", "inc"} /\ ~task[w].found THEN Done(w)
                                                             ELSE Go(w, task[w].back)
  /\ UNCHANGED <<table, cache, counters, reqs, apart>>

-----------------------------------------------------------------------------
(* modifyGroupMember *)

Write(rows2) == rows' = rows2 /\ binlog' = Append(binlog, rows2) /\ UNCHANGED slave

Replicate ==
  /\ binlog # <<>>
  /\ slave' = Head(binlog)
  /\ binlog' = Tail(binlog)
  /\ UNCHANGED <<rows, cache, counters, task, reqs, apart>>

\* removeRepeatUser: who is in the hash is not added, and the request fails.
removeRepeatUser(w) ==
  /\ At(w, "repeat")
  /\ IF Who(w) \in cache THEN Done(w) ELSE Go(w, "look")
  /\ UNCHANGED <<table, cache, counters, reqs, apart>>

\* insertNewMember: the slave tells whether there is a row, which is then updated;
\* else one is inserted.
FindMember(w) ==
  /\ At(w, "look")
  /\ task' = [task EXCEPT ![w].pc = "write", ![w].found = slave[Who(w)] # {}]
  /\ UNCHANGED <<table, cache, counters, reqs, apart>>

InsertMember(w) ==
  /\ At(w, "write")
  /\ Write([rows EXCEPT ![Who(w)] = IF task[w].found THEN {"in"} ELSE @ \cup {"in"}])
  /\ Go(w, "hset")
  /\ UNCHANGED <<cache, counters, reqs, apart>>

\* Mutant of CacheMember: the hash is left to the next fill.
CacheLater(w) ==
  /\ At(w, "hset")
  /\ Go(w, "copy")
  /\ UNCHANGED <<table, cache, counters, reqs, apart>>

CacheMember(w) ==
  /\ At(w, "hset")
  /\ cache' = cache \cup {Who(w)}
  /\ Go(w, "copy")
  /\ UNCHANGED <<table, counters, reqs, apart>>

\* removeMember: first the row, then the field.
RemoveMember(w) ==
  /\ At(w, "update")
  /\ Write([rows EXCEPT ![Who(w)] = IF @ = {} THEN {} ELSE {"out"}])
  /\ Go(w, "hdel")
  /\ UNCHANGED <<cache, counters, reqs, apart>>

UncacheMember(w) ==
  /\ At(w, "hdel")
  /\ cache' = cache \ {Who(w)}
  /\ Go(w, "copy")
  /\ UNCHANGED <<table, counters, reqs, apart>>

-----------------------------------------------------------------------------
(* Counters *)

\* CGroupMessageModel::sendMessage has inserted the message; incMessageCount.
IncTotal(w) ==
  /\ At(w, "inc")
  /\ total' = total + 1
  /\ due' = [u \in User |-> IF u = Who(w) THEN due[u] ELSE due[u] + 1]
  /\ Go(w, "copy")
  /\ UNCHANGED <<table, cache, counted, reqs, apart>>

\* incMessageCount, clearMessageCount and clearUserCounter all copy the group's
\* counter to the user's, in two commands.
ReadTotal(w) ==
  /\ At(w, "copy")
  /\ task' = [task EXCEPT ![w].pc = "set", ![w].n = total]
  /\ due' = [due EXCEPT ![Who(w)] = 0]
  /\ UNCHANGED <<table, cache, total, counted, reqs, apart>>

\* Mutant of SetCounted: the user's counter is set to what the group's is by now.
SetLatest(w) ==
  /\ At(w, "set")
  /\ counted' = [counted EXCEPT ![Who(w)] = total]
  /\ IF task[w].round = 2 THEN task' = [task EXCEPT ![w].pc = "copy", ![w].round = 1]
                          ELSE Done(w)
  /\ UNCHANGED <<table, cache, total, due, reqs, apart>>

\* Mutant of SetCounted: the counters are counted up one by one, twice by a sender.
SetOneMore(w) ==
  /\ At(w, "set")
  /\ counted' = [counted EXCEPT ![Who(w)] = @ + 1]
  /\ IF task[w].round = 2 THEN task' = [task EXCEPT ![w].pc = "copy", ![w].round = 1]
                          ELSE Done(w)
  /\ UNCHANGED <<table, cache, total, due, reqs, apart>>

SetCounted(w) ==
  /\ At(w, "set")
  /\ counted' = [counted EXCEPT ![Who(w)] = task[w].n]
  /\ IF task[w].round = 2 THEN task' = [task EXCEPT ![w].pc = "copy", ![w].round = 1]
                          ELSE Done(w)
  /\ UNCHANGED <<table, cache, total, due, reqs, apart>>

-----------------------------------------------------------------------------
(* Failures *)

\* redis loses the hash.
LoseHash ==
  /\ cache' = {}
  /\ apart' = User
  /\ task' = [w \in Worker |-> IF task[w] = Idle THEN Idle ELSE [task[w] EXCEPT !.fresh = FALSE]]
  /\ UNCHANGED <<table, counters, reqs>>

\* db_proxy_server stops: requests end where they are.
Crash ==
  /\ task' = [w \in Worker |-> Idle]
  /\ apart' = apart \cup {u \in User : Busy(u)}
  /\ UNCHANGED <<table, cache, counters, reqs>>

-----------------------------------------------------------------------------
Step(w) ==
  \/ isValidateGroupId(w)
  \/ isInGroup(w, "check", "recheck") \/ isInGroup(w, "recheck", "inc")
  \/ ReadRows(w) \/ Filled(w) \/ \E u \in User : FillOne(w, u)
  \/ removeRepeatUser(w) \/ FindMember(w) \/ InsertMember(w) \/ CacheMember(w)
  \/ RemoveMember(w) \/ UncacheMember(w)
  \/ IncTotal(w) \/ ReadTotal(w) \/ SetCounted(w)

Next ==
  \/ \E w \in Worker : Step(w) \/ \E op \in Op, u \in User : Begin(w, op, u)
  \/ Replicate \/ LoseHash \/ Crash

Spec == Init /\ [][Next]_vars

-----------------------------------------------------------------------------
(* Properties *)

\* A user with a row that says he is a member is in the hash, and so gets the group's
\* messages, unless a request about him is under way, or adding and removing him
\* overlapped, or a failure came; after those, once the hash was filled again.
MembersCached ==
  \A u \in User : "in" \in rows[u] /\ u \notin apart /\ ~Busy(u) => u \in cache

\* The unread count of a user is no less than the messages of others that were counted
\* since he last read the counter, in whatever order the copies are written.
UnreadCoversDue == \A u \in User : due[u] <= total - counted[u]

\* Who has left the group is not in the hash: newim.sql says of the status, 0 is a
\* member and 1 has left.
RemovedStaysOut ==
  \A u \in User : rows[u] = {"out"} /\ u \notin apart /\ ~Busy(u) => u \notin cache

=============================================================================
