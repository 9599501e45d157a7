------------------------------ MODULE ChatStore ------------------------------
(***************************************************************************)
(* How db_proxy_server stores the text messages of single chats: workers   *)
(* run DB_PROXY::sendMessage concurrently against the MySQL master, a      *)
(* slave that lags behind, and redis, which hands out message ids and      *)
(* keeps the unread counts; readers clear those counts and fetch pages.    *)
(***************************************************************************)
EXTENDS Integers, Sequences, FiniteSets

CONSTANTS Worker,   \* worker threads
          Pair,     \* who writes to whom: <<from, to>>
          Fault,    \* what can go wrong in a run, a subset of the names below
          UintMax,  \* (uint32_t)-1
          MaxReq,   \* bound: number of messages
          MaxTime   \* bound: the times msg_server stamps messages with

FaultNames == {"read", "insert", "unreachable", "loading", "restart", "crash"}

ASSUME PairAssumption == Pair \subseteq (Nat \ {0}) \X (Nat \ {0})
ASSUME FaultAssumption == Fault \subseteq FaultNames
ASSUME BoundAssumption == UintMax \in Nat \ {0} /\ MaxTime \in Nat

VARIABLES reqs,     \* the messages msg_server passed on, in order
          task,     \* per worker: the handler it runs, and its variables
          counter,  \* redis, msg_id_<relation>
          unread,   \* redis, unread_<to>[<from>]
          db,       \* the master: sessions and messages as they were inserted
          applied,  \* how many of them the slave has
          answers,  \* answers sent: [req, rel, id]
          faulty,   \* history: relations whose counter redis failed to serve
          due       \* history: messages stored since the reader last cleared

vars == <<reqs, task, counter, unread, db, applied, answers, faulty, due>>

\* CRelationModel::getRelationId, for users that exist
RelationId(a, b) == a + b
Rel == {RelationId(p[1], p[2]) : p \in Pair}
Reader == {<<p[2], p[1]>> : p \in Pair}

From(w) == reqs[task[w].req].from
To(w) == reqs[task[w].req].to
RelOf(w) == RelationId(From(w), To(w))
Record(w) == [req |-> task[w].req, rel |-> RelOf(w), id |-> task[w].id]

Idle == [pc |-> "idle", req |-> 0, session |-> 0, id |-> 0]

\* Worker w goes on at pc, with session s or id i if it has just got one.
Goes(w, pc, s, i) ==
  task' = [task EXCEPT ![w] = [pc |-> pc, req |-> task[w].req, session |-> s, id |-> i]]
Go(w, pc) == Goes(w, pc, task[w].session, task[w].id)
GoSession(w, pc, s) == Goes(w, pc, s, task[w].id)
GoId(w, pc, i) == Goes(w, pc, task[w].session, i)

\* The greatest element of S alone, 0 when S is empty: what a loop that keeps the
\* last row leaves behind.
Highest(S) == {x \in S \cup {0} : \A y \in S : y <= x}

\* rows of the first n entries of the binary log
Sessions(n, user, peer) ==
  {i \in 1..n : db[i].kind = "session" /\ db[i].user = user /\ db[i].peer = peer}
Messages(n, r) == {i \in 1..n : db[i].kind = "message" /\ db[i].msg.rel = r}

-----------------------------------------------------------------------------
Init ==
  /\ reqs = << >>
  /\ task = [w \in Worker |-> Idle]
  /\ counter = [r \in Rel |-> 0]
  /\ unread = [p \in Reader |-> 0]
  /\ db = << >>
  /\ applied = 0
  /\ answers = {}
  /\ faulty = {}
  /\ due = [p \in Reader |-> {}]

\* The slave applies the next entry of the master's log.
Replicate ==
  /\ applied < Len(db)
  /\ applied' = applied + 1
  /\ UNCHANGED <<reqs, task, counter, unread, db, answers, faulty, due>>

\* A request comes to worker w, stamped by its msg_server at time t. A message to
\* oneself is answered with id 0.
Receive(w, p, t) ==
  /\ task[w].pc = "idle"
  /\ Len(reqs) < MaxReq
  /\ reqs' = Append(reqs, [from |-> p[1], to |-> p[2], created |-> t])
  /\ task' = [task EXCEPT ![w] = [pc |-> IF p[1] = p[2] THEN "answer" ELSE "own",
                                  req |-> Len(reqs) + 1, session |-> 0, id |-> 0]]
  /\ UNCHANGED <<counter, unread, db, applied, answers, faulty, due>>

-----------------------------------------------------------------------------
(* Sessions. A look-up reads the slave, and finds nothing when the read      *)
(* fails. addSession looks once more, at any time since the first look-up,   *)
(* and then inserts.                                                         *)

getSessionId(user, peer) ==
  Highest(Sessions(applied, user, peer)) \cup (IF "read" \in Fault THEN {0} ELSE {})

\* nSessionId becomes the row inserted, or the one the second look-up found, which is
\* updated; 0 when the insert or the update fails.
addSession(w, user, peer, pc) ==
  /\ \/ /\ db' = Append(db, [kind |-> "session", user |-> user, peer |-> peer])
        /\ GoSession(w, pc, Len(db) + 1)
     \/ /\ db' = db
        /\ \E s \in Sessions(applied, user, peer) \cup (IF "insert" \in Fault THEN {0} ELSE {}) :
             GoSession(w, pc, s)
  /\ UNCHANGED <<reqs, counter, unread, applied, answers, faulty, due>>

FindOwn(w) ==
  /\ task[w].pc = "own"
  /\ \E s \in getSessionId(From(w), To(w)) :
       GoSession(w, IF s = 0 THEN "addOwn" ELSE "peer", s)
  /\ UNCHANGED <<reqs, counter, unread, db, applied, answers, faulty, due>>

AddOwn(w) == task[w].pc = "addOwn" /\ addSession(w, From(w), To(w), "peer")

FindPeer(w) ==
  /\ task[w].pc = "peer"
  /\ \E s \in getSessionId(To(w), From(w)) : Go(w, IF s = 0 THEN "addPeer" ELSE "id")
  /\ UNCHANGED <<reqs, counter, unread, db, applied, answers, faulty, due>>

\* Mutant of AddPeer: the result goes to nPeerSessionId, which nobody tests.
AddPeerUntested(w) ==
  /\ task[w].pc = "addPeer"
  /\ \E ok \in {TRUE, "insert" \notin Fault} :
       db' = IF ok THEN Append(db, [kind |-> "session", user |-> To(w), peer |-> From(w)])
             ELSE db
  /\ Go(w, "id")
  /\ UNCHANGED <<reqs, counter, unread, applied, answers, faulty, due>>

\* The result is assigned to nSessionId, over the sender's session.
AddPeer(w) == task[w].pc = "addPeer" /\ addSession(w, To(w), From(w), "id")

-----------------------------------------------------------------------------
(* Message ids.                                                              *)

\* Without a session the message is refused.
NoSession(w) ==
  /\ task[w].pc = "id"
  /\ task[w].session = 0
  /\ Go(w, "answer")
  /\ UNCHANGED <<reqs, counter, unread, db, applied, answers, faulty, due>>

\* Mutant of getMsgId: the next id is read off the slave.
NextOnSlave(w) ==
  /\ task[w].pc = "id"
  /\ task[w].session # 0
  /\ \E last \in Highest({db[i].msg.id : i \in Messages(applied, RelOf(w))}) :
       GoId(w, "insert", last + 1)
  /\ UNCHANGED <<reqs, counter, unread, db, applied, answers, faulty, due>>

\* INCRBY answers the next id, or -1 when redis is not reached, or an error, whose
\* integer is 0.
getMsgId(w) ==
  /\ task[w].pc = "id"
  /\ task[w].session # 0
  /\ \/ /\ counter' = [counter EXCEPT ![RelOf(w)] = @ + 1]
        /\ GoId(w, "insert", counter[RelOf(w)] + 1)
        /\ UNCHANGED faulty
     \/ /\ "unreachable" \in Fault
        /\ GoId(w, "insert", UintMax)
        /\ faulty' = faulty \cup {RelOf(w)}
        /\ UNCHANGED counter
     \/ /\ "loading" \in Fault
        /\ Go(w, "max")
        /\ faulty' = faulty \cup {RelOf(w)}
        /\ UNCHANGED counter
  /\ UNCHANGED <<reqs, unread, db, applied, answers, due>>

\* The query selects MAX(msgId) and its answer is read as msgId, a column GetInt does
\* not find and gives 0 for: the id becomes 1, whatever is stored. Without a database
\* connection it stays 0 and the message is refused.
MaxMsgId(w) ==
  /\ task[w].pc = "max"
  /\ GoId(w, "set", 1) \/ ("read" \in Fault /\ Go(w, "answer"))
  /\ UNCHANGED <<reqs, counter, unread, db, applied, answers, faulty, due>>

\* That id becomes the counter, if redis takes it.
SetMsgId(w) ==
  /\ task[w].pc = "set"
  /\ \/ counter' = [counter EXCEPT ![RelOf(w)] = task[w].id]
     \/ UNCHANGED counter
  /\ Go(w, "insert")
  /\ UNCHANGED <<reqs, unread, db, applied, answers, faulty, due>>

-----------------------------------------------------------------------------
(* The message itself, its unread count and the answer.                      *)

Readers(w) == <<To(w), From(w)>>

\* The caller ignores whether the insert succeeded.
sendMessage(w) ==
  /\ task[w].pc = "insert"
  /\ \/ /\ db' = Append(db, [kind |-> "message", msg |-> Record(w)])
        /\ due' = [due EXCEPT ![Readers(w)] = @ \cup {task[w].req}]
        /\ Go(w, "count")
     \/ "insert" \in Fault /\ Go(w, "answer") /\ UNCHANGED <<db, due>>
  /\ UNCHANGED <<reqs, counter, unread, applied, answers, faulty>>

\* Mutant of incMsgCount: the field is set, not incremented.
SetMsgCount(w) ==
  /\ task[w].pc = "count"
  /\ unread' = [unread EXCEPT ![Readers(w)] = 1]
  /\ Go(w, "answer")
  /\ UNCHANGED <<reqs, counter, db, applied, answers, faulty, due>>

\* HINCRBY, whose failure nobody notices.
incMsgCount(w) ==
  /\ task[w].pc = "count"
  /\ \/ unread' = [unread EXCEPT ![Readers(w)] = @ + 1] /\ UNCHANGED due
     \/ /\ {"unreachable", "loading"} \cap Fault # {}
        /\ due' = [due EXCEPT ![Readers(w)] = @ \ {task[w].req}]
        /\ UNCHANGED unread
  /\ Go(w, "answer")
  /\ UNCHANGED <<reqs, counter, db, applied, answers, faulty>>

\* Mutant of Answer: the id is the counter's, read once more.
AnswerLatest(w) ==
  /\ task[w].pc = "answer"
  /\ answers' = answers \cup {[Record(w) EXCEPT !.id = counter[RelOf(w)]]}
  /\ task' = [task EXCEPT ![w] = Idle]
  /\ UNCHANGED <<reqs, counter, unread, db, applied, faulty, due>>

\* The answer goes into the list of responses; the worker is free.
Answer(w) ==
  /\ task[w].pc = "answer"
  /\ answers' = answers \cup {Record(w)}
  /\ task' = [task EXCEPT ![w] = Idle]
  /\ UNCHANGED <<reqs, counter, unread, db, applied, faulty, due>>

\* Mutant of clearUserCounter: one message is read at a time.
ClearOne(p) ==
  /\ unread' = [unread EXCEPT ![p] = @ - 1]
  /\ due' = [due EXCEPT ![p] = {}]
  /\ UNCHANGED <<reqs, task, counter, db, applied, answers, faulty>>

\* A reader acknowledges: clearUserCounter deletes the count whatever msg_id the
\* acknowledgement carries. (When redis fails nothing happens.)
clearUserCounter(p) ==
  /\ unread' = [unread EXCEPT ![p] = 0]
  /\ due' = [due EXCEPT ![p] = {}]
  /\ UNCHANGED <<reqs, task, counter, db, applied, answers, faulty>>

-----------------------------------------------------------------------------
(* Failures of a process.                                                    *)

\* redis restarts without its data: the next INCRBY of a key answers 1.
RedisRestarts ==
  /\ "restart" \in Fault
  /\ counter' = [r \in Rel |-> 0]
  /\ unread' = [p \in Reader |-> 0]
  /\ due' = [p \in Reader |-> {}]
  /\ faulty' = Rel
  /\ UNCHANGED <<reqs, task, db, applied, answers>>

\* Messages of reader p that are stored and not yet counted.
Counting(p) ==
  {task[w].req : w \in {v \in Worker : task[v].pc = "count" /\ Readers(v) = p}}

\* db_proxy_server stops between two steps: requests under way get no answer.
Crash ==
  /\ "crash" \in Fault
  /\ task' = [w \in Worker |-> Idle]
  /\ due' = [p \in Reader |-> due[p] \ Counting(p)]
  /\ UNCHANGED <<reqs, counter, unread, db, applied, answers, faulty>>

-----------------------------------------------------------------------------
\* The next step of the handler that worker w runs.
Handle(w) ==
  \/ FindOwn(w) \/ AddOwn(w) \/ FindPeer(w) \/ AddPeer(w)
  \/ NoSession(w) \/ getMsgId(w) \/ MaxMsgId(w) \/ SetMsgId(w)
  \/ sendMessage(w) \/ incMsgCount(w) \/ Answer(w)

Next ==
  \/ Replicate
  \/ \E w \in Worker, p \in Pair, t \in 0..MaxTime : Receive(w, p, t)
  \/ \E w \in Worker : Handle(w)
  \/ \E p \in Reader : clearUserCounter(p)
  \/ RedisRestarts
  \/ Crash

Spec == Init /\ [][Next]_vars

-----------------------------------------------------------------------------
(* Properties.                                                               *)

Pc == {"idle", "own", "addOwn", "peer", "addPeer", "id", "max", "set",
       "insert", "count", "answer"}
Msg == [req : Nat, rel : Rel, id : Nat]

\* The types of the variables.
TypeOK ==
  /\ reqs \in Seq([from : Nat, to : Nat, created : Nat])
  /\ task \in [Worker -> [pc : Pc, req : Nat, session : Nat, id : Nat]]
  /\ counter \in [Rel -> Nat]
  /\ unread \in [Reader -> Nat]
  /\ db \in Seq([kind : {"session"}, user : Nat, peer : Nat]
                 \cup [kind : {"message"}, msg : Msg])
  /\ applied \in 0..Len(db)
  /\ answers \subseteq Msg
  /\ faulty \subseteq Rel
  /\ due \in [Reader -> SUBSET Nat]

\* Two stored messages of one relation have different ids, as long as redis has
\* not failed to count them: clients key messages by id and page by it.
IdsUnique ==
  \A i, j \in 1..Len(db) :
    /\ db[i].kind = "message" /\ db[j].kind = "message"
    /\ db[i].msg.rel = db[j].msg.rel /\ db[i].msg.id = db[j].msg.id
    /\ db[i].msg.rel \notin faulty
    => i = j

\* A message in the table is in the recipient's list of sessions, whatever failed
\* on the way: getRecentSession is the only way to a conversation not yet known.
StoredHasPeerSession ==
  \A i \in 1..Len(db) : db[i].kind = "message" =>
    LET m == reqs[db[i].msg.req] IN Sessions(i, m.to, m.from) # {}

\* The unread count of a reader is never less than the messages stored since the
\* last clear, but for those still to be counted: a clear that overtakes the
\* count of a message may leave one too many, never one too few.
UnreadCoversDue ==
  \A p \in Reader : Cardinality(due[p] \ Counting(p)) <= unread[p]

\* The store implements MsgLog.
stored == {db[i].msg : i \in {j \in 1..Len(db) : db[j].kind = "message"}}
Log == INSTANCE MsgLog WITH stored <- stored, answered <- answers, suspect <- faulty
LogKept == Log!Spec

\* CMessageModel::getMessage on the slave: up to cnt messages with ids up to
\* begin, the latest by creation time and then by row.
Later(i, j) ==
  LET ci == reqs[db[i].msg.req].created
      cj == reqs[db[j].msg.req].created
  IN ci > cj \/ (ci = cj /\ i > j)
getMessage(r, begin, cnt) ==
  LET upTo == {i \in Messages(applied, r) : db[i].msg.id <= begin}
  IN {db[i].msg.id : i \in {j \in upTo : Cardinality({k \in upTo : Later(k, j)}) < cnt}}

\* When the lowest id of a page is not the one computed from its first id and its
\* size, messages are missing on the server (IM.Message.proto, IMGetMsgListRsp).
GapMeansLost ==
  applied = Len(db) =>
    \A r \in Rel, begin \in 1..MaxReq : \A cnt \in 1..begin :
      LET have == {db[i].msg.id : i \in Messages(applied, r)}
          page == getMessage(r, begin, cnt)
          lowest == begin - cnt + 1
      IN lowest..begin \subseteq have => lowest \in page /\ \A k \in page : lowest <= k

=============================================================================
