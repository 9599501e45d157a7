-------------------------- MODULE ChatStoreProofs --------------------------
(* ChatStore implements MsgLog, and its message ids are unique, for any       *)
(* number of workers, chats and messages and whatever fails.                  *)
EXTENDS ChatStore, FiniteSetTheorems, TLAPS

-----------------------------------------------------------------------------
(* The inductive invariant *)

Busy(w) == task[w].pc # "idle"

\* The messages that may carry an id: stored, answered or under way.
Held == stored \cup answers \cup {Record(w) : w \in {v \in Worker : Busy(v)}}

ReqShape ==
  /\ \A q \in 1..Len(reqs) : <<reqs[q].from, reqs[q].to>> \in Pair
  /\ \A w \in Worker : Busy(w) => task[w].req \in 1..Len(reqs)
  /\ \A m \in stored \cup answers : m.req \in 1..Len(reqs)

\* Every request is with one worker, and is answered by none before.
Apart ==
  /\ \A v, w \in Worker : Busy(v) /\ Busy(w) /\ task[v].req = task[w].req => v = w
  /\ \A m \in answers, w \in Worker : Busy(w) => m.req # task[w].req

\* Every request is stored at most once, and as its worker remembers it.
Once ==
  /\ \A i, j \in 1..Len(db) :
       /\ db[i].kind = "message" /\ db[j].kind = "message"
       /\ db[i].msg.req = db[j].msg.req
       => i = j
  /\ \A m \in stored, w \in Worker :
       Busy(w) /\ m.req = task[w].req => task[w].pc \in {"count", "answer"} /\ m = Record(w)

\* When a task has an id and a session.
Phases ==
  /\ \A w \in Worker : task[w].pc \in {"own", "addOwn", "peer", "addPeer", "id", "max"} => task[w].id = 0
  /\ \A w \in Worker : task[w].pc \in {"set", "insert", "count"} => task[w].id # 0
  /\ \A w \in Worker : task[w].pc \in {"max", "set", "insert"} => task[w].session # 0
  /\ \A w \in Worker : task[w].pc \in {"max", "set"} => RelOf(w) \in faulty
  /\ \A m \in stored : m.id # 0

\* An id has one owner, and the counter has passed it.
IdsOwn ==
  \A m, n \in Held :
    m.rel = n.rel /\ m.rel \notin faulty /\ m.id = n.id /\ m.id # 0 => m.req = n.req
IdsCounted ==
  \A m \in Held : m.rel \notin faulty => m.id <= counter[m.rel]

\* A task that found its session has also found or added the recipient's.
PeerListed ==
  \A w \in Worker :
    task[w].pc \in {"id", "max", "set", "insert"} /\ task[w].session # 0
      => Sessions(Len(db), To(w), From(w)) # {}

IInv == /\ TypeOK /\ ReqShape /\ Apart /\ Once /\ Phases
        /\ IdsOwn /\ IdsCounted /\ PeerListed /\ StoredHasPeerSession

\* The recipient of the message in entry i had a session before it.
PeerSessionOf(i) ==
  \E k \in 1..i : /\ db[k].kind = "session"
                  /\ db[k].user = reqs[db[i].msg.req].to
                  /\ db[k].peer = reqs[db[i].msg.req].from

Task == [pc : Pc, req : Nat, session : Nat, id : Nat]
Entry == [kind : {"session"}, user : Nat, peer : Nat] \cup [kind : {"message"}, msg : Msg]

-----------------------------------------------------------------------------
(* Facts about the operators *)

\* Relations and readers of a request.
LEMMA Related ==
    ASSUME NEW p \in Pair
    PROVE  /\ RelationId(p[1], p[2]) \in Rel /\ <<p[2], p[1]>> \in Reader
           /\ p[1] \in Nat /\ p[2] \in Nat /\ p = <<p[1], p[2]>>
  BY PairAssumption DEF Rel, Reader

\* The request of a busy worker is of a pair, and its message is well typed.
LEMMA TaskRelated ==
    ASSUME TypeOK, ReqShape, NEW w \in Worker, Busy(w)
    PROVE  /\ RelOf(w) \in Rel /\ Readers(w) \in Reader
           /\ From(w) \in Nat /\ To(w) \in Nat /\ Record(w) \in Msg
  <1>1. task[w].req \in 1..Len(reqs) /\ task[w] \in Task
    BY DEF ReqShape, TypeOK, Task
  <1>2. <<From(w), To(w)>> \in Pair
    BY <1>1 DEF ReqShape, From, To
  <1>3. RelOf(w) \in Rel /\ Readers(w) \in Reader /\ From(w) \in Nat /\ To(w) \in Nat
    BY <1>2, Related DEF RelOf, Readers
  <1>4. Record(w) \in Msg
    BY <1>1, <1>3 DEF Record, Msg, Task
  <1>5. QED
    BY <1>3, <1>4

\* Highest gives 0 or an element.
LEMMA HighestIn ==
    ASSUME NEW S, S \subseteq Nat, NEW x \in Highest(S)
    PROVE  x \in Nat /\ (x # 0 => x \in S)
  BY DEF Highest

\* A session found on the slave is on the master.
LEMMA SessionFound ==
    ASSUME TypeOK, NEW u, NEW p, NEW s \in getSessionId(u, p)
    PROVE  s \in Nat /\ (s # 0 => s \in Sessions(Len(db), u, p))
  <1>1. Sessions(applied, u, p) \subseteq Nat
    BY DEF Sessions, TypeOK
  <1>2. s \in Highest(Sessions(applied, u, p)) \/ s = 0
    BY DEF getSessionId
  <1>3. s # 0 => s \in Sessions(applied, u, p)
    BY <1>1, <1>2, HighestIn
  <1>4. applied \in Nat /\ Len(db) \in Nat /\ applied <= Len(db)
    BY DEF TypeOK
  <1>5. Sessions(applied, u, p) \subseteq Sessions(Len(db), u, p)
    BY <1>4 DEF Sessions
  <1>6. QED
    BY <1>1, <1>3, <1>5, <1>2

\* An entry of the log is a session or a message.
LEMMA EntryKind ==
    ASSUME TypeOK, NEW i \in 1..Len(db)
    PROVE  /\ db[i].kind \in {"session", "message"}
           /\ db[i].kind = "message" => db[i].msg \in Msg
  <1>1. db[i] \in Entry
    BY DEF TypeOK, Entry
  <1>2. QED
    BY <1>1 DEF Entry

\* What is stored are messages.
LEMMA StoredMsg == ASSUME TypeOK PROVE stored \subseteq Msg
  BY EntryKind DEF stored

\* What appending to the log does to the entries and to the messages stored.
LEMMA AppendEntry ==
    ASSUME TypeOK, NEW e \in Entry, db' = Append(db, e)
    PROVE  /\ Len(db') = Len(db) + 1 /\ db' \in Seq(Entry)
           /\ \A i \in 1..Len(db) : db'[i] = db[i]
           /\ db'[Len(db) + 1] = e
           /\ e.kind = "session" => stored' = stored
           /\ e.kind = "message" => stored' = stored \cup {e.msg}
  <1>0. db \in Seq(Entry) /\ Len(db) \in Nat
    BY DEF TypeOK, Entry
  <1>1. /\ Len(db') = Len(db) + 1 /\ db' \in Seq(Entry)
        /\ \A i \in 1..Len(db) : db'[i] = db[i]
        /\ db'[Len(db) + 1] = e
    BY <1>0
  <1>2. \A m : m \in stored' <=> \E i \in 1..Len(db') : db'[i].kind = "message" /\ db'[i].msg = m
    BY DEF stored
  <1>3. \A m : m \in stored <=> \E i \in 1..Len(db) : db[i].kind = "message" /\ db[i].msg = m
    BY DEF stored
  <1>4. \A m : m \in stored' <=> m \in stored \/ (e.kind = "message" /\ e.msg = m)
    <2>1. 1..Len(db') = (1..Len(db)) \cup {Len(db) + 1}
      BY <1>0, <1>1
    <2>2. QED
      BY <2>1, <1>1, <1>2, <1>3
  <1>5. e.kind = "session" => stored' = stored
    <2>1. SUFFICES ASSUME e.kind = "session" PROVE stored' = stored
      OBVIOUS
    <2>2. QED
      BY <2>1, <1>4
  <1>6. e.kind = "message" => stored' = stored \cup {e.msg}
    BY <1>4
  <1>7. QED
    BY <1>1, <1>5, <1>6

LEMMA PeerSessions ==
    StoredHasPeerSession <=> \A i \in 1..Len(db) : db[i].kind = "message" => PeerSessionOf(i)
  BY DEF StoredHasPeerSession, Sessions, PeerSessionOf

\* Without an insert the messages stored are the same.
LEMMA SameStored == ASSUME db' = db PROVE stored' = stored
  BY DEF stored

\* The three ways a worker goes on leave it with the same request.
Moved(w, pc, s, i) ==
  /\ task' \in [Worker -> Task]
  /\ task'[w] = [pc |-> pc, req |-> task[w].req, session |-> s, id |-> i]
  /\ \A v \in Worker : v # w => task'[v] = task[v]

\* What Goes, Go, GoSession and GoId do to task.
LEMMA GoMoves ==
    ASSUME TypeOK, NEW w \in Worker, NEW pc \in Pc, NEW n \in Nat
    PROVE  /\ Go(w, pc) => Moved(w, pc, task[w].session, task[w].id)
           /\ GoSession(w, pc, n) => Moved(w, pc, n, task[w].id)
           /\ GoId(w, pc, n) => Moved(w, pc, task[w].session, n)
  <1>0. task \in [Worker -> Task] /\ task[w] \in Task
    BY DEF TypeOK, Task
  <1>1. ASSUME NEW s \in Nat, NEW i \in Nat, Goes(w, pc, s, i)
        PROVE  Moved(w, pc, s, i)
    <2> DEFINE t == [pc |-> pc, req |-> task[w].req, session |-> s, id |-> i]
    <2>1. t \in Task /\ task' = [task EXCEPT ![w] = t]
      BY <1>0, <1>1 DEF Task, Goes
    <2> HIDE DEF t
    <2>2. task' \in [Worker -> Task] /\ task'[w] = t /\ \A v \in Worker : v # w => task'[v] = task[v]
      BY <1>0, <2>1
    <2>3. QED
      BY <2>2 DEF Moved, t
  <1>2. task[w].session \in Nat /\ task[w].id \in Nat
    BY <1>0 DEF Task
  <1>3. QED
    BY <1>1, <1>2 DEF Go, GoSession, GoId

-----------------------------------------------------------------------------
(* Types *)

\* addSession inserts a row, or goes on with one that is there, or with none.
LEMMA SessionAdded ==
    ASSUME TypeOK, NEW w \in Worker, NEW u, NEW p, NEW pc, addSession(w, u, p, pc)
    PROVE  \/ /\ db' = Append(db, [kind |-> "session", user |-> u, peer |-> p])
              /\ GoSession(w, pc, Len(db) + 1)
           \/ /\ db' = db
              /\ \E s \in Nat : /\ GoSession(w, pc, s)
                                /\ s # 0 => s \in Sessions(Len(db), u, p)
  <1>1. /\ Sessions(applied, u, p) \subseteq Sessions(Len(db), u, p)
        /\ Sessions(applied, u, p) \subseteq Nat
    BY DEF Sessions, TypeOK
  <1>2. CASE db' = db /\ \E s \in Sessions(applied, u, p) \cup {0} : GoSession(w, pc, s)
    BY <1>1, <1>2
  <1>3. QED
    BY <1>2 DEF addSession

LEMMA AddSessionType ==
    ASSUME TypeOK, NEW w \in Worker, NEW u \in Nat, NEW p \in Nat, NEW pc \in Pc,
           addSession(w, u, p, pc)
    PROVE  TypeOK'
  <1> DEFINE e == [kind |-> "session", user |-> u, peer |-> p]
  <1>0. UNCHANGED <<reqs, counter, unread, applied, answers, faulty, due>> /\ Len(db) \in Nat
        /\ task \in [Worker -> Task] /\ db \in Seq(Entry)
    BY DEF addSession, TypeOK, Task, Entry
  <1>1. CASE db' = Append(db, e) /\ GoSession(w, pc, Len(db) + 1)
    <2>1. e \in Entry
      BY DEF Entry
    <2>2. db' \in Seq(Entry) /\ Len(db') = Len(db) + 1
      BY <1>1, <2>1, AppendEntry
    <2> DEFINE n == Len(db) + 1
    <2>3. task' \in [Worker -> Task]
      <3>1. n \in Nat
        BY <1>0
      <3> HIDE DEF n
      <3>2. Moved(w, pc, n, task[w].id)
        BY <3>1, <1>1, GoMoves DEF n
      <3>3. QED
        BY <3>2 DEF Moved
    <2>4. applied' \in 0..Len(db')
      BY <1>0, <2>2 DEF TypeOK
    <2>5. QED
      BY <1>0, <2>2, <2>3, <2>4 DEF TypeOK, Task, Entry
  <1>2. CASE db' = db /\ \E s \in Nat : GoSession(w, pc, s)
    <2>1. task' \in [Worker -> Task]
      BY <1>0, <1>2, GoMoves DEF Moved
    <2>2. QED
      BY <1>0, <1>2, <2>1 DEF TypeOK, Task
  <1>3. QED
    BY <1>1, <1>2, SessionAdded

\* A worker's step to pc keeps the invariant when the session s and the id i it
\* goes on with are as that pc demands.
LEMMA MoveKept ==
    ASSUME IInv, TypeOK', NEW w \in Worker, Busy(w),
           NEW pc \in Pc \ {"idle"}, NEW s \in Nat, NEW i \in Nat, Moved(w, pc, s, i),
           reqs' = reqs, answers' = answers,
           db' = db \/ \E e \in Entry : e.kind = "session" /\ db' = Append(db, e),
           faulty \subseteq faulty',
           \A r \in Rel \ faulty' : counter[r] <= counter'[r],
           task[w].pc \in {"count", "answer"} => pc \in {"count", "answer"} /\ i = task[w].id,
           pc \in {"own", "addOwn", "peer", "addPeer", "id", "max"} => i = 0,
           pc \in {"set", "insert", "count"} => i # 0,
           pc \in {"max", "set", "insert"} => s # 0,
           pc \in {"max", "set"} => RelOf(w) \in faulty',
           i = task[w].id \/ RelOf(w) \in faulty'
             \/ (i <= counter'[RelOf(w)] /\ \A m \in Held : m.rel = RelOf(w) => m.id < i),
           pc \in {"id", "max", "set", "insert"} /\ s # 0
             => Sessions(Len(db), To(w), From(w))' # {}
    PROVE  IInv'
  <1>0. /\ TypeOK /\ ReqShape /\ Apart /\ Once /\ Phases
        /\ IdsOwn /\ IdsCounted /\ PeerListed /\ StoredHasPeerSession
        /\ task \in [Worker -> Task] /\ Len(db) \in Nat
    <2>1. /\ TypeOK /\ ReqShape /\ Apart /\ Once /\ Phases
          /\ IdsOwn /\ IdsCounted /\ PeerListed /\ StoredHasPeerSession
      BY DEF IInv
    <2>2. QED
      BY <2>1 DEF TypeOK, Task
  <1>1. /\ stored' = stored
        /\ Len(db) <= Len(db') /\ Len(db') \in Nat
        /\ \A j \in 1..Len(db) : db'[j] = db[j]
        /\ \A j \in 1..Len(db') : j \notin 1..Len(db) => db'[j].kind = "session"
    <2>1. CASE db' = db
      BY <2>1, <1>0, SameStored
    <2>2. CASE \E e \in Entry : e.kind = "session" /\ db' = Append(db, e)
      <3>1. PICK e \in Entry : e.kind = "session" /\ db' = Append(db, e)
        BY <2>2
      <3>2. QED
        BY <3>1, <1>0, AppendEntry
    <2>3. QED
      BY <2>1, <2>2
  <1>2. /\ task'[w] = [pc |-> pc, req |-> task[w].req, session |-> s, id |-> i]
        /\ \A v \in Worker : v # w => task'[v] = task[v]
        /\ \A v \in Worker : task'[v].req = task[v].req
    BY DEF Moved
  <1>3. \A v \in Worker : (Busy(v)' <=> Busy(v)) /\ From(v)' = From(v) /\ To(v)' = To(v) /\ RelOf(v)' = RelOf(v)
    BY <1>2 DEF Busy, From, To, RelOf
  <1>4. /\ \A v \in Worker : v # w => Record(v)' = Record(v)
        /\ Record(w)' = [req |-> task[w].req, rel |-> RelOf(w), id |-> i]
    BY <1>2, <1>3 DEF Record
  <1>5. \A m \in Held' : m \in Held \/ m = Record(w)'
    BY <1>1, <1>3, <1>4 DEF Held
  <1>6. Record(w) \in Held /\ Held \subseteq Msg /\ Record(w) \in Msg /\ Record(w)' \in Msg
    <2>1. \A v \in Worker : Busy(v) => Record(v) \in Msg
      BY <1>0, TaskRelated
    <2>2. Held \subseteq Msg
      BY <2>1, <1>0, StoredMsg DEF Held, TypeOK
    <2>3. QED
      BY <2>1, <2>2, <1>4, <1>0 DEF Held, Record, Msg
  <1>7. ReqShape' /\ Apart'
    <2>1. ReqShape'
      BY <1>0, <1>1, <1>2, <1>3 DEF ReqShape
    <2>2. Apart'
      BY <1>0, <1>2, <1>3 DEF Apart
    <2>3. QED
      BY <2>1, <2>2
  <1>8. Once'
    <2>1. \A j, k \in 1..Len(db') :
            /\ db'[j].kind = "message" /\ db'[k].kind = "message"
            /\ db'[j].msg.req = db'[k].msg.req
            => j = k
      BY <1>0, <1>1 DEF Once
    <2>2. \A m \in stored, v \in Worker :
            Busy(v) /\ m.req = task[v].req => task'[v].pc \in {"count", "answer"} /\ m = Record(v)'
      <3>1. SUFFICES ASSUME NEW m \in stored, NEW v \in Worker, Busy(v), m.req = task[v].req
                     PROVE  task'[v].pc \in {"count", "answer"} /\ m = Record(v)'
        OBVIOUS
      <3>2. task[v].pc \in {"count", "answer"} /\ m = Record(v)
        BY <3>1, <1>0 DEF Once
      <3>3. CASE v = w
        BY <3>2, <3>3, <1>2, <1>4 DEF Record
      <3>4. CASE v # w
        BY <3>2, <3>4, <1>2, <1>4
      <3>5. QED
        BY <3>3, <3>4
    <2>3. QED
      BY <2>1, <2>2, <1>1, <1>2, <1>3 DEF Once
  <1>9. Phases'
    BY <1>0, <1>1, <1>2, <1>3 DEF Phases
  <1>10. IdsOwn'
    <2>1. SUFFICES ASSUME NEW m \in Held', NEW n \in Held', m.rel = n.rel, m.rel \notin faulty',
                          m.id = n.id, m.id # 0
                   PROVE  m.req = n.req
      BY DEF IdsOwn
    <2>2. CASE m \in Held /\ n \in Held
      BY <2>1, <2>2, <1>0 DEF IdsOwn
    <2>3. CASE i = task[w].id
      <3>1. Record(w)' = Record(w)
        BY <2>3, <1>4 DEF Record
      <3>2. m \in Held /\ n \in Held
        BY <3>1, <1>5, <1>6
      <3>3. QED
        BY <3>2, <2>2
    <2>4. CASE \A k \in Held : k.rel = RelOf(w) => k.id < i
      <3>1. \A k \in Held : k.rel = RelOf(w) => k.id # i
        BY <2>4, <1>6 DEF Msg
      <3>2. QED
        BY <3>1, <2>1, <2>2, <1>4, <1>5
    <2>5. CASE RelOf(w) \in faulty'
      BY <2>5, <2>1, <2>2, <1>4, <1>5
    <2>6. QED
      BY <2>3, <2>4, <2>5
  <1>11. IdsCounted'
    <2>1. SUFFICES ASSUME NEW m \in Held', m.rel \notin faulty'
                   PROVE  m.id <= counter'[m.rel]
      BY DEF IdsCounted
    <2>2. m.rel \in Rel /\ m.id \in Nat /\ counter[m.rel] \in Nat /\ counter'[m.rel] \in Nat
      <3>1. m \in Msg
        BY <1>5, <1>6
      <3>2. m.rel \in Rel /\ m.id \in Nat
        BY <3>1 DEF Msg
      <3>3. QED
        BY <3>2, <1>0 DEF TypeOK
    <2>3. CASE m \in Held
      <3>1. m.id <= counter[m.rel]
        BY <2>1, <2>3, <1>0 DEF IdsCounted
      <3>2. counter[m.rel] <= counter'[m.rel]
        BY <2>1, <2>2
      <3>3. QED
        BY <3>1, <3>2, <2>2
    <2>4. CASE m = Record(w)' /\ m \notin Held
      <3>1. i # task[w].id
        BY <2>4, <1>4, <1>6 DEF Record
      <3>2. QED
        BY <3>1, <2>1, <2>4, <1>4
    <2>5. QED
      BY <2>3, <2>4, <1>5
  <1>12. PeerListed'
    <2>1. SUFFICES ASSUME NEW v \in Worker, task'[v].pc \in {"id", "max", "set", "insert"},
                          task'[v].session # 0
                   PROVE  Sessions(Len(db), To(v), From(v))' # {}
      BY DEF PeerListed
    <2>2. CASE v = w
      BY <2>1, <2>2, <1>2
    <2>3. CASE v # w
      <3>1. Sessions(Len(db), To(v), From(v)) # {}
        BY <2>1, <2>3, <1>2, <1>0 DEF PeerListed
      <3>2. Sessions(Len(db), To(v), From(v)) \subseteq Sessions(Len(db), To(v), From(v))'
        BY <1>0, <1>1, <1>3 DEF Sessions
      <3>3. QED
        BY <3>1, <3>2
    <2>4. QED
      BY <2>2, <2>3
  <1>13. StoredHasPeerSession'
    <2>1. SUFFICES ASSUME NEW j \in 1..Len(db'), db'[j].kind = "message"
                   PROVE  PeerSessionOf(j)'
      BY DEF StoredHasPeerSession, Sessions, PeerSessionOf
    <2>2. j \in 1..Len(db) /\ db'[j] = db[j] /\ \A k \in 1..j : db'[k] = db[k]
      BY <2>1, <1>1, <1>0
    <2>3. PeerSessionOf(j)
      BY <2>1, <2>2, <1>0, PeerSessions
    <2>4. QED
      BY <2>2, <2>3 DEF PeerSessionOf
  <1>14. QED
    BY <1>7, <1>8, <1>9, <1>10, <1>11, <1>12, <1>13 DEF IInv

-----------------------------------------------------------------------------
(* One lemma per step of a handler *)

LEMMA FindOwnKept ==
    ASSUME IInv, NEW w \in Worker, FindOwn(w)
    PROVE  IInv'
  <1>0. /\ TypeOK /\ ReqShape /\ Phases /\ task[w].pc = "own" /\ Busy(w) /\ task[w].id = 0
        /\ UNCHANGED <<reqs, counter, unread, db, applied, answers, faulty, due>>
    BY DEF IInv, FindOwn, Busy, Phases
  <1>1. PICK s \in getSessionId(From(w), To(w)) :
          GoSession(w, IF s = 0 THEN "addOwn" ELSE "peer", s)
    BY DEF FindOwn
  <1> DEFINE pc == IF s = 0 THEN "addOwn" ELSE "peer"
  <1>2. s \in Nat /\ pc \in {"addOwn", "peer"} /\ pc \in Pc \ {"idle"}
    BY <1>0, <1>1, SessionFound DEF Pc
  <1>3. GoSession(w, pc, s)
    BY <1>1
  <1> HIDE DEF pc
  <1>4. Moved(w, pc, s, 0)
    BY <1>0, <1>2, <1>3, GoMoves
  <1>5. TypeOK'
    BY <1>0, <1>4 DEF TypeOK, Moved, Task
  <1>6. \A r \in Rel : counter[r] <= counter'[r]
    BY <1>0, <1>5 DEF TypeOK
  <1>7. QED
    BY <1>0, <1>2, <1>4, <1>5, <1>6, MoveKept

\* Looking up the recipient's session preserves IInv.
LEMMA FindPeerKept ==
    ASSUME IInv, NEW w \in Worker, FindPeer(w)
    PROVE  IInv'
  <1>0. /\ TypeOK /\ ReqShape /\ Phases /\ task[w].pc = "peer" /\ Busy(w) /\ task[w].id = 0
        /\ task[w].session \in Nat
        /\ UNCHANGED <<reqs, counter, unread, db, applied, answers, faulty, due>>
    BY DEF IInv, FindPeer, Busy, Phases, TypeOK
  <1>1. PICK s \in getSessionId(To(w), From(w)) : Go(w, IF s = 0 THEN "addPeer" ELSE "id")
    BY DEF FindPeer
  <1> DEFINE pc == IF s = 0 THEN "addPeer" ELSE "id"
  <1>2. /\ pc \in {"addPeer", "id"} /\ pc \in Pc \ {"idle"}
        /\ pc = "id" => Sessions(Len(db), To(w), From(w)) # {}
    <2>1. s # 0 => s \in Sessions(Len(db), To(w), From(w))
      BY <1>0, <1>1, SessionFound
    <2>2. QED
      BY <2>1 DEF Pc
  <1>3. Go(w, pc)
    BY <1>1
  <1> HIDE DEF pc
  <1>4. Moved(w, pc, task[w].session, 0)
    BY <1>0, <1>2, <1>3, GoMoves
  <1>5. TypeOK'
    BY <1>0, <1>4 DEF TypeOK, Moved, Task
  <1>6. \A r \in Rel : counter[r] <= counter'[r]
    BY <1>0, <1>5 DEF TypeOK
  <1>7. pc = "id" => Sessions(Len(db), To(w), From(w))' # {}
    <2>1. Sessions(Len(db), To(w), From(w))' = Sessions(Len(db), To(w), From(w))
      BY <1>0, <1>4 DEF Sessions, To, From, Moved
    <2>2. QED
      BY <2>1, <1>2
  <1>8. QED
    BY <1>0, <1>2, <1>4, <1>5, <1>6, <1>7, MoveKept

\* A session added for the recipient is there when the handler goes on.
LEMMA AddSessionKept ==
    ASSUME IInv, NEW w \in Worker,
           AddOwn(w) \/ AddPeer(w)
    PROVE  IInv'
  <1>0. /\ TypeOK /\ ReqShape /\ Phases /\ Busy(w) /\ task[w].id = 0 /\ Len(db) \in Nat
        /\ task[w].pc \in {"addOwn", "addPeer"}
    BY DEF IInv, AddOwn, AddPeer, Busy, Phases, TypeOK
  <1>1. PICK u \in Nat, p \in Nat, pc \in Pc :
          /\ addSession(w, u, p, pc)
          /\ pc = "peer" \/ (pc = "id" /\ u = To(w) /\ p = From(w))
    <2>1. From(w) \in Nat /\ To(w) \in Nat
      BY <1>0, TaskRelated
    <2>2. "peer" \in Pc /\ "id" \in Pc
      BY DEF Pc
    <2>3. QED
      BY <2>1, <2>2 DEF AddOwn, AddPeer
  <1> DEFINE e == [kind |-> "session", user |-> u, peer |-> p]
  <1>2. UNCHANGED <<reqs, counter, unread, applied, answers, faulty, due>>
    BY <1>1 DEF addSession
  <1>3. TypeOK'
    BY <1>0, <1>1, AddSessionType
  <1>4. \A r \in Rel : counter[r] <= counter'[r]
    BY <1>0, <1>2, <1>3 DEF TypeOK
  <1>5. pc \in Pc \ {"idle"}
    BY <1>1
  <1>6. CASE db' = Append(db, e) /\ GoSession(w, pc, Len(db) + 1)
    <2> DEFINE n == Len(db) + 1
    <2>1. n \in Nat /\ n # 0 /\ e \in Entry /\ e.kind = "session"
      BY <1>0 DEF Entry
    <2>2. GoSession(w, pc, n)
      BY <1>6
    <2>3. Len(db') = n /\ db'[n] = e
      BY <1>6, <1>0, <2>1, AppendEntry
    <2> HIDE DEF n
    <2>4. Moved(w, pc, n, 0)
      BY <1>0, <2>1, <2>2, GoMoves
    <2>5. pc = "id" => Sessions(Len(db), To(w), From(w))' # {}
      <3>1. pc = "id" => n \in Sessions(Len(db), To(w), From(w))'
        <4>1. To(w)' = To(w) /\ From(w)' = From(w)
          BY <1>2, <2>4 DEF To, From, Moved
        <4>2. n \in 1..Len(db')
          BY <2>1, <2>3
        <4>3. QED
          BY <4>1, <4>2, <2>3, <1>1 DEF Sessions
      <3>2. QED
        BY <3>1
    <2> HIDE DEF e
    <2>6. \E en \in Entry : en.kind = "session" /\ db' = Append(db, en)
      BY <2>1, <1>6
    <2>7. QED
      BY <1>0, <1>1, <1>2, <1>3, <1>4, <1>5, <2>1, <2>4, <2>5, <2>6, MoveKept
  <1>7. ASSUME db' = db, NEW s \in Nat, GoSession(w, pc, s),
               s # 0 => s \in Sessions(Len(db), u, p)
        PROVE  IInv'
    <2>1. Moved(w, pc, s, 0)
      BY <1>0, <1>7, GoMoves
    <2>2. pc = "id" /\ s # 0 => Sessions(Len(db), To(w), From(w))' # {}
      <3>1. Sessions(Len(db), To(w), From(w))' = Sessions(Len(db), To(w), From(w))
        BY <1>2, <1>7, <2>1 DEF Sessions, To, From, Moved
      <3>2. CASE pc = "id" /\ s # 0
        <4>1. u = To(w) /\ p = From(w)
          BY <1>1, <3>2
        <4>2. s \in Sessions(Len(db), To(w), From(w))
          BY <1>7, <3>2, <4>1
        <4>3. QED
          BY <3>1, <4>2
      <3>3. QED
        BY <3>2
    <2>3. QED
      BY <1>0, <1>1, <1>2, <1>3, <1>4, <1>5, <1>7, <2>1, <2>2, MoveKept
  <1>8. QED
    BY <1>0, <1>1, <1>6, <1>7, SessionAdded

\* Refusing a message without a session preserves IInv.
LEMMA NoSessionKept ==
    ASSUME IInv, NEW w \in Worker, NoSession(w)
    PROVE  IInv'
  <1>0. /\ TypeOK /\ Phases /\ task[w].pc = "id" /\ Busy(w) /\ task[w].id = 0
        /\ task[w].session \in Nat
        /\ UNCHANGED <<reqs, counter, unread, db, applied, answers, faulty, due>>
        /\ "answer" \in Pc \ {"idle"}
    BY DEF IInv, NoSession, Busy, Phases, TypeOK, Pc
  <1>1. Moved(w, "answer", task[w].session, 0)
    BY <1>0, GoMoves DEF NoSession
  <1>2. TypeOK'
    BY <1>0, <1>1 DEF TypeOK, Moved, Task
  <1>3. \A r \in Rel : counter[r] <= counter'[r]
    BY <1>0, <1>2 DEF TypeOK
  <1>4. QED
    BY <1>0, <1>1, <1>2, <1>3, MoveKept

\* The counter has passed every id of its relation, so the next one is new.
LEMMA getMsgIdKept ==
    ASSUME IInv, NEW w \in Worker, getMsgId(w)
    PROVE  IInv'
  <1>0. /\ TypeOK /\ ReqShape /\ Phases /\ IdsCounted /\ PeerListed
        /\ task[w].pc = "id" /\ Busy(w) /\ task[w].id = 0
        /\ task[w].session \in Nat /\ task[w].session # 0
        /\ UNCHANGED <<reqs, unread, db, applied, answers, due>>
        /\ "insert" \in Pc \ {"idle"} /\ "max" \in Pc \ {"idle"}
    BY DEF IInv, getMsgId, Busy, Phases, TypeOK, Pc
  <1> DEFINE r == RelOf(w)
  <1>1. r \in Rel /\ counter \in [Rel -> Nat] /\ faulty \subseteq Rel /\ UintMax \in Nat \ {0}
    BY <1>0, TaskRelated, BoundAssumption DEF TypeOK
  <1>2. ASSUME NEW pc \in Pc, NEW i \in Nat, Moved(w, pc, task[w].session, i)
        PROVE  Sessions(Len(db), To(w), From(w))' # {}
    <2>1. Sessions(Len(db), To(w), From(w))' = Sessions(Len(db), To(w), From(w))
      BY <1>0, <1>2 DEF Sessions, To, From, Moved
    <2>2. QED
      BY <2>1, <1>0 DEF PeerListed
  <1>3. CASE /\ counter' = [counter EXCEPT ![r] = @ + 1]
             /\ GoId(w, "insert", counter[r] + 1)
             /\ faulty' = faulty
    <2> DEFINE i == counter[r] + 1
    <2>1. i \in Nat /\ i # 0 /\ counter' \in [Rel -> Nat] /\ counter'[r] = i
          /\ \A x \in Rel : counter[x] <= counter'[x]
      BY <1>1, <1>3
    <2>2. r \notin faulty => \A m \in Held : m.rel = r => m.id < i
      <3>1. SUFFICES ASSUME r \notin faulty, NEW m \in Held, m.rel = r PROVE m.id < i
        OBVIOUS
      <3>2. m.id <= counter[r]
        BY <3>1, <1>0 DEF IdsCounted
      <3>3. m \in Msg
        BY <1>0, StoredMsg, TaskRelated DEF Held, TypeOK
      <3>4. QED
        BY <3>2, <3>3, <1>1 DEF Msg
    <2>3. GoId(w, "insert", i)
      BY <1>3
    <2> HIDE DEF i
    <2>4. Moved(w, "insert", task[w].session, i)
      BY <1>0, <2>1, <2>3, GoMoves
    <2>5. TypeOK'
      BY <1>0, <1>1, <1>3, <2>1, <2>4 DEF TypeOK, Moved, Task
    <2>6. i <= counter'[r]
      BY <2>1
    <2>7. Sessions(Len(db), To(w), From(w))' # {}
      BY <1>0, <1>2, <2>1, <2>4
    <2>8. QED
      BY <1>0, <1>1, <1>3, <2>1, <2>2, <2>4, <2>5, <2>6, <2>7, MoveKept
  <1>4. ASSUME faulty' = faulty \cup {r}, counter' = counter,
               NEW pc \in {"insert", "max"}, NEW i \in {0, UintMax}, pc = "insert" <=> i # 0,
               Moved(w, pc, task[w].session, i)
        PROVE  IInv'
    <2>1. TypeOK'
      BY <1>0, <1>1, <1>4 DEF TypeOK, Moved, Task
    <2>2. \A x \in Rel : counter[x] <= counter'[x]
      BY <1>1, <1>4
    <2>3. pc \in Pc \ {"idle"} /\ i \in Nat /\ r \in faulty' /\ faulty \subseteq faulty'
      BY <1>0, <1>1, <1>4
    <2>4. Sessions(Len(db), To(w), From(w))' # {}
      BY <1>2, <1>4, <2>3
    <2>5. QED
      BY <1>0, <1>4, <2>1, <2>2, <2>3, <2>4, MoveKept
  <1>5. CASE GoId(w, "insert", UintMax) /\ faulty' = faulty \cup {r} /\ counter' = counter
    <2>1. Moved(w, "insert", task[w].session, UintMax)
      BY <1>0, <1>1, <1>5, GoMoves
    <2>2. QED
      BY <2>1, <1>1, <1>4, <1>5
  <1>6. CASE Go(w, "max") /\ faulty' = faulty \cup {r} /\ counter' = counter
    <2>1. Moved(w, "max", task[w].session, 0)
      BY <1>0, <1>6, GoMoves
    <2>2. QED
      BY <2>1, <1>4, <1>6
  <1>7. QED
    BY <1>3, <1>5, <1>6 DEF getMsgId

\* In the phases with a session, the recipient's stays listed.
LEMMA StillListed ==
    ASSUME IInv, NEW w \in Worker, task[w].pc \in {"max", "set"},
           reqs' = reqs, db' = db, task'[w].req = task[w].req
    PROVE  Sessions(Len(db), To(w), From(w))' # {}
  <1>1. Sessions(Len(db), To(w), From(w)) # {}
    BY DEF IInv, PeerListed, Phases
  <1>2. Sessions(Len(db), To(w), From(w))' = Sessions(Len(db), To(w), From(w))
    BY DEF Sessions, To, From
  <1>3. QED
    BY <1>1, <1>2

\* The fall-back id 1 preserves IInv: its relation is faulty.
LEMMA MaxMsgIdKept ==
    ASSUME IInv, NEW w \in Worker, MaxMsgId(w)
    PROVE  IInv'
  <1>0. /\ TypeOK /\ ReqShape /\ Phases
        /\ task[w].pc = "max" /\ Busy(w) /\ task[w].id = 0 /\ RelOf(w) \in faulty
        /\ task[w].session \in Nat /\ task[w].session # 0
        /\ UNCHANGED <<reqs, counter, unread, db, applied, answers, faulty, due>>
        /\ "set" \in Pc \ {"idle"} /\ "answer" \in Pc \ {"idle"}
    BY DEF IInv, MaxMsgId, Busy, Phases, TypeOK, Pc
  <1>1. ASSUME NEW pc \in {"set", "answer"}, NEW i \in Nat, pc = "set" <=> i # 0,
               Moved(w, pc, task[w].session, i)
        PROVE  IInv'
    <2>1. TypeOK'
      BY <1>0, <1>1 DEF TypeOK, Moved, Task
    <2>2. \A x \in Rel : counter[x] <= counter'[x]
      BY <1>0 DEF TypeOK
    <2>3. Sessions(Len(db), To(w), From(w))' # {}
      BY <1>0, <1>1, StillListed DEF Moved
    <2>4. QED
      BY <1>0, <1>1, <2>1, <2>2, <2>3, MoveKept
  <1>2. CASE GoId(w, "set", 1)
    <2>1. Moved(w, "set", task[w].session, 1)
      BY <1>0, <1>2, GoMoves
    <2>2. QED
      BY <1>1, <2>1
  <1>3. CASE Go(w, "answer")
    <2>1. Moved(w, "answer", task[w].session, 0)
      BY <1>0, <1>3, GoMoves
    <2>2. QED
      BY <1>1, <2>1
  <1>4. QED
    BY <1>2, <1>3 DEF MaxMsgId

\* Setting the counter back preserves IInv: its relation is faulty.
LEMMA SetMsgIdKept ==
    ASSUME IInv, NEW w \in Worker, SetMsgId(w)
    PROVE  IInv'
  <1>0. /\ TypeOK /\ ReqShape /\ Phases
        /\ task[w].pc = "set" /\ Busy(w) /\ task[w].id # 0 /\ RelOf(w) \in faulty
        /\ task[w].session \in Nat /\ task[w].session # 0 /\ task[w].id \in Nat
        /\ UNCHANGED <<reqs, unread, db, applied, answers, faulty, due>>
        /\ "insert" \in Pc \ {"idle"}
    BY DEF IInv, SetMsgId, Busy, Phases, TypeOK, Pc
  <1>1. Moved(w, "insert", task[w].session, task[w].id)
    BY <1>0, GoMoves DEF SetMsgId
  <1>2. counter' \in [Rel -> Nat] /\ \A x \in Rel \ faulty' : counter[x] <= counter'[x]
    <2>1. counter \in [Rel -> Nat]
      BY <1>0 DEF TypeOK
    <2>2. counter' = [counter EXCEPT ![RelOf(w)] = task[w].id] \/ counter' = counter
      BY DEF SetMsgId
    <2>3. QED
      BY <1>0, <2>1, <2>2
  <1>3. TypeOK'
    BY <1>0, <1>1, <1>2 DEF TypeOK, Moved, Task
  <1>4. Sessions(Len(db), To(w), From(w))' # {}
    BY <1>0, <1>1, StillListed DEF Moved
  <1>5. QED
    BY <1>0, <1>1, <1>2, <1>3, <1>4, MoveKept

\* Counting a message preserves IInv.
LEMMA incMsgCountKept ==
    ASSUME IInv, NEW w \in Worker, incMsgCount(w)
    PROVE  IInv'
  <1>0. /\ TypeOK /\ ReqShape /\ Phases /\ task[w].pc = "count" /\ Busy(w)
        /\ task[w].session \in Nat /\ task[w].id \in Nat
        /\ UNCHANGED <<reqs, counter, db, applied, answers, faulty>>
        /\ "answer" \in Pc \ {"idle"}
    BY DEF IInv, incMsgCount, Busy, Phases, TypeOK, Pc
  <1>1. Moved(w, "answer", task[w].session, task[w].id)
    BY <1>0, GoMoves DEF incMsgCount
  <1>2. unread' \in [Reader -> Nat] /\ due' \in [Reader -> SUBSET Nat]
    <2> DEFINE p == Readers(w)
    <2>1. p \in Reader /\ unread \in [Reader -> Nat] /\ due \in [Reader -> SUBSET Nat]
      BY <1>0, TaskRelated DEF TypeOK
    <2>2. \/ unread' = [unread EXCEPT ![p] = @ + 1] /\ due' = due
          \/ unread' = unread /\ due' = [due EXCEPT ![p] = @ \ {task[w].req}]
      BY DEF incMsgCount
    <2> HIDE DEF p
    <2>3. QED
      BY <2>1, <2>2
  <1>3. TypeOK'
    BY <1>0, <1>1, <1>2 DEF TypeOK, Moved, Task
  <1>4. \A x \in Rel : counter[x] <= counter'[x]
    BY <1>0 DEF TypeOK
  <1>5. QED
    BY <1>0, <1>1, <1>3, <1>4, MoveKept

\* The insert turns the task's record into a stored message.
LEMMA InsertKept ==
    ASSUME IInv, NEW w \in Worker, task[w].pc = "insert",
           db' = Append(db, [kind |-> "message", msg |-> Record(w)]),
           due' \in [Reader -> SUBSET Nat],
           Go(w, "count"), UNCHANGED <<reqs, counter, unread, applied, answers, faulty>>
    PROVE  IInv'
  <1>0. /\ TypeOK /\ ReqShape /\ Apart /\ Once /\ Phases /\ PeerListed /\ StoredHasPeerSession
        /\ IdsOwn /\ IdsCounted /\ Busy(w) /\ Len(db) \in Nat
        /\ "count" \in Pc
    BY DEF IInv, Busy, TypeOK, Pc
  <1> DEFINE e == [kind |-> "message", msg |-> Record(w)]
             n == Len(db) + 1
  <1>1. e \in Entry /\ e.kind = "message" /\ e.msg = Record(w)
    BY <1>0, TaskRelated DEF Entry
  <1>2. /\ Len(db') = n /\ db' \in Seq(Entry) /\ db'[n] = e
        /\ \A i \in 1..Len(db) : db'[i] = db[i]
        /\ stored' = stored \cup {Record(w)}
    BY <1>0, <1>1, AppendEntry
  <1>3. n \in Nat /\ 1..n = (1..Len(db)) \cup {n} /\ n \notin 1..Len(db)
    BY <1>0
  <1> HIDE DEF n
  <1>4. /\ Moved(w, "count", task[w].session, task[w].id)
        /\ \A v \in Worker : v # w => task'[v] = task[v]
        /\ \A v \in Worker : task'[v].req = task[v].req /\ task'[v].id = task[v].id
        /\ task'[w].pc = "count"
    <2>1. Moved(w, "count", task[w].session, task[w].id)
      BY <1>0, GoMoves DEF TypeOK
    <2>2. QED
      BY <2>1 DEF Moved
  <1>5. \A v \in Worker : (Busy(v)' <=> Busy(v)) /\ From(v)' = From(v) /\ To(v)' = To(v) /\ RelOf(v)' = RelOf(v)
    BY <1>0, <1>4 DEF Busy, From, To, RelOf
  <1>6. \A v \in Worker : Record(v)' = Record(v)
    BY <1>4, <1>5 DEF Record
  <1>7. Held' = Held
    <2>1. Record(w) \in Held
      BY <1>0 DEF Held
    <2>2. {Record(v) : v \in {x \in Worker : Busy(x)}}' = {Record(v) : v \in {x \in Worker : Busy(x)}}
      BY <1>5, <1>6
    <2>3. QED
      BY <2>1, <2>2, <1>2, <1>0 DEF Held
  <1>8. TypeOK'
    <2>1. applied' \in 0..Len(db')
      BY <1>0, <1>2, <1>3 DEF TypeOK, n
    <2>2. QED
      BY <1>0, <1>2, <1>4, <2>1 DEF TypeOK, Moved, Task, Entry
  <1>9. Record(w).req = task[w].req /\ Record(w).id = task[w].id
    BY DEF Record
  <1>10. ReqShape' /\ Apart'
    <2>1. ReqShape'
      BY <1>0, <1>2, <1>4, <1>5, <1>9 DEF ReqShape
    <2>2. Apart'
      BY <1>0, <1>4, <1>5 DEF Apart
    <2>3. QED
      BY <2>1, <2>2
  <1>11. Once'
    <2>1. \A i \in 1..Len(db) : db[i].kind = "message" => db[i].msg.req # task[w].req
      BY <1>0 DEF Once, stored
    <2>2. \A i, j \in 1..Len(db') :
            /\ db'[i].kind = "message" /\ db'[j].kind = "message"
            /\ db'[i].msg.req = db'[j].msg.req
            => i = j
      BY <2>1, <1>0, <1>1, <1>2, <1>3, <1>9 DEF Once
    <2>3. \A m \in stored', v \in Worker :
            Busy(v) /\ m.req = task[v].req => task'[v].pc \in {"count", "answer"} /\ m = Record(v)
      BY <1>0, <1>2, <1>4, <1>9 DEF Once, Apart
    <2>4. QED
      BY <2>2, <2>3, <1>4, <1>5, <1>6 DEF Once
  <1>12. Phases'
    BY <1>0, <1>2, <1>4, <1>5, <1>9 DEF Phases
  <1>13. IdsOwn' /\ IdsCounted'
    BY <1>0, <1>7 DEF IdsOwn, IdsCounted
  <1>14. PeerListed'
    <2>1. \A v \in Worker : Sessions(Len(db), To(v), From(v)) \subseteq Sessions(Len(db), To(v), From(v))'
      BY <1>0, <1>2, <1>3, <1>5 DEF Sessions
    <2>2. QED
      BY <2>1, <1>0, <1>4 DEF PeerListed
  <1>15. StoredHasPeerSession'
    <2>1. SUFFICES ASSUME NEW i \in 1..Len(db'), db'[i].kind = "message"
                   PROVE  PeerSessionOf(i)'
      BY DEF StoredHasPeerSession, Sessions, PeerSessionOf
    <2>2. CASE i \in 1..Len(db)
      <3>1. db'[i] = db[i] /\ \A k \in 1..i : db'[k] = db[k]
        BY <2>2, <1>2, <1>0
      <3>2. PeerSessionOf(i)
        BY <2>1, <2>2, <3>1, <1>0, PeerSessions
      <3>3. QED
        BY <3>1, <3>2, <1>0 DEF PeerSessionOf
    <2>3. CASE i = n
      <3>1. Sessions(Len(db), To(w), From(w)) # {}
        BY <1>0 DEF PeerListed, Phases
      <3>2. PICK k \in 1..Len(db) : db[k].kind = "session" /\ db[k].user = To(w) /\ db[k].peer = From(w)
        BY <3>1 DEF Sessions
      <3>3. db'[i].msg.req = task[w].req /\ k \in 1..i /\ db'[k] = db[k]
        BY <2>3, <3>2, <1>1, <1>2, <1>9, <1>0 DEF n
      <3>4. QED
        BY <3>2, <3>3 DEF PeerSessionOf, To, From
    <2>4. QED
      BY <2>2, <2>3, <1>2, <1>3
  <1>16. QED
    BY <1>8, <1>10, <1>11, <1>12, <1>13, <1>14, <1>15 DEF IInv

\* Inserting a message preserves IInv.
LEMMA sendMessageKept ==
    ASSUME IInv, NEW w \in Worker, sendMessage(w)
    PROVE  IInv'
  <1>0. /\ TypeOK /\ ReqShape /\ Phases /\ task[w].pc = "insert" /\ Busy(w)
        /\ task[w].session \in Nat /\ task[w].id \in Nat /\ task[w].req \in Nat
        /\ UNCHANGED <<reqs, counter, unread, applied, answers, faulty>>
        /\ "answer" \in Pc \ {"idle"}
    BY DEF IInv, sendMessage, Busy, Phases, TypeOK, Pc
  <1>1. CASE Go(w, "answer") /\ db' = db /\ due' = due
    <2>1. Moved(w, "answer", task[w].session, task[w].id)
      BY <1>0, <1>1, GoMoves
    <2>2. TypeOK'
      BY <1>0, <1>1, <2>1 DEF TypeOK, Moved, Task
    <2>3. \A x \in Rel : counter[x] <= counter'[x]
      BY <1>0 DEF TypeOK
    <2>4. QED
      BY <1>0, <1>1, <2>1, <2>2, <2>3, MoveKept
  <1>2. CASE /\ db' = Append(db, [kind |-> "message", msg |-> Record(w)])
             /\ due' = [due EXCEPT ![Readers(w)] = @ \cup {task[w].req}]
             /\ Go(w, "count")
    <2> DEFINE p == Readers(w)
    <2>1. p \in Reader /\ due \in [Reader -> SUBSET Nat] /\ due' = [due EXCEPT ![p] = @ \cup {task[w].req}]
      BY <1>0, <1>2, TaskRelated DEF TypeOK
    <2> HIDE DEF p
    <2>2. due' \in [Reader -> SUBSET Nat]
      BY <1>0, <2>1
    <2>3. QED
      BY <1>0, <1>2, <2>2, InsertKept
  <1>3. QED
    BY <1>1, <1>2 DEF sendMessage

\* The answer takes over the task's record.
LEMMA AnswerKept ==
    ASSUME IInv, NEW w \in Worker, Answer(w)
    PROVE  IInv'
  <1>0. /\ TypeOK /\ ReqShape /\ Apart /\ Once /\ Phases /\ PeerListed /\ StoredHasPeerSession
        /\ IdsOwn /\ IdsCounted /\ Busy(w) /\ task \in [Worker -> Task]
        /\ UNCHANGED <<reqs, counter, unread, db, applied, faulty, due>>
        /\ Idle \in Task /\ Idle.pc = "idle" /\ Idle.session = 0 /\ Idle.id = 0
    BY DEF IInv, Answer, Busy, TypeOK, Pc, Task, Idle
  <1>1. /\ task' \in [Worker -> Task] /\ task'[w] = Idle
        /\ \A v \in Worker : v # w => task'[v] = task[v]
        /\ answers' = answers \cup {Record(w)}
        /\ stored' = stored
    BY <1>0, SameStored DEF Answer
  <1>2. Record(w).req = task[w].req /\ Record(w) \in Msg /\ Record(w) \in Held
    BY <1>0, TaskRelated DEF Record, Held
  <1>3. TypeOK'
    BY <1>0, <1>1, <1>2 DEF TypeOK, Task
  <1>4. /\ \A v \in Worker : Busy(v)' <=> Busy(v) /\ v # w
        /\ \A v \in Worker : v # w => /\ From(v)' = From(v) /\ To(v)' = To(v)
                                      /\ RelOf(v)' = RelOf(v) /\ Record(v)' = Record(v)
    BY <1>0, <1>1 DEF Busy, From, To, RelOf, Record
  <1>5. Held' \subseteq Held
    BY <1>1, <1>2, <1>4 DEF Held
  <1>6. ReqShape' /\ Apart' /\ Once'
    <2>1. ReqShape'
      BY <1>0, <1>1, <1>2, <1>4 DEF ReqShape
    <2>2. Apart'
      BY <1>0, <1>1, <1>2, <1>4 DEF Apart
    <2>3. Once'
      BY <1>0, <1>1, <1>4 DEF Once
    <2>4. QED
      BY <2>1, <2>2, <2>3
  <1>7. Phases'
    BY <1>0, <1>1, <1>4 DEF Phases
  <1>8. IdsOwn' /\ IdsCounted'
    BY <1>0, <1>5 DEF IdsOwn, IdsCounted
  <1>9. PeerListed'
    BY <1>0, <1>1, <1>4 DEF PeerListed, Sessions
  <1>10. StoredHasPeerSession'
    BY <1>0 DEF StoredHasPeerSession, Sessions
  <1>11. QED
    BY <1>3, <1>6, <1>7, <1>8, <1>9, <1>10 DEF IInv

-----------------------------------------------------------------------------
(* One lemma per other step *)

\* A new request has a number that nothing stored or answered carries.
LEMMA ReceiveKept ==
    ASSUME IInv, NEW w \in Worker, NEW p \in Pair, NEW t \in 0..MaxTime, Receive(w, p, t)
    PROVE  IInv'
  <1> DEFINE q == Len(reqs) + 1
             e == [from |-> p[1], to |-> p[2], created |-> t]
             new == [pc |-> IF p[1] = p[2] THEN "answer" ELSE "own",
                     req |-> q, session |-> 0, id |-> 0]
             Req == [from : Nat, to : Nat, created : Nat]
  <1>0. /\ TypeOK /\ ReqShape /\ Apart /\ Once /\ Phases /\ PeerListed /\ StoredHasPeerSession
        /\ IdsOwn /\ IdsCounted /\ task \in [Worker -> Task] /\ ~Busy(w)
        /\ reqs \in Seq(Req) /\ Len(reqs) \in Nat
        /\ UNCHANGED <<counter, unread, db, applied, answers, faulty, due>>
    BY DEF IInv, Receive, Busy, TypeOK, Task
  <1>1. /\ e \in Req /\ <<e.from, e.to>> \in Pair
        /\ q \in Nat /\ q \notin 1..Len(reqs) /\ new \in Task
        /\ new.pc \in {"answer", "own"} /\ new.req = q /\ new.id = 0
    <2>1. p[1] \in Nat /\ p[2] \in Nat /\ p = <<p[1], p[2]>> /\ t \in Nat
      <3>1. p[1] \in Nat /\ p[2] \in Nat /\ p = <<p[1], p[2]>>
        BY Related
      <3>2. t \in Nat
        BY BoundAssumption
      <3>3. QED
        BY <3>1, <3>2
    <2>2. <<e.from, e.to>> = p
      BY <2>1
    <2>3. e \in Req
      BY <2>1
    <2>4. /\ q \in Nat /\ q \notin 1..Len(reqs) /\ new \in Task
          /\ new.pc \in {"answer", "own"} /\ new.req = q /\ new.id = 0
      BY <1>0 DEF Task, Pc
    <2>5. QED
      BY <2>2, <2>3, <2>4
  <1>2. reqs' = Append(reqs, e) /\ task' = [task EXCEPT ![w] = new]
    BY DEF Receive
  <1>3. /\ reqs' \in Seq(Req) /\ Len(reqs') = q /\ reqs'[q] = e
        /\ \A i \in 1..Len(reqs) : reqs'[i] = reqs[i] /\ i \in 1..q
        /\ \A i \in 1..q : i \in 1..Len(reqs) \/ i = q
    BY <1>0, <1>1, <1>2
  <1> HIDE DEF e, new, q, Req
  <1>4. /\ task' \in [Worker -> Task] /\ task'[w] = new
        /\ \A v \in Worker : v # w => task'[v] = task[v]
        /\ stored' = stored
    BY <1>0, <1>1, <1>2, SameStored
  <1>5. TypeOK'
    BY <1>0, <1>3, <1>4 DEF TypeOK, Task, Req
  <1>6. /\ \A v \in Worker : Busy(v)' <=> Busy(v) \/ v = w
        /\ \A v \in Worker : Busy(v) => /\ v # w /\ From(v)' = From(v) /\ To(v)' = To(v)
                                        /\ RelOf(v)' = RelOf(v) /\ Record(v)' = Record(v)
        /\ Record(w)'.id = 0
    BY <1>0, <1>1, <1>3, <1>4 DEF Busy, From, To, RelOf, Record, ReqShape
  <1>7. \A m \in Held' : m \in Held \/ m = Record(w)'
    BY <1>0, <1>4, <1>6 DEF Held
  <1>8. \A m \in stored \cup answers : m.req # q
    BY <1>0, <1>1 DEF ReqShape
  <1>9. q \in 1..q
    BY <1>1, <1>3, <1>0 DEF q
  <1>10. ReqShape'
    <2>1. \A i \in 1..q : <<reqs'[i].from, reqs'[i].to>> \in Pair
      BY <1>0, <1>1, <1>3 DEF ReqShape
    <2>2. \A v \in Worker : Busy(v)' => task'[v].req \in 1..q
      BY <1>0, <1>1, <1>3, <1>4, <1>6, <1>9 DEF ReqShape
    <2>3. \A m \in stored \cup answers : m.req \in 1..q
      BY <1>0, <1>3 DEF ReqShape
    <2>4. QED
      BY <2>1, <2>2, <2>3, <1>0, <1>3, <1>4 DEF ReqShape
  <1>11. Apart'
    BY <1>0, <1>1, <1>4, <1>6, <1>8 DEF Apart, ReqShape
  <1>12. Once'
    <2>1. \A m \in stored, v \in Worker :
            Busy(v)' /\ m.req = task'[v].req => task'[v].pc \in {"count", "answer"} /\ m = Record(v)'
      BY <1>0, <1>1, <1>4, <1>6, <1>8 DEF Once
    <2>2. QED
      BY <2>1, <1>0, <1>4 DEF Once
  <1>13. Phases'
    <2>1. \A v \in Worker : v # w /\ task[v].pc \in {"max", "set"} => Busy(v)
      BY DEF Busy
    <2>2. QED
      BY <2>1, <1>0, <1>1, <1>4, <1>6 DEF Phases
  <1>14. IdsOwn'
    BY <1>0, <1>6, <1>7 DEF IdsOwn
  <1>15. IdsCounted'
    <2>1. \A m \in Held : m.rel \notin faulty => m.id <= counter[m.rel]
      BY <1>0 DEF IdsCounted
    <2>2. Record(w)'.rel \in Rel /\ counter \in [Rel -> Nat]
      <3>1. (RelOf(w) \in Rel)'
        <4>1. RelOf(w)' = RelationId(e.from, e.to)
          BY <1>1, <1>3, <1>4 DEF RelOf, From, To
        <4>2. QED
          BY <4>1, <1>1, Related
      <3>2. QED
        BY <3>1, <1>0 DEF Record, TypeOK
    <2>3. \A m \in Held' : m.rel \notin faulty => m.id <= counter[m.rel]
      BY <2>1, <2>2, <1>6, <1>7
    <2>4. QED
      BY <2>3, <1>0 DEF IdsCounted
  <1>16. PeerListed'
    <2>1. SUFFICES ASSUME NEW v \in Worker, task'[v].pc \in {"id", "max", "set", "insert"},
                          task'[v].session # 0
                   PROVE  Sessions(Len(db), To(v), From(v))' # {}
      BY DEF PeerListed
    <2>2. v # w /\ Busy(v)
      BY <2>1, <1>1, <1>4 DEF Busy
    <2>3. Sessions(Len(db), To(v), From(v)) # {}
      BY <2>1, <2>2, <1>0, <1>4 DEF PeerListed
    <2>4. Sessions(Len(db), To(v), From(v))' = Sessions(Len(db), To(v), From(v))
      BY <2>2, <1>0, <1>6 DEF Sessions
    <2>5. QED
      BY <2>3, <2>4
  <1>17. StoredHasPeerSession'
    <2>1. SUFFICES ASSUME NEW i \in 1..Len(db), db[i].kind = "message"
                   PROVE  PeerSessionOf(i)'
      BY <1>0 DEF StoredHasPeerSession, Sessions, PeerSessionOf
    <2>2. db[i].msg \in stored
      BY <2>1 DEF stored
    <2>3. reqs'[db[i].msg.req] = reqs[db[i].msg.req]
      BY <2>2, <1>0, <1>3 DEF ReqShape
    <2>4. PeerSessionOf(i)
      BY <2>1, <1>0, PeerSessions
    <2>5. QED
      BY <2>3, <2>4, <1>0 DEF PeerSessionOf
  <1>18. QED
    BY <1>5, <1>10, <1>11, <1>12, <1>13, <1>14, <1>15, <1>16, <1>17 DEF IInv

\* Steps that leave requests, tasks, entries and answers as they are.
LEMMA FrameKept ==
    ASSUME IInv, TypeOK', UNCHANGED <<reqs, task, db, answers>>,
           faulty \subseteq faulty',
           \A r \in Rel \ faulty' : counter'[r] = counter[r]
    PROVE  IInv'
  <1>0. /\ ReqShape /\ Apart /\ Once /\ Phases /\ PeerListed /\ StoredHasPeerSession
        /\ IdsOwn /\ IdsCounted /\ TypeOK
    BY DEF IInv
  <1>1. stored' = stored /\ \A w \in Worker : Record(w)' = Record(w) /\ (Busy(w)' <=> Busy(w))
                                             /\ RelOf(w)' = RelOf(w) /\ To(w)' = To(w) /\ From(w)' = From(w)
    BY SameStored DEF Record, Busy, RelOf, To, From
  <1>2. Held' = Held /\ Held \subseteq Msg
    <2>1. Held' = Held
      BY <1>1 DEF Held
    <2>2. Held \subseteq Msg
      BY <1>0, StoredMsg, TaskRelated DEF Held, TypeOK
    <2>3. QED
      BY <2>1, <2>2
  <1>3. ReqShape' /\ Apart'
    BY <1>0, <1>1 DEF ReqShape, Apart, Busy
  <1>4. Once'
    BY <1>0, <1>1 DEF Once, Busy
  <1>5. Phases'
    BY <1>0, <1>1 DEF Phases
  <1>6. IdsOwn'
    BY <1>0, <1>2 DEF IdsOwn
  <1>7. IdsCounted'
    BY <1>0, <1>2 DEF IdsCounted, Msg
  <1>8. PeerListed'
    BY <1>0, <1>1 DEF PeerListed, Sessions
  <1>9. StoredHasPeerSession'
    BY <1>0 DEF StoredHasPeerSession, Sessions
  <1>10. QED
    BY <1>3, <1>4, <1>5, <1>6, <1>7, <1>8, <1>9 DEF IInv

\* A stop of db_proxy_server preserves IInv.
LEMMA CrashKept ==
    ASSUME IInv, Crash
    PROVE  IInv'
  <1>0. /\ ReqShape /\ Apart /\ Once /\ Phases /\ StoredHasPeerSession
        /\ IdsOwn /\ IdsCounted /\ TypeOK
        /\ UNCHANGED <<reqs, counter, unread, db, applied, answers, faulty>>
        /\ Idle \in Task /\ Idle.pc = "idle"
    BY DEF IInv, Crash, Task, Pc, Idle
  <1>1. task' \in [Worker -> Task] /\ \A w \in Worker : task'[w] = Idle /\ ~Busy(w)'
    BY <1>0 DEF Crash, Busy
  <1>2. TypeOK'
    BY <1>0, <1>1 DEF TypeOK, Crash, Task
  <1>3. stored' = stored
    BY <1>0, SameStored
  <1>4. Held' \subseteq Held
    BY <1>0, <1>1, <1>3 DEF Held
  <1>5. ReqShape' /\ Apart' /\ Once'
    BY <1>0, <1>1, <1>3 DEF ReqShape, Apart, Once
  <1>6. Phases' /\ PeerListed'
    BY <1>0, <1>1, <1>3 DEF Phases, PeerListed
  <1>7. IdsOwn' /\ IdsCounted'
    BY <1>0, <1>4 DEF IdsOwn, IdsCounted
  <1>8. StoredHasPeerSession'
    BY <1>0 DEF StoredHasPeerSession, Sessions
  <1>9. QED
    BY <1>2, <1>5, <1>6, <1>7, <1>8 DEF IInv

-----------------------------------------------------------------------------
(* The invariant *)

THEOREM InitIInv == Init => IInv
  <1> SUFFICES ASSUME Init PROVE IInv
    OBVIOUS
  <1>1. Len(db) = 0 /\ Len(reqs) = 0 /\ answers = {} /\ faulty = {}
    BY DEF Init
  <1>2. Idle \in Task /\ Idle.pc = "idle"
    BY DEF Idle, Task, Pc
  <1>3. TypeOK
    BY <1>1, <1>2 DEF Init, TypeOK, Task
  <1>4. stored = {} /\ \A w \in Worker : ~Busy(w) /\ task[w] = Idle
    BY <1>1, <1>2 DEF Init, stored, Busy
  <1>5. Held = {}
    BY <1>1, <1>4 DEF Held
  <1>6. ReqShape /\ Apart /\ Once /\ StoredHasPeerSession
    BY <1>1, <1>4 DEF ReqShape, Apart, Once, StoredHasPeerSession
  <1>7. Phases /\ PeerListed
    BY <1>2, <1>4 DEF Phases, PeerListed
  <1>8. IdsOwn /\ IdsCounted
    BY <1>5 DEF IdsOwn, IdsCounted
  <1>9. QED
    BY <1>3, <1>6, <1>7, <1>8 DEF IInv

THEOREM NextIInv == IInv /\ [Next]_vars => IInv'
  <1> SUFFICES ASSUME IInv, [Next]_vars PROVE IInv'
    OBVIOUS
  <1>0. TypeOK
    BY DEF IInv
  <1>1. CASE Replicate
    <2>1. TypeOK'
      BY <1>0, <1>1 DEF TypeOK, Replicate
    <2>2. QED
      BY <2>1, <1>1, FrameKept DEF Replicate
  <1>2. ASSUME NEW p \in Reader, clearUserCounter(p) PROVE IInv'
    <2>1. TypeOK'
      BY <1>0, <1>2 DEF TypeOK, clearUserCounter
    <2>2. QED
      BY <2>1, <1>2, FrameKept DEF clearUserCounter
  <1>3. CASE RedisRestarts
    <2>1. TypeOK'
      BY <1>0, <1>3 DEF TypeOK, RedisRestarts
    <2>2. QED
      BY <2>1, <1>0, <1>3, FrameKept DEF RedisRestarts, TypeOK
  <1>4. CASE Crash
    BY <1>4, CrashKept
  <1>5. CASE \E w \in Worker, p \in Pair, t \in 0..MaxTime : Receive(w, p, t)
    BY <1>5, ReceiveKept
  <1>6. ASSUME NEW w \in Worker, Handle(w) PROVE IInv'
    BY <1>6, FindOwnKept, FindPeerKept, AddSessionKept, NoSessionKept, getMsgIdKept,
       MaxMsgIdKept, SetMsgIdKept, sendMessageKept, incMsgCountKept, AnswerKept DEF Handle
  <1>7. CASE UNCHANGED vars
    <2>1. TypeOK'
      BY <1>0, <1>7 DEF TypeOK, vars
    <2>2. QED
      BY <2>1, <1>7, FrameKept DEF vars
  <1>8. QED
    BY <1>1, <1>2, <1>3, <1>4, <1>5, <1>6, <1>7 DEF Next

\* The inductive invariant holds in every reachable state.
THEOREM IInvHolds == Spec => []IInv
  BY InitIInv, NextIInv, PTL DEF Spec

\* Every variable keeps its type.
THEOREM TypeCorrect == Spec => []TypeOK
  <1>1. IInv => TypeOK
    BY DEF IInv
  <1>2. QED
    BY <1>1, IInvHolds, PTL

\* Message ids are unique in a relation while redis keeps its counter, whichever
\* workers store the messages and whatever fails or stops between.
THEOREM IdsAreUnique == Spec => []IdsUnique
  <1>1. IInv => IdsUnique
    <2>1. SUFFICES ASSUME IInv, NEW i \in 1..Len(db), NEW j \in 1..Len(db),
                          db[i].kind = "message", db[j].kind = "message",
                          db[i].msg.rel = db[j].msg.rel, db[i].msg.id = db[j].msg.id,
                          db[i].msg.rel \notin faulty
                   PROVE  i = j
      BY DEF IdsUnique
    <2>2. db[i].msg \in stored /\ db[j].msg \in stored
      BY <2>1 DEF stored
    <2>3. db[i].msg.id # 0
      BY <2>1, <2>2 DEF IInv, Phases
    <2>4. db[i].msg.req = db[j].msg.req
      BY <2>1, <2>2, <2>3 DEF IInv, IdsOwn, Held
    <2>5. QED
      BY <2>1, <2>4 DEF IInv, Once
  <1>2. QED
    BY <1>1, IInvHolds, PTL

\* A stored message is always in its recipient's list of sessions.
THEOREM PeerSession == Spec => []StoredHasPeerSession
  <1>1. IInv => StoredHasPeerSession
    BY DEF IInv
  <1>2. QED
    BY <1>1, IInvHolds, PTL

-----------------------------------------------------------------------------
(* The refinement *)

\* A step that stores nothing and answers nothing is one of the log or a stutter.
LEMMA QuietStep ==
    ASSUME stored' = stored, answers' = answers, faulty \subseteq faulty'
    PROVE  [Log!Next]_Log!vars
  BY DEF Log!Next, Log!Distrust, Log!vars

\* An insert is a Store of MsgLog.
LEMMA InsertStep ==
    ASSUME IInv, NEW w \in Worker, sendMessage(w)
    PROVE  [Log!Next]_Log!vars
  <1>0. /\ task[w].pc = "insert" /\ Busy(w) /\ UNCHANGED <<answers, faulty>>
        /\ TypeOK /\ ReqShape /\ Apart /\ Once /\ Phases /\ IdsOwn
    BY DEF sendMessage, Busy, IInv
  <1>1. CASE db' = db
    BY <1>0, <1>1, SameStored, QuietStep
  <1>2. CASE db' = Append(db, [kind |-> "message", msg |-> Record(w)])
    <2> DEFINE m == Record(w)
    <2>1. stored' = stored \cup {m}
      <3>1. [kind |-> "message", msg |-> m] \in Entry
        BY <1>0, TaskRelated DEF Entry
      <3>2. QED
        BY <3>1, <1>0, <1>2, AppendEntry
    <2>2. m.req = task[w].req /\ m.id = task[w].id /\ m.id # 0 /\ m \in Held
      BY <1>0 DEF Record, Phases, Held
    <2>3. \A other \in stored \cup answers : other.req # m.req
      BY <1>0, <2>2 DEF Once, Apart
    <2>4. m.rel \in faulty \/ Log!Own(m)
      BY <1>0, <2>2 DEF IdsOwn, Held, Log!Own
    <2> HIDE DEF m
    <2>5. Log!Store(m)
      BY <1>0, <2>1, <2>2, <2>3, <2>4 DEF Log!Store
    <2>6. QED
      BY <2>1, <2>5 DEF Log!Next
  <1>3. QED
    BY <1>1, <1>2 DEF sendMessage

\* An answer is an Answer of MsgLog.
LEMMA AnswerStep ==
    ASSUME IInv, NEW w \in Worker, Answer(w)
    PROVE  [Log!Next]_Log!vars
  <1>0. /\ Busy(w) /\ answers' = answers \cup {Record(w)} /\ faulty' = faulty /\ stored' = stored
        /\ Apart /\ Once /\ IdsOwn
    BY SameStored DEF Answer, Busy, IInv
  <1> DEFINE m == Record(w)
  <1>1. m.req = task[w].req /\ m \in Held
    BY <1>0 DEF Record, Held
  <1>2. \A other \in answers : other.req # m.req
    BY <1>0, <1>1 DEF Apart
  <1>3. \A other \in stored : other.req = m.req => other = m
    BY <1>0, <1>1 DEF Once
  <1>4. m.id = 0 \/ m.rel \in faulty \/ Log!Own(m)
    BY <1>0, <1>1 DEF IdsOwn, Held, Log!Own
  <1> HIDE DEF m
  <1>5. Log!Answer(m)
    BY <1>0, <1>1, <1>2, <1>3, <1>4 DEF Log!Answer, m
  <1>6. m \in answers'
    BY <1>0 DEF m
  <1>7. QED
    BY <1>5, <1>6 DEF Log!Next

\* The store implements the log: each message is stored at most once, answered at
\* most once and under its own id.
THEOREM StoreImplementsLog == Spec => LogKept
  <1>1. Init => Log!Init
    BY DEF Init, Log!Init, stored
  <1>2. IInv /\ [Next]_vars => [Log!Next]_Log!vars
    <2> SUFFICES ASSUME IInv, [Next]_vars PROVE [Log!Next]_Log!vars
      OBVIOUS
    <2>0. TypeOK /\ ReqShape
      BY DEF IInv
    <2>1. CASE Replicate \/ Crash \/ (\E p \in Reader : clearUserCounter(p)) \/ UNCHANGED vars
      BY <2>1, SameStored, QuietStep DEF Replicate, Crash, clearUserCounter, vars
    <2>2. CASE RedisRestarts
      BY <2>2, <2>0, SameStored, QuietStep DEF RedisRestarts, TypeOK
    <2>3. CASE \E w \in Worker, p \in Pair, t \in 0..MaxTime : Receive(w, p, t)
      BY <2>3, SameStored, QuietStep DEF Receive
    <2>4. ASSUME NEW w \in Worker, AddOwn(w) \/ AddPeer(w) PROVE [Log!Next]_Log!vars
      <3>1. Busy(w)
        BY <2>4 DEF AddOwn, AddPeer, Busy
      <3>2. PICK u \in Nat, p \in Nat, pc \in {"peer", "id"} : addSession(w, u, p, pc)
        BY <2>0, <2>4, <3>1, TaskRelated DEF AddOwn, AddPeer
      <3>3. [kind |-> "session", user |-> u, peer |-> p] \in Entry
        BY DEF Entry
      <3>4. stored' = stored
        BY <2>0, <3>2, <3>3, SameStored, AppendEntry DEF addSession
      <3>5. QED
        BY <3>2, <3>4, QuietStep DEF addSession
    <2>5. ASSUME NEW w \in Worker,
                 \/ FindOwn(w) \/ FindPeer(w) \/ NoSession(w) \/ getMsgId(w) \/ MaxMsgId(w)
                 \/ SetMsgId(w) \/ incMsgCount(w)
          PROVE  [Log!Next]_Log!vars
      <3>1. db' = db /\ answers' = answers /\ faulty \subseteq faulty'
        BY <2>5 DEF FindOwn, FindPeer, NoSession, getMsgId, MaxMsgId, SetMsgId, incMsgCount
      <3>2. QED
        BY <3>1, SameStored, QuietStep
    <2>6. ASSUME NEW w \in Worker, Handle(w) PROVE [Log!Next]_Log!vars
      BY <2>4, <2>5, <2>6, InsertStep, AnswerStep DEF Handle
    <2>7. QED
      BY <2>1, <2>2, <2>3, <2>6 DEF Next
  <1>3. QED
    BY <1>1, <1>2, IInvHolds, PTL DEF Spec, LogKept, Log!Spec

-----------------------------------------------------------------------------
(* The unread counts *)

\* The messages of reader p that were stored and counted since he last cleared: finitely
\* many, and no more than the count in redis.
Uncleared(p) == due[p] \ Counting(p)

Covered == \A p \in Reader :
  IsFiniteSet(Uncleared(p)) /\ Cardinality(Uncleared(p)) <= unread[p]

\* Fewer messages and no lower a count.
LEMMA StaysCovered ==
    ASSUME Covered, \A p \in Reader : Uncleared(p)' \subseteq Uncleared(p), unread' = unread,
           unread \in [Reader -> Nat]
    PROVE  Covered'
  <1>1. ASSUME NEW p \in Reader
        PROVE  IsFiniteSet(Uncleared(p)') /\ Cardinality(Uncleared(p)') <= unread'[p]
    <2>1. IsFiniteSet(Uncleared(p)') /\ Cardinality(Uncleared(p)') <= Cardinality(Uncleared(p))
      BY FS_Subset DEF Covered
    <2>2. Cardinality(Uncleared(p)) \in Nat /\ Cardinality(Uncleared(p)') \in Nat
      BY <2>1, FS_CardinalityType DEF Covered
    <2> QED
      BY <2>1, <2>2 DEF Covered
  <1> QED
    BY <1>1 DEF Covered

\* A worker goes on with its request.
LEMMA GoesOn ==
    ASSUME TypeOK, NEW w \in Worker, NEW pc, NEW s, NEW i, Goes(w, pc, s, i), reqs' = reqs
    PROVE  /\ task'[w].pc = pc
           /\ \A v \in Worker : v # w => task'[v] = task[v]
           /\ \A v \in Worker : task'[v].req = task[v].req /\ Readers(v)' = Readers(v)
  <1>1. /\ task'[w] = [pc |-> pc, req |-> task[w].req, session |-> s, id |-> i]
        /\ \A v \in Worker : v # w => task'[v] = task[v]
    BY DEF Goes, TypeOK
  <1> QED
    BY <1>1 DEF Readers, From, To

\* A step of a worker to another place than the count, and not from it.
LEMMA NoneCounts ==
    ASSUME TypeOK, Covered, NEW w \in Worker, NEW pc, NEW s, NEW i, Goes(w, pc, s, i),
           task[w].pc # "count", UNCHANGED <<reqs, unread, due>>
    PROVE  Covered'
  <1>1. \A p \in Reader : Counting(p) \subseteq Counting(p)'
    BY GoesOn DEF Counting
  <1>2. \A p \in Reader : Uncleared(p)' \subseteq Uncleared(p)
    BY <1>1 DEF Uncleared
  <1> QED
    BY <1>2, StaysCovered DEF TypeOK

\* The message is due from now on, and still to be counted.
LEMMA sendMessageCovers ==
    ASSUME TypeOK, Covered, NEW w \in Worker, sendMessage(w) PROVE Covered'
  <1>1. task[w].pc = "insert" /\ UNCHANGED <<reqs, counter, unread, applied, answers, faulty>>
    BY DEF sendMessage
  <1>2. CASE Go(w, "answer") /\ UNCHANGED due
    BY <1>1, <1>2, NoneCounts DEF Go
  <1>3. CASE Go(w, "count") /\ due' = [due EXCEPT ![Readers(w)] = @ \cup {task[w].req}]
    <2>1. ASSUME NEW p \in Reader PROVE Uncleared(p)' \subseteq Uncleared(p)
      <3>1. /\ task'[w].pc = "count" /\ task'[w].req = task[w].req /\ Readers(w)' = Readers(w)
            /\ \A v \in Worker : v # w => task'[v] = task[v]
            /\ \A v \in Worker : task'[v].req = task[v].req /\ Readers(v)' = Readers(v)
        BY <1>1, <1>3, GoesOn DEF Go
      <3>2. Counting(p) \subseteq Counting(p)'
        BY <1>1, <3>1 DEF Counting
      <3>3. p = Readers(w) => task[w].req \in Counting(p)'
        BY <3>1 DEF Counting
      <3>4. due'[p] = IF p = Readers(w) THEN due[p] \cup {task[w].req} ELSE due[p]
        BY <1>3 DEF TypeOK
      <3> QED
        BY <3>2, <3>3, <3>4 DEF Uncleared
    <2> QED
      BY <1>1, <2>1, StaysCovered DEF TypeOK
  <1> QED
    BY <1>2, <1>3 DEF sendMessage

\* The message is counted, or lost from the count with what is due.
LEMMA incMsgCountCovers ==
    ASSUME IInv, Covered, NEW w \in Worker, incMsgCount(w) PROVE Covered'
  <1>1. TypeOK /\ ReqShape /\ Busy(w)
    BY DEF IInv, incMsgCount, Busy
  <1>2. /\ task[w].pc = "count" /\ Go(w, "answer")
        /\ UNCHANGED <<reqs, counter, db, applied, answers, faulty>>
    BY DEF incMsgCount
  <1>3. PICK q \in Reader : q = Readers(w)
    BY <1>1, TaskRelated
  <1>4. ASSUME NEW p \in Reader
        PROVE  /\ p # q => Counting(p) \subseteq Counting(p)'
               /\ Counting(p) \subseteq Counting(p)' \cup {task[w].req}
    <2>1. /\ \A v \in Worker : v # w => task'[v] = task[v]
          /\ \A v \in Worker : task'[v].req = task[v].req /\ Readers(v)' = Readers(v)
      BY <1>1, <1>2, GoesOn DEF Go
    <2> QED
      BY <1>3, <2>1 DEF Counting
  <1>5. CASE unread' = [unread EXCEPT ![q] = @ + 1] /\ UNCHANGED due
    <2> SUFFICES ASSUME NEW p \in Reader
                 PROVE  IsFiniteSet(Uncleared(p)') /\ Cardinality(Uncleared(p)') <= unread'[p]
      BY DEF Covered
    <2>1. PICK A : A = Uncleared(p)
      OBVIOUS
    <2>2. PICK B : B = Uncleared(p)'
      OBVIOUS
    <2>3. IsFiniteSet(A) /\ Cardinality(A) \in Nat /\ Cardinality(A) <= unread[p] /\ unread[p] \in Nat
      BY <1>1, <2>1, FS_CardinalityType DEF Covered, TypeOK
    <2>4. CASE p = q
      <3>1. B \subseteq A \cup {task[w].req}
        BY <1>4, <1>5, <2>1, <2>2 DEF Uncleared
      <3>2. /\ IsFiniteSet(A \cup {task[w].req})
            /\ Cardinality(A \cup {task[w].req}) <= Cardinality(A) + 1
        BY <2>3, FS_AddElement
      <3>3. /\ IsFiniteSet(B) /\ Cardinality(B) <= Cardinality(A \cup {task[w].req})
            /\ Cardinality(B) \in Nat /\ Cardinality(A \cup {task[w].req}) \in Nat
        BY <3>1, <3>2, FS_Subset, FS_CardinalityType
      <3>4. unread'[p] = unread[p] + 1
        BY <1>1, <1>5, <2>4 DEF TypeOK
      <3> QED
        BY <2>2, <2>3, <3>2, <3>3, <3>4
    <2>5. CASE p # q
      <3>1. B \subseteq A
        BY <1>4, <1>5, <2>1, <2>2, <2>5 DEF Uncleared
      <3>2. /\ IsFiniteSet(B) /\ Cardinality(B) <= Cardinality(A) /\ Cardinality(B) \in Nat
        BY <2>3, <3>1, FS_Subset, FS_CardinalityType
      <3>3. unread'[p] = unread[p]
        BY <1>1, <1>5, <2>5 DEF TypeOK
      <3> QED
        BY <2>2, <2>3, <3>2, <3>3
    <2> QED
      BY <2>4, <2>5
  <1>6. CASE due' = [due EXCEPT ![q] = @ \ {task[w].req}] /\ UNCHANGED unread
    <2>1. \A p \in Reader : due'[p] = IF p = q THEN due[p] \ {task[w].req} ELSE due[p]
      BY <1>1, <1>6 DEF TypeOK
    <2>2. \A p \in Reader : Uncleared(p)' \subseteq Uncleared(p)
      BY <1>4, <2>1 DEF Uncleared
    <2> QED
      BY <1>1, <1>6, <2>2, StaysCovered DEF TypeOK
  <1> QED
    BY <1>3, <1>5, <1>6 DEF incMsgCount

LEMMA HandleCovers == ASSUME IInv, Covered, NEW w \in Worker, Handle(w) PROVE Covered'
  <1>1. TypeOK
    BY DEF IInv
  <1>2. CASE FindOwn(w) \/ FindPeer(w) \/ NoSession(w) \/ getMsgId(w) \/ MaxMsgId(w) \/ SetMsgId(w)
    BY <1>1, <1>2, NoneCounts DEF FindOwn, FindPeer, NoSession, getMsgId, MaxMsgId, SetMsgId,
                                 Go, GoSession, GoId
  <1>3. CASE AddOwn(w) \/ AddPeer(w)
    BY <1>1, <1>3, NoneCounts DEF AddOwn, AddPeer, addSession, GoSession
  <1>4. CASE sendMessage(w) \/ incMsgCount(w)
    BY <1>1, <1>4, sendMessageCovers, incMsgCountCovers
  <1>5. CASE Answer(w)
    <2>1. /\ task[w].pc = "answer" /\ task' = [task EXCEPT ![w] = Idle]
          /\ UNCHANGED <<reqs, unread, due>>
      BY <1>5 DEF Answer
    <2>2. \A v \in Worker : v # w => task'[v] = task[v] /\ Readers(v)' = Readers(v)
      BY <1>1, <2>1 DEF TypeOK, Readers, From, To
    <2>3. \A p \in Reader : Counting(p) \subseteq Counting(p)'
      BY <2>1, <2>2 DEF Counting
    <2>4. \A p \in Reader : Uncleared(p)' \subseteq Uncleared(p)
      BY <2>1, <2>3 DEF Uncleared
    <2> QED
      BY <1>1, <2>1, <2>4, StaysCovered DEF TypeOK
  <1> QED
    BY <1>2, <1>3, <1>4, <1>5 DEF Handle

LEMMA ReceiveCovers ==
    ASSUME IInv, Covered, NEW w \in Worker, NEW p \in Pair, NEW t, Receive(w, p, t)
    PROVE  Covered'
  <1>1. TypeOK /\ ReqShape
    BY DEF IInv
  <1>2. /\ task[w].pc = "idle" /\ \A v \in Worker : v # w => task'[v] = task[v]
        /\ UNCHANGED <<unread, due>>
    BY <1>1 DEF Receive, TypeOK
  <1>3. \A k \in 1..Len(reqs) : reqs'[k] = reqs[k]
    BY <1>1 DEF Receive, TypeOK
  <1>4. \A v \in Worker : task[v].pc = "count" => v # w /\ Readers(v)' = Readers(v)
    <2>1. \A v \in Worker : task[v].pc = "count" => v # w /\ task[v].req \in 1..Len(reqs)
      BY <1>1, <1>2 DEF ReqShape, Busy
    <2> QED
      BY <1>2, <1>3, <2>1 DEF Readers, From, To
  <1>5. \A r \in Reader : Counting(r) \subseteq Counting(r)'
    BY <1>2, <1>4 DEF Counting
  <1>6. \A r \in Reader : Uncleared(r)' \subseteq Uncleared(r)
    BY <1>2, <1>5 DEF Uncleared
  <1> QED
    BY <1>1, <1>2, <1>6, StaysCovered DEF TypeOK

LEMMA NextCovers == IInv /\ Covered /\ [Next]_vars => Covered'
  <1> SUFFICES ASSUME IInv, Covered, [Next]_vars PROVE Covered'
    OBVIOUS
  <1>1. TypeOK
    BY DEF IInv
  <1>2. CASE UNCHANGED <<reqs, task, unread, due>>
    <2>1. \A p \in Reader : Uncleared(p)' = Uncleared(p)
      BY <1>2 DEF Uncleared, Counting, Readers, From, To
    <2> QED
      BY <1>2, <2>1 DEF Covered
  <1>3. CASE Replicate \/ UNCHANGED vars
    BY <1>2, <1>3 DEF Replicate, vars
  <1>4. CASE RedisRestarts
    <2>1. \A p \in Reader : Uncleared(p)' = {} /\ unread'[p] = 0
      BY <1>4 DEF RedisRestarts, Uncleared
    <2> QED
      BY <2>1, FS_EmptySet DEF Covered
  <1>5. ASSUME NEW q \in Reader, clearUserCounter(q) PROVE Covered'
    <2>1. /\ unread' = [unread EXCEPT ![q] = 0] /\ due' = [due EXCEPT ![q] = {}]
          /\ UNCHANGED <<reqs, task>>
      BY <1>5 DEF clearUserCounter
    <2>2. \A p \in Reader : Counting(p)' = Counting(p)
      BY <2>1 DEF Counting, Readers, From, To
    <2>3. /\ Uncleared(q)' = {} /\ unread'[q] = 0
          /\ \A p \in Reader : p # q => Uncleared(p)' = Uncleared(p) /\ unread'[p] = unread[p]
      BY <1>1, <2>1, <2>2 DEF Uncleared, TypeOK
    <2> QED
      BY <2>3, FS_EmptySet DEF Covered
  <1>6. CASE Crash
    <2>1. /\ task' = [w \in Worker |-> Idle] /\ due' = [p \in Reader |-> due[p] \ Counting(p)]
          /\ unread' = unread
      BY <1>6 DEF Crash
    <2>2. \A p \in Reader : Uncleared(p)' \subseteq Uncleared(p)
      BY <2>1 DEF Uncleared
    <2> QED
      BY <1>1, <2>1, <2>2, StaysCovered DEF TypeOK
  <1>7. ASSUME NEW w \in Worker, Handle(w) PROVE Covered'
    BY <1>7, HandleCovers
  <1>8. ASSUME NEW w \in Worker, NEW p \in Pair, NEW t \in 0..MaxTime, Receive(w, p, t)
        PROVE  Covered'
    BY <1>8, ReceiveCovers
  <1> QED
    BY <1>3, <1>4, <1>5, <1>6, <1>7, <1>8 DEF Next

\* The unread count of a reader is never less than the messages stored since the last
\* clear, but for those still to be counted.
THEOREM UnreadIsEnough == Spec => []UnreadCoversDue
  <1>1. Init => Covered
    <2> SUFFICES ASSUME Init PROVE Covered
      OBVIOUS
    <2>1. \A p \in Reader : Uncleared(p) = {} /\ unread[p] = 0
      BY DEF Init, Uncleared
    <2> QED
      BY <2>1, FS_EmptySet DEF Covered
  <1>2. Covered => UnreadCoversDue
    BY DEF Covered, UnreadCoversDue, Uncleared
  <1> QED
    BY <1>1, <1>2, NextCovers, IInvHolds, PTL DEF Spec

=============================================================================
