------------------------------ MODULE Delivery ------------------------------
(***************************************************************************)
(* The way of a chat message from the client that sends it to the other    *)
(* clients concerned: msg_server has it stored (MsgConn, DBServConn),      *)
(* acknowledges it, sends it to the other msg_servers through the route    *)
(* server and to its own clients; for a group every msg_server first asks  *)
(* the database for the members (GroupChat).                               *)
(*                                                                         *)
(* The workers of db_proxy_server answer in any order, a database link or  *)
(* a route link may be lost with what is under way on it, clients come and *)
(* go, and members join and leave, at any time.                            *)
(***************************************************************************)
EXTENDS Naturals, Sequences, SequencesExt

CONSTANTS Server,   \* msg_servers
          User,
          Conn,     \* client connections, each used once
          UserOf, ServerOf,  \* whose connection it is, and to which msg_server
          Handle,   \* socket handles of a msg_server, used again after a close
          Msg,
          Group,    \* the one group
          Expiry,   \* TIMEOUT_WAITING_MSG_DATA_ACK in ticks of the timer
          MaxMishaps \* bound: links lost, clients and members gone, and groups that
                     \* could not be read, in a behaviour

NoHandle == 0       \* the handle a broadcast carries: nobody's
NoMsg == [from |-> "nobody"]

ASSUME ConnAssumption == /\ UserOf \in [Conn -> User]
                         /\ ServerOf \in [Conn -> Server]
ASSUME HandleAssumption == Handle \subseteq Nat \ {NoHandle}
ASSUME GroupAssumption == Group \notin User
ASSUME ExpiryAssumption == Expiry \in Nat
ASSUME BoundAssumption == MaxMishaps \in Nat

VARIABLES conn,     \* "new", "open" (in its user's m_conn_map), "closed"
          handle,   \* m_handle
          waits,    \* m_send_msg_list: messages and the ticks since they were sent
          msg,      \* what was sent: from, to, and the handle attached
          asked,    \* requests to db_proxy_server, by no order
          answered, \* its answers, by no order
          members,  \* the members db_proxy_server knows of the group
          linked,   \* msg_servers with a route server connection
          up, down, \* the two directions of that connection
          got,      \* how often each connection was sent each message
          acked,    \* how often it was sent an acknowledgement
          owed,     \* history: connections that were open and concerned when a
                    \* message was stored, and still have no excuse
          mishaps   \* how many of the events that MaxMishaps bounds

sessions == <<conn, handle, waits>>
routes == <<linked, up, down>>
vars == <<sessions, msg, asked, answered, members, routes, got, acked, owed, mishaps>>

Pending == [m : Msg, age : 0..Expiry]
Request == [kind : {"store", "info"}, m : Msg, at : Server, h : Handle \cup {NoHandle}]
Answer  == [req : Request, ok : BOOLEAN, list : SUBSET User]

TypeOK ==
  /\ conn \in [Conn -> {"new", "open", "closed"}]
  /\ handle \in [Conn -> Handle \cup {NoHandle}]
  /\ waits \in [Conn -> Seq(Pending)]
  /\ msg \in [Msg -> [from : Conn, to : User \cup {Group}, h : Handle] \cup {NoMsg}]
  /\ asked \subseteq Request
  /\ answered \subseteq Answer
  /\ members \subseteq User
  /\ linked \subseteq Server
  /\ up \in [Server -> Seq(Msg)]
  /\ down \in [Server -> Seq(Msg)]
  /\ got \in [Conn -> [Msg -> Nat]]
  /\ acked \in [Conn -> [Msg -> Nat]]
  /\ owed \in [Msg -> SUBSET Conn]
  /\ mishaps \in 0..MaxMishaps

Init ==
  /\ conn = [c \in Conn |-> "new"]
  /\ handle = [c \in Conn |-> NoHandle]
  /\ waits = [c \in Conn |-> <<>>]
  /\ msg = [m \in Msg |-> NoMsg]
  /\ asked = {} /\ answered = {}
  /\ members = User
  /\ linked = Server
  /\ up = [s \in Server |-> <<>>] /\ down = [s \in Server |-> <<>>]
  /\ got = [c \in Conn |-> [m \in Msg |-> 0]]
  /\ acked = [c \in Conn |-> [m \in Msg |-> 0]]
  /\ owed = [m \in Msg |-> {}]
  /\ mishaps = 0

Mishap == mishaps < MaxMishaps /\ mishaps' = mishaps + 1

-----------------------------------------------------------------------------
(* Who has to do with a message *)

Open(s) == {c \in Conn : conn[c] = "open" /\ ServerOf[c] = s}
ConnsOf(s, users) == {c \in Open(s) : UserOf[c] \in users}

Sender(m) == UserOf[msg[m].from]
Origin(m) == ServerOf[msg[m].from]
ToGroup(m) == msg[m].to = Group
Concerned(m) == IF ToGroup(m) THEN members ELSE {Sender(m), msg[m].to}

\* CImUserManager::GetMsgConnByHandle of the sender at server s: the connection that
\* sent m, or one of the same user that has its handle by now; at most one.
GetMsgConnByHandle(s, m, h) == {c \in ConnsOf(s, {Sender(m)}) : handle[c] = h}

\* History: m will not reach the connections C.
Excuse(m, C) == owed' = [owed EXCEPT ![m] = @ \ C]
At(servers) == {c \in Conn : ServerOf[c] \in servers}

Give(C, m) == got' = [c \in Conn |-> [got[c] EXCEPT ![m] = IF c \in C THEN @ + 1 ELSE @]]
Ack(C, m) == acked' = [c \in Conn |-> [acked[c] EXCEPT ![m] = IF c \in C THEN @ + 1 ELSE @]]

\* CImUser::BroadcastClientMsgData: C get m, which waits for their answers; lost will
\* not get it.
BroadcastClientMsgData(C, m, lost) ==
  /\ Give(C, m)
  /\ waits' = [c \in Conn |-> IF c \in C THEN Append(waits[c], [m |-> m, age |-> 0])
                                        ELSE waits[c]]
  /\ Excuse(m, C \cup lost)

\* A request of server s, on one of its database connections.
Ask(kind, m, s, h) == asked' = asked \cup {[kind |-> kind, m |-> m, at |-> s, h |-> h]}

-----------------------------------------------------------------------------
(* Clients *)

\* The socket accepted gets the lowest descriptor that is free.
Login(c) ==
  /\ conn[c] = "new"
  /\ LET free == {h \in Handle : \A d \in Open(ServerOf[c]) : handle[d] # h}
     IN \E h \in free : /\ \A k \in free : h <= k
                       /\ handle' = [handle EXCEPT ![c] = h]
  /\ conn' = [conn EXCEPT ![c] = "open"]
  /\ UNCHANGED <<waits, msg, asked, answered, members, routes, got, acked, owed, mishaps>>

\* Mutant of Close: a closed connection's list is left to a timer it no longer has.
CloseKeepsList(c) ==
  /\ Mishap
  /\ conn[c] = "open"
  /\ conn' = [conn EXCEPT ![c] = "closed"]
  /\ owed' = [m \in Msg |-> owed[m] \ {c}]
  /\ UNCHANGED <<handle, waits, msg, asked, answered, members, routes, got, acked>>

Close(c) ==
  /\ Mishap
  /\ conn[c] = "open"
  /\ conn' = [conn EXCEPT ![c] = "closed"]
  /\ waits' = [waits EXCEPT ![c] = <<>>]
  /\ owed' = [m \in Msg |-> owed[m] \ {c}]
  /\ UNCHANGED <<handle, msg, asked, answered, members, routes, got, acked>>

\* CMsgConn::_HandleClientMsgData. A message to oneself is discarded; one over the
\* limit per second, or without a database connection, is as if never sent.
HandleClientMsgData(c, m, to) ==
  /\ conn[c] = "open" /\ msg[m] = NoMsg
  /\ to # UserOf[c]
  /\ msg' = [msg EXCEPT ![m] = [from |-> c, to |-> to, h |-> handle[c]]]
  /\ Ask("store", m, ServerOf[c], handle[c])
  /\ UNCHANGED <<sessions, answered, members, routes, got, acked, owed, mishaps>>

\* The entries of list l but the first one of message m.
WithoutFirst(l, m) ==
  LET at == {i \in 1..Len(l) : l[i].m = m}
  IN IF at = {} THEN l ELSE RemoveAt(l, CHOOSE i \in at : \A j \in at : i <= j)

\* CMsgConn::_HandleClientMsgDataAck and the end of _HandleClientMsgReadAck: the entry
\* is found only when the client names the sender of the message as the session.
HandleClientMsgDataAck(c, m, session) ==
  /\ conn[c] = "open" /\ got[c][m] > 0
  /\ ~ToGroup(m) /\ session = Sender(m)
  /\ waits' = [waits EXCEPT ![c] = WithoutFirst(@, m)]
  /\ UNCHANGED <<conn, handle, msg, asked, answered, members, routes, got, acked, owed, mishaps>>

\* Mutant of Expired: the timer counts what has expired, and keeps it.
Counted(l) == l

\* What is left when the expired entries at the head are gone.
Expired(l) ==
  LET fresh == {i \in 1..Len(l) : l[i].age < Expiry}
  IN IF fresh = {} THEN <<>>
     ELSE SubSeq(l, CHOOSE i \in fresh : \A j \in fresh : i <= j, Len(l))

\* msg_conn_timer_callback: CMsgConn::OnTimer of every connection of s, the list of
\* messages that wait for an answer.
OnTimer(s) ==
  /\ \E c \in Open(s) : waits[c] # <<>>
  /\ waits' = [c \in Conn |-> IF c \notin Open(s) THEN waits[c]
       ELSE LET left == Expired(waits[c])
            IN [i \in 1..Len(left) |-> [left[i] EXCEPT !.age = @ + 1]]]
  /\ UNCHANGED <<conn, handle, msg, asked, answered, members, routes, got, acked, owed, mishaps>>

-----------------------------------------------------------------------------
(* db_proxy_server *)

Reply(r, ok, list) == answered' = answered \cup {[req |-> r, ok |-> ok, list |-> list]}

\* sendMessage: not answered when the sender is not in the group, answered with id 0
\* when it could not be stored.
Store(r) ==
  /\ r.kind = "store"
  /\ asked' = asked \ {r}
  /\ \/ /\ ToGroup(r.m) /\ Sender(r.m) \notin members
        /\ UNCHANGED <<answered, owed>>
     \/ /\ ToGroup(r.m) => Sender(r.m) \in members
        /\ \E ok \in BOOLEAN :
             /\ Reply(r, ok, {})
             /\ owed' = [owed EXCEPT ![r.m] = IF ok
                  THEN {c \in Conn : conn[c] = "open" /\ UserOf[c] \in Concerned(r.m)}
                         \ GetMsgConnByHandle(r.at, r.m, r.h)
                  ELSE {}]
  /\ UNCHANGED <<sessions, msg, members, routes, got, acked, mishaps>>

\* getGroupInfo. A slave or a redis that cannot be read, or a slave that does not have
\* the group yet, makes an answer without group or without members.
GetGroupInfo(r) ==
  /\ r.kind = "info"
  /\ asked' = asked \ {r}
  /\ \/ Reply(r, TRUE, members) /\ UNCHANGED <<owed, mishaps>>
     \/ Mishap /\ Reply(r, TRUE, {}) /\ Excuse(r.m, At({r.at}))
  /\ UNCHANGED <<sessions, msg, members, routes, got, acked>>

\* modifyMember, as far as a message can tell: who leaves, or all if the sender does,
\* need not get what has been stored before.
Leave(u) ==
  /\ u \in members
  /\ Mishap
  /\ members' = members \ {u}
  /\ owed' = [m \in Msg |-> IF msg[m] = NoMsg \/ ~ToGroup(m) THEN owed[m]
                            ELSE IF Sender(m) = u THEN {}
                            ELSE {c \in owed[m] : UserOf[c] # u}]
  /\ UNCHANGED <<sessions, msg, asked, answered, routes, got, acked>>

Join(u) ==
  /\ u \notin members
  /\ members' = members \cup {u}
  /\ UNCHANGED <<sessions, msg, asked, answered, routes, got, acked, owed, mishaps>>

\* A database connection of msg_server closes with this request or answer on it; the
\* request may still be carried out (that is the loss of its answer).
DbLinkLost(r) ==
  /\ Mishap
  /\ \/ r \in asked /\ asked' = asked \ {r} /\ UNCHANGED answered
     \/ \E a \in answered : /\ a.req = r
                            /\ answered' = answered \ {a} /\ UNCHANGED asked
  /\ Excuse(r.m, IF r.kind = "store" THEN Conn ELSE At({r.at}))
  /\ UNCHANGED <<sessions, msg, members, routes, got, acked>>

-----------------------------------------------------------------------------
(* msg_server: answers of the database *)

\* CDBServConn::_HandleMsgData and CGroupChat::HandleGroupMessage: acknowledge, tell
\* the other msg_servers; the own clients, or the members once they are known. A
\* message that was not stored ends here.
HandleMsgData(a) ==
  LET m == a.req.m
      s == a.req.at
      from == GetMsgConnByHandle(s, m, a.req.h)
      unreached == IF s \in linked THEN {} ELSE At(Server \ {s})
  IN /\ a.req.kind = "store"
     /\ answered' = answered \ {a}
     /\ \/ ~a.ok /\ UNCHANGED <<waits, asked, up, got, acked, owed>>
        \/ /\ a.ok
           /\ Ack(from, m)
           /\ up' = IF s \in linked THEN [up EXCEPT ![s] = Append(@, m)] ELSE up
           /\ IF ToGroup(m)
              THEN /\ Ask("info", m, s, a.req.h)
                   /\ Excuse(m, unreached)
                   /\ UNCHANGED <<waits, got>>
              ELSE /\ BroadcastClientMsgData(ConnsOf(s, Concerned(m)) \ from, m, unreached)
                   /\ UNCHANGED asked
     /\ UNCHANGED <<conn, handle, msg, members, linked, down, mishaps>>

\* CGroupChat::HandleGroupInfoResponse: to the members, unless the sender is not (or no
\* one is) among them; but not to the connection it came from, if it came from here.
HandleGroupInfoResponse(a) ==
  LET m == a.req.m
      s == a.req.at
      from == IF a.req.h = NoHandle THEN {} ELSE GetMsgConnByHandle(s, m, a.req.h)
      C == ConnsOf(s, a.list) \ from
  IN /\ a.req.kind = "info"
     /\ answered' = answered \ {a}
     /\ IF Sender(m) \in a.list THEN Give(C, m) /\ Excuse(m, C)
                                ELSE UNCHANGED <<got, owed>>
     /\ UNCHANGED <<sessions, msg, asked, members, routes, acked, mishaps>>

-----------------------------------------------------------------------------
(* route_server *)

\* Mutant of HandleRoutePdu: to the msg_server it came from as well.
RouteToAll(s) ==
  /\ up[s] # <<>>
  /\ up' = [up EXCEPT ![s] = Tail(@)]
  /\ down' = [t \in Server |-> IF t \in linked THEN Append(down[t], Head(up[s])) ELSE down[t]]
  /\ Excuse(Head(up[s]), At(Server \ linked))
  /\ UNCHANGED <<sessions, msg, asked, answered, members, linked, got, acked, mishaps>>

\* CRouteConn::HandlePdu, _BroadcastMsg
HandleRoutePdu(s) ==
  /\ up[s] # <<>>
  /\ up' = [up EXCEPT ![s] = Tail(@)]
  /\ down' = [t \in Server |-> IF t \in linked \ {s} THEN Append(down[t], Head(up[s]))
                                                    ELSE down[t]]
  /\ Excuse(Head(up[s]), At(Server \ linked))
  /\ UNCHANGED <<sessions, msg, asked, answered, members, linked, got, acked, mishaps>>

\* Mutant of HandleRoutedMsgData: the members are asked for with the sender's handle.
RoutedWithHandle(s) ==
  /\ down[s] # <<>>
  /\ down' = [down EXCEPT ![s] = Tail(@)]
  /\ LET m == Head(down[s])
     IN IF ToGroup(m)
        THEN Ask("info", m, s, msg[m].h) /\ UNCHANGED <<waits, got, owed>>
        ELSE /\ BroadcastClientMsgData(ConnsOf(s, Concerned(m)), m, {})
             /\ UNCHANGED asked
  /\ UNCHANGED <<conn, handle, msg, answered, members, linked, up, acked, mishaps>>

\* CRouteServConn::_HandleMsgData and CGroupChat::HandleGroupMessageBroadcast, which
\* asks for the members without a handle.
HandleRoutedMsgData(s) ==
  /\ down[s] # <<>>
  /\ down' = [down EXCEPT ![s] = Tail(@)]
  /\ LET m == Head(down[s])
     IN IF ToGroup(m)
        THEN Ask("info", m, s, NoHandle) /\ UNCHANGED <<waits, got, owed>>
        ELSE /\ BroadcastClientMsgData(ConnsOf(s, Concerned(m)), m, {})
             /\ UNCHANGED asked
  /\ UNCHANGED <<conn, handle, msg, answered, members, linked, up, acked, mishaps>>

\* The connection of s to the route server ends, with what is under way on it.
RouteLinkLost(s) ==
  /\ s \in linked
  /\ Mishap
  /\ linked' = linked \ {s}
  /\ up' = [up EXCEPT ![s] = <<>>]
  /\ down' = [down EXCEPT ![s] = <<>>]
  /\ owed' = [m \in Msg |-> owed[m] \ (   (IF Contains(up[s], m) THEN At(Server \ {s}) ELSE {})
                                       \cup (IF Contains(down[s], m) THEN At({s}) ELSE {}))]
  /\ UNCHANGED <<sessions, msg, asked, answered, members, got, acked>>

\* serv_check_reconnect
RouteLinkUp(s) ==
  /\ s \notin linked
  /\ linked' = linked \cup {s}
  /\ UNCHANGED <<sessions, msg, asked, answered, members, up, down, got, acked, owed, mishaps>>

-----------------------------------------------------------------------------
Client(c) ==
  \/ Login(c) \/ Close(c)
  \/ \E m \in Msg, to \in User \cup {Group} : HandleClientMsgData(c, m, to)
  \/ \E m \in Msg, session \in User : HandleClientMsgDataAck(c, m, session)

Db == \E r \in asked : Store(r) \/ GetGroupInfo(r)
DbAnswer == \E a \in answered : HandleMsgData(a) \/ HandleGroupInfoResponse(a)

Route(s) == HandleRoutePdu(s) \/ HandleRoutedMsgData(s)

Next ==
  \/ \E c \in Conn : Client(c)
  \/ Db \/ DbAnswer
  \/ \E u \in User : Leave(u) \/ Join(u)
  \/ \E r \in asked \cup {a.req : a \in answered} : DbLinkLost(r)
  \/ \E s \in Server : Route(s) \/ OnTimer(s) \/ RouteLinkLost(s) \/ RouteLinkUp(s)

Spec == Init /\ [][Next]_vars

\* As long as a worker, an event loop or a timer has something to do, one of them does
\* it; clients, members and links may do what they like.
Work == Db \/ DbAnswer \/ \E s \in Server : Route(s) \/ OnTimer(s)
FairSpec == Spec /\ WF_vars(Work)

-----------------------------------------------------------------------------
(* Properties *)

\* No connection learns of a message twice: neither by getting it twice nor by
\* getting it besides the acknowledgement, although it comes to a msg_server from the
\* database and from the route server, and from members' lists of different times.
AtMostOnce == \A c \in Conn, m \in Msg : got[c][m] + acked[c][m] <= 1

\* Every connection of a user concerned that was open when the message was stored
\* gets it, or closes, or leaves the group, or a link that carried the message there
\* is lost, or the members could not be read for its msg_server (nobody asks again):
\* the broadcasts of the msg_servers miss nobody else.
Delivered == \A m \in Msg : owed[m] # {} ~> owed[m] = {}

\* The list of messages that wait for a client's answer empties itself when the
\* client, whatever it acknowledges, no longer gets any.
SendListDrains == (\E c \in Conn : waits[c] # <<>>) ~> (\A c \in Conn : waits[c] = <<>>)

=============================================================================
