------------------------------ MODULE Presence ------------------------------
(***************************************************************************)
(* Who is online: the msg_servers announce the clients that open and close *)
(* to the route server, which counts them per user and client type and     *)
(* broadcasts what changed.                                                *)
(*                                                                         *)
(* A msg_server is seen through the number of open connections per user    *)
(* and client type that MsgServer!AnnouncementsBalance relates to its      *)
(* announcements.  A link is one TCP connection between a msg_server       *)
(* (CRouteServConn) and the route server (CRouteConn); the two ends notice *)
(* its end independently, and a msg_server that reconnects sends the whole *)
(* list of its open connections first.  Updates say that a client came or  *)
(* went; the list gives the status the client chose when it logged in,     *)
(* which may be OFFLINE.                                                   *)
(***************************************************************************)
EXTENDS Integers, Sequences, FiniteSets

CONSTANTS
    Server,      \* msg_servers
    Link,        \* TCP connections to the route server, each used once
    User,
    ClientType,
    NoServer,
    MaxOpen,     \* bound on the connections opened in a behaviour
    MaxLosses    \* bound on the links lost in a behaviour

PcType == {"WINDOWS", "MAC"}

ASSUME BoundAssumption == MaxOpen \in Nat /\ MaxLosses \in Nat
ASSUME NullAssumption == NoServer \notin Server

VARIABLES
    local,   \* per server, user and client type: open client connections
    hiding,  \* those of them whose m_online_status is OFFLINE
    pc,      \* CImUser::m_pc_login_status of the user's object on a server
    shown,   \* the status of a user the server last passed on to its PC clients
    up,      \* link -> packets to the route server
    down,    \* link -> packets to the msg_server
    owner,   \* link -> the msg_server that opened it, NoServer while unused
    mOpen,   \* links whose msg_server end is open
    rOpen,   \* links whose route server end is in g_route_conn_map
    table,   \* g_user_map: per user the connections and the count per client type
    listedOff,  \* history: users and client types that a list gave as OFFLINE
    opened,  \* connections opened so far (bounded)
    losses   \* links lost so far (bounded)

vars == <<local, hiding, pc, shown, up, down, owner, mOpen, rOpen, table, listedOff, opened, losses>>

NoCount == [t \in ClientType |-> 0]

TypeOK ==
    /\ local \in [Server -> [User -> [ClientType -> Nat]]]
    /\ hiding \in [Server -> [User -> [ClientType -> Nat]]]
    /\ pc    \in [Server -> [User -> BOOLEAN]]
    /\ shown \in [Server -> [User -> {"nothing", "online", "offline"}]]
    /\ mOpen \in SUBSET Link
    /\ rOpen \in SUBSET Link
    /\ owner \in [Link -> Server \cup {NoServer}]
    /\ table \in [User -> [conns : SUBSET Link, cnt : [ClientType -> Nat]]]
    /\ \A u \in User : table[u].conns = {} => table[u].cnt = NoCount
    /\ listedOff \in SUBSET (User \X ClientType)
    /\ opened \in 0..MaxOpen /\ losses \in 0..MaxLosses

Init ==
    /\ local  = [s \in Server |-> [u \in User |-> NoCount]]
    /\ hiding = local
    /\ pc     = [s \in Server |-> [u \in User |-> FALSE]]
    /\ shown  = [s \in Server |-> [u \in User |-> "nothing"]]
    /\ up     = [l \in Link |-> <<>>]
    /\ down   = [l \in Link |-> <<>>]
    /\ owner  = [l \in Link |-> NoServer]
    /\ mOpen  = {}
    /\ rOpen  = {}
    /\ table  = [u \in User |-> [conns |-> {}, cnt |-> NoCount]]
    /\ listedOff = {}
    /\ opened = 0
    /\ losses = 0

-----------------------------------------------------------------------------
(* The msg_server's side *)

LinksOf(s) == {l \in mOpen : owner[l] = s}

Listed == [user : User, type : ClientType, on : BOOLEAN]

Times(q, x) == Cardinality({i \in DOMAIN q : q[i] = x})

\* CImUserManager::GetOnlineUserInfo: each open connection with the status its client
\* chose, in the order of the maps of users and handles, which may be any.
OnlineUserInfo(s) ==
    {q \in UNION {[1..n -> Listed] : n \in 0..MaxOpen} : \A x \in Listed :
        LET off == hiding[s][x.user][x.type] IN
        Times(q, x) = IF x.on THEN local[s][x.user][x.type] - off ELSE off}

\* CRouteServConn::OnConfirm.  Only an open connection is used, and a new one is
\* made only after the old one was closed here.  The list is one packet, written as
\* one element for each connection in it; an empty list changes nothing.
Connect(s, l) ==
    /\ LinksOf(s) = {} /\ owner[l] = NoServer
    /\ owner' = [owner EXCEPT ![l] = s]
    /\ mOpen' = mOpen \cup {l}
    /\ rOpen' = rOpen \cup {l}
    /\ \E q \in OnlineUserInfo(s) :
          up' = [up EXCEPT ![l] = [i \in 1..Len(q) |->
                    [kind |-> IF i = 1 THEN "ONLINE_USER_INFO" ELSE "ONLINE_USER_INFO_NEXT",
                     user |-> q[i].user, type |-> q[i].type, on |-> q[i].on]]]
    /\ listedOff' = listedOff \cup {x \in User \X ClientType : hiding[s][x[1]][x[2]] > 0}
    /\ UNCHANGED <<local, hiding, pc, shown, down, table, opened, losses>>

\* send_to_all_route_server; what is sent to an end that is closed is lost.
Send(s, u, t, status) ==
    up' = [l \in Link |-> IF l \in LinksOf(s) \cap rOpen
                          THEN Append(up[l], [kind |-> "USER_STATUS_UPDATE", user |-> u,
                                              type |-> t, on |-> status])
                          ELSE up[l]]

\* A validated client: _HandleValidateResponse sends ONLINE, if a link is open, whatever
\* status the client chose (on: not OFFLINE).  The login request was accepted while a link
\* was open, so the server has had one.
ClientOpens(s, u, t, on) ==
    /\ opened < MaxOpen
    /\ \E l \in Link : owner[l] = s
    /\ opened' = opened + 1
    /\ local'  = [local EXCEPT ![s][u][t] = @ + 1]
    /\ hiding' = IF on THEN hiding ELSE [hiding EXCEPT ![s][u][t] = @ + 1]
    /\ Send(s, u, t, TRUE)
    /\ UNCHANGED <<pc, shown, down, owner, mOpen, rOpen, table, listedOff, losses>>

\* CMsgConn::Close of a validated client sends OFFLINE; the user's last object
\* takes its m_pc_login_status with it.
ClientCloses(s, u, t, on) ==
    /\ local[s][u][t] > (IF on THEN hiding[s][u][t] ELSE 0)
    /\ on \/ hiding[s][u][t] > 0
    /\ hiding' = IF on THEN hiding ELSE [hiding EXCEPT ![s][u][t] = @ - 1]
    /\ local' = [local EXCEPT ![s][u][t] = @ - 1]
    /\ pc'    = [pc EXCEPT ![s][u] = @ /\ local'[s][u] # NoCount]
    /\ Send(s, u, t, FALSE)
    /\ UNCHANGED <<shown, down, owner, mOpen, rOpen, table, listedOff, opened, losses>>

Status(on) == IF on THEN "online" ELSE "offline"

\* _HandlePCLoginStatusNotify sets the status of an existing user object only;
\* _HandleStatusNotify passes the status on to every PC client of the server.
MsgServerReceives(l) ==
    LET s == owner[l]
        p == Head(down[l])
    IN
    /\ l \in mOpen /\ down[l] # <<>>
    /\ pc'    = IF p.kind = "LOGIN_STATUS_NOTIFY" /\ local[s][p.user] # NoCount
                THEN [pc EXCEPT ![s][p.user] = p.on] ELSE pc
    /\ shown' = IF p.kind = "STATUS_NOTIFY" THEN [shown EXCEPT ![s][p.user] = Status(p.on)]
                ELSE shown
    /\ down'  = [down EXCEPT ![l] = Tail(@)]
    /\ UNCHANGED <<local, hiding, up, owner, mOpen, rOpen, table, listedOff, opened, losses>>

\* CRouteServConn::Close: the peer closed, or nothing came for SERVER_TIMEOUT.
\* What is still on the way to the route server may yet arrive there.
MsgServerLosesLink(l) ==
    /\ l \in mOpen
    /\ l \in rOpen => losses < MaxLosses
    /\ losses' = IF l \in rOpen THEN losses + 1 ELSE losses
    /\ mOpen'  = mOpen \ {l}
    /\ down'   = [down EXCEPT ![l] = <<>>]
    /\ UNCHANGED <<local, hiding, pc, shown, up, owner, rOpen, table, listedOff, opened>>

-----------------------------------------------------------------------------
(* The route server's side *)

Exists(e) == e.conns # {}

\* The route server has read part of the list of link l.  It is one thread, and handles the
\* rest of the packet before anything else.
InList(l) == l \in rOpen /\ up[l] # <<>> /\ Head(up[l]).kind = "ONLINE_USER_INFO_NEXT"

NextFor(l) == \A k \in Link : InList(k) => k = l

\* CUserInfo::AddClientType and RemoveClientType
\* Mutant of AddClientType: a client type already listed is not counted again.
ListClientType(cnt, t) == [cnt EXCEPT ![t] = 1]

AddClientType(cnt, t) == [cnt EXCEPT ![t] = @ + 1]

\* Mutant of RemoveClientType: the whole entry goes, however many clients it counts.
EraseClientType(cnt, t) == [cnt EXCEPT ![t] = 0]

RemoveClientType(cnt, t) == [cnt EXCEPT ![t] = IF @ > 0 THEN @ - 1 ELSE 0]

\* CRouteConn::_UpdateUserStatus on the user's entry e.  Only the connection that
\* reports the last client leaves the entry; one that reported an earlier one
\* stays in it.
UpdateUserStatus(e, l, t, on) ==
    LET less == RemoveClientType(e.cnt, t) IN
    IF on THEN [conns |-> e.conns \cup {l}, cnt |-> AddClientType(e.cnt, t)]
    ELSE IF l \notin e.conns THEN e
    ELSE [conns |-> IF less = NoCount THEN e.conns \ {l} ELSE e.conns, cnt |-> less]

IsPCClientLogin(e) == \E t \in ClientType \cap PcType : e.cnt[t] > 0

\* The two notifications of _HandleUserStatusUpdate, given the updated entry e.
PcLoginNotify(e, u, t, on) ==
    IF Exists(e) /\ (IF on THEN IsPCClientLogin(e) ELSE t \in PcType /\ ~IsPCClientLogin(e))
    THEN <<[kind |-> "LOGIN_STATUS_NOTIFY", user |-> u, on |-> on]>>
    ELSE <<>>

\* Mutant of StatusNotify: OFFLINE is broadcast although another PC client is left.
StatusNotifyAlways(e, u, t, on) ==
    IF t \in PcType THEN <<[kind |-> "STATUS_NOTIFY", user |-> u, on |-> on]>> ELSE <<>>

StatusNotify(e, u, t, on) ==
    IF t \in PcType /\ ~(~on /\ Exists(e) /\ IsPCClientLogin(e))
    THEN <<[kind |-> "STATUS_NOTIFY", user |-> u, on |-> on]>>
    ELSE <<>>

\* _BroadcastMsg: to every connection of g_route_conn_map, the sender's included.
Broadcast(packets) ==
    down' = [l \in Link |-> IF l \in rOpen \cap mOpen THEN down[l] \o packets ELSE down[l]]

\* CRouteConn::_HandleUserStatusUpdate
HandleUserStatusUpdate(l) ==
    LET p == Head(up[l]) IN
    /\ l \in rOpen /\ up[l] # <<>> /\ p.kind = "USER_STATUS_UPDATE" /\ NextFor(l)
    /\ LET e == UpdateUserStatus(table[p.user], l, p.type, p.on) IN
       /\ table' = [table EXCEPT ![p.user] = e]
       /\ Broadcast(PcLoginNotify(e, p.user, p.type, p.on) \o StatusNotify(e, p.user, p.type, p.on))
    /\ up' = [up EXCEPT ![l] = Tail(@)]
    /\ UNCHANGED <<local, hiding, pc, shown, owner, mOpen, rOpen, listedOff, opened, losses>>

\* CRouteConn::_HandleOnlineUserInfo, one round of its loop: _UpdateUserStatus with the
\* status in the list, of which nobody is notified.
HandleOnlineUserInfo(l) ==
    LET p == Head(up[l]) IN
    /\ l \in rOpen /\ up[l] # <<>> /\ p.kind # "USER_STATUS_UPDATE" /\ NextFor(l)
    /\ table' = [table EXCEPT ![p.user] = UpdateUserStatus(@, l, p.type, p.on)]
    /\ up' = [up EXCEPT ![l] = Tail(@)]
    /\ UNCHANGED <<local, hiding, pc, shown, down, owner, mOpen, rOpen, listedOff, opened, losses>>

\* Mutant of EntryWithout: only users without clients are looked at.
EntryKept(e, l) == IF e.cnt = NoCount THEN [conns |-> e.conns \ {l}, cnt |-> NoCount] ELSE e

\* Mutant of EntryWithout: the counts outlive the last connection.
CountsKept(e, l) == [conns |-> e.conns \ {l}, cnt |-> e.cnt]

\* The entry e without connection l: the user goes with the last connection, but
\* the clients counted for l are not taken off while another connection is left.
EntryWithout(e, l) ==
    [conns |-> e.conns \ {l}, cnt |-> IF e.conns \subseteq {l} THEN NoCount ELSE e.cnt]

\* CRouteConn::Close: the msg_server closed its end, or it was silent for
\* SERVER_TIMEOUT.  Packets not read yet are lost.
RouteServerClosesLink(l) ==
    /\ l \in rOpen /\ \A k \in Link : ~InList(k)
    /\ l \in mOpen => losses < MaxLosses
    /\ losses' = IF l \in mOpen THEN losses + 1 ELSE losses
    /\ rOpen'  = rOpen \ {l}
    /\ table'  = [u \in User |-> EntryWithout(table[u], l)]
    /\ up'     = [up EXCEPT ![l] = <<>>]
    /\ UNCHANGED <<local, hiding, pc, shown, down, owner, mOpen, listedOff, opened>>

Next ==
    \/ \E s \in Server, l \in Link : Connect(s, l)
    \/ \E s \in Server, u \in User, t \in ClientType, on \in BOOLEAN :
          ClientOpens(s, u, t, on) \/ ClientCloses(s, u, t, on)
    \/ \E l \in Link : \/ MsgServerReceives(l)
                       \/ MsgServerLosesLink(l)
                       \/ HandleUserStatusUpdate(l)
                       \/ HandleOnlineUserInfo(l)
                       \/ RouteServerClosesLink(l)

Spec == Init /\ [][Next]_vars

-----------------------------------------------------------------------------
(* Safety *)

\* A server whose link works at both ends and whose packets have all been read.
Heard(s) == \E l \in LinksOf(s) : l \in rOpen /\ up[l] = <<>>

\* n[x] things of each x in S, numbered.
Numbered(S, n) == UNION {{x} \X (1..n[x]) : x \in S}

\* The number of clients of the servers in S.
Clients(S, u, t) == Cardinality(Numbered(S, [s \in S |-> local[s][u][t]]))

\* The route server may count too many clients after a link was lost, but never too few
\* of the servers it has heard, in whatever order the two ends of old and new links
\* notice, drain and reconnect: a user is not taken for offline while a client of a type
\* is online, unless a list gave a client of this user and type as OFFLINE.
NeverUndercounts ==
    \A u \in User, t \in ClientType : <<u, t>> \notin listedOff =>
        table[u].cnt[t] >= Clients({s \in Server : Heard(s)}, u, t)

\* A user who has a client on a PC that is not OFFLINE, on a server that is heard, counts
\* as one: the notifications of _HandleUserStatusUpdate go by IsPCClientLogin.
PcClientCounted ==
    \A u \in User :
        (\E s \in Server, t \in ClientType \cap PcType :
            Heard(s) /\ local[s][u][t] > hiding[s][u][t]) => IsPCClientLogin(table[u])

\* While no link was lost, the counts are exact whenever every packet was read.
ExactWithoutLoss ==
    losses = 0 /\ (\A s \in Server : LinksOf(s) # {} => Heard(s)) =>
        \A u \in User, t \in ClientType :
            table[u].cnt[t] = Clients({s \in Server : LinksOf(s) # {}}, u, t)

Quiet == \A s \in Server : LinksOf(s) # {} /\ Heard(s) /\ \A l \in LinksOf(s) : down[l] = <<>>

PcOnline(u) == \E s \in Server, t \in ClientType \cap PcType : local[s][u][t] > 0

\* What a server told its PC clients last of a user is true once every packet has
\* been read: the OFFLINE of one PC client is not passed on while another is left.
StatusShownIsTrue ==
    losses = 0 /\ Quiet => \A s \in Server, u \in User :
        shown[s][u] = "nothing" \/ shown[s][u] = Status(PcOnline(u))

\* No entry of g_user_map points to a CRouteConn that was closed and released.
NoDanglingRouteConn == \A u \in User : table[u].conns \subseteq rOpen
=============================================================================
