----------------------------- MODULE MsgServer -----------------------------
(***************************************************************************)
(* One msg_server process: the client connections (CMsgConn), the user     *)
(* objects they belong to (CImUser) and the two registries that find a     *)
(* user object by login name and by id (CImUserManager).                   *)
(*                                                                         *)
(* The process is single threaded: every action is one callback of its     *)
(* event loop.  What interleaves is the order in which clients, the        *)
(* database proxy, the route server and the one-second timer are served.   *)
(*                                                                         *)
(* A connection object is identified by a member of Conn, used once; the   *)
(* file descriptor it holds is a member of Handle and is reused as soon    *)
(* as the connection is closed.  A user object is identified by its login  *)
(* name: an object exists exactly while the by-name registry holds it.     *)
(* A client may send the empty login name, and one CImUser object has it.  *)
(* m_online_status, which the login request sets too, only travels in the  *)
(* list of the online users: it is part of Presence.                       *)
(***************************************************************************)
EXTENDS Integers, FiniteSets

CONSTANTS
    Conn,         \* connection objects, one per accepted socket
    Handle,       \* file descriptors (netlib handles), ordered as in std::map
    Name,         \* login names, other than the empty one
    User,         \* user ids known to the database
    ClientType,   \* the client types in use
    UserOf,       \* the id the database answers with for each login name
    NoConn, NoUser,
    NoName        \* the empty login name; as an object, none

NoHandle == -1      \* NETLIB_INVALID_HANDLE
NoType   == "none"  \* m_client_type before the login request

PcType     == {"WINDOWS", "MAC"}
MobileType == {"IOS", "ANDROID"}

ASSUME HandleAssumption == Handle \subseteq Nat
ASSUME UserOfAssumption == UserOf \in [Name -> User]
ASSUME TypeAssumption   == ClientType \subseteq PcType \cup MobileType
ASSUME NullAssumption   == NoConn \notin Conn /\ NoName \notin Name /\ NoUser \notin User

\* What msg.user_id() of a login request can be.
LoginName == Name \cup {NoName}

VARIABLES
    cState,   \* "new" (not accepted yet), "live" (in g_msg_conn_map), "closed"
    cHandle,  \* m_handle
    cName,    \* m_login_name, empty until the login request
    cUid,     \* m_user_id, NoUser (0) until validated
    cType,    \* m_client_type
    cOpen,    \* m_bOpen
    cKick,    \* m_bKickOff
    uLive,    \* the login names whose CImUser exists (m_im_user_map_by_name)
    uId,      \* m_user_id of the object
    uValid,   \* m_bValidate
    uConns,   \* m_conn_map: handle -> connection
    uUnval,   \* m_unvalidate_conn_set
    byId,     \* m_im_user_map: id -> object
    pending,  \* validate requests the database proxy has not answered
    online,   \* per user and client type, ONLINE minus OFFLINE announcements
    ready     \* a database proxy and a route server are connected

connVars == <<cState, cHandle, cName, cUid, cType, cOpen, cKick>>
userVars == <<uLive, uId, uValid, uConns, uUnval, byId>>
vars     == <<connVars, userVars, pending, online, ready>>

\* conn tells apart requests of one name and handle; no guard reads it.
Request == [name : LoginName, handle : Handle, conn : Conn]

TypeOK ==
    /\ cState  \in [Conn -> {"new", "live", "closed"}]
    /\ cHandle \in [Conn -> Handle \cup {NoHandle}]
    /\ cName   \in [Conn -> LoginName]
    /\ cUid    \in [Conn -> User \cup {NoUser}]
    /\ cType   \in [Conn -> ClientType \cup {NoType}]
    /\ cOpen   \in [Conn -> BOOLEAN]
    /\ cKick   \in [Conn -> BOOLEAN]
    /\ uLive   \in SUBSET LoginName
    /\ uId     \in [LoginName -> User \cup {NoUser}]
    /\ uValid  \in [LoginName -> BOOLEAN]
    /\ uConns  \in [LoginName -> [Handle -> Conn \cup {NoConn}]]
    /\ uUnval  \in [LoginName -> SUBSET Conn]
    /\ byId    \in [User -> LoginName]
    /\ pending \in SUBSET Request
    /\ online  \in [User -> [ClientType -> Int]]
    /\ ready   \in BOOLEAN

Init ==
    /\ cState  = [c \in Conn |-> "new"]
    /\ cHandle = [c \in Conn |-> NoHandle]
    /\ cName   = [c \in Conn |-> NoName]
    /\ cUid    = [c \in Conn |-> NoUser]
    /\ cType   = [c \in Conn |-> NoType]
    /\ cOpen   = [c \in Conn |-> FALSE]
    /\ cKick   = [c \in Conn |-> FALSE]
    /\ uLive   = {}
    /\ uId     = [n \in LoginName |-> NoUser]
    /\ uValid  = [n \in LoginName |-> FALSE]
    /\ uConns  = [n \in LoginName |-> [h \in Handle |-> NoConn]]
    /\ uUnval  = [n \in LoginName |-> {}]
    /\ byId    = [u \in User |-> NoName]
    /\ pending = {}
    /\ online  = [u \in User |-> [t \in ClientType |-> 0]]
    /\ ready   = TRUE

-----------------------------------------------------------------------------
(* Helpers *)

\* Mutant of Live: a packet is still handled after its connection was closed.
LiveOrClosed(c) == cState[c] # "new"

Live(c) == cState[c] = "live"

IsPc(t)         == t \in PcType
SameClass(a, b) == IsPc(a) <=> IsPc(b)

NoConns == [h \in Handle |-> NoConn]

\* Mutant of IsMsgConnEmpty: the caller removes the object without looking.
EmptyUnchecked(conns, n) == TRUE

IsMsgConnEmpty(conns, n) == conns[n] = NoConns

\* Mutant of DelUnValidateMsgConn: the waiting connection is forgotten in the set.
StillWaiting(waiting, c) == waiting

DelUnValidateMsgConn(waiting, c) == waiting \ {c}

\* CImUser::KickOutSameClientType: only the FIRST connection of the class, in
\* handle order, gets the kick packet and the flag; it is not closed.
Kickable(conns, t, from) ==
    {h \in Handle : conns[h] # NoConn /\ conns[h] # from /\ SameClass(cType[conns[h]], t)}

KickFirst(conns, t, from) ==
    IF Kickable(conns, t, from) = {} THEN cKick
    ELSE LET first == CHOOSE h \in Kickable(conns, t, from) :
                         \A k \in Kickable(conns, t, from) : h <= k
         IN  [cKick EXCEPT ![conns[first]] = TRUE]

\* Mutant of KickOutSameClientType: mobile clients are left alone.
KickPcOnly(conns, t, from) == IF IsPc(t) THEN KickFirst(conns, t, from) ELSE cKick

KickOutSameClientType(conns, t, from) == KickFirst(conns, t, from)

\* Mutant of RemoveImUserById: only the by-name registry forgets the object.
KeepsId(gone, u) == FALSE

RemoveImUserById(gone, u) == \E n \in gone : uId[n] = u

\* CImUserManager::RemoveImUser on each object of gone: erased by its id, by its
\* name, and deleted.  conns and unval are the maps the caller has updated so far.
RemoveImUsers(gone, conns, unval) ==
    /\ uLive'  = uLive \ gone
    /\ byId'   = [u \in User |-> IF RemoveImUserById(gone, u) THEN NoName ELSE byId[u]]
    /\ uId'    = [n \in LoginName |-> IF n \in gone THEN NoUser ELSE uId[n]]
    /\ uValid' = [n \in LoginName |-> uValid[n] /\ n \notin gone]
    /\ uConns' = [n \in LoginName |-> IF n \in gone THEN NoConns ELSE conns[n]]
    /\ uUnval' = [n \in LoginName |-> IF n \in gone THEN {} ELSE unval[n]]

\* CMsgConn::SendUserStatusUpdate, ONLINE for d = 1 and OFFLINE for d = -1.
Announce(u, t, d) == [online EXCEPT ![u][t] = @ + d]

\* Mutant of Announced: OFFLINE only when no other client of the user is open.
OfflineWhenLast(u, t, d) ==
    IF d = -1 /\ \E c, e \in Conn : c # e /\ {cUid[c], cUid[e]} = {u} THEN online
    ELSE Announce(u, t, d)

Announced(u, t, d) == Announce(u, t, d)

\* CMsgConn::Close.  The user is looked up twice, by id and by login name; either
\* object is removed when its map of validated connections is empty, even if
\* other connections of it still wait for the database.
Close(c) ==
    LET byUid  == IF cUid[c] = NoUser THEN {} ELSE {byId[cUid[c]]} \ {NoName}
        conns  == [k \in LoginName |-> IF k \in byUid THEN [uConns[k] EXCEPT ![cHandle[c]] = NoConn]
                                       ELSE uConns[k]]
        gone1  == {k \in byUid : IsMsgConnEmpty(conns, k)}
        byName == {cName[c]} \cap (uLive \ gone1)
        gone2  == {k \in byName : IsMsgConnEmpty(conns, k)}
        unval  == [k \in LoginName |-> IF k \in byUid \cup byName
                                       THEN DelUnValidateMsgConn(uUnval[k], c) ELSE uUnval[k]]
    IN  /\ cState' = [cState EXCEPT ![c] = "closed"]
        /\ RemoveImUsers(gone1 \cup gone2, conns, unval)
        /\ online' = IF cOpen[c] /\ byUid # {} THEN Announced(cUid[c], cType[c], -1) ELSE online
        \* ReleaseRef: the object is gone
        /\ cHandle' = [cHandle EXCEPT ![c] = NoHandle]
        /\ cName'   = [cName EXCEPT ![c] = NoName]
        /\ cUid'    = [cUid EXCEPT ![c] = NoUser]
        /\ cType'   = [cType EXCEPT ![c] = NoType]
        /\ cOpen'   = [cOpen EXCEPT ![c] = FALSE]
        /\ cKick'   = [cKick EXCEPT ![c] = FALSE]

-----------------------------------------------------------------------------
(* Client connections *)

\* CMsgConn::OnConnect.  The constructor leaves m_client_type unset.  Until the
\* login request its value only chooses between two idle timeouts, both longer
\* than the login timeout that closes the connection first, so NoType stands for
\* every value.
OnConnect(c, h) ==
    /\ cState[c] = "new"
    /\ \A d \in Conn : Live(d) => cHandle[d] # h
    /\ cState'  = [cState EXCEPT ![c] = "live"]
    /\ cHandle' = [cHandle EXCEPT ![c] = h]
    /\ UNCHANGED <<cName, cUid, cType, cOpen, cKick, userVars, pending, online, ready>>

\* CMsgConn::_HandleLoginRequest, the path that asks the database.  The request
\* counts as a second one when the name the first one left is not empty.
HandleLoginRequest(c, n, t) ==
    /\ Live(c) /\ cName[c] = NoName
    /\ ready
    /\ cName'   = [cName EXCEPT ![c] = n]
    /\ cType'   = [cType EXCEPT ![c] = t]
    /\ uLive'   = uLive \cup {n}
    /\ uUnval'  = [uUnval EXCEPT ![n] = @ \cup {c}]
    /\ pending' = pending \cup {[name |-> n, handle |-> cHandle[c], conn |-> c]}
    /\ UNCHANGED <<cState, cHandle, cUid, cOpen, cKick, uId, uValid, uConns, byId,
                   online, ready>>

\* _HandleLoginRequest, no database or no route server: refuse and close.
RefuseLogin(c) ==
    /\ Live(c) /\ cName[c] = NoName
    /\ ~ready
    /\ Close(c)
    /\ UNCHANGED <<pending, ready>>

\* _HandleLoginOutRequest (answers and closes) and CMsgConn::OnClose (the peer
\* closed, or a packet could not be parsed) both end in Close.
HandleLoginOut(c) ==
    /\ Live(c)
    /\ Close(c)
    /\ UNCHANGED <<pending, ready>>

\* CMsgConn::OnTimer, a client that has been silent too long.
IdleTimeout(c) ==
    /\ Live(c) /\ cOpen[c]
    /\ Close(c)
    /\ UNCHANGED <<pending, ready>>

\* CMsgConn::OnTimer, TIMEOUT_WATI_LOGIN_RESPONSE passed and still not open.
LoginTimeout(c) ==
    /\ Live(c) /\ ~cOpen[c]
    /\ Close(c)
    /\ UNCHANGED <<pending, ready>>

\* CMsgConn::_HandleKickPCClient: a mobile client kicks the user's PC client.
HandleKickPCClient(c) ==
    /\ Live(c) /\ ~IsPc(cType[c])
    /\ cUid[c] # NoUser /\ byId[cUid[c]] # NoName
    /\ cKick' = KickOutSameClientType(uConns[byId[cUid[c]]], "MAC", c)
    /\ UNCHANGED <<cState, cHandle, cName, cUid, cType, cOpen, userVars, pending, online, ready>>

-----------------------------------------------------------------------------
(* The database proxy answers *)

\* The connection _HandleValidateResponse finds for an answer: by login name,
\* then by handle among the connections of that user not validated yet.
\* Where that search reads a connection that was closed, its freed memory may
\* hold any live one by now, or anything else (then the answer is dropped; a
\* crash ends the behaviour).
Stale(r) == \E d \in uUnval[r.name] : ~Live(d)

Addressed(r) == {c \in Conn : /\ Live(c) /\ ~cOpen[c] /\ cHandle[c] = r.handle
                              /\ r.name \in uLive
                              /\ c \in uUnval[r.name] \/ Stale(r)}

\* No such connection any more: the answer is dropped.
DropValidateResponse(r) ==
    /\ r \in pending
    /\ Addressed(r) = {} \/ Stale(r)
    /\ pending' = pending \ {r}
    /\ UNCHANGED <<connVars, userVars, online, ready>>

ValidateFailed(r, c) ==
    /\ r \in pending /\ c \in Addressed(r)
    /\ Close(c)
    /\ pending' = pending \ {r}
    /\ UNCHANGED <<ready>>

\* Validated (the database knows no user of the empty name), and no object is
\* registered under the id yet: the object found by name becomes the user's object.
ValidateFirst(r, c) ==
    LET u == UserOf[r.name] IN
    /\ r \in pending /\ r.name \in Name /\ c \in Addressed(r)
    /\ byId[u] = NoName
    /\ byId'   = [byId EXCEPT ![u] = r.name]
    /\ uId'    = [uId EXCEPT ![r.name] = u]
    /\ uValid' = [uValid EXCEPT ![r.name] = TRUE]
    /\ cKick'  = KickOutSameClientType(uConns[r.name], cType[c], c)
    /\ cUid'   = [cUid EXCEPT ![c] = u]
    /\ cOpen'  = [cOpen EXCEPT ![c] = TRUE]
    /\ online' = Announced(u, cType[c], 1)
    /\ uConns' = [uConns EXCEPT ![r.name][cHandle[c]] = c]
    /\ uUnval' = [uUnval EXCEPT ![r.name] = DelUnValidateMsgConn(@, c)]
    /\ pending' = pending \ {r}
    /\ UNCHANGED <<cState, cHandle, cName, cType, uLive, ready>>

\* Validated, and the id has an object m already: the connection moves to m, and
\* the object found by name is deleted if it has no validated connection, with
\* whatever connections of it still wait.
ValidateMore(r, c) ==
    LET u    == UserOf[r.name]
        m    == byId[u]
        gone == {n \in {r.name} : IsMsgConnEmpty(uConns, n)}
    IN
    /\ r \in pending /\ r.name \in Name /\ c \in Addressed(r)
    /\ m # NoName
    /\ uLive'  = uLive \ gone
    /\ byId'   = byId
    /\ uId'    = [n \in LoginName |-> IF n = m THEN u ELSE IF n \in gone THEN NoUser ELSE uId[n]]
    /\ uValid' = [n \in LoginName |-> n = m \/ (n \notin gone /\ uValid[n])]
    /\ cKick'  = KickOutSameClientType(uConns[m], cType[c], c)
    /\ cUid'   = [cUid EXCEPT ![c] = u]
    /\ cOpen'  = [cOpen EXCEPT ![c] = TRUE]
    /\ online' = Announced(u, cType[c], 1)
    /\ uConns' = [uConns EXCEPT ![m][cHandle[c]] = c]
    /\ uUnval' = [n \in LoginName |-> IF n \in gone THEN {}
                                 ELSE IF n \in {m, r.name} THEN DelUnValidateMsgConn(uUnval[n], c)
                                 ELSE uUnval[n]]
    /\ pending' = pending \ {r}
    /\ UNCHANGED <<cState, cHandle, cName, cType, ready>>

-----------------------------------------------------------------------------
(* The other servers *)

\* CRouteServConn::_HandleKickUser: the user logged in on another msg_server.
RouteKickUser(u, t) ==
    /\ byId[u] # NoName
    /\ cKick' = KickOutSameClientType(uConns[byId[u]], t, NoConn)
    /\ UNCHANGED <<cState, cHandle, cName, cUid, cType, cOpen, userVars, pending, online, ready>>

\* A connection to a database proxy closes: the answers it would have carried
\* are lost; another connection may still be open.
DbConnClosed(lost, still) ==
    /\ ready
    /\ pending' = pending \ lost
    /\ ready'   = still
    /\ UNCHANGED <<connVars, userVars, online>>

\* The last connection to a route server closes.
RouteConnClosed ==
    /\ ready
    /\ ready' = FALSE
    /\ UNCHANGED <<connVars, userVars, pending, online>>

\* CDBServConn::OnConfirm or CRouteServConn::OnConfirm: both kinds are open again.
ServersConfirmed ==
    /\ ~ready
    /\ ready' = TRUE
    /\ UNCHANGED <<connVars, userVars, pending, online>>

Next ==
    \/ \E c \in Conn, h \in Handle : OnConnect(c, h)
    \/ \E c \in Conn, n \in LoginName, t \in ClientType : HandleLoginRequest(c, n, t)
    \/ \E c \in Conn : \/ RefuseLogin(c)
                       \/ HandleLoginOut(c)
                       \/ IdleTimeout(c)
                       \/ LoginTimeout(c)
                       \/ HandleKickPCClient(c)
    \/ \E r \in pending : DropValidateResponse(r)
    \/ \E r \in pending, c \in Conn : \/ ValidateFailed(r, c)
                                      \/ ValidateFirst(r, c)
                                      \/ ValidateMore(r, c)
    \/ \E u \in User, t \in ClientType : RouteKickUser(u, t)
    \/ \E lost \in SUBSET pending, still \in BOOLEAN : DbConnClosed(lost, still)
    \/ RouteConnClosed
    \/ ServersConfirmed

Spec == Init /\ [][Next]_vars

-----------------------------------------------------------------------------
(* Safety *)

\* No user object keeps a pointer to a connection that was closed (Close ends in
\* ReleaseRef): a broadcast, a kick or an answer through it would touch a freed
\* object.  The waiting set of the object with the empty login name is the
\* exception SecondRequestRefused is about.
NoDanglingConn ==
    \A n \in uLive :
        /\ n # NoName => \A c \in uUnval[n] : Live(c)
        /\ \A h \in Handle : uConns[n][h] # NoConn =>
               Live(uConns[n][h]) /\ cHandle[uConns[n][h]] = h

\* The two registries agree: an id leads to an existing, validated object of that
\* id with at least one connection, and every validated object is reachable by
\* its id.  (Otherwise GetImUserById returns a deleted object.)
RegistriesAgree ==
    /\ \A u \in User : byId[u] # NoName =>
          byId[u] \in uLive /\ uId[byId[u]] = u /\ uConns[byId[u]] # NoConns
    /\ \A n \in uLive : uValid[n] => uId[n] \in User /\ byId[uId[n]] = n
    /\ \A n \in uLive : ~uValid[n] => uId[n] = NoUser /\ uConns[n] = NoConns

\* A validated connection receives what is sent to its user and nothing else: it
\* is in the connection map of the object its id leads to, and the maps hold
\* validated connections of that id only.
OpenIffDeliverable ==
    /\ \A c \in Conn : Live(c) /\ cOpen[c] =>
          cUid[c] \in User /\ byId[cUid[c]] # NoName /\ uConns[byId[cUid[c]]][cHandle[c]] = c
    /\ \A n \in uLive, h \in Handle : uConns[n][h] # NoConn =>
          cOpen[uConns[n][h]] /\ cUid[uConns[n][h]] = uId[n]

OpenConns(u, t) == {c \in Conn : Live(c) /\ cOpen[c] /\ cUid[c] = u /\ cType[c] = t}

\* SendUserStatusUpdate: the ONLINE and OFFLINE announcements of a user's client
\* type always net to the number of its open connections, so that a route server
\* that applies all of them counts right.
AnnouncementsBalance ==
    \A u \in User, t \in ClientType : online[u][t] = Cardinality(OpenConns(u, t))

\* The class of the connection that opens in this step had one active connection
\* and no kicked one that lingers: the old one is displaced.  (HandleKickUser
\* stops at the first connection of the class, and does not close it: while that
\* one lingers, it shields a second one from the next kick.)
NewLoginDisplacesOld ==
    [][\A c \in Conn :
          LET u    == cUid'[c]
              same == {d \in Conn \ {c} : Live(d) /\ cOpen[d] /\ cUid[d] = u
                                          /\ SameClass(cType[d], cType[c])}
          IN  ~cOpen[c] /\ cOpen'[c] /\ Cardinality(same) = 1 => \A d \in same : cKick'[d]]_vars

\* "refuse second validate request", the comment of the guard of
\* _HandleLoginRequest: the database is never asked twice for one connection.
\* The guard looks at the name's length: an empty name lets a second request
\* through, Close then finds the object of the second name only, and the object
\* of the empty name keeps the freed connection.
SecondRequestRefused == \A r, q \in pending : r.conn = q.conn => r = q
=============================================================================
