-------------------------- MODULE MsgServerProofs --------------------------
(* The registry invariants of MsgServer, for any number of connections,       *)
(* handles, login names and users.                                            *)
EXTENDS MsgServer, FiniteSetTheorems, TLAPS

-----------------------------------------------------------------------------
(* The inductive invariant *)

ConnShape ==
    /\ \A c \in Conn : Live(c) => cHandle[c] \in Handle
    /\ \A c \in Conn : ~Live(c) => cName[c] = NoName /\ cUid[c] = NoUser
    /\ \A c \in Conn : cOpen[c] <=> cUid[c] # NoUser
    /\ \A c \in Conn : cOpen[c] => cName[c] # NoName

HandlesDistinct ==
    \A c, d \in Conn : Live(c) /\ Live(d) /\ cHandle[c] = cHandle[d] => c = d

\* A connection waits under its own login name only.  (The object of the empty
\* name may keep one that logged in again with another name.)
WaitingShape ==
    \A n \in Name : \A c \in uUnval[n] : Live(c) /\ ~cOpen[c] /\ cName[c] = n

\* What the variables say of a login name that has no object.
NoObject ==
    \A n \in LoginName \ uLive :
        uId[n] = NoUser /\ ~uValid[n] /\ uConns[n] = NoConns /\ uUnval[n] = {}

ConnMapShape ==
    \A n \in LoginName, h \in Handle : uConns[n][h] # NoConn =>
        /\ n \in uLive /\ uValid[n]
        /\ Live(uConns[n][h]) /\ cHandle[uConns[n][h]] = h
        /\ cOpen[uConns[n][h]] /\ cUid[uConns[n][h]] = uId[n]

ByIdShape ==
    /\ \A u \in User : byId[u] # NoName =>
          byId[u] \in uLive /\ uValid[byId[u]] /\ uId[byId[u]] = u /\ uConns[byId[u]] # NoConns
    /\ \A n \in LoginName : uValid[n] =>
          n \in Name /\ uId[n] \in User /\ uId[n] = UserOf[n] /\ byId[uId[n]] = n
    /\ \A n \in LoginName : ~uValid[n] => uId[n] = NoUser /\ uConns[n] = NoConns

OpenShape ==
    \A c \in Conn : Live(c) /\ cOpen[c] =>
        cUid[c] \in User /\ byId[cUid[c]] # NoName /\ uConns[byId[cUid[c]]][cHandle[c]] = c

IInv == /\ TypeOK /\ ConnShape /\ HandlesDistinct /\ WaitingShape
        /\ NoObject /\ ConnMapShape /\ ByIdShape /\ OpenShape


-----------------------------------------------------------------------------
(* Facts about the helpers *)

LEMMA KickType ==
    ASSUME cKick \in [Conn -> BOOLEAN], NEW conns, NEW t, NEW from
    PROVE  KickOutSameClientType(conns, t, from) \in [Conn -> BOOLEAN]
  BY DEF KickOutSameClientType, KickFirst

LEMMA AnnouncedType ==
    ASSUME online \in [User -> [ClientType -> Int]], NEW u \in User, NEW t, NEW d \in Int
    PROVE  Announced(u, t, d) \in [User -> [ClientType -> Int]]
  <1> DEFINE g == [online[u] EXCEPT ![t] = @ + d]
  <1>0. online[u] \in [ClientType -> Int]
    OBVIOUS
  <1>1. ASSUME NEW s \in ClientType PROVE g[s] \in Int
    <2>1. CASE s = t
      <3>1. g[s] = online[u][s] + d
        BY <2>1, <1>0
      <3>2. online[u][s] \in Int
        BY <1>0
      <3>3. QED
        BY <3>1, <3>2
    <2>2. CASE s # t
      BY <2>2, <1>0
    <2>3. QED
      BY <2>1, <2>2
  <1>2. g \in [ClientType -> Int]
    BY <1>1, <1>0
  <1>3. [online EXCEPT ![u][t] = @ + d] = [online EXCEPT ![u] = g]
    OBVIOUS
  <1> HIDE DEF g
  <1>4. QED
    BY <1>2, <1>3 DEF Announced, Announce

THEOREM InitIInv == Init => IInv
  <1> SUFFICES ASSUME Init PROVE IInv
    OBVIOUS
  <1>1. TypeOK
    BY DEF Init, TypeOK, NoConns, LoginName
  <1>2. ConnShape /\ HandlesDistinct /\ OpenShape
    BY DEF Init, ConnShape, HandlesDistinct, OpenShape, Live
  <1>3. WaitingShape /\ NoObject
    BY DEF Init, WaitingShape, NoObject, NoConns, LoginName
  <1>4. ConnMapShape /\ ByIdShape
    BY DEF Init, ConnMapShape, ByIdShape, NoConns
  <1>5. QED
    BY <1>1, <1>2, <1>3, <1>4 DEF IInv

\* Close keeps the invariant.  The object found by id holds the connection if it
\* is open; an object is removed only when no other connection is in its map, so
\* every other open connection still finds its own.
LEMMA CloseIInv ==
    ASSUME IInv, NEW c \in Conn, Live(c), Close(c),
           pending' \in SUBSET Request, ready' \in BOOLEAN
    PROVE  IInv'
  <1> DEFINE byUid  == IF cUid[c] = NoUser THEN {} ELSE {byId[cUid[c]]} \ {NoName}
             conns  == [k \in LoginName |-> IF k \in byUid THEN [uConns[k] EXCEPT ![cHandle[c]] = NoConn]
                                            ELSE uConns[k]]
             gone1  == {k \in byUid : conns[k] = NoConns}
             byName == {cName[c]} \cap (uLive \ gone1)
             gone2  == {k \in byName : conns[k] = NoConns}
             unval  == [k \in LoginName |-> IF k \in byUid \cup byName THEN uUnval[k] \ {c}
                                            ELSE uUnval[k]]
             gone   == gone1 \cup gone2
  <1> USE NullAssumption
  <1>0. /\ TypeOK /\ ConnShape /\ HandlesDistinct /\ WaitingShape
        /\ NoObject /\ ConnMapShape /\ ByIdShape /\ OpenShape
    BY DEF IInv
  <1>1. /\ cState' = [cState EXCEPT ![c] = "closed"]
        /\ cHandle' = [cHandle EXCEPT ![c] = NoHandle]
        /\ cName' = [cName EXCEPT ![c] = NoName]
        /\ cUid' = [cUid EXCEPT ![c] = NoUser]
        /\ cType' = [cType EXCEPT ![c] = NoType]
        /\ cOpen' = [cOpen EXCEPT ![c] = FALSE]
        /\ cKick' = [cKick EXCEPT ![c] = FALSE]
    BY DEF Close, IsMsgConnEmpty
  <1>2. /\ uLive' = uLive \ gone
        /\ byId' = [u \in User |-> IF \E k \in gone : uId[k] = u THEN NoName ELSE byId[u]]
        /\ uId' = [k \in LoginName |-> IF k \in gone THEN NoUser ELSE uId[k]]
        /\ uValid' = [k \in LoginName |-> uValid[k] /\ k \notin gone]
        /\ uConns' = [k \in LoginName |-> IF k \in gone THEN NoConns ELSE conns[k]]
        /\ uUnval' = [k \in LoginName |-> IF k \in gone THEN {} ELSE unval[k]]
    BY DEF Close, RemoveImUsers, RemoveImUserById, IsMsgConnEmpty, DelUnValidateMsgConn
  <1>3. online' = IF cOpen[c] /\ byUid # {}
                  THEN Announced(cUid[c], cType[c], -1) ELSE online
    BY DEF Close, IsMsgConnEmpty
  <1>4. cHandle[c] \in Handle
    BY <1>0 DEF ConnShape
  <1>5. conns \in [LoginName -> [Handle -> Conn \cup {NoConn}]]
    BY <1>0, <1>4 DEF TypeOK
  <1>6. \A k \in byUid : /\ k \in LoginName /\ k \in uLive /\ cOpen[c] /\ uConns[k][cHandle[c]] = c
                         /\ cUid[c] \in User /\ k = byId[cUid[c]]
    BY <1>0 DEF TypeOK, ConnShape, OpenShape, ByIdShape
  <1>7. ASSUME NEW k \in LoginName, NEW h \in Handle, conns[k][h] # NoConn
        PROVE  conns[k][h] = uConns[k][h] /\ conns[k][h] # c
    <2>1. conns[k][h] = uConns[k][h]
      BY <1>0, <1>7, <1>4 DEF TypeOK
    <2>2. uConns[k][h] = c => k \in byUid /\ h = cHandle[c]
      BY <1>0, <1>7, <2>1 DEF ConnMapShape, ByIdShape, ConnShape
    <2>3. k \in byUid /\ h = cHandle[c] => conns[k][h] = NoConn
      BY <1>0, <1>4 DEF TypeOK
    <2>4. QED
      BY <1>7, <2>1, <2>2, <2>3
  <1>8. ASSUME NEW k \in LoginName, NEW h \in Handle, uConns[k][h] # c
        PROVE  conns[k][h] = uConns[k][h]
    BY <1>0, <1>4, <1>6, <1>8 DEF TypeOK
  <1>9. \A k \in gone : k \in LoginName /\ k \in uLive /\ conns[k] = NoConns
    BY <1>0, <1>6 DEF TypeOK
  <1>10. uConns' = conns
    BY <1>2, <1>5, <1>9
  <1>11. \A k \in LoginName : uUnval'[k] \subseteq uUnval[k] /\ (k \in Name => c \notin uUnval'[k])
    <2>1. ASSUME NEW k \in Name, c \in uUnval[k]
          PROVE  k \in gone \cup byName
      <3>1. k = cName[c] /\ ~cOpen[c] /\ k \in uLive
        BY <1>0, <2>1 DEF WaitingShape, NoObject, LoginName
      <3>2. QED
        BY <3>1
    <2>2. QED
      BY <1>0, <1>2, <2>1 DEF TypeOK
  <1>12. \A d \in Conn : Live(d)' <=> Live(d) /\ d # c
    BY <1>0, <1>1 DEF Live, TypeOK
  <1>13. \A k \in gone : uId[k] # NoUser => uId[k] \in User /\ byId[uId[k]] = k
    BY <1>0, <1>9 DEF ByIdShape
  <1> HIDE DEF byUid, conns, gone1, byName, gone2, unval, gone
  <1>14. TypeOK'
    <2>1. uUnval' \in [LoginName -> SUBSET Conn]
      BY <1>0, <1>2, <1>11 DEF TypeOK
    <2>2. online' \in [User -> [ClientType -> Int]]
      <3>1. CASE cOpen[c] /\ byUid # {}
        <4>1. cUid[c] \in User
          BY <1>0, <1>6, <3>1 DEF TypeOK
        <4>2. QED
          BY <1>0, <1>3, <3>1, <4>1, AnnouncedType DEF TypeOK
      <3>2. CASE ~(cOpen[c] /\ byUid # {})
        BY <1>0, <1>3, <3>2 DEF TypeOK
      <3>3. QED
        BY <3>1, <3>2
    <2>3. /\ cState' \in [Conn -> {"new", "live", "closed"}]
          /\ cHandle' \in [Conn -> Handle \cup {NoHandle}]
          /\ cName' \in [Conn -> LoginName]
          /\ cUid' \in [Conn -> User \cup {NoUser}]
          /\ cType' \in [Conn -> ClientType \cup {NoType}]
          /\ cOpen' \in [Conn -> BOOLEAN]
          /\ cKick' \in [Conn -> BOOLEAN]
      BY <1>0, <1>1 DEF TypeOK, LoginName
    <2>4. /\ uLive' \in SUBSET LoginName
          /\ uId' \in [LoginName -> User \cup {NoUser}]
          /\ byId' \in [User -> LoginName]
          /\ uConns' \in [LoginName -> [Handle -> Conn \cup {NoConn}]]
      BY <1>0, <1>2, <1>5, <1>10 DEF TypeOK, LoginName
    <2>5. uValid' \in [LoginName -> BOOLEAN]
      BY <1>2
    <2>6. QED
      BY <2>1, <2>2, <2>3, <2>4, <2>5 DEF TypeOK
  <1>15. ConnShape' /\ HandlesDistinct'
    BY <1>0, <1>1, <1>12 DEF ConnShape, HandlesDistinct, TypeOK
  <1>16. WaitingShape'
    BY <1>0, <1>1, <1>11, <1>12 DEF WaitingShape, TypeOK, LoginName
  <1>17. NoObject'
    <2>1. ASSUME NEW k \in LoginName \ uLive', k \notin gone
          PROVE  /\ uId[k] = NoUser /\ ~uValid[k] /\ uConns[k] = NoConns /\ uUnval[k] = {}
      BY <1>0, <1>2, <2>1 DEF NoObject
    <2>2. ASSUME NEW k \in LoginName \ uLive', k \notin gone
          PROVE  conns[k] = NoConns
      <3>1. \A h \in Handle : conns[k][h] = NoConn
        BY <1>7, <2>1, <2>2 DEF NoConns
      <3>2. QED
        BY <1>5, <3>1 DEF NoConns
    <2>3. QED
      BY <1>2, <1>9, <1>10, <1>11, <2>1, <2>2 DEF NoObject
  <1>18. ConnMapShape'
    <2> SUFFICES ASSUME NEW k \in LoginName, NEW h \in Handle, conns[k][h] # NoConn
                 PROVE  /\ k \in uLive' /\ uValid'[k]
                        /\ cState'[conns[k][h]] = "live" /\ cHandle'[conns[k][h]] = h
                        /\ cOpen'[conns[k][h]] /\ cUid'[conns[k][h]] = uId'[k]
      BY <1>10 DEF ConnMapShape, Live
    <2>1. conns[k][h] = uConns[k][h] /\ conns[k][h] # c
      BY <1>7
    <2>2. conns[k][h] \in Conn
      BY <1>5
    <2>3. k \notin gone
      BY <1>9 DEF NoConns
    <2>4. QED
      BY <1>0, <1>1, <1>2, <2>1, <2>2, <2>3 DEF ConnMapShape, TypeOK, Live
  <1>19. ByIdShape'
    <2>1. ASSUME NEW u \in User, byId'[u] # NoName
          PROVE  /\ byId'[u] \in uLive' /\ uValid'[byId'[u]] /\ uId'[byId'[u]] = u
                 /\ uConns'[byId'[u]] # NoConns
      <3>1. byId'[u] = byId[u] /\ byId[u] \in LoginName /\ byId[u] \in uLive /\ uId[byId[u]] = u
            /\ uValid[byId[u]] /\ uConns[byId[u]] # NoConns
        BY <1>0, <1>2, <2>1 DEF ByIdShape, TypeOK
      <3>2. byId[u] \notin gone
        BY <1>2, <2>1, <3>1
      <3>3. PICK h \in Handle : uConns[byId[u]][h] # NoConn
        BY <1>0, <3>1 DEF NoConns, TypeOK
      <3>4. conns[byId[u]] # NoConns
        BY <3>1, <3>2 DEF gone, gone1, gone2, byUid, byName, conns
      <3>5. QED
        BY <1>2, <1>10, <3>1, <3>2, <3>4
    <2>2. ASSUME NEW k \in LoginName, uValid'[k]
          PROVE  k \in Name /\ uId'[k] \in User /\ uId'[k] = UserOf[k] /\ byId'[uId'[k]] = k
      <3>1. /\ k \notin gone /\ uValid[k] /\ uId'[k] = uId[k]
            /\ k \in Name /\ uId[k] \in User /\ uId[k] = UserOf[k] /\ byId[uId[k]] = k
        BY <1>0, <1>2, <2>2 DEF ByIdShape
      <3>2. \A j \in gone : uId[j] # uId[k]
        BY <1>0, <1>13, <3>1
      <3>3. QED
        BY <1>2, <3>1, <3>2
    <2>3. ASSUME NEW k \in LoginName, ~uValid'[k]
          PROVE  uId'[k] = NoUser /\ uConns'[k] = NoConns
      <3>1. CASE k \in gone
        BY <1>2, <1>9, <1>10, <3>1
      <3>2. CASE k \notin gone
        <4>1. uId[k] = NoUser /\ uConns[k] = NoConns
          BY <1>0, <1>2, <2>3, <3>2 DEF ByIdShape
        <4>2. \A h \in Handle : conns[k][h] = NoConn
          BY <1>7, <4>1 DEF NoConns
        <4>3. QED
          BY <1>2, <1>5, <1>10, <3>2, <4>1, <4>2 DEF NoConns
      <3>3. QED
        BY <3>1, <3>2
    <2>4. QED
      BY <2>1, <2>2, <2>3 DEF ByIdShape
  <1>20. OpenShape'
    <2> SUFFICES ASSUME NEW d \in Conn, Live(d)', cOpen'[d]
                 PROVE  /\ cUid'[d] \in User /\ byId'[cUid'[d]] # NoName
                        /\ uConns'[byId'[cUid'[d]]][cHandle'[d]] = d
      BY DEF OpenShape
    <2>1. /\ d # c /\ Live(d) /\ cOpen[d] /\ cUid'[d] = cUid[d] /\ cHandle'[d] = cHandle[d]
      BY <1>0, <1>1, <1>12 DEF TypeOK
    <2>2. /\ cUid[d] \in User /\ byId[cUid[d]] \in LoginName \ {NoName} /\ cHandle[d] \in Handle
          /\ uConns[byId[cUid[d]]][cHandle[d]] = d
      BY <1>0, <2>1 DEF OpenShape, ConnShape, TypeOK
    <2>3. conns[byId[cUid[d]]][cHandle[d]] = d
      BY <1>8, <2>1, <2>2
    <2>4. byId[cUid[d]] \notin gone
      BY <1>9, <2>2, <2>3 DEF NoConns
    <2>5. \A j \in gone : uId[j] # cUid[d]
      BY <1>13, <2>2, <2>4
    <2>6. QED
      BY <1>2, <1>10, <2>1, <2>2, <2>3, <2>5 DEF LoginName
  <1>21. QED
    BY <1>14, <1>15, <1>16, <1>17, <1>18, <1>19, <1>20 DEF IInv

\* Only the kick flags, the pending requests or the links change.
LEMMA FlagsIInv ==
    ASSUME IInv, cKick' \in [Conn -> BOOLEAN], pending' \in SUBSET Request, ready' \in BOOLEAN,
           UNCHANGED <<cState, cHandle, cName, cUid, cType, cOpen, userVars, online>>
    PROVE  IInv'
  <1>0. /\ TypeOK /\ ConnShape /\ HandlesDistinct /\ WaitingShape
        /\ NoObject /\ ConnMapShape /\ ByIdShape /\ OpenShape
    BY DEF IInv
  <1>1. TypeOK'
    BY <1>0 DEF TypeOK, userVars
  <1>2. ConnShape' /\ HandlesDistinct' /\ WaitingShape' /\ NoObject'
    BY <1>0 DEF ConnShape, HandlesDistinct, WaitingShape, NoObject, Live, userVars
  <1>3. ConnMapShape' /\ ByIdShape' /\ OpenShape'
    BY <1>0 DEF ConnMapShape, ByIdShape, OpenShape, Live, userVars
  <1>4. QED
    BY <1>1, <1>2, <1>3 DEF IInv

\* A new connection takes a handle no live connection holds.
LEMMA OnConnectIInv ==
    ASSUME IInv, NEW c \in Conn, NEW h \in Handle, OnConnect(c, h)
    PROVE  IInv'
  <1>0. /\ TypeOK /\ ConnShape /\ HandlesDistinct /\ WaitingShape
        /\ NoObject /\ ConnMapShape /\ ByIdShape /\ OpenShape
    BY DEF IInv
  <1>1. TypeOK'
    BY <1>0 DEF TypeOK, OnConnect, userVars
  <1>2. \A d \in Conn : Live(d)' <=> Live(d) \/ d = c
    BY <1>0 DEF TypeOK, OnConnect, Live
  <1>3. \A d \in Conn : d # c => cHandle'[d] = cHandle[d]
    BY <1>0 DEF TypeOK, OnConnect
  <1>4. ~Live(c) /\ cHandle'[c] = h /\ cUid[c] = NoUser /\ ~cOpen[c]
    BY <1>0 DEF TypeOK, OnConnect, Live, ConnShape
  <1>5. ConnShape' /\ HandlesDistinct'
    BY <1>0, <1>2, <1>3, <1>4 DEF ConnShape, HandlesDistinct, OnConnect
  <1>6. WaitingShape' /\ NoObject' /\ ByIdShape'
    BY <1>0, <1>2 DEF WaitingShape, NoObject, ByIdShape, OnConnect, userVars, TypeOK, LoginName
  <1>7. ConnMapShape'
    <2> SUFFICES ASSUME NEW k \in LoginName, NEW j \in Handle, uConns[k][j] # NoConn
                 PROVE  /\ k \in uLive /\ uValid[k]
                        /\ cState'[uConns[k][j]] = "live" /\ cHandle'[uConns[k][j]] = j
                        /\ cOpen[uConns[k][j]] /\ cUid[uConns[k][j]] = uId[k]
      BY DEF ConnMapShape, OnConnect, userVars, Live
    <2>1. uConns[k][j] \in Conn
      BY <1>0 DEF TypeOK
    <2>2. QED
      BY <1>0, <1>2, <1>3, <1>4, <2>1 DEF ConnMapShape, Live
  <1>8. OpenShape'
    BY <1>0, <1>2, <1>3, <1>4 DEF OpenShape, OnConnect, userVars
  <1>9. QED
    BY <1>1, <1>5, <1>6, <1>7, <1>8 DEF IInv

LEMMA LoginRequestIInv ==
    ASSUME IInv, NEW c \in Conn, NEW n \in LoginName, NEW t \in ClientType, HandleLoginRequest(c, n, t)
    PROVE  IInv'
  <1> USE NullAssumption
  <1>0. /\ TypeOK /\ ConnShape /\ HandlesDistinct /\ WaitingShape
        /\ NoObject /\ ConnMapShape /\ ByIdShape /\ OpenShape
    BY DEF IInv
  <1>1. Live(c) /\ cHandle[c] \in Handle /\ ~cOpen[c] /\ cName[c] = NoName
    BY <1>0 DEF HandleLoginRequest, ConnShape
  <1>2. [name |-> n, handle |-> cHandle[c], conn |-> c] \in Request
    BY <1>1 DEF Request
  <1>3. TypeOK'
    <2>1. uUnval' \in [LoginName -> SUBSET Conn]
      BY <1>0 DEF HandleLoginRequest, TypeOK
    <2>2. pending' \in SUBSET Request
      BY <1>0, <1>2 DEF HandleLoginRequest, TypeOK
    <2>3. QED
      BY <1>0, <2>1, <2>2 DEF HandleLoginRequest, TypeOK
  <1>4. ConnShape' /\ HandlesDistinct'
    BY <1>0, <1>1 DEF ConnShape, HandlesDistinct, HandleLoginRequest, Live, TypeOK
  <1>5. WaitingShape'
    <2> SUFFICES ASSUME NEW k \in Name, NEW d \in Conn, d \in uUnval'[k]
                 PROVE  cState[d] = "live" /\ ~cOpen[d] /\ cName'[d] = k
      BY <1>3 DEF WaitingShape, HandleLoginRequest, Live, TypeOK, LoginName
    <2>1. CASE d \in uUnval[k]
      BY <1>0, <1>1, <2>1 DEF WaitingShape, HandleLoginRequest, Live, TypeOK, LoginName
    <2>2. CASE d \notin uUnval[k]
      <3>1. k = n /\ d = c
        BY <1>0, <2>2 DEF HandleLoginRequest, TypeOK
      <3>2. QED
        BY <1>0, <1>1, <3>1 DEF HandleLoginRequest, Live, TypeOK
    <2>3. QED
      BY <2>1, <2>2
  <1>6. NoObject'
    BY <1>0 DEF NoObject, HandleLoginRequest, TypeOK
  <1>7. ConnMapShape' /\ ByIdShape' /\ OpenShape'
    BY <1>0 DEF ConnMapShape, ByIdShape, OpenShape, HandleLoginRequest, Live
  <1>8. QED
    BY <1>3, <1>4, <1>5, <1>6, <1>7 DEF IInv

\* Both branches of a passed validation: connection c moves from the waiting set
\* of the object found by name to the connection map of object m.
LEMMA ValidateFirstIInv ==
    ASSUME IInv, NEW r \in pending, NEW c \in Conn, ValidateFirst(r, c)
    PROVE  IInv'
  <1> DEFINE u == UserOf[r.name]
             n == r.name
  <1> USE NullAssumption, UserOfAssumption
  <1>0. /\ TypeOK /\ ConnShape /\ HandlesDistinct /\ WaitingShape
        /\ NoObject /\ ConnMapShape /\ ByIdShape /\ OpenShape
    BY DEF IInv
  <1>1. n \in Name /\ n \in LoginName /\ u \in User
    BY DEF ValidateFirst, LoginName
  <1>2. /\ Live(c) /\ ~cOpen[c] /\ cName[c] = n /\ cHandle[c] \in Handle
        /\ cUid[c] = NoUser /\ n \in uLive /\ byId[u] = NoName
    BY <1>0, <1>1 DEF ValidateFirst, Addressed, Stale, WaitingShape, ConnShape
  <1>3. ~uValid[n] /\ uId[n] = NoUser /\ uConns[n] = NoConns
    BY <1>0, <1>1, <1>2 DEF ByIdShape
  <1>4. /\ byId' = [byId EXCEPT ![u] = n] /\ uId' = [uId EXCEPT ![n] = u]
        /\ uValid' = [uValid EXCEPT ![n] = TRUE]
        /\ cKick' = KickOutSameClientType(uConns[n], cType[c], c)
        /\ cUid' = [cUid EXCEPT ![c] = u] /\ cOpen' = [cOpen EXCEPT ![c] = TRUE]
        /\ online' = Announced(u, cType[c], 1)
        /\ uConns' = [uConns EXCEPT ![n][cHandle[c]] = c]
        /\ uUnval' = [uUnval EXCEPT ![n] = @ \ {c}]
        /\ pending' = pending \ {r}
        /\ UNCHANGED <<cState, cHandle, cName, cType, uLive, ready>>
    BY DEF ValidateFirst, DelUnValidateMsgConn
  <1> HIDE DEF u, n
  <1>5. TypeOK'
    <2>1. cKick' \in [Conn -> BOOLEAN]
      BY <1>0, <1>4, KickType DEF TypeOK
    <2>2. online' \in [User -> [ClientType -> Int]]
      BY <1>0, <1>1, <1>4, AnnouncedType DEF TypeOK
    <2>3. uConns' \in [LoginName -> [Handle -> Conn \cup {NoConn}]]
      BY <1>0, <1>1, <1>2, <1>4 DEF TypeOK
    <2>4. uUnval' \in [LoginName -> SUBSET Conn] /\ pending' \in SUBSET Request
      BY <1>0, <1>4 DEF TypeOK
    <2>5. /\ byId' \in [User -> LoginName] /\ uId' \in [LoginName -> User \cup {NoUser}]
          /\ cUid' \in [Conn -> User \cup {NoUser}]
      BY <1>0, <1>1, <1>4 DEF TypeOK
    <2>6. uValid' \in [LoginName -> BOOLEAN] /\ cOpen' \in [Conn -> BOOLEAN]
      BY <1>0, <1>4 DEF TypeOK
    <2>7. QED
      BY <1>0, <1>4, <2>1, <2>2, <2>3, <2>4, <2>5, <2>6 DEF TypeOK
  <1>6. ConnShape' /\ HandlesDistinct'
    BY <1>0, <1>1, <1>2, <1>4 DEF ConnShape, HandlesDistinct, Live, TypeOK
  <1>7. WaitingShape'
    BY <1>0, <1>2, <1>4 DEF WaitingShape, Live, TypeOK
  <1>8. NoObject'
    BY <1>0, <1>2, <1>4 DEF NoObject, TypeOK
  <1>9. \A k \in LoginName, h \in Handle :
          uConns'[k][h] = IF k = n /\ h = cHandle[c] THEN c ELSE uConns[k][h]
    BY <1>0, <1>1, <1>2, <1>4 DEF TypeOK
  <1>10. ConnMapShape'
    <2> SUFFICES ASSUME NEW k \in LoginName, NEW h \in Handle, uConns'[k][h] # NoConn
                 PROVE  /\ k \in uLive /\ uValid'[k]
                        /\ cState[uConns'[k][h]] = "live" /\ cHandle[uConns'[k][h]] = h
                        /\ cOpen'[uConns'[k][h]] /\ cUid'[uConns'[k][h]] = uId'[k]
      BY <1>4 DEF ConnMapShape, Live
    <2>1. CASE k = n
      <3>1. h = cHandle[c] /\ uConns'[k][h] = c
        BY <1>3, <1>9, <2>1 DEF NoConns
      <3>2. QED
        BY <1>0, <1>1, <1>2, <1>4, <2>1, <3>1 DEF Live, TypeOK
    <2>2. CASE k # n
      <3>1. uConns'[k][h] = uConns[k][h] /\ uConns[k][h] \in Conn /\ uConns[k][h] # c
        BY <1>0, <1>2, <1>9, <2>2 DEF ConnMapShape, TypeOK
      <3>2. QED
        BY <1>0, <1>1, <1>4, <2>2, <3>1 DEF ConnMapShape, Live, TypeOK
    <2>3. QED
      BY <2>1, <2>2
  <1>11. ByIdShape'
    <2>1. uConns'[n] # NoConns
      BY <1>1, <1>2, <1>9 DEF NoConns
    <2>2. \A k \in LoginName : k # n => uConns'[k] = uConns[k]
      BY <1>0, <1>4 DEF TypeOK
    <2>3. \A k \in LoginName : uValid[k] => uId[k] # u
      BY <1>0, <1>1, <1>2 DEF ByIdShape
    <2>4. \A v \in User : v # u => byId'[v] = byId[v] /\ byId[v] # n
      BY <1>0, <1>1, <1>3, <1>4 DEF ByIdShape, TypeOK
    <2>5. byId'[u] = n /\ uId'[n] = u /\ uValid'[n] /\ u = UserOf[n]
      BY <1>0, <1>1, <1>4 DEF TypeOK, u, n
    <2>6. \A k \in LoginName : k # n => uId'[k] = uId[k] /\ uValid'[k] = uValid[k]
      BY <1>0, <1>4 DEF TypeOK
    <2>7. \A v \in User : byId'[v] # NoName =>
            byId'[v] \in uLive' /\ uValid'[byId'[v]] /\ uId'[byId'[v]] = v
              /\ uConns'[byId'[v]] # NoConns
      <3> SUFFICES ASSUME NEW v \in User, byId'[v] # NoName, v # u
                   PROVE  byId[v] \in uLive /\ uValid'[byId[v]] /\ uId'[byId[v]] = v
                            /\ uConns'[byId[v]] # NoConns
        BY <1>2, <1>4, <2>1, <2>4, <2>5
      <3>1. byId[v] # n /\ byId[v] \in LoginName /\ byId[v] # NoName
        BY <1>0, <2>4 DEF TypeOK
      <3>2. QED
        BY <1>0, <2>2, <2>6, <3>1 DEF ByIdShape
    <2>8. \A k \in LoginName : uValid'[k] => k \in Name /\ uId'[k] \in User /\ uId'[k] = UserOf[k] /\ byId'[uId'[k]] = k
      BY <1>0, <1>1, <2>3, <2>4, <2>5, <2>6 DEF ByIdShape
    <2>9. \A k \in LoginName : ~uValid'[k] => uId'[k] = NoUser /\ uConns'[k] = NoConns
      BY <1>0, <2>2, <2>5, <2>6 DEF ByIdShape
    <2>10. QED
      BY <2>7, <2>8, <2>9 DEF ByIdShape
  <1>12. OpenShape'
    <2> SUFFICES ASSUME NEW d \in Conn, Live(d), cOpen'[d]
                 PROVE  /\ cUid'[d] \in User /\ byId'[cUid'[d]] # NoName
                        /\ uConns'[byId'[cUid'[d]]][cHandle[d]] = d
      BY <1>4 DEF OpenShape, Live
    <2>1. CASE d = c
      BY <1>0, <1>1, <1>2, <1>4, <1>9, <2>1 DEF TypeOK
    <2>2. CASE d # c
      <3>1. /\ cOpen[d] /\ cUid'[d] = cUid[d] /\ cUid[d] \in User /\ byId[cUid[d]] \in LoginName \ {NoName}
            /\ uConns[byId[cUid[d]]][cHandle[d]] = d /\ cHandle[d] \in Handle
        BY <1>0, <1>4, <2>2 DEF OpenShape, ConnShape, TypeOK
      <3>2. cUid[d] # u /\ cHandle[d] # cHandle[c]
        BY <1>0, <1>1, <1>2, <2>2, <3>1 DEF HandlesDistinct, LoginName
      <3>3. byId'[cUid[d]] = byId[cUid[d]]
        BY <1>0, <1>4, <3>1, <3>2 DEF TypeOK
      <3>4. QED
        BY <1>9, <3>1, <3>2, <3>3 DEF LoginName
    <2>3. QED
      BY <2>1, <2>2
  <1>13. QED
    BY <1>5, <1>6, <1>7, <1>8, <1>10, <1>11, <1>12 DEF IInv

LEMMA ValidateMoreIInv ==
    ASSUME IInv, NEW r \in pending, NEW c \in Conn, ValidateMore(r, c)
    PROVE  IInv'
  <1> DEFINE n    == r.name
             u    == UserOf[n]
             m    == byId[u]
             gone == {k \in {n} : uConns[k] = NoConns}
  <1> USE NullAssumption, UserOfAssumption
  <1>0. /\ TypeOK /\ ConnShape /\ HandlesDistinct /\ WaitingShape
        /\ NoObject /\ ConnMapShape /\ ByIdShape /\ OpenShape
    BY DEF IInv
  <1>1. n \in Name /\ n \in LoginName /\ u \in User
    BY DEF ValidateMore, LoginName
  <1>2. /\ Live(c) /\ ~cOpen[c] /\ cName[c] = n /\ cHandle[c] \in Handle
        /\ cUid[c] = NoUser /\ n \in uLive
    BY <1>0, <1>1 DEF ValidateMore, Addressed, Stale, WaitingShape, ConnShape
  <1>3. /\ m \in LoginName \ {NoName} /\ m \in uLive /\ uValid[m] /\ uId[m] = u /\ u = UserOf[m]
        /\ uConns[m] # NoConns /\ m \notin gone
    BY <1>0, <1>1 DEF ByIdShape, ValidateMore, TypeOK, IsMsgConnEmpty
  <1>4. \A k \in gone : k = n /\ uConns[k] = NoConns /\ ~uValid[k] /\ uId[k] = NoUser
    BY <1>0, <1>1 DEF ByIdShape
  <1>5. /\ uLive' = uLive \ gone /\ byId' = byId
        /\ uId' = [k \in LoginName |-> IF k = m THEN u ELSE IF k \in gone THEN NoUser ELSE uId[k]]
        /\ uValid' = [k \in LoginName |-> k = m \/ (k \notin gone /\ uValid[k])]
        /\ cKick' = KickOutSameClientType(uConns[m], cType[c], c)
        /\ cUid' = [cUid EXCEPT ![c] = u] /\ cOpen' = [cOpen EXCEPT ![c] = TRUE]
        /\ online' = Announced(u, cType[c], 1)
        /\ uConns' = [uConns EXCEPT ![m][cHandle[c]] = c]
        /\ uUnval' = [k \in LoginName |-> IF k \in gone THEN {}
                                     ELSE IF k \in {m, n} THEN uUnval[k] \ {c} ELSE uUnval[k]]
        /\ pending' = pending \ {r}
        /\ UNCHANGED <<cState, cHandle, cName, cType, ready>>
    BY DEF ValidateMore, DelUnValidateMsgConn, IsMsgConnEmpty
  <1>6. uId' = uId
    BY <1>0, <1>1, <1>3, <1>4, <1>5 DEF TypeOK
  <1>7. \A k \in LoginName : uValid'[k] = uValid[k]
    BY <1>0, <1>3, <1>4, <1>5 DEF TypeOK
  <1>8. \A k \in LoginName : uUnval'[k] \subseteq uUnval[k] /\ (k \in Name => c \notin uUnval'[k])
    BY <1>0, <1>1, <1>2, <1>5 DEF WaitingShape, LoginName
  <1>9. \A k \in LoginName, h \in Handle :
          uConns'[k][h] = IF k = m /\ h = cHandle[c] THEN c ELSE uConns[k][h]
    BY <1>0, <1>1, <1>2, <1>3, <1>5 DEF TypeOK
  <1> HIDE DEF u, n, m, gone
  <1>10. TypeOK'
    <2>1. cKick' \in [Conn -> BOOLEAN]
      BY <1>0, <1>5, KickType DEF TypeOK
    <2>2. online' \in [User -> [ClientType -> Int]]
      BY <1>0, <1>1, <1>5, AnnouncedType DEF TypeOK
    <2>3. uConns' \in [LoginName -> [Handle -> Conn \cup {NoConn}]]
      BY <1>0, <1>2, <1>3, <1>5 DEF TypeOK
    <2>4. uUnval' \in [LoginName -> SUBSET Conn] /\ pending' \in SUBSET Request
      BY <1>0, <1>5 DEF TypeOK
    <2>5. uValid' \in [LoginName -> BOOLEAN] /\ cOpen' \in [Conn -> BOOLEAN]
      BY <1>0, <1>5 DEF TypeOK
    <2>6. cUid' \in [Conn -> User \cup {NoUser}] /\ uLive' \in SUBSET LoginName
      BY <1>0, <1>1, <1>5 DEF TypeOK
    <2>7. QED
      BY <1>0, <1>5, <1>6, <2>1, <2>2, <2>3, <2>4, <2>5, <2>6 DEF TypeOK
  <1>11. ConnShape' /\ HandlesDistinct'
    BY <1>0, <1>1, <1>2, <1>5 DEF ConnShape, HandlesDistinct, Live, TypeOK
  <1>12. WaitingShape'
    <2> SUFFICES ASSUME NEW k \in Name, NEW d \in uUnval'[k]
                 PROVE  cState[d] = "live" /\ ~cOpen'[d] /\ cName[d] = k
      BY <1>5 DEF WaitingShape, Live
    <2>1. k \in LoginName /\ d \in uUnval[k] /\ d # c
      BY <1>8 DEF LoginName
    <2> QED
      BY <1>0, <1>5, <2>1 DEF WaitingShape, Live, TypeOK
  <1>13. NoObject'
    <2> SUFFICES ASSUME NEW k \in LoginName, k \notin uLive'
                 PROVE  uId[k] = NoUser /\ ~uValid[k] /\ uConns'[k] = NoConns /\ uUnval'[k] = {}
      BY <1>6, <1>7 DEF NoObject
    <2>1. k # m /\ uConns'[k] = uConns[k]
      BY <1>0, <1>3, <1>5 DEF TypeOK
    <2>2. QED
      BY <1>0, <1>4, <1>5, <1>8, <2>1 DEF NoObject
  <1>14. ConnMapShape'
    <2> SUFFICES ASSUME NEW k \in LoginName, NEW h \in Handle, uConns'[k][h] # NoConn
                 PROVE  /\ k \in uLive' /\ uValid[k]
                        /\ cState[uConns'[k][h]] = "live" /\ cHandle[uConns'[k][h]] = h
                        /\ cOpen'[uConns'[k][h]] /\ cUid'[uConns'[k][h]] = uId[k]
      BY <1>5, <1>6, <1>7 DEF ConnMapShape, Live
    <2>1. CASE k = m /\ h = cHandle[c]
      BY <1>0, <1>1, <1>2, <1>3, <1>5, <1>9, <2>1 DEF Live, TypeOK
    <2>2. CASE ~(k = m /\ h = cHandle[c])
      <3>1. uConns'[k][h] = uConns[k][h] /\ uConns[k][h] \in Conn /\ uConns[k][h] # c
        BY <1>0, <1>2, <1>9, <2>2 DEF ConnMapShape, TypeOK
      <3>2. k \in uLive'
        BY <1>0, <1>4, <1>5, <3>1 DEF ConnMapShape
      <3>3. QED
        BY <1>0, <1>5, <3>1, <3>2 DEF ConnMapShape, Live, TypeOK
    <2>3. QED
      BY <2>1, <2>2
  <1>15. ByIdShape'
    <2>1. \A k \in LoginName : uConns'[k] # NoConns <=> uConns[k] # NoConns
      <3>1. uConns'[m] # NoConns
        BY <1>2, <1>3, <1>9 DEF NoConns
      <3>2. \A k \in LoginName : k # m => uConns'[k] = uConns[k]
        BY <1>0, <1>5 DEF TypeOK
      <3>3. QED
        BY <1>3, <3>1, <3>2
    <2>2. ASSUME NEW v \in User, byId[v] # NoName
          PROVE  byId[v] \in uLive'
      BY <1>0, <1>4, <1>5, <2>2 DEF ByIdShape, TypeOK
    <2>3. \A v \in User : byId[v] # NoName =>
            byId[v] \in uLive' /\ uValid'[byId[v]] /\ uId[byId[v]] = v /\ uConns'[byId[v]] # NoConns
      BY <1>0, <1>7, <2>1, <2>2 DEF ByIdShape, TypeOK
    <2>4. \A k \in LoginName : uValid'[k] => k \in Name /\ uId[k] \in User /\ uId[k] = UserOf[k] /\ byId[uId[k]] = k
      BY <1>0, <1>7 DEF ByIdShape
    <2>5. \A k \in LoginName : ~uValid'[k] => uId[k] = NoUser /\ uConns'[k] = NoConns
      BY <1>0, <1>7, <2>1 DEF ByIdShape
    <2>6. QED
      BY <1>5, <1>6, <2>3, <2>4, <2>5 DEF ByIdShape
  <1>16. OpenShape'
    <2> SUFFICES ASSUME NEW d \in Conn, Live(d), cOpen'[d]
                 PROVE  /\ cUid'[d] \in User /\ byId[cUid'[d]] # NoName
                        /\ uConns'[byId[cUid'[d]]][cHandle[d]] = d
      BY <1>5 DEF OpenShape, Live
    <2>1. CASE d = c
      BY <1>0, <1>1, <1>2, <1>3, <1>5, <1>9, <2>1 DEF TypeOK, m, LoginName
    <2>2. CASE d # c
      <3>1. /\ cOpen[d] /\ cUid'[d] = cUid[d] /\ cUid[d] \in User /\ byId[cUid[d]] \in LoginName \ {NoName}
            /\ uConns[byId[cUid[d]]][cHandle[d]] = d /\ cHandle[d] \in Handle
        BY <1>0, <1>5, <2>2 DEF OpenShape, ConnShape, TypeOK
      <3>2. cHandle[d] # cHandle[c]
        BY <1>0, <1>2, <2>2 DEF HandlesDistinct
      <3>3. QED
        BY <1>9, <3>1, <3>2 DEF LoginName
    <2>3. QED
      BY <2>1, <2>2
  <1>17. QED
    BY <1>10, <1>11, <1>12, <1>13, <1>14, <1>15, <1>16 DEF IInv

-----------------------------------------------------------------------------
(* The theorems *)

LEMMA NextIInv ==
    ASSUME IInv, [Next]_vars
    PROVE  IInv'
  <1>0. TypeOK
    BY DEF IInv
  <1>1. ASSUME NEW c \in Conn, NEW h \in Handle, OnConnect(c, h) PROVE IInv'
    BY <1>1, OnConnectIInv
  <1>2. ASSUME NEW c \in Conn, NEW n \in LoginName, NEW t \in ClientType, HandleLoginRequest(c, n, t)
        PROVE  IInv'
    BY <1>2, LoginRequestIInv
  <1>3. ASSUME NEW c \in Conn,
               RefuseLogin(c) \/ HandleLoginOut(c) \/ IdleTimeout(c) \/ LoginTimeout(c)
        PROVE  IInv'
    <2>1. Live(c) /\ Close(c) /\ pending' \in SUBSET Request /\ ready' \in BOOLEAN
      BY <1>0, <1>3 DEF RefuseLogin, HandleLoginOut, IdleTimeout, LoginTimeout, TypeOK
    <2>2. QED
      BY <2>1, CloseIInv
  <1>4. ASSUME NEW c \in Conn, HandleKickPCClient(c) PROVE IInv'
    <2>1. cKick' \in [Conn -> BOOLEAN]
      BY <1>0, <1>4, KickType DEF HandleKickPCClient, TypeOK
    <2>2. QED
      BY <1>0, <1>4, <2>1, FlagsIInv DEF HandleKickPCClient, TypeOK
  <1>5. ASSUME NEW r \in pending, DropValidateResponse(r) PROVE IInv'
    BY <1>0, <1>5, FlagsIInv DEF DropValidateResponse, TypeOK, connVars
  <1>6. ASSUME NEW r \in pending, NEW c \in Conn, ValidateFailed(r, c) PROVE IInv'
    <2>1. Live(c)
      BY <1>6 DEF ValidateFailed, Addressed
    <2>2. pending' \in SUBSET Request /\ ready' \in BOOLEAN
      BY <1>0, <1>6 DEF ValidateFailed, TypeOK
    <2>3. QED
      BY <1>6, <2>1, <2>2, CloseIInv DEF ValidateFailed
  <1>7. ASSUME NEW r \in pending, NEW c \in Conn, ValidateFirst(r, c) \/ ValidateMore(r, c)
        PROVE  IInv'
    BY <1>7, ValidateFirstIInv, ValidateMoreIInv
  <1>8. ASSUME NEW u \in User, NEW t \in ClientType, RouteKickUser(u, t) PROVE IInv'
    <2>1. cKick' \in [Conn -> BOOLEAN]
      BY <1>0, <1>8, KickType DEF RouteKickUser, TypeOK
    <2>2. QED
      BY <1>0, <1>8, <2>1, FlagsIInv DEF RouteKickUser, TypeOK
  <1>9. ASSUME NEW lost \in SUBSET pending, NEW still \in BOOLEAN, DbConnClosed(lost, still)
        PROVE  IInv'
    BY <1>0, <1>9, FlagsIInv DEF DbConnClosed, TypeOK, connVars
  <1>10. CASE RouteConnClosed \/ ServersConfirmed
    BY <1>0, <1>10, FlagsIInv DEF RouteConnClosed, ServersConfirmed, TypeOK, connVars
  <1>11. CASE UNCHANGED vars
    BY <1>0, <1>11, FlagsIInv DEF vars, TypeOK, connVars
  <1>12. QED
    BY <1>1, <1>2, <1>3, <1>4, <1>5, <1>6, <1>7, <1>8, <1>9, <1>10, <1>11 DEF Next

\* The whole inductive invariant holds of every reachable state, whatever names,
\* the empty one included, the clients log in with and how often they try.
THEOREM IInvHolds == Spec => []IInv
  <1>1. QED
    BY InitIInv, NextIInv, PTL DEF Spec

\* Type correctness of the msg_server registries.
THEOREM TypeCorrect == Spec => []TypeOK
  <1>1. IInv => TypeOK
    BY DEF IInv
  <1>2. QED
    BY <1>1, IInvHolds, PTL

\* CMsgConn::Close leaves no pointer to the connection it frees in any CImUser,
\* but for the waiting set of the one with the empty login name.
THEOREM NoDangling == Spec => []NoDanglingConn
  <1>1. IInv => NoDanglingConn
    BY DEF IInv, NoDanglingConn, WaitingShape, ConnMapShape, TypeOK, LoginName
  <1>2. QED
    BY <1>1, IInvHolds, PTL

\* CImUserManager's two registries never disagree: GetImUserById returns no
\* deleted object, and RemoveImUser erases no other object's registration.
THEOREM Registries == Spec => []RegistriesAgree
  <1>1. IInv => RegistriesAgree
    BY DEF IInv, RegistriesAgree, ByIdShape, TypeOK
  <1>2. QED
    BY <1>1, IInvHolds, PTL

\* A connection can be delivered to exactly when its validation passed.
THEOREM Deliverable == Spec => []OpenIffDeliverable
  <1>1. IInv => OpenIffDeliverable
    BY DEF IInv, OpenIffDeliverable, OpenShape, ConnMapShape, TypeOK
  <1>2. QED
    BY <1>1, IInvHolds, PTL


-----------------------------------------------------------------------------
(* Announcements and open connections *)

OpenOnes == {c \in Conn : cOpen[c]}

\* Only finitely many connections are open, so that they can be counted.
Balance == IsFiniteSet(OpenOnes) /\ AnnouncementsBalance

LEMMA AnnouncedIs ==
    ASSUME online \in [User -> [ClientType -> Int]], NEW u \in User, NEW t, NEW d \in Int
    PROVE  \A v \in User, s \in ClientType :
             Announced(u, t, d)[v][s] = IF v = u /\ s = t THEN online[v][s] + d ELSE online[v][s]
  BY DEF Announced, Announce

\* The connections of user v and type s that are open are open ones.
LEMMA OpenConnsIs ==
    ASSUME IInv
    PROVE  /\ \A v, s : OpenConns(v, s) = {c \in Conn : cOpen[c] /\ cUid[c] = v /\ cType[c] = s}
           /\ \A v, s : OpenConns(v, s) \subseteq OpenOnes
  <1>1. \A c \in Conn : cOpen[c] => Live(c)
    BY NullAssumption DEF IInv, ConnShape
  <1> QED
    BY <1>1 DEF OpenConns, OpenOnes

\* Connection c opens for user u.
LEMMA OpenBalance ==
    ASSUME IInv, Balance, NEW c \in Conn, NEW u \in User, Live(c), ~cOpen[c],
           cUid' = [cUid EXCEPT ![c] = u], cOpen' = [cOpen EXCEPT ![c] = TRUE],
           online' = Announced(u, cType[c], 1), UNCHANGED <<cState, cType>>
    PROVE  Balance'
  <1>1. OpenOnes' = OpenOnes \cup {c}
    BY DEF OpenOnes, IInv, TypeOK
  <1>2. IsFiniteSet(OpenOnes')
    BY <1>1, FS_AddElement DEF Balance
  <1>3. ASSUME NEW v \in User, NEW s \in ClientType
        PROVE  online'[v][s] = Cardinality(OpenConns(v, s)')
    <2>1. /\ IsFiniteSet(OpenConns(v, s)) /\ c \notin OpenConns(v, s)
          /\ online[v][s] = Cardinality(OpenConns(v, s)) /\ online[v][s] \in Int
      BY OpenConnsIs, FS_Subset DEF Balance, AnnouncementsBalance, IInv, TypeOK
    <2>2. online'[v][s] = IF v = u /\ s = cType[c] THEN online[v][s] + 1 ELSE online[v][s]
      <3>1. online \in [User -> [ClientType -> Int]] /\ 1 \in Int
        BY DEF IInv, TypeOK
      <3>2. Announced(u, cType[c], 1)[v][s] =
              IF v = u /\ s = cType[c] THEN online[v][s] + 1 ELSE online[v][s]
        BY <3>1, AnnouncedIs
      <3> QED
        BY <3>2
    <2>3. OpenConns(v, s)' = IF v = u /\ s = cType[c] THEN OpenConns(v, s) \cup {c} ELSE OpenConns(v, s)
      BY DEF OpenConns, Live, IInv, TypeOK
    <2>4. Cardinality(OpenConns(v, s) \cup {c}) = Cardinality(OpenConns(v, s)) + 1
      BY <2>1, FS_AddElement
    <2> QED
      BY <2>1, <2>2, <2>3, <2>4
  <1> QED
    BY <1>2, <1>3 DEF Balance, AnnouncementsBalance

\* Connection c closes: its user, if it was open, is told to the others as gone.
LEMMA CloseBalance ==
    ASSUME IInv, Balance, NEW c \in Conn, Live(c), Close(c)
    PROVE  Balance'
  <1>1. /\ cState' = [cState EXCEPT ![c] = "closed"] /\ cUid' = [cUid EXCEPT ![c] = NoUser]
        /\ cType' = [cType EXCEPT ![c] = NoType] /\ cOpen' = [cOpen EXCEPT ![c] = FALSE]
        /\ online' = IF cOpen[c] /\ (IF cUid[c] = NoUser THEN {} ELSE {byId[cUid[c]]} \ {NoName}) # {}
                     THEN Announced(cUid[c], cType[c], -1) ELSE online
    BY DEF Close
  <1>2. cOpen[c] => cUid[c] \in User /\ cUid[c] # NoUser /\ byId[cUid[c]] # NoName
    BY NullAssumption DEF IInv, OpenShape
  <1>3. online' = IF cOpen[c] THEN Announced(cUid[c], cType[c], -1) ELSE online
    BY <1>1, <1>2
  <1>4. OpenOnes' = OpenOnes \ {c}
    BY <1>1 DEF OpenOnes, IInv, TypeOK
  <1>5. IsFiniteSet(OpenOnes')
    BY <1>4, FS_RemoveElement DEF Balance
  <1>6. ASSUME NEW v \in User, NEW s \in ClientType
        PROVE  online'[v][s] = Cardinality(OpenConns(v, s)')
    <2>1. /\ IsFiniteSet(OpenConns(v, s))
          /\ online[v][s] = Cardinality(OpenConns(v, s)) /\ online[v][s] \in Int
      BY OpenConnsIs, FS_Subset DEF Balance, AnnouncementsBalance, IInv, TypeOK
    <2>2. c \in OpenConns(v, s) <=> cOpen[c] /\ cUid[c] = v /\ cType[c] = s
      BY OpenConnsIs
    <2>3. online'[v][s] = IF c \in OpenConns(v, s) THEN online[v][s] - 1 ELSE online[v][s]
      <3>1. CASE cOpen[c]
        <4>1. Announced(cUid[c], cType[c], -1)[v][s] =
                IF v = cUid[c] /\ s = cType[c] THEN online[v][s] + (-1) ELSE online[v][s]
          BY <1>2, <3>1, AnnouncedIs DEF IInv, TypeOK
        <4> QED
          BY <1>3, <2>1, <2>2, <3>1, <4>1
      <3>2. CASE ~cOpen[c]
        BY <1>3, <2>2, <3>2
      <3> QED
        BY <3>1, <3>2
    <2>4. OpenConns(v, s)' = OpenConns(v, s) \ {c}
      BY <1>1 DEF OpenConns, Live, IInv, TypeOK
    <2>5. Cardinality(OpenConns(v, s) \ {c}) =
            IF c \in OpenConns(v, s) THEN Cardinality(OpenConns(v, s)) - 1 ELSE Cardinality(OpenConns(v, s))
      BY <2>1, FS_RemoveElement
    <2> QED
      BY <2>1, <2>3, <2>4, <2>5
  <1> QED
    BY <1>5, <1>6 DEF Balance, AnnouncementsBalance

\* Nothing is announced, and what is open stays so.
LEMMA SameBalance ==
    ASSUME IInv, Balance, UNCHANGED <<cOpen, cUid, online>>,
           \A c \in Conn : cOpen[c] => cState'[c] = cState[c] /\ cType'[c] = cType[c],
           \A c \in Conn : cState'[c] = cState[c] \/ ~cOpen[c]
    PROVE  Balance'
  <1>1. OpenOnes' = OpenOnes /\ \A v, s : OpenConns(v, s)' = OpenConns(v, s)
    BY DEF OpenOnes, OpenConns, Live
  <1> QED
    BY <1>1 DEF Balance, AnnouncementsBalance

\* The connection an answer is for: it waits, and is not open yet.
LEMMA AddressedWaits ==
    ASSUME IInv, NEW r \in pending, NEW c \in Conn, c \in Addressed(r)
    PROVE  /\ Live(c) /\ ~cOpen[c] /\ cHandle[c] \in Handle
           /\ r.name \in Name => UserOf[r.name] \in User
  BY UserOfAssumption DEF IInv, ConnShape, Addressed

LEMMA NextBalance == ASSUME IInv, Balance, [Next]_vars PROVE Balance'
  <1>1. ASSUME NEW c \in Conn, NEW h \in Handle, OnConnect(c, h) PROVE Balance'
    <2>1. ~cOpen[c]
      BY <1>1, NullAssumption DEF OnConnect, IInv, ConnShape, Live
    <2> QED
      BY <1>1, <2>1, SameBalance DEF OnConnect, IInv, TypeOK
  <1>2. ASSUME NEW c \in Conn, NEW n \in LoginName, NEW t \in ClientType, HandleLoginRequest(c, n, t)
        PROVE  Balance'
    <2>1. ~cOpen[c]
      BY <1>2 DEF HandleLoginRequest, IInv, ConnShape
    <2> QED
      BY <1>2, <2>1, SameBalance DEF HandleLoginRequest, IInv, TypeOK
  <1>3. ASSUME NEW c \in Conn,
               RefuseLogin(c) \/ HandleLoginOut(c) \/ IdleTimeout(c) \/ LoginTimeout(c)
        PROVE  Balance'
    BY <1>3, CloseBalance DEF RefuseLogin, HandleLoginOut, IdleTimeout, LoginTimeout
  <1>4. ASSUME NEW r \in pending, NEW c \in Conn, ValidateFailed(r, c) PROVE Balance'
    BY <1>4, AddressedWaits, CloseBalance DEF ValidateFailed
  <1>5. ASSUME NEW r \in pending, NEW c \in Conn, ValidateFirst(r, c) \/ ValidateMore(r, c)
        PROVE  Balance'
    <2>1. PICK u \in User : u = UserOf[r.name]
      BY <1>5, AddressedWaits DEF ValidateFirst, ValidateMore
    <2>2. /\ c \in Addressed(r) /\ cUid' = [cUid EXCEPT ![c] = u]
          /\ cOpen' = [cOpen EXCEPT ![c] = TRUE] /\ online' = Announced(u, cType[c], 1)
          /\ UNCHANGED <<cState, cType>>
      BY <1>5, <2>1 DEF ValidateFirst, ValidateMore
    <2> QED
      BY <2>2, AddressedWaits, OpenBalance
  <1>6. CASE UNCHANGED <<cState, cType, cOpen, cUid, online>>
    BY <1>6, SameBalance
  <1>7. ASSUME NEW c \in Conn, HandleKickPCClient(c) PROVE Balance'
    BY <1>6, <1>7 DEF HandleKickPCClient
  <1>8. ASSUME NEW r \in pending, DropValidateResponse(r) PROVE Balance'
    BY <1>6, <1>8 DEF DropValidateResponse, connVars
  <1>9. ASSUME NEW u \in User, NEW t \in ClientType, RouteKickUser(u, t) PROVE Balance'
    BY <1>6, <1>9 DEF RouteKickUser
  <1>10. ASSUME NEW lost \in SUBSET pending, NEW still \in BOOLEAN, DbConnClosed(lost, still)
         PROVE  Balance'
    BY <1>6, <1>10 DEF DbConnClosed, connVars
  <1>11. CASE RouteConnClosed \/ ServersConfirmed \/ UNCHANGED vars
    BY <1>6, <1>11 DEF RouteConnClosed, ServersConfirmed, vars, connVars
  <1> QED
    BY <1>1, <1>2, <1>3, <1>4, <1>5, <1>7, <1>8, <1>9, <1>10, <1>11 DEF Next

LEMMA BalanceHolds == Spec => []Balance
  <1>1. Init => Balance
    <2> SUFFICES ASSUME Init PROVE Balance
      OBVIOUS
    <2>1. OpenOnes = {} /\ \A u, t : OpenConns(u, t) = {}
      BY DEF Init, OpenOnes, OpenConns
    <2> QED
      BY <2>1, FS_EmptySet DEF Init, Balance, AnnouncementsBalance
  <1> QED
    BY <1>1, NextBalance, IInvHolds, PTL DEF Spec

\* ONLINE minus OFFLINE announcements of a user and client type are its open connections.
THEOREM AnnouncementsNet == Spec => []AnnouncementsBalance
  BY BalanceHolds, PTL DEF Balance

-----------------------------------------------------------------------------
(* A new login displaces the old one *)

\* The other open connections of user u in the class of connection c.
SameAs(c, u) == {d \in Conn \ {c} : Live(d) /\ cOpen[d] /\ cUid[d] = u
                                    /\ SameClass(cType[d], cType[c])}

\* The one other connection of the class is the first one the kick finds.
LEMMA OnlyOneKicked ==
    ASSUME IInv, NEW c \in Conn, NEW u \in User, byId[u] # NoName, NEW d, SameAs(c, u) = {d},
           cKick' = KickOutSameClientType(uConns[byId[u]], cType[c], c)
    PROVE  cKick'[d]
  <1> DEFINE m == byId[u]
             K == Kickable(uConns[m], cType[c], c)
  <1>1. /\ d \in Conn /\ d # c /\ Live(d) /\ cOpen[d] /\ cUid[d] = u
        /\ SameClass(cType[d], cType[c])
    BY DEF SameAs
  <1>2. m \in LoginName /\ uId[m] = u /\ uConns[m] \in [Handle -> Conn \cup {NoConn}]
    BY DEF IInv, TypeOK, ByIdShape
  <1>3. cHandle[d] \in Handle /\ uConns[m][cHandle[d]] = d
    BY <1>1 DEF IInv, ConnShape, OpenShape
  <1>4. cHandle[d] \in K
    BY <1>1, <1>3, NullAssumption DEF Kickable
  <1>5. ASSUME NEW h \in K PROVE h = cHandle[d]
    <2>1. /\ h \in Handle /\ uConns[m][h] \in Conn /\ uConns[m][h] # c
          /\ uConns[m][h] # NoConn /\ SameClass(cType[uConns[m][h]], cType[c])
      BY <1>2 DEF Kickable
    <2>2. /\ Live(uConns[m][h]) /\ cHandle[uConns[m][h]] = h
          /\ cOpen[uConns[m][h]] /\ cUid[uConns[m][h]] = u
      BY <1>2, <2>1 DEF IInv, ConnMapShape
    <2>3. uConns[m][h] \in SameAs(c, u)
      BY <2>1, <2>2 DEF SameAs
    <2> QED
      BY <2>2, <2>3
  <1>6. K = {cHandle[d]} /\ cHandle[d] <= cHandle[d]
    BY <1>3, <1>4, <1>5, HandleAssumption
  <1>7. (CHOOSE h \in K : \A k \in K : h <= k) = cHandle[d]
    BY <1>6
  <1>8. cKick' = [cKick EXCEPT ![uConns[m][CHOOSE h \in K : \A k \in K : h <= k]] = TRUE]
    BY <1>4 DEF KickOutSameClientType, KickFirst
  <1>9. cKick' = [cKick EXCEPT ![d] = TRUE]
    BY <1>3, <1>7, <1>8
  <1> QED
    BY <1>1, <1>9 DEF IInv, TypeOK

\* Only a passed validation opens a connection.
LEMMA OpensByValidation ==
    ASSUME IInv, Next, NEW c \in Conn, ~cOpen[c], cOpen'[c]
    PROVE  \E r \in pending : ValidateFirst(r, c) \/ ValidateMore(r, c)
  <1>1. cOpen \in [Conn -> BOOLEAN]
    BY DEF IInv, TypeOK
  <1>2. ASSUME NEW d \in Conn, Close(d) PROVE FALSE
    BY <1>1, <1>2 DEF Close
  <1>3. ASSUME NEW r \in pending, NEW d \in Conn, ValidateFirst(r, d) \/ ValidateMore(r, d)
        PROVE  d = c
    BY <1>1, <1>3 DEF ValidateFirst, ValidateMore
  <1>4. ASSUME NEW d \in Conn,
               \/ \E h \in Handle : OnConnect(d, h)
               \/ \E n \in LoginName, t \in ClientType : HandleLoginRequest(d, n, t)
               \/ RefuseLogin(d) \/ HandleLoginOut(d) \/ IdleTimeout(d) \/ LoginTimeout(d)
               \/ HandleKickPCClient(d) \/ \E r \in pending : ValidateFailed(r, d)
        PROVE  FALSE
    BY <1>2, <1>4 DEF OnConnect, HandleLoginRequest, RefuseLogin, HandleLoginOut, IdleTimeout,
                      LoginTimeout, HandleKickPCClient, ValidateFailed
  <1>5. ASSUME \/ \E r \in pending : DropValidateResponse(r)
               \/ \E u \in User, t \in ClientType : RouteKickUser(u, t)
               \/ \E lost \in SUBSET pending, still \in BOOLEAN : DbConnClosed(lost, still)
               \/ RouteConnClosed \/ ServersConfirmed
        PROVE  FALSE
    BY <1>5 DEF DropValidateResponse, RouteKickUser, DbConnClosed, RouteConnClosed,
                ServersConfirmed, connVars
  <1> QED
    BY <1>3, <1>4, <1>5 DEF Next

LEMMA StepDisplaces ==
    ASSUME IInv, Balance, [Next]_vars, NEW c \in Conn, ~cOpen[c], cOpen'[c],
           Cardinality(SameAs(c, cUid'[c])) = 1
    PROVE  \A d \in SameAs(c, cUid'[c]) : cKick'[d]
  <1>1. Next
    BY DEF vars, connVars
  <1>2. PICK r \in pending : ValidateFirst(r, c) \/ ValidateMore(r, c)
    BY <1>1, OpensByValidation
  <1>3. PICK u \in User : u = UserOf[r.name]
    BY <1>2, AddressedWaits DEF ValidateFirst, ValidateMore
  <1>4. cUid'[c] = u
    BY <1>2, <1>3 DEF ValidateFirst, ValidateMore, IInv, TypeOK
  <1>5. IsFiniteSet(SameAs(c, u))
    <2>1. SameAs(c, u) \subseteq OpenOnes
      BY DEF SameAs, OpenOnes
    <2> QED
      BY <2>1, FS_Subset DEF Balance
  <1>6. PICK d : SameAs(c, u) = {d}
    BY <1>4, <1>5, FS_Singleton
  <1>7. byId[u] # NoName
    BY <1>6 DEF SameAs, IInv, OpenShape
  <1>8. cKick' = KickOutSameClientType(uConns[byId[u]], cType[c], c)
    BY <1>2, <1>3, <1>7 DEF ValidateFirst, ValidateMore
  <1> QED
    BY <1>4, <1>6, <1>7, <1>8, OnlyOneKicked

\* A login that passes validation kicks the one connection of its class the user had.
THEOREM OldDisplaced == Spec => NewLoginDisplacesOld
  <1>1. ASSUME IInv, Balance, [Next]_vars
        PROVE  [\A c \in Conn :
                  LET u    == cUid'[c]
                      same == {d \in Conn \ {c} : Live(d) /\ cOpen[d] /\ cUid[d] = u
                                                  /\ SameClass(cType[d], cType[c])}
                  IN  ~cOpen[c] /\ cOpen'[c] /\ Cardinality(same) = 1 => \A d \in same : cKick'[d]]_vars
    BY <1>1, StepDisplaces DEF SameAs
  <1> QED
    BY <1>1, IInvHolds, BalanceHolds, PTL DEF Spec, NewLoginDisplacesOld

=============================================================================
