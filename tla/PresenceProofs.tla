---------------------------- MODULE PresenceProofs ----------------------------
(* Who is online, for any number of msg_servers, links, users and client     *)
(* types: the route server never counts too few clients, and while no link   *)
(* was lost it counts them exactly and what clients are told is true.        *)
EXTENDS Presence, SequenceTheorems, FiniteSetTheorems, TLAPS

-----------------------------------------------------------------------------
(* Types *)

Count == [ClientType -> Nat]
Entry == {e \in [conns : SUBSET Link, cnt : Count] : e.conns = {} => e.cnt = NoCount}

UpPacket   == [kind : {"USER_STATUS_UPDATE", "ONLINE_USER_INFO", "ONLINE_USER_INFO_NEXT"},
               user : User, type : ClientType, on : BOOLEAN]
DownPacket == [kind : {"LOGIN_STATUS_NOTIFY", "STATUS_NOTIFY"}, user : User, on : BOOLEAN]

PacketTypes == /\ up   \in [Link -> Seq(UpPacket)]
               /\ down \in [Link -> Seq(DownPacket)]

Types == /\ TypeOK /\ PacketTypes
         /\ \A l \in mOpen \cup rOpen : owner[l] \in Server
         /\ NoDanglingRouteConn

LEMMA NoCountType == NoCount \in Count
  BY DEF NoCount, Count

LEMMA Entries ==
    ASSUME TypeOK
    PROVE  /\ table \in [User -> Entry] /\ local \in [Server -> [User -> Count]]
           /\ \A u \in User : table[u].cnt \in Count /\ table[u].conns \subseteq Link
  <1>1. table \in [User -> Entry]
    <2>1. \A u \in User : table[u] \in Entry
      BY DEF TypeOK, Entry, Count
    <2> QED
      BY <2>1 DEF TypeOK
  <1> QED
    BY <1>1 DEF TypeOK, Entry, Count

\* An entry after an update keeps its connections, and may lose or gain that of the update.
LEMMA Updated ==
    ASSUME NEW e \in Entry, NEW l \in Link, NEW t \in ClientType, NEW on \in BOOLEAN,
           NEW f, f = UpdateUserStatus(e, l, t, on)
    PROVE  /\ f \in Entry
           /\ f.conns \subseteq e.conns \cup {l}
           /\ on => f.conns = e.conns \cup {l} /\ f.cnt = [e.cnt EXCEPT ![t] = @ + 1]
           /\ ~on /\ l \notin e.conns => f = e
           /\ ~on /\ l \in e.conns =>
                /\ f.cnt = [e.cnt EXCEPT ![t] = IF @ > 0 THEN @ - 1 ELSE 0]
                /\ f.conns = e.conns \/ (f.cnt = NoCount /\ f.conns = e.conns \ {l})
  <1> DEFINE less == RemoveClientType(e.cnt, t)
             more == AddClientType(e.cnt, t)
  <1>1. /\ less \in Count /\ more \in Count
        /\ less = [e.cnt EXCEPT ![t] = IF @ > 0 THEN @ - 1 ELSE 0]
        /\ more = [e.cnt EXCEPT ![t] = @ + 1]
    BY DEF RemoveClientType, AddClientType, Entry, Count
  <1>2. e.conns \subseteq Link /\ (e.conns = {} => e.cnt = NoCount)
    BY DEF Entry
  <1> HIDE DEF less, more
  <1>3. f = IF on THEN [conns |-> e.conns \cup {l}, cnt |-> more]
            ELSE IF l \notin e.conns THEN e
            ELSE [conns |-> IF less = NoCount THEN e.conns \ {l} ELSE e.conns, cnt |-> less]
    BY DEF UpdateUserStatus, less, more
  <1>4. CASE on
    BY <1>1, <1>2, <1>3, <1>4 DEF Entry
  <1>5. CASE ~on /\ l \notin e.conns
    BY <1>3, <1>5
  <1>6. CASE ~on /\ l \in e.conns
    BY <1>1, <1>2, <1>3, <1>6 DEF Entry
  <1> QED
    BY <1>4, <1>5, <1>6

LEMMA NotifyTypes ==
    ASSUME NEW e, NEW u \in User, NEW t, NEW on \in BOOLEAN
    PROVE  PcLoginNotify(e, u, t, on) \o StatusNotify(e, u, t, on) \in Seq(DownPacket)
  <1>1. /\ [kind |-> "LOGIN_STATUS_NOTIFY", user |-> u, on |-> on] \in DownPacket
        /\ [kind |-> "STATUS_NOTIFY", user |-> u, on |-> on] \in DownPacket
    BY DEF DownPacket
  <1>2. PcLoginNotify(e, u, t, on) \in Seq(DownPacket)
    BY <1>1 DEF PcLoginNotify
  <1>3. StatusNotify(e, u, t, on) \in Seq(DownPacket)
    BY <1>1 DEF StatusNotify
  <1> QED
    BY <1>2, <1>3, ConcatProperties

LEMMA InitTypes == Init => Types
  <1> SUFFICES ASSUME Init PROVE Types
    OBVIOUS
  <1>1. NoCount \in Count
    BY NoCountType
  <1>2. TypeOK
    BY <1>1, BoundAssumption DEF Init, TypeOK, Count
  <1>3. PacketTypes
    BY DEF Init, PacketTypes
  <1> QED
    BY <1>2, <1>3 DEF Init, Types, NoDanglingRouteConn

LEMMA SendTypes ==
    ASSUME Types, NEW s \in Server, NEW u \in User, NEW t \in ClientType, NEW on \in BOOLEAN,
           Send(s, u, t, on)
    PROVE  up' \in [Link -> Seq(UpPacket)]
  <1> DEFINE p == [kind |-> "USER_STATUS_UPDATE", user |-> u, type |-> t, on |-> on]
  <1>1. p \in UpPacket
    BY DEF UpPacket
  <1> HIDE DEF p
  <1>2. up' = [l \in Link |-> IF l \in LinksOf(s) \cap rOpen THEN Append(up[l], p) ELSE up[l]]
    BY DEF Send, p
  <1>3. \A l \in Link : up[l] \in Seq(UpPacket) /\ Append(up[l], p) \in Seq(UpPacket)
    BY <1>1, AppendProperties DEF Types, PacketTypes
  <1> QED
    BY <1>2, <1>3

\* The packet of a new link, element by element.
LEMMA ConnectIs ==
    ASSUME Types, NEW s \in Server, NEW l \in Link, Connect(s, l)
    PROVE  \E q : \E r \in Seq(UpPacket) :
             /\ q \in OnlineUserInfo(s) /\ q \in Seq(Listed) /\ Len(r) = Len(q)
             /\ \A i \in 1..Len(q) : r[i].user = q[i].user /\ r[i].type = q[i].type /\ r[i].on = q[i].on
             /\ up' = [up EXCEPT ![l] = r]
  <1> DEFINE R(q) == [i \in 1..Len(q) |->
                       [kind |-> IF i = 1 THEN "ONLINE_USER_INFO" ELSE "ONLINE_USER_INFO_NEXT",
                        user |-> q[i].user, type |-> q[i].type, on |-> q[i].on]]
  <1>1. PICK q \in OnlineUserInfo(s) : up' = [up EXCEPT ![l] = R(q)]
    BY DEF Connect
  <1>2. q \in Seq(Listed) /\ Len(q) \in Nat
    <2>1. PICK n \in 0..MaxOpen : q \in [1..n -> Listed]
      BY DEF OnlineUserInfo
    <2> QED
      BY <2>1, BoundAssumption
  <1>3. \A i \in 1..Len(q) : q[i] \in Listed
    BY <1>2
  <1>4. R(q) \in Seq(UpPacket) /\ Len(R(q)) = Len(q)
    <2>1. R(q) \in [1..Len(q) -> UpPacket]
      BY <1>3 DEF Listed, UpPacket
    <2> QED
      BY <1>2, <2>1
  <1>5. \A i \in 1..Len(q) : R(q)[i].user = q[i].user /\ R(q)[i].type = q[i].type /\ R(q)[i].on = q[i].on
    OBVIOUS
  <1> QED
    BY <1>1, <1>2, <1>4, <1>5

LEMMA ConnectTypes == ASSUME Types, NEW s \in Server, NEW l \in Link, Connect(s, l) PROVE Types'
  <1>1. PICK r \in Seq(UpPacket) : up' = [up EXCEPT ![l] = r]
    BY ConnectIs
  <1>2. /\ owner' = [owner EXCEPT ![l] = s] /\ mOpen' = mOpen \cup {l} /\ rOpen' = rOpen \cup {l}
        /\ listedOff' = listedOff \cup {x \in User \X ClientType : hiding[s][x[1]][x[2]] > 0}
        /\ UNCHANGED <<local, hiding, pc, shown, down, table, opened, losses>>
    BY DEF Connect
  <1>3. PacketTypes'
    BY <1>1, <1>2 DEF Types, PacketTypes
  <1>4. TypeOK'
    <2>1. listedOff' \in SUBSET (User \X ClientType)
      BY <1>2 DEF Types, TypeOK
    <2>2. owner' \in [Link -> Server \cup {NoServer}]
      BY <1>2 DEF Types, TypeOK
    <2> QED
      BY <1>2, <2>1, <2>2 DEF Types, TypeOK, NoCount
  <1> QED
    BY <1>2, <1>3, <1>4 DEF Types, NoDanglingRouteConn, TypeOK

LEMMA ClientTypes ==
    ASSUME Types, NEW s \in Server, NEW u \in User, NEW t \in ClientType,
           NEW st \in BOOLEAN, ClientOpens(s, u, t, st) \/ ClientCloses(s, u, t, st)
    PROVE  Types'
  <1>1. CASE ClientOpens(s, u, t, st)
    <2>1. PacketTypes'
      BY <1>1, SendTypes DEF ClientOpens, Types, PacketTypes
    <2>2. local' \in [Server -> [User -> [ClientType -> Nat]]]
      BY <1>1 DEF ClientOpens, Types, TypeOK
    <2>5. hiding' \in [Server -> [User -> [ClientType -> Nat]]]
      BY <1>1 DEF ClientOpens, Types, TypeOK
    <2>3. opened' \in 0..MaxOpen
      BY <1>1, BoundAssumption DEF ClientOpens, Types, TypeOK
    <2>4. TypeOK'
      BY <1>1, <2>2, <2>3, <2>5 DEF ClientOpens, Types, TypeOK, NoCount
    <2> QED
      BY <1>1, <2>1, <2>4 DEF ClientOpens, Types, NoDanglingRouteConn
  <1>2. CASE ClientCloses(s, u, t, st)
    <2>1. PacketTypes'
      BY <1>2, SendTypes DEF ClientCloses, Types, PacketTypes
    <2>2. local' \in [Server -> [User -> [ClientType -> Nat]]]
      BY <1>2 DEF ClientCloses, Types, TypeOK
    <2>3. pc' \in [Server -> [User -> BOOLEAN]]
      BY <1>2 DEF ClientCloses, Types, TypeOK
    <2>5. hiding' \in [Server -> [User -> [ClientType -> Nat]]]
      BY <1>2 DEF ClientCloses, Types, TypeOK
    <2>4. TypeOK'
      BY <1>2, <2>2, <2>3, <2>5 DEF ClientCloses, Types, TypeOK, NoCount
    <2> QED
      BY <1>2, <2>1, <2>4 DEF ClientCloses, Types, NoDanglingRouteConn
  <1> QED
    BY <1>1, <1>2

LEMMA LinkTypes ==
    ASSUME Types, NEW l \in Link, MsgServerReceives(l) \/ MsgServerLosesLink(l) PROVE Types'
  <1>1. CASE MsgServerReceives(l)
    <2>1. PICK p \in DownPacket : p = Head(down[l])
      BY <1>1 DEF MsgServerReceives, Types, PacketTypes
    <2>2. owner[l] \in Server /\ p.user \in User /\ p.on \in BOOLEAN
      BY <1>1, <2>1 DEF MsgServerReceives, Types, DownPacket
    <2>3. pc' \in [Server -> [User -> BOOLEAN]]
      BY <1>1, <2>1, <2>2 DEF MsgServerReceives, Types, TypeOK
    <2>4. shown' \in [Server -> [User -> {"nothing", "online", "offline"}]]
      BY <1>1, <2>1, <2>2 DEF MsgServerReceives, Types, TypeOK, Status
    <2>5. TypeOK'
      BY <1>1, <2>3, <2>4 DEF MsgServerReceives, Types, TypeOK
    <2>6. PacketTypes'
      BY <1>1, HeadTailProperties DEF MsgServerReceives, Types, PacketTypes
    <2> QED
      BY <1>1, <2>5, <2>6 DEF MsgServerReceives, Types, NoDanglingRouteConn
  <1>2. CASE MsgServerLosesLink(l)
    <2>1. PacketTypes'
      BY <1>2 DEF MsgServerLosesLink, Types, PacketTypes
    <2>2. TypeOK'
      BY <1>2, BoundAssumption DEF MsgServerLosesLink, Types, TypeOK
    <2> QED
      BY <1>2, <2>1, <2>2 DEF MsgServerLosesLink, Types, NoDanglingRouteConn
  <1> QED
    BY <1>1, <1>2

\* The table after a step of the route server.
LEMMA TableTypes ==
    ASSUME Types, table' \in [User -> Entry], UNCHANGED <<local, hiding, pc, shown, owner, mOpen, listedOff, opened>>,
           losses' \in 0..MaxLosses, PacketTypes', rOpen' \subseteq rOpen, NoDanglingRouteConn'
    PROVE  Types'
  <1>1. \A u \in User : table'[u] \in [conns : SUBSET Link, cnt : [ClientType -> Nat]]
                        /\ (table'[u].conns = {} => table'[u].cnt = NoCount)
    BY DEF Entry, Count
  <1>2. NoCount' = NoCount
    BY DEF NoCount
  <1>3. TypeOK'
    BY <1>1, <1>2 DEF Types, TypeOK
  <1> QED
    BY <1>3 DEF Types

\* What a packet says of user u takes the entry from old to new.
LEMMA ReadIs ==
    ASSUME Types, NEW l \in Link, HandleUserStatusUpdate(l) \/ HandleOnlineUserInfo(l)
    PROVE  \E p \in UpPacket, u \in User, t \in ClientType, on \in BOOLEAN, old \in Entry, new \in Entry :
             /\ l \in rOpen /\ up[l] # <<>>
             /\ p = Head(up[l]) /\ p.user = u /\ p.type = t /\ p.on = on
             /\ old = table[u] /\ new = UpdateUserStatus(old, l, t, on)
             /\ table' = [table EXCEPT ![u] = new]
             /\ p.kind = "USER_STATUS_UPDATE" /\ HandleUserStatusUpdate(l) =>
                  Broadcast(PcLoginNotify(new, u, t, on) \o StatusNotify(new, u, t, on))
             /\ HandleOnlineUserInfo(l) => p.kind # "USER_STATUS_UPDATE" /\ down' = down
             /\ HandleUserStatusUpdate(l) => p.kind = "USER_STATUS_UPDATE"
             /\ up' = [up EXCEPT ![l] = Tail(@)]
             /\ UNCHANGED <<local, hiding, pc, shown, owner, mOpen, rOpen, listedOff, opened, losses>>
  <1>1. l \in rOpen /\ up[l] # <<>>
    BY DEF HandleUserStatusUpdate, HandleOnlineUserInfo
  <1>2. PICK p \in UpPacket : p = Head(up[l])
    BY <1>1 DEF Types, PacketTypes
  <1>3. PICK u \in User, t \in ClientType, on \in BOOLEAN : p.user = u /\ p.type = t /\ p.on = on
    BY DEF UpPacket
  <1>4. PICK old \in Entry : old = table[u]
    BY Entries DEF Types
  <1>5. PICK new : new = UpdateUserStatus(old, l, t, on)
    OBVIOUS
  <1>6. new \in Entry
    BY <1>5, Updated
  <1>7. ASSUME HandleUserStatusUpdate(l)
        PROVE  /\ p.kind = "USER_STATUS_UPDATE" /\ table' = [table EXCEPT ![u] = new]
               /\ Broadcast(PcLoginNotify(new, u, t, on) \o StatusNotify(new, u, t, on))
               /\ up' = [up EXCEPT ![l] = Tail(@)]
               /\ UNCHANGED <<local, hiding, pc, shown, owner, mOpen, rOpen, listedOff, opened, losses>>
    BY <1>2, <1>3, <1>4, <1>5, <1>7 DEF HandleUserStatusUpdate
  <1>8. ASSUME HandleOnlineUserInfo(l)
        PROVE  /\ p.kind # "USER_STATUS_UPDATE" /\ table' = [table EXCEPT ![u] = new]
               /\ up' = [up EXCEPT ![l] = Tail(@)]
               /\ UNCHANGED <<local, hiding, pc, shown, down, owner, mOpen, rOpen, listedOff, opened, losses>>
    <2>1. table' = [table EXCEPT ![u] = UpdateUserStatus(table[u], l, t, on)]
      BY <1>2, <1>3, <1>8 DEF HandleOnlineUserInfo, Types, TypeOK
    <2> QED
      BY <1>2, <1>3, <1>4, <1>5, <1>8, <2>1 DEF HandleOnlineUserInfo
  <1> QED
    BY <1>1, <1>2, <1>3, <1>4, <1>5, <1>6, <1>7, <1>8

LEMMA ReadTypes ==
    ASSUME Types, NEW l \in Link, HandleUserStatusUpdate(l) \/ HandleOnlineUserInfo(l) PROVE Types'
  <1>1. PICK p \in UpPacket, u \in User, t \in ClientType, on \in BOOLEAN, old \in Entry, e \in Entry :
          /\ l \in rOpen /\ up[l] # <<>>
          /\ old = table[u] /\ e = UpdateUserStatus(old, l, t, on)
          /\ table' = [table EXCEPT ![u] = e]
          /\ \/ Broadcast(PcLoginNotify(e, u, t, on) \o StatusNotify(e, u, t, on))
             \/ down' = down
          /\ up' = [up EXCEPT ![l] = Tail(@)]
          /\ UNCHANGED <<local, hiding, pc, shown, owner, mOpen, rOpen, listedOff, opened, losses>>
    BY ReadIs
  <1>2. PICK packets \in Seq(DownPacket) : packets = PcLoginNotify(e, u, t, on) \o StatusNotify(e, u, t, on)
    BY NotifyTypes
  <1>3. table \in [User -> Entry]
    BY Entries DEF Types
  <1>4. e.conns \subseteq old.conns \cup {l}
    BY <1>1, Updated
  <1>5. PacketTypes'
    <2>1. up' \in [Link -> Seq(UpPacket)]
      BY <1>1, HeadTailProperties DEF Types, PacketTypes
    <2>2. \A k \in Link : down[k] \o packets \in Seq(DownPacket)
      BY <1>2, ConcatProperties DEF Types, PacketTypes
    <2>3. down' \in [Link -> Seq(DownPacket)]
      BY <1>1, <1>2, <2>2 DEF Broadcast, Types, PacketTypes
    <2> QED
      BY <2>1, <2>3 DEF PacketTypes
  <1>6. NoDanglingRouteConn'
    BY <1>1, <1>3, <1>4 DEF Types, NoDanglingRouteConn
  <1>7. losses' \in 0..MaxLosses
    BY <1>1 DEF Types, TypeOK
  <1> QED
    BY <1>1, <1>3, <1>5, <1>6, <1>7, TableTypes

LEMMA CloseTypes == ASSUME Types, NEW l \in Link, RouteServerClosesLink(l) PROVE Types'
  <1>1. /\ rOpen' = rOpen \ {l} /\ up' = [up EXCEPT ![l] = <<>>]
        /\ l \in mOpen => losses < MaxLosses
        /\ losses' = IF l \in mOpen THEN losses + 1 ELSE losses
        /\ table' = [u \in User |-> EntryWithout(table[u], l)]
        /\ UNCHANGED <<local, hiding, pc, shown, down, owner, mOpen, listedOff, opened>>
    BY DEF RouteServerClosesLink
  <1>2. \A e \in Entry : EntryWithout(e, l) \in Entry /\ EntryWithout(e, l).conns = e.conns \ {l}
    BY NoCountType DEF Entry, EntryWithout
  <1>3. table \in [User -> Entry]
    BY Entries DEF Types
  <1>4. table' \in [User -> Entry]
    BY <1>1, <1>2, <1>3
  <1>5. PacketTypes'
    BY <1>1 DEF Types, PacketTypes
  <1>6. NoDanglingRouteConn'
    BY <1>1, <1>2, <1>3 DEF Types, NoDanglingRouteConn
  <1>7. losses' \in 0..MaxLosses
    BY <1>1, BoundAssumption DEF Types, TypeOK
  <1> QED
    BY <1>1, <1>4, <1>5, <1>6, <1>7, TableTypes

LEMMA NextTypes == Types /\ [Next]_vars => Types'
  <1> SUFFICES ASSUME Types, [Next]_vars PROVE Types'
    OBVIOUS
  <1>1. CASE UNCHANGED vars
    BY <1>1 DEF vars, Types, TypeOK, PacketTypes, NoDanglingRouteConn, NoCount
  <1>2. ASSUME NEW s \in Server, NEW l \in Link, Connect(s, l) PROVE Types'
    BY <1>2, ConnectTypes
  <1>3. ASSUME NEW s \in Server, NEW u \in User, NEW t \in ClientType,
               NEW st \in BOOLEAN, ClientOpens(s, u, t, st) \/ ClientCloses(s, u, t, st)
        PROVE  Types'
    BY <1>3, ClientTypes
  <1>4. ASSUME NEW l \in Link,
               \/ MsgServerReceives(l) \/ MsgServerLosesLink(l) \/ HandleUserStatusUpdate(l)
               \/ HandleOnlineUserInfo(l) \/ RouteServerClosesLink(l)
        PROVE  Types'
    BY <1>4, LinkTypes, ReadTypes, CloseTypes
  <1> QED
    BY <1>1, <1>2, <1>3, <1>4 DEF Next

LEMMA SpecTypes == Spec => []Types
  BY InitTypes, NextTypes, PTL DEF Spec

\* The state keeps its types: the counts of users never go below zero, and a user without
\* connections counts no client.
THEOREM TypeCorrect == Spec => []TypeOK
  BY SpecTypes, PTL DEF Types

\* No entry of g_user_map points to a CRouteConn that was closed and released.
THEOREM NoConnDangles == Spec => []NoDanglingRouteConn
  BY SpecTypes, PTL DEF Types

-----------------------------------------------------------------------------
(* Numbered things *)

LEMMA NumberedIs ==
    ASSUME NEW S, NEW n
    PROVE  \A y : y \in Numbered(S, n) <=> \E x \in S : \E i \in 1..n[x] : y = <<x, i>>
  BY DEF Numbered

\* One more, or one less, of one thing.
LEMMA OneMore ==
    ASSUME NEW S, NEW n, NEW m, NEW x \in S, n[x] \in Nat, m[x] = n[x] + 1,
           \A y \in S : y # x => m[y] = n[y], IsFiniteSet(Numbered(S, n))
    PROVE  /\ IsFiniteSet(Numbered(S, m))
           /\ Cardinality(Numbered(S, m)) = Cardinality(Numbered(S, n)) + 1
  <1>1. <<x, n[x] + 1>> \notin Numbered(S, n)
    BY NumberedIs
  <1>2. Numbered(S, m) = Numbered(S, n) \cup {<<x, n[x] + 1>>}
    <2>1. 1..(n[x] + 1) = (1..n[x]) \cup {n[x] + 1}
      OBVIOUS
    <2>2. \A y : y \in Numbered(S, m) <=> y \in Numbered(S, n) \/ y = <<x, n[x] + 1>>
      BY <2>1, NumberedIs
    <2> QED
      BY <2>2
  <1>3. \A A, y : IsFiniteSet(A) /\ y \notin A =>
          IsFiniteSet(A \cup {y}) /\ Cardinality(A \cup {y}) = Cardinality(A) + 1
    BY FS_AddElement
  <1> QED
    BY <1>1, <1>2, <1>3, Zenon

LEMMA OneLess ==
    ASSUME NEW S, NEW n, NEW m, NEW x \in S, m[x] \in Nat, n[x] = m[x] + 1,
           \A y \in S : y # x => m[y] = n[y], IsFiniteSet(Numbered(S, n))
    PROVE  /\ IsFiniteSet(Numbered(S, m))
           /\ Cardinality(Numbered(S, n)) = Cardinality(Numbered(S, m)) + 1
  <1>1. Numbered(S, m) \subseteq Numbered(S, n)
    <2>1. \A y \in S : 1..m[y] \subseteq 1..n[y]
      OBVIOUS
    <2> QED
      BY <2>1, NumberedIs
  <1>2. IsFiniteSet(Numbered(S, m))
    BY <1>1, FS_Subset
  <1>3. \A y \in S : y # x => n[y] = m[y]
    OBVIOUS
  <1> QED
    BY <1>2, <1>3, OneMore

\* Fewer things, and as many of each.
LEMMA FewerThings ==
    ASSUME NEW S, NEW T, T \subseteq S, NEW n, NEW m, \A y \in T : m[y] = n[y],
           IsFiniteSet(Numbered(S, n))
    PROVE  /\ IsFiniteSet(Numbered(T, m))
           /\ Cardinality(Numbered(T, m)) <= Cardinality(Numbered(S, n))
  <1>1. Numbered(T, m) \subseteq Numbered(S, n)
    BY NumberedIs
  <1> QED
    BY <1>1, FS_Subset

\* Things of S that are as many as those f takes them to.
LEMMA NumberedInto ==
    ASSUME NEW S, NEW T, NEW n, NEW m, NEW f \in [S -> T],
           \A x, y \in S : f[x] = f[y] => x = y, \A x \in S : n[x] = m[f[x]],
           IsFiniteSet(Numbered(T, m))
    PROVE  /\ IsFiniteSet(Numbered(S, n))
           /\ Cardinality(Numbered(S, n)) <= Cardinality(Numbered(T, m))
           /\ (\A z \in T : \E x \in S : f[x] = z) =>
                Cardinality(Numbered(S, n)) = Cardinality(Numbered(T, m))
  <1> DEFINE A == Numbered(S, n)
             B == Numbered(T, m)
             g == [y \in A |-> <<f[y[1]], y[2]>>]
  <1>1. \A y \in A : y = <<y[1], y[2]>> /\ y[1] \in S /\ y[2] \in 1..n[y[1]]
    BY NumberedIs
  <1>2. \A y \in B : y = <<y[1], y[2]>> /\ y[1] \in T /\ y[2] \in 1..m[y[1]]
    BY NumberedIs
  <1>3. \A y \in A : <<f[y[1]], y[2]>> \in B
    BY <1>1, NumberedIs
  <1>4. ASSUME \A z \in T : \E x \in S : f[x] = z, NEW b \in B
        PROVE  \E y \in A : b = <<f[y[1]], y[2]>>
    <2>1. PICK x \in S : f[x] = b[1]
      BY <1>2, <1>4
    <2>2. <<x, b[2]>> \in A
      BY <1>2, <2>1, NumberedIs
    <2> QED
      BY <1>2, <2>1, <2>2
  <1> HIDE DEF A, B
  <1>5. g \in Injection(A, B)
    <2>1. g \in [A -> B]
      BY <1>3
    <2>2. \A x, y \in A : g[x] = g[y] => x = y
      BY <1>1
    <2> QED
      BY <2>1, <2>2 DEF Injection, IsInjective
  <1>6. (\A z \in T : \E x \in S : f[x] = z) => g \in Surjection(A, B)
    BY <1>3, <1>4 DEF Surjection
  <1> QED
    BY <1>5, <1>6, FS_Injection DEF A, B

-----------------------------------------------------------------------------
(* The inductive invariant of the counts *)

\* Packet p of a link takes the clients of u and t counted for the link from m to n.
Tally(p, u, t, m, n) ==
    n = IF p.user = u /\ p.type = t THEN (IF p.on THEN m + 1 ELSE m - 1) ELSE m

\* F[l][i] is what is counted for link l when i more of its packets are read: in the end,
\* if its msg_server still has the link, the clients that server has.
Ledger == [Link -> [Nat -> Nat]]

Runs(F, u, t) == \A l \in rOpen :
    /\ \A i \in 1..Len(up[l]) : Tally(up[l][i], u, t, F[l][i - 1], F[l][i])
    /\ l \in mOpen => F[l][Len(up[l])] = local[owner[l]][u][t]

\* The clients counted now, for the links in S.
Counted(S, F) == Numbered(S, [l \in S |-> F[l][0]])

\* The route server counts no fewer than what it read, and just that while no link was
\* lost; the entry of a user knows every connection it counts a client for.
Counts(F, u, t) ==
    /\ IsFiniteSet(Counted(rOpen, F))
    /\ Cardinality(Counted(rOpen, F)) <= table[u].cnt[t]
    /\ losses = 0 => Cardinality(Counted(rOpen, F)) = table[u].cnt[t]
    /\ \A l \in rOpen : F[l][0] > 0 => l \in table[u].conns

Balanced(u, t) == \E F \in Ledger : Runs(F, u, t) /\ Counts(F, u, t)

\* A msg_server has one link at a time; while none was lost, those used are open at both ends.
OneLink == \A k, l \in mOpen : owner[k] = owner[l] => k = l
AllOpen == losses = 0 => mOpen = rOpen /\ \A l \in Link : owner[l] # NoServer => l \in mOpen

\* Before the first loss a server without a link has no client yet: all lists are empty.
NoList == losses = 0 =>
    /\ listedOff = {}
    /\ \A s \in Server : (\A l \in Link : owner[l] # s) =>
         \A u \in User : local[s][u] = NoCount /\ hiding[s][u] = NoCount
    /\ \A l \in rOpen : \A i \in 1..Len(up[l]) : up[l][i].kind = "USER_STATUS_UPDATE"

Accounts == /\ OneLink /\ AllOpen /\ NoList
            /\ \A u \in User, t \in ClientType : <<u, t>> \notin listedOff => Balanced(u, t)

IInv == Types /\ Accounts

LEMMA CountedIs ==
    ASSUME NEW S \in SUBSET Link, NEW F \in Ledger
    PROVE  \A y : y \in Counted(S, F) <=> \E l \in S : \E i \in 1..F[l][0] : y = <<l, i>>
  BY NumberedIs DEF Counted

LEMMA InitCounts == Init => IInv
  <1> SUFFICES ASSUME Init PROVE IInv
    OBVIOUS
  <1>1. rOpen = {} /\ mOpen = {} /\ \A l \in Link : owner[l] = NoServer
    BY DEF Init
  <1>2. OneLink /\ AllOpen /\ NoList
    BY <1>1 DEF OneLink, AllOpen, NoList, Init
  <1>3. ASSUME NEW u \in User, NEW t \in ClientType PROVE Balanced(u, t)
    <2> DEFINE F == [l \in Link |-> [i \in Nat |-> 0]]
    <2>1. F \in Ledger
      BY DEF Ledger
    <2>2. Counted(rOpen, F) = {}
      BY <1>1, <2>1, CountedIs
    <2>3. table[u].cnt[t] = 0
      BY DEF Init, NoCount
    <2>4. Counts(F, u, t)
      BY <1>1, <2>2, <2>3, FS_EmptySet DEF Counts
    <2>5. Runs(F, u, t)
      BY <1>1 DEF Runs
    <2> QED
      BY <2>1, <2>4, <2>5 DEF Balanced
  <1> QED
    BY <1>2, <1>3, InitTypes DEF IInv, Accounts

\* A step that takes no packet and changes no count, but may take links from msg_servers.
LEMMA StaysBalanced ==
    ASSUME IInv, UNCHANGED <<local, hiding, up, owner, rOpen, table, listedOff>>, mOpen' \subseteq mOpen,
           losses' = 0 => losses = 0 /\ mOpen' = mOpen
    PROVE  Accounts'
  <1>1. OneLink'
    BY DEF IInv, Accounts, OneLink
  <1>3. AllOpen' /\ NoList'
    BY DEF IInv, Accounts, AllOpen, NoList, NoCount
  <1>2. ASSUME NEW u \in User, NEW t \in ClientType, <<u, t>> \notin listedOff PROVE Balanced(u, t)'
    <2>1. PICK F \in Ledger : Runs(F, u, t) /\ Counts(F, u, t)
      BY <1>2 DEF IInv, Accounts, Balanced
    <2>2. Runs(F, u, t)'
      BY <2>1 DEF Runs
    <2>3. Counted(rOpen, F)' = Counted(rOpen, F)
      BY DEF Counted
    <2>4. Counts(F, u, t)'
      BY <2>1, <2>3 DEF Counts
    <2> QED
      BY <2>2, <2>4 DEF Balanced
  <1> QED
    BY <1>1, <1>2, <1>3 DEF Accounts

\* How many of the numbers up to i are in J.
UpTo(J) == [i \in Nat |-> Cardinality({j \in 1..i : j \in J})]

\* A count of the members of J along 1..n, from none to all of them.
LEMMA UpToCounts ==
    ASSUME NEW n \in Nat, NEW J \in SUBSET (1..n)
    PROVE  \E C \in [Nat -> Nat] :
             /\ C[0] = 0 /\ C[n] = Cardinality(J)
             /\ \A i \in 1..n : /\ i \in J => C[i] = C[i - 1] + 1
                                /\ i \notin J => C[i] = C[i - 1]
  <1> DEFINE S(i) == {j \in 1..i : j \in J}
             C == UpTo(J)
  <1>1. \A i \in Nat : IsFiniteSet(S(i)) /\ Cardinality(S(i)) \in Nat
    <2>1. \A i \in Nat : IsFiniteSet(1..i) /\ S(i) \subseteq 1..i
      BY FS_Interval
    <2> HIDE DEF S
    <2>2. \A i \in Nat : IsFiniteSet(S(i))
      BY <2>1, FS_Subset
    <2> QED
      BY <2>2, FS_CardinalityType
  <1>2. S(0) = {} /\ S(n) = J
    <2>1. 1..0 = {}
      OBVIOUS
    <2>2. \A j \in J : j \in 1..n
      OBVIOUS
    <2> QED
      BY <2>1, <2>2, Zenon
  <1>3. ASSUME NEW i \in 1..n
        PROVE  /\ i - 1 \in Nat /\ i \in Nat /\ i \notin S(i - 1)
               /\ i \in J => S(i) = S(i - 1) \cup {i}
               /\ i \notin J => S(i) = S(i - 1)
    <2>1. i - 1 \in Nat /\ \A j : j \in 1..i <=> j \in 1..(i - 1) \/ j = i
      OBVIOUS
    <2> QED
      BY <2>1
  <1>4. \A i \in Nat : C[i] = Cardinality(S(i))
    BY DEF UpTo
  <1>5. C[0] = 0 /\ C[n] = Cardinality(J) /\ C \in [Nat -> Nat]
    BY <1>1, <1>2, FS_EmptySet DEF UpTo
  <1> HIDE DEF S, C
  <1>6. ASSUME NEW i \in 1..n
        PROVE  /\ i \in J => C[i] = C[i - 1] + 1
               /\ i \notin J => C[i] = C[i - 1]
    <2>1. IsFiniteSet(S(i - 1)) => Cardinality(S(i - 1) \cup {i}) =
            IF i \in S(i - 1) THEN Cardinality(S(i - 1)) ELSE Cardinality(S(i - 1)) + 1
      BY FS_AddElement
    <2> QED
      BY <1>1, <1>3, <1>4, <2>1
  <1> QED
    BY <1>5, <1>6

\* Another link at which nothing is counted yet changes nothing of what is counted.
LEMMA CountedWith ==
    ASSUME NEW S \in SUBSET Link, NEW l \in Link, NEW F \in Ledger, NEW G \in Ledger,
           \A k \in S : G[k][0] = F[k][0], G[l][0] = 0
    PROVE  Counted(S \cup {l}, G) = Counted(S, F)
  <1>1. \A y : y \in Counted(S \cup {l}, G) <=> \E k \in S \cup {l} : \E i \in 1..G[k][0] : y = <<k, i>>
    <2>1. PICK T \in SUBSET Link : T = S \cup {l}
      OBVIOUS
    <2>2. \A y : y \in Counted(T, G) <=> \E k \in T : \E i \in 1..G[k][0] : y = <<k, i>>
      BY CountedIs
    <2> QED
      BY <2>1, <2>2, Zenon
  <1>2. \A y : y \in Counted(S, F) <=> \E k \in S : \E i \in 1..F[k][0] : y = <<k, i>>
    BY CountedIs
  <1>3. 1..G[l][0] = {}
    OBVIOUS
  <1>4. ASSUME NEW y PROVE y \in Counted(S \cup {l}, G) <=> y \in Counted(S, F)
    <2>1. (\E k \in S \cup {l} : \E i \in 1..G[k][0] : y = <<k, i>>)
            <=> \/ \E k \in S : \E i \in 1..G[k][0] : y = <<k, i>>
                \/ \E i \in 1..G[l][0] : y = <<l, i>>
      <3>1. ASSUME NEW k \in S \cup {l}, NEW i \in 1..G[k][0], y = <<k, i>>
            PROVE  \/ \E h \in S : \E j \in 1..G[h][0] : y = <<h, j>>
                   \/ \E j \in 1..G[l][0] : y = <<l, j>>
        <4>1. CASE k \in S
          BY <3>1, <4>1, Zenon
        <4>2. CASE k = l
          BY <3>1, <4>2, Zenon
        <4> QED
          BY <4>1, <4>2
      <3>2. S \subseteq S \cup {l} /\ l \in S \cup {l}
        OBVIOUS
      <3> QED
        BY <3>1, <3>2, Zenon
    <2>2. ~ \E i \in 1..G[l][0] : y = <<l, i>>
      BY <1>3, Zenon
    <2>3. (\E k \in S : \E i \in 1..G[k][0] : y = <<k, i>>)
            <=> \E k \in S : \E i \in 1..F[k][0] : y = <<k, i>>
      BY Zenon
    <2> QED
      BY <1>1, <1>2, <2>1, <2>2, <2>3, Zenon
  <1> QED
    BY <1>4, Zenon

\* The connections in a list.
LEMMA ListedIs ==
    ASSUME NEW y \in Listed
    PROVE  /\ y.user \in User /\ y.type \in ClientType /\ y.on \in BOOLEAN
           /\ y = [user |-> y.user, type |-> y.type, on |-> y.on]
  <1>1. PICK u \in User, t \in ClientType, on \in BOOLEAN : y = [user |-> u, type |-> t, on |-> on]
    BY DEF Listed
  <1>2. y.user = u /\ y.type = t /\ y.on = on
    BY <1>1
  <1> QED
    BY <1>1, <1>2

LEMMA ConnectCounts ==
    ASSUME IInv, NEW s \in Server, NEW l \in Link, Connect(s, l)
    PROVE  Accounts'
  <1>1. /\ \A k \in mOpen : owner[k] # s
        /\ owner[l] = NoServer /\ owner' = [owner EXCEPT ![l] = s]
        /\ mOpen' = mOpen \cup {l} /\ rOpen' = rOpen \cup {l}
        /\ listedOff' = listedOff \cup {x \in User \X ClientType : hiding[s][x[1]][x[2]] > 0}
        /\ UNCHANGED <<local, hiding, pc, shown, down, table, opened, losses>>
    BY DEF Connect, LinksOf
  <1>2. l \notin mOpen /\ l \notin rOpen /\ rOpen \subseteq Link /\ mOpen \subseteq Link
    BY <1>1, NullAssumption DEF IInv, Types, TypeOK
  <1>3. owner'[l] = s /\ \A k \in Link : k # l => owner'[k] = owner[k]
    BY <1>1 DEF IInv, Types, TypeOK
  <1>4. OneLink'
    BY <1>1, <1>2, <1>3 DEF IInv, Accounts, OneLink
  <1>5. AllOpen'
    BY <1>1, <1>2, <1>3 DEF IInv, Accounts, AllOpen
  <1>7. PICK q : \E r \in Seq(UpPacket) :
          /\ q \in OnlineUserInfo(s) /\ q \in Seq(Listed) /\ Len(r) = Len(q)
          /\ \A i \in 1..Len(q) : r[i].user = q[i].user /\ r[i].type = q[i].type /\ r[i].on = q[i].on
          /\ up' = [up EXCEPT ![l] = r]
    BY ConnectIs DEF IInv
  <1>13. PICK r \in Seq(UpPacket) :
          /\ q \in OnlineUserInfo(s) /\ Len(r) = Len(q)
          /\ \A i \in 1..Len(q) : r[i].user = q[i].user /\ r[i].type = q[i].type /\ r[i].on = q[i].on
          /\ up' = [up EXCEPT ![l] = r]
    BY <1>7
  <1>8. /\ up'[l] = r /\ Len(r) \in Nat /\ Len(q) \in Nat /\ DOMAIN q = 1..Len(q)
        /\ \A i \in 1..Len(q) : q[i] \in Listed
        /\ \A k \in Link : k # l => up'[k] = up[k]
    BY <1>7, <1>13 DEF IInv, Types, PacketTypes
  <1>9. ASSUME NEW u \in User, NEW t \in ClientType
        PROVE  /\ Times(q, [user |-> u, type |-> t, on |-> FALSE]) = hiding[s][u][t]
               /\ Times(q, [user |-> u, type |-> t, on |-> TRUE]) = local[s][u][t] - hiding[s][u][t]
               /\ local[s][u][t] \in Nat /\ hiding[s][u][t] \in Nat
    <2>1. \A x \in Listed : Times(q, x) = IF x.on THEN local[s][x.user][x.type] - hiding[s][x.user][x.type]
                                         ELSE hiding[s][x.user][x.type]
      BY <1>13 DEF OnlineUserInfo
    <2>2. \A on \in BOOLEAN : [user |-> u, type |-> t, on |-> on] \in Listed
      BY DEF Listed
    <2>3. PICK a \in Listed : a = [user |-> u, type |-> t, on |-> FALSE]
      BY <2>2
    <2>4. PICK b \in Listed : b = [user |-> u, type |-> t, on |-> TRUE]
      BY <2>2
    <2>5. a.user = u /\ a.type = t /\ a.on = FALSE /\ b.user = u /\ b.type = t /\ b.on = TRUE
      BY <2>3, <2>4
    <2>6. Times(q, a) = hiding[s][u][t] /\ Times(q, b) = local[s][u][t] - hiding[s][u][t]
      BY <2>1, <2>5
    <2>7. local[s][u][t] \in Nat /\ hiding[s][u][t] \in Nat
      BY DEF IInv, Types, TypeOK
    <2> QED
      BY <2>3, <2>4, <2>6, <2>7
  <1>10. ASSUME NEW x, Times(q, x) = 0, NEW i \in 1..Len(q) PROVE q[i] # x
    <2> DEFINE S == {j \in DOMAIN q : q[j] = x}
    <2>1. IsFiniteSet(S)
      <3>1. IsFiniteSet(1..Len(q)) /\ S \subseteq 1..Len(q)
        BY <1>8, FS_Interval
      <3> QED
        BY <3>1, FS_Subset
    <2>2. Cardinality(S) = 0
      BY <1>10 DEF Times
    <2>3. S = {}
      BY <2>1, <2>2, FS_EmptySet
    <2> QED
      BY <1>8, <2>3
  <1>11. NoList'
    <2> SUFFICES ASSUME losses = 0 PROVE NoList'
      BY <1>1 DEF NoList
    <2>1. \A k \in Link : owner[k] # s
      BY <1>1, NullAssumption DEF IInv, Accounts, AllOpen
    <2>2. \A u \in User : local[s][u] = NoCount /\ hiding[s][u] = NoCount
      BY <2>1 DEF IInv, Accounts, NoList
    <2>3. listedOff' = {}
      <3>1. \A x \in User \X ClientType : hiding[s][x[1]][x[2]] = 0
        BY <2>2 DEF NoCount
      <3> QED
        BY <1>1, <3>1 DEF IInv, Accounts, NoList
    <2>4. Len(r) = 0
      <3>1. ASSUME NEW i \in 1..Len(q) PROVE FALSE
        <4>1. PICK u \in User, t \in ClientType, on \in BOOLEAN : q[i] = [user |-> u, type |-> t, on |-> on]
          BY <1>8, ListedIs
        <4>2. local[s][u][t] = 0 /\ hiding[s][u][t] = 0
          BY <2>2 DEF NoCount
        <4>3. /\ Times(q, [user |-> u, type |-> t, on |-> FALSE]) = 0
              /\ Times(q, [user |-> u, type |-> t, on |-> TRUE]) = 0
          BY <1>9, <4>2
        <4>4. Times(q, q[i]) = 0
          BY <4>1, <4>3
        <4> QED
          BY <1>10, <4>4
      <3>2. Len(q) > 0 => 1 \in 1..Len(q)
        BY <1>8
      <3> QED
        BY <1>8, <1>13, <3>1, <3>2
    <2>5. \A k \in rOpen' : \A i \in 1..Len(up'[k]) : up'[k][i].kind = "USER_STATUS_UPDATE"
      <3>1. \A i \in 1..Len(up'[l]) : FALSE
        BY <1>8, <2>4
      <3>2. ASSUME NEW k \in rOpen', k # l PROVE k \in rOpen /\ up'[k] = up[k]
        BY <1>1, <1>2, <1>8, <3>2
      <3>3. \A k \in rOpen : \A i \in 1..Len(up[k]) : up[k][i].kind = "USER_STATUS_UPDATE"
        BY DEF IInv, Accounts, NoList
      <3> QED
        BY <3>1, <3>2, <3>3
    <2>6. \A x \in Server : (\A k \in Link : owner'[k] # x) => \A k \in Link : owner[k] # x
      BY <1>1, <1>3, <2>1, NullAssumption
    <2>7. \A x \in Server : (\A k \in Link : owner'[k] # x) =>
            \A u \in User : local[x][u] = NoCount /\ hiding[x][u] = NoCount
      BY <2>6 DEF IInv, Accounts, NoList
    <2> QED
      BY <1>1, <2>3, <2>5, <2>7 DEF NoList, NoCount
  <1>6. ASSUME NEW u \in User, NEW t \in ClientType, <<u, t>> \notin listedOff' PROVE Balanced(u, t)'
    <2>1. PICK F \in Ledger : Runs(F, u, t) /\ Counts(F, u, t)
      BY <1>1, <1>6 DEF IInv, Accounts, Balanced
    <2>2. hiding[s][u][t] = 0 /\ local[s][u][t] \in Nat
      <3>1. <<u, t>> \in User \X ClientType /\ <<u, t>>[1] = u /\ <<u, t>>[2] = t
        OBVIOUS
      <3>2. ~(hiding[s][u][t] > 0)
        BY <1>1, <1>6, <3>1
      <3> QED
        BY <3>2 DEF IInv, Types, TypeOK
    <2>12. PICK x : x = [user |-> u, type |-> t, on |-> TRUE]
      OBVIOUS
    <2>13. PICK n \in Nat : n = Len(q)
      BY <1>8
    <2>15. PICK J : J = {j \in DOMAIN q : q[j] = x}
      OBVIOUS
    <2>16. J \in SUBSET (1..n) /\ Cardinality(J) = local[s][u][t]
      <3>1. Times(q, x) = local[s][u][t] - hiding[s][u][t]
        BY <1>9, <2>12
      <3>2. Times(q, x) = Cardinality(J)
        BY <2>15 DEF Times
      <3>3. J \in SUBSET (1..n)
        BY <1>8, <2>13, <2>15
      <3> QED
        BY <2>2, <3>1, <3>2, <3>3
    <2>17. ASSUME NEW i \in 1..n
           PROVE  /\ i \in J => r[i].user = u /\ r[i].type = t /\ r[i].on
                  /\ i \notin J => ~(r[i].user = u /\ r[i].type = t)
      <3>1. i \in 1..Len(q) /\ i \in DOMAIN q
        BY <1>8, <2>13
      <3>3. q[i] # [user |-> u, type |-> t, on |-> FALSE]
        BY <1>9, <1>10, <2>2, <3>1
      <3>4. r[i].user = q[i].user /\ r[i].type = q[i].type /\ r[i].on = q[i].on /\ q[i].on \in BOOLEAN
        BY <1>8, <1>13, <3>1, ListedIs
      <3>5. q[i] = [user |-> q[i].user, type |-> q[i].type, on |-> q[i].on]
        BY <1>8, <3>1, ListedIs
      <3>6. q[i] = x <=> q[i].user = u /\ q[i].type = t /\ q[i].on
        <4>1. x.user = u /\ x.type = t /\ x.on = TRUE
          BY <2>12
        <4>2. q[i].user = u /\ q[i].type = t /\ q[i].on => q[i] = x
          <5>1. q[i].on => q[i].on = TRUE
            BY <3>4
          <5> QED
            BY <2>12, <3>5, <5>1
        <4> QED
          BY <4>1, <4>2
      <3>7. q[i].user = u /\ q[i].type = t => q[i].on
        BY <3>3, <3>4, <3>5
      <3>8. i \in J <=> q[i] = x
        BY <2>15, <3>1
      <3> QED
        BY <3>4, <3>6, <3>7, <3>8
    <2>3. \E C \in [Nat -> Nat] :
            /\ C[0] = 0 /\ C[n] = Cardinality(J)
            /\ \A i \in 1..n : /\ i \in J => C[i] = C[i - 1] + 1
                               /\ i \notin J => C[i] = C[i - 1]
      BY <2>16, UpToCounts
    <2>18. PICK C : /\ C \in [Nat -> Nat] /\ C[0] = 0 /\ C[n] = Cardinality(J)
                    /\ \A i \in 1..n : /\ i \in J => C[i] = C[i - 1] + 1
                                       /\ i \notin J => C[i] = C[i - 1]
      BY <2>3
    <2>5. C[Len(r)] = local[s][u][t]
      BY <1>13, <2>13, <2>16, <2>18
    <2>6. ASSUME NEW i \in 1..Len(r) PROVE Tally(r[i], u, t, C[i - 1], C[i])
      <3>1. i \in 1..n
        BY <1>13, <2>13
      <3> QED
        BY <2>17, <2>18, <3>1 DEF Tally
    <2> DEFINE G == [F EXCEPT ![l] = C]
    <2>7. G \in Ledger /\ \A k \in Link : k # l => G[k] = F[k]
      BY <2>18 DEF Ledger
    <2>14. G[l] = C
      BY DEF Ledger
    <2> HIDE DEF G
    <2>8. Runs(G, u, t)'
      <3>1. ASSUME NEW k \in rOpen', k # l
            PROVE  /\ \A i \in 1..Len(up'[k]) : Tally(up'[k][i], u, t, G[k][i - 1], G[k][i])
                   /\ k \in mOpen' => G[k][Len(up'[k])] = local'[owner'[k]][u][t]
        BY <1>1, <1>2, <1>3, <1>8, <2>1, <2>7, <3>1 DEF Runs
      <3>2. /\ \A i \in 1..Len(up'[l]) : Tally(up'[l][i], u, t, G[l][i - 1], G[l][i])
            /\ G[l][Len(up'[l])] = local'[owner'[l]][u][t]
        BY <1>1, <1>3, <1>8, <2>5, <2>6, <2>14
      <3> QED
        BY <1>1, <3>1, <3>2 DEF Runs
    <2>9. G[l][0] = 0
      BY <2>14, <2>18
    <2>10. Counted(rOpen', G) = Counted(rOpen, F)
      <3>1. \A k \in rOpen : G[k][0] = F[k][0]
        BY <1>2, <2>7
      <3>2. Counted(rOpen \cup {l}, G) = Counted(rOpen, F)
        BY <1>2, <2>1, <2>7, <2>9, <3>1, CountedWith
      <3> QED
        BY <1>1, <3>2, Zenon
    <2>11. Counts(G, u, t)'
      BY <1>1, <1>2, <2>1, <2>7, <2>9, <2>10 DEF Counts
    <2> QED
      BY <2>7, <2>8, <2>11 DEF Balanced
  <1> QED
    BY <1>4, <1>5, <1>6, <1>11 DEF Accounts

\* A client opens or closes on server s: the update goes to the end of what is on its way.
LEMMA ClientCounts ==
    ASSUME IInv, NEW s \in Server, NEW v \in User, NEW w \in ClientType,
           NEW st \in BOOLEAN, ClientOpens(s, v, w, st) \/ ClientCloses(s, v, w, st)
    PROVE  Accounts'
  <1>1. PICK on \in BOOLEAN :
          /\ Send(s, v, w, on)
          /\ IF on THEN local' = [local EXCEPT ![s][v][w] = @ + 1]
                   ELSE local[s][v][w] > 0 /\ local' = [local EXCEPT ![s][v][w] = @ - 1]
          /\ (\E l \in Link : owner[l] = s) \/ local[s][v][w] > 0
          /\ \A x \in Server : x # s => hiding'[x] = hiding[x] /\ local'[x] = local[x]
          /\ UNCHANGED <<owner, mOpen, rOpen, table, listedOff, losses>>
    <2>1. CASE ClientOpens(s, v, w, st)
      BY <2>1 DEF ClientOpens, IInv, Types, TypeOK
    <2>2. CASE ClientCloses(s, v, w, st)
      <3>1. local[s][v][w] > 0
        BY <2>2 DEF ClientCloses, IInv, Types, TypeOK
      <3> QED
        BY <2>2, <3>1 DEF ClientCloses, IInv, Types, TypeOK
    <2> QED
      BY <2>1, <2>2
  <1>2. OneLink' /\ AllOpen'
    BY <1>1 DEF IInv, Accounts, OneLink, AllOpen
  <1> DEFINE p == [kind |-> "USER_STATUS_UPDATE", user |-> v, type |-> w, on |-> on]
             Q == LinksOf(s) \cap rOpen
  <1>3. /\ p.kind = "USER_STATUS_UPDATE" /\ p.user = v /\ p.type = w /\ p.on = on /\ p \in UpPacket
        /\ up' = [k \in Link |-> IF k \in Q THEN Append(up[k], p) ELSE up[k]]
        /\ \A k : k \in Q <=> k \in mOpen /\ k \in rOpen /\ owner[k] = s
    BY <1>1 DEF Send, LinksOf, UpPacket
  <1> HIDE DEF p, Q
  <1>4. rOpen \subseteq Link
    BY DEF IInv, Types, TypeOK
  <1>5. /\ \A x \in Server : local[x][v][w] \in Nat
        /\ local'[s][v][w] = IF on THEN local[s][v][w] + 1 ELSE local[s][v][w] - 1
        /\ on \/ local[s][v][w] > 0
        /\ \A x \in Server, y \in User, z \in ClientType :
             /\ local[x][y][z] \in Nat
             /\ ~(x = s /\ y = v /\ z = w) => local'[x][y][z] = local[x][y][z]
    BY <1>1 DEF IInv, Types, TypeOK
  <1>7. NoList'
    <2> SUFFICES ASSUME losses = 0 PROVE NoList'
      BY <1>1 DEF NoList
    <2>1. \E k \in Link : owner[k] = s
      <3>1. CASE local[s][v][w] > 0
        BY <3>1 DEF IInv, Accounts, NoList, NoCount
      <3> QED
        BY <1>1, <3>1
    <2>2. ASSUME NEW k \in rOpen, NEW i \in 1..Len(up'[k]) PROVE up'[k][i].kind = "USER_STATUS_UPDATE"
      <3>1. up[k] \in Seq(UpPacket) /\ k \in Link
        BY DEF IInv, Types, TypeOK, PacketTypes
      <3>2. up'[k][i] = p \/ (i \in 1..Len(up[k]) /\ up'[k][i] = up[k][i])
        BY <1>3, <2>2, <3>1, AppendProperties
      <3> QED
        BY <1>3, <3>2 DEF IInv, Accounts, NoList
    <2>3. \A x \in Server : (\A k \in Link : owner[k] # x) =>
            \A u \in User : local'[x][u] = NoCount /\ hiding'[x][u] = NoCount
      BY <1>1, <2>1 DEF IInv, Accounts, NoList
    <2> QED
      BY <1>1, <2>2, <2>3 DEF NoList, NoCount, IInv, Accounts
  <1>6. ASSUME NEW u \in User, NEW t \in ClientType, <<u, t>> \notin listedOff PROVE Balanced(u, t)'
    <2>1. PICK F \in Ledger : Runs(F, u, t) /\ Counts(F, u, t)
      BY <1>6 DEF IInv, Accounts, Balanced
    <2>2. PICK m \in Nat : m = local[s][u][t]
      BY <1>5
    <2>3. PICK n \in Nat : n = local'[s][u][t]
      BY <1>5
    <2>4. /\ Tally(p, u, t, m, n)
          /\ \A x \in Server : x # s => local'[x][u][t] = local[x][u][t]
      BY <1>3, <1>5, <2>2, <2>3 DEF Tally
    <2>5. \A k \in Link : up[k] \in Seq(UpPacket) /\ Len(up[k]) \in Nat
      BY DEF IInv, Types, PacketTypes
    <2>6. PICK G \in Ledger :
            /\ \A k \in Link : k \notin Q => G[k] = F[k]
            /\ \A k \in Q : G[k][Len(up[k]) + 1] = n /\ \A i \in 0..Len(up[k]) : G[k][i] = F[k][i]
      <3> DEFINE H == [k \in Link |-> IF k \in Q THEN [F[k] EXCEPT ![Len(up[k]) + 1] = n] ELSE F[k]]
      <3>1. \A k \in Link : F[k] \in [Nat -> Nat] /\ Len(up[k]) + 1 \in Nat
        BY <2>5 DEF Ledger
      <3>2. H \in Ledger
        BY <3>1 DEF Ledger
      <3>3. \A k \in Link : k \notin Q => H[k] = F[k]
        OBVIOUS
      <3>4. ASSUME NEW k \in Q
            PROVE  H[k][Len(up[k]) + 1] = n /\ \A i \in 0..Len(up[k]) : H[k][i] = F[k][i]
        <4>1. k \in Link /\ H[k] = [F[k] EXCEPT ![Len(up[k]) + 1] = n]
          BY <1>3, <1>4
        <4>2. \A i \in 0..Len(up[k]) : i \in Nat /\ i # Len(up[k]) + 1
          BY <2>5, <4>1
        <4> HIDE DEF H
        <4> QED
          BY <3>1, <4>1, <4>2
      <3> HIDE DEF H
      <3> QED
        BY <3>2, <3>3, <3>4
    <2>7. ASSUME NEW k \in rOpen
          PROVE  /\ \A i \in 1..Len(up'[k]) : Tally(up'[k][i], u, t, G[k][i - 1], G[k][i])
                 /\ k \in mOpen => G[k][Len(up'[k])] = local'[owner[k]][u][t]
      <3>1. /\ \A i \in 1..Len(up[k]) : Tally(up[k][i], u, t, F[k][i - 1], F[k][i])
            /\ k \in mOpen => F[k][Len(up[k])] = local[owner[k]][u][t]
        BY <2>1 DEF Runs
      <3>2. CASE k \in Q
        <4>1. /\ Len(up'[k]) = Len(up[k]) + 1 /\ up'[k][Len(up[k]) + 1] = p
              /\ \A i \in 1..Len(up[k]) : up'[k][i] = up[k][i]
          BY <1>3, <1>4, <2>5, <3>2, AppendProperties
        <4>2. F[k][Len(up[k])] = m
          BY <1>3, <2>2, <3>1, <3>2
        <4>3. ASSUME NEW i \in 1..(Len(up[k]) + 1) PROVE Tally(up'[k][i], u, t, G[k][i - 1], G[k][i])
          <5>1. CASE i = Len(up[k]) + 1
            BY <2>4, <2>5, <2>6, <3>2, <4>1, <4>2, <5>1
          <5>2. CASE i \in 1..Len(up[k])
            <6>1. i - 1 \in 0..Len(up[k]) /\ i \in 0..Len(up[k])
              BY <2>5, <5>2
            <6> QED
              BY <2>6, <3>1, <3>2, <4>1, <5>2, <6>1
          <5> QED
            BY <2>5, <5>1, <5>2
        <4> QED
          BY <1>3, <2>3, <2>6, <3>2, <4>1, <4>3
      <3>3. CASE k \notin Q
        <4>1. up'[k] = up[k] /\ G[k] = F[k]
          BY <1>3, <1>4, <2>6, <3>3
        <4>2. k \in mOpen => owner[k] # s /\ owner[k] \in Server
          BY <1>3, <3>3 DEF IInv, Types
        <4> QED
          BY <2>4, <3>1, <4>1, <4>2
      <3> QED
        BY <3>2, <3>3
    <2>8. Runs(G, u, t)'
      BY <1>1, <2>7 DEF Runs
    <2>9. \A k \in rOpen : G[k][0] = F[k][0]
      BY <1>4, <2>5, <2>6
    <2>10. Counted(rOpen, G) = Counted(rOpen, F)
      BY <2>9 DEF Counted
    <2>11. Counts(G, u, t)'
      BY <1>1, <2>1, <2>9, <2>10 DEF Counts
    <2> QED
      BY <2>6, <2>8, <2>11 DEF Balanced
  <1> QED
    BY <1>1, <1>2, <1>6, <1>7 DEF Accounts

\* The route server reads the first packet of a link.
LEMMA PacketRead ==
    ASSUME IInv, NEW l \in Link, l \in rOpen, up[l] # <<>>, up' = [up EXCEPT ![l] = Tail(@)],
           UNCHANGED <<local, owner, mOpen, rOpen>>,
           NEW u \in User, NEW t \in ClientType, NEW F \in Ledger, Runs(F, u, t)
    PROVE  \E G \in Ledger :
             /\ Runs(G, u, t)' /\ \A k \in Link : k # l => G[k] = F[k]
             /\ Tally(Head(up[l]), u, t, F[l][0], G[l][0])
  <1> DEFINE G == [F EXCEPT ![l] = [i \in Nat |-> F[l][i + 1]]]
  <1>1. /\ G \in Ledger /\ \A k \in Link : k # l => G[k] = F[k]
        /\ \A i \in Nat : G[l][i] = F[l][i + 1]
    BY DEF Ledger
  <1> HIDE DEF G
  <1>2. /\ Len(up[l]) \in Nat \ {0} /\ Head(up[l]) = up[l][1]
        /\ up'[l] = Tail(up[l]) /\ Len(up'[l]) = Len(up[l]) - 1
        /\ \A i \in 1..Len(up'[l]) : up'[l][i] = up[l][i + 1]
        /\ \A k \in Link : k # l => up'[k] = up[k]
    BY HeadTailProperties DEF IInv, Types, PacketTypes
  <1>3. /\ \A i \in 1..Len(up[l]) : Tally(up[l][i], u, t, F[l][i - 1], F[l][i])
        /\ l \in mOpen => F[l][Len(up[l])] = local[owner[l]][u][t]
    BY DEF Runs
  <1>4. Tally(Head(up[l]), u, t, F[l][0], G[l][0])
    <2>1. 1 \in 1..Len(up[l])
      BY <1>2
    <2>2. Tally(up[l][1], u, t, F[l][1 - 1], F[l][1])
      BY <1>3, <2>1
    <2> QED
      BY <1>1, <1>2, <2>2
  <1>5. ASSUME NEW i \in 1..Len(up'[l]) PROVE Tally(up'[l][i], u, t, G[l][i - 1], G[l][i])
    <2>1. i + 1 \in 1..Len(up[l]) /\ i \in Nat /\ i - 1 \in Nat /\ (i + 1) - 1 = i /\ (i - 1) + 1 = i
      BY <1>2
    <2>2. Tally(up[l][i + 1], u, t, F[l][(i + 1) - 1], F[l][i + 1])
      BY <1>3, <2>1
    <2>3. G[l][i - 1] = F[l][i] /\ G[l][i] = F[l][i + 1]
      BY <1>1, <2>1
    <2> QED
      BY <1>2, <2>1, <2>2, <2>3
  <1>6. l \in mOpen => G[l][Len(up'[l])] = local[owner[l]][u][t]
    <2>1. Len(up'[l]) \in Nat /\ Len(up'[l]) + 1 = Len(up[l])
      BY <1>2
    <2> QED
      BY <1>1, <1>3, <2>1
  <1>7. ASSUME NEW k \in rOpen, k # l
        PROVE  /\ \A i \in 1..Len(up'[k]) : Tally(up'[k][i], u, t, G[k][i - 1], G[k][i])
               /\ k \in mOpen => G[k][Len(up'[k])] = local[owner[k]][u][t]
    <2>1. k \in Link
      BY DEF IInv, Types, TypeOK
    <2> QED
      BY <1>1, <1>2, <1>7, <2>1 DEF Runs
  <1>8. Runs(G, u, t)'
    BY <1>5, <1>6, <1>7 DEF Runs
  <1> QED
    BY <1>1, <1>4, <1>8

LEMMA NoneCounted ==
    ASSUME NEW S \in SUBSET Link, NEW F \in Ledger, IsFiniteSet(Counted(S, F)),
           Cardinality(Counted(S, F)) <= 0
    PROVE  \A l \in S : F[l][0] = 0
  <1>1. Counted(S, F) = {}
    BY FS_EmptySet, FS_CardinalityType
  <1>2. ASSUME NEW l \in S, F[l][0] # 0 PROVE <<l, 1>> \in Counted(S, F)
    <2>1. F[l][0] \in Nat
      BY DEF Ledger
    <2>2. 1 \in 1..F[l][0]
      BY <1>2, <2>1
    <2> QED
      BY <2>2, CountedIs
  <1> QED
    BY <1>1, <1>2

\* It counts what the packet says.
LEMMA ReadCounts ==
    ASSUME IInv, NEW l \in Link, HandleUserStatusUpdate(l) \/ HandleOnlineUserInfo(l) PROVE Accounts'
  <1>1. PICK p \in UpPacket, v \in User, w \in ClientType, on \in BOOLEAN, old \in Entry, new \in Entry :
          /\ l \in rOpen /\ up[l] # <<>>
          /\ p = Head(up[l]) /\ p.user = v /\ p.type = w /\ p.on = on
          /\ old = table[v] /\ new = UpdateUserStatus(old, l, w, on)
          /\ table' = [table EXCEPT ![v] = new]
          /\ up' = [up EXCEPT ![l] = Tail(@)]
          /\ UNCHANGED <<local, hiding, pc, shown, owner, mOpen, rOpen, listedOff, opened, losses>>
    BY ReadIs DEF IInv
  <1>2. OneLink' /\ AllOpen'
    BY <1>1 DEF IInv, Accounts, OneLink, AllOpen
  <1>6. NoList'
    <2> SUFFICES ASSUME losses = 0 PROVE NoList'
      BY <1>1 DEF NoList
    <2>1. \A k \in rOpen : k # l => up'[k] = up[k]
      BY <1>1 DEF IInv, Types, TypeOK, PacketTypes
    <2>2. /\ up'[l] = Tail(up[l]) /\ Len(up'[l]) = Len(up[l]) - 1 /\ Len(up[l]) \in Nat
          /\ \A i \in 1..Len(up'[l]) : up'[l][i] = up[l][i + 1]
      BY <1>1, HeadTailProperties DEF IInv, Types, TypeOK, PacketTypes
    <2>3. \A i \in 1..Len(up'[l]) : i + 1 \in 1..Len(up[l])
      BY <2>2
    <2>4. \A k \in rOpen : \A i \in 1..Len(up'[k]) : up'[k][i].kind = "USER_STATUS_UPDATE"
      BY <1>1, <2>1, <2>2, <2>3 DEF IInv, Accounts, NoList
    <2> QED
      BY <1>1, <2>4 DEF IInv, Accounts, NoList, NoCount
  <1>3. /\ on => new.conns = old.conns \cup {l} /\ new.cnt = [old.cnt EXCEPT ![w] = @ + 1]
        /\ ~on /\ l \notin old.conns => new = old
        /\ ~on /\ l \in old.conns =>
             /\ new.cnt = [old.cnt EXCEPT ![w] = IF @ > 0 THEN @ - 1 ELSE 0]
             /\ new.conns = old.conns \/ (new.cnt = NoCount /\ new.conns = old.conns \ {l})
    <2>1. new = UpdateUserStatus(old, l, w, on)
      BY <1>1
    <2> QED
      BY <2>1, Updated, SMTT(30)
  <1>4. /\ old.cnt \in Count /\ new.cnt \in Count /\ rOpen \in SUBSET Link
        /\ table'[v] = new /\ \A u \in User : u # v => table'[u] = table[u]
    BY <1>1 DEF Entry, IInv, Types, TypeOK
  <1>5. ASSUME NEW u \in User, NEW t \in ClientType, <<u, t>> \notin listedOff PROVE Balanced(u, t)'
    <2>1. PICK F \in Ledger : Runs(F, u, t) /\ Counts(F, u, t)
      BY <1>5 DEF IInv, Accounts, Balanced
    <2>2. PICK G \in Ledger :
            /\ Runs(G, u, t)' /\ \A k \in Link : k # l => G[k] = F[k]
            /\ Tally(Head(up[l]), u, t, F[l][0], G[l][0])
      BY <1>1, <2>1, PacketRead
    <2>3. G[l][0] = IF v = u /\ w = t THEN (IF on THEN F[l][0] + 1 ELSE F[l][0] - 1) ELSE F[l][0]
      BY <1>1, <2>2 DEF Tally
    <2>4. F[l][0] \in Nat /\ G[l][0] \in Nat /\ \A k \in rOpen : k # l => G[k][0] = F[k][0]
      BY <1>4, <2>2 DEF Ledger
    <2> DEFINE n == [k \in rOpen |-> F[k][0]]
               m == [k \in rOpen |-> G[k][0]]
    <2>5. n[l] = F[l][0] /\ m[l] = G[l][0] /\ \A k \in rOpen : k # l => m[k] = n[k]
      BY <1>1, <2>4
    <2>6. Counted(rOpen, F) = Numbered(rOpen, n) /\ Counted(rOpen, G) = Numbered(rOpen, m)
      BY DEF Counted
    <2>7. IsFiniteSet(Numbered(rOpen, n)) /\ Cardinality(Numbered(rOpen, n)) \in Nat
      BY <2>1, <2>6, FS_CardinalityType DEF Counts
    <2>8. /\ table[u].cnt \in Count /\ table[u].cnt[t] \in Nat
          /\ Cardinality(Numbered(rOpen, n)) <= table[u].cnt[t]
          /\ losses = 0 => Cardinality(Numbered(rOpen, n)) = table[u].cnt[t]
          /\ \A k \in rOpen : F[k][0] > 0 => k \in table[u].conns
      BY <2>1, <2>6, Entries DEF Counts, IInv, Types, Count
    <2>9. CASE ~(v = u /\ w = t)
      <3>1. m = n
        BY <2>3, <2>5, <2>9
      <3>2. table'[u].cnt[t] = table[u].cnt[t]
        BY <1>1, <1>3, <1>4, <2>9 DEF Count
      <3>3. \A k \in rOpen : G[k][0] > 0 => k \in table'[u].conns
        <4>1. \A k \in rOpen : G[k][0] = F[k][0]
          BY <2>3, <2>4, <2>9
        <4>2. CASE table[u].conns \subseteq table'[u].conns
          BY <2>8, <4>1, <4>2
        <4>3. CASE u = v /\ new.cnt = NoCount
          <5>1. table[u].cnt[t] = 0
            BY <1>4, <3>2, <4>3 DEF NoCount
          <5>2. \A k \in rOpen : F[k][0] = 0
            BY <1>4, <2>6, <2>7, <2>8, <5>1, NoneCounted
          <5> QED
            BY <4>1, <5>2
        <4> QED
          BY <1>1, <1>3, <1>4, <4>2, <4>3
      <3> HIDE DEF m, n
      <3>4. Counts(G, u, t)'
        BY <1>1, <2>6, <2>7, <2>8, <3>1, <3>2, <3>3 DEF Counts
      <3> QED
        BY <2>2, <3>4 DEF Balanced
    <2>10. CASE v = u /\ w = t /\ on
      <3>1. m[l] = n[l] + 1 /\ n[l] \in Nat
        BY <2>3, <2>4, <2>5, <2>10
      <3>2. table'[u].cnt[t] = table[u].cnt[t] + 1 /\ table'[u].conns = table[u].conns \cup {l}
        <4>1. new.conns = old.conns \cup {l} /\ new.cnt = [old.cnt EXCEPT ![t] = @ + 1]
          BY <1>3, <2>10
        <4>2. table'[u] = new /\ table[u] = old /\ old.cnt \in Count
          BY <1>1, <1>4, <2>10
        <4> QED
          BY <4>1, <4>2 DEF Count
      <3>3. \A k \in rOpen : G[k][0] > 0 => k \in table'[u].conns
        BY <2>4, <2>8, <3>2
      <3> HIDE DEF m, n
      <3>4. /\ IsFiniteSet(Numbered(rOpen, m))
            /\ Cardinality(Numbered(rOpen, m)) = Cardinality(Numbered(rOpen, n)) + 1
        BY <1>1, <2>5, <2>7, <3>1, OneMore
      <3>5. Counts(G, u, t)'
        BY <1>1, <2>6, <2>7, <2>8, <3>2, <3>3, <3>4 DEF Counts
      <3> QED
        BY <2>2, <3>5 DEF Balanced
    <2>11. CASE v = u /\ w = t /\ ~on
      <3>1. n[l] = m[l] + 1 /\ m[l] \in Nat
        BY <2>3, <2>4, <2>5, <2>11
      <3>2. l \in old.conns
        BY <1>1, <2>4, <2>5, <2>8, <2>11, <3>1
      <3>3. /\ new.cnt[t] = IF old.cnt[t] > 0 THEN old.cnt[t] - 1 ELSE 0
            /\ new.conns = old.conns \/ new.cnt = NoCount
        BY <1>3, <1>4, <2>11, <3>2 DEF Count
      <3> HIDE DEF m, n
      <3>4. /\ IsFiniteSet(Numbered(rOpen, m))
            /\ Cardinality(Numbered(rOpen, n)) = Cardinality(Numbered(rOpen, m)) + 1
        <4>1. /\ l \in rOpen /\ m[l] \in Nat /\ n[l] = m[l] + 1
              /\ \A k \in rOpen : k # l => m[k] = n[k]
              /\ IsFiniteSet(Numbered(rOpen, n))
          BY <1>1, <2>5, <2>7, <3>1
        <4> QED
          BY <4>1, OneLess, Zenon
      <3>5. Cardinality(Numbered(rOpen, m)) \in Nat
        BY <3>4, FS_CardinalityType
      <3>6. /\ Cardinality(Numbered(rOpen, m)) <= table'[u].cnt[t]
            /\ losses = 0 => Cardinality(Numbered(rOpen, m)) = table'[u].cnt[t]
        BY <1>1, <1>4, <2>8, <2>11, <3>3, <3>4, <3>5
      <3>7. \A k \in rOpen : G[k][0] > 0 => k \in table'[u].conns
        <4>1. CASE new.conns = old.conns
          <5>1. \A k \in rOpen : G[k][0] > 0 => F[k][0] > 0
            BY <2>3, <2>4, <2>11
          <5> QED
            BY <1>1, <1>4, <2>8, <2>11, <4>1, <5>1
        <4>2. CASE new.cnt = NoCount
          <5>1. table'[u].cnt[t] = 0
            BY <1>4, <2>11, <4>2 DEF NoCount
          <5>2. \A k \in rOpen : G[k][0] = 0
            BY <1>4, <2>6, <3>4, <3>6, <5>1, NoneCounted
          <5> QED
            BY <5>2
        <4> QED
          BY <3>3, <4>1, <4>2
      <3>8. Counts(G, u, t)'
        BY <1>1, <2>6, <3>4, <3>6, <3>7 DEF Counts
      <3> QED
        BY <2>2, <3>8 DEF Balanced
    <2> QED
      BY <2>9, <2>10, <2>11
  <1> QED
    BY <1>1, <1>2, <1>5, <1>6 DEF Accounts

\* The route server drops a link and what it has not read of it.
LEMMA CloseCounts == ASSUME IInv, NEW l \in Link, RouteServerClosesLink(l) PROVE Accounts'
  <1>1. /\ l \in rOpen /\ rOpen' = rOpen \ {l} /\ up' = [up EXCEPT ![l] = <<>>]
        /\ losses' = IF l \in mOpen THEN losses + 1 ELSE losses
        /\ table' = [u \in User |-> EntryWithout(table[u], l)]
        /\ UNCHANGED <<local, hiding, pc, shown, down, owner, mOpen, listedOff, opened>>
    BY DEF RouteServerClosesLink
  <1>2. losses' # 0
    BY <1>1 DEF IInv, Accounts, AllOpen, Types, TypeOK
  <1>3. OneLink' /\ AllOpen' /\ NoList'
    BY <1>1, <1>2 DEF IInv, Accounts, OneLink, AllOpen, NoList
  <1>4. ASSUME NEW u \in User, NEW t \in ClientType, <<u, t>> \notin listedOff PROVE Balanced(u, t)'
    <2>1. PICK F \in Ledger : Runs(F, u, t) /\ Counts(F, u, t)
      BY <1>4 DEF IInv, Accounts, Balanced
    <2>2. Runs(F, u, t)'
      BY <1>1, <2>1 DEF Runs, IInv, Types, TypeOK
    <2>3. /\ table'[u].conns = table[u].conns \ {l}
          /\ table'[u].cnt[t] = table[u].cnt[t] \/ (table[u].conns \subseteq {l} /\ table'[u].cnt[t] = 0)
          /\ table[u].cnt[t] \in Nat
      <3>1. PICK e \in Entry : e = table[u]
        BY Entries DEF IInv, Types
      <3>2. e.cnt[t] \in Nat /\ NoCount[t] = 0
        BY DEF Entry, Count, NoCount
      <3>3. table'[u] = EntryWithout(e, l)
        BY <1>1, <3>1
      <3>4. /\ EntryWithout(e, l).conns = e.conns \ {l}
            /\ EntryWithout(e, l).cnt = IF e.conns \subseteq {l} THEN NoCount ELSE e.cnt
        BY DEF EntryWithout
      <3> QED
        BY <3>1, <3>2, <3>3, <3>4
    <2>4. \A k \in rOpen' : F[k][0] > 0 => k \in table'[u].conns
      BY <1>1, <2>1, <2>3 DEF Counts
    <2>5. /\ IsFiniteSet(Counted(rOpen', F))
          /\ Cardinality(Counted(rOpen', F)) <= Cardinality(Counted(rOpen, F))
      <3> DEFINE n == [k \in rOpen |-> F[k][0]]
      <3>1. PICK S : S = rOpen'
        OBVIOUS
      <3> DEFINE m == [k \in S |-> F[k][0]]
      <3>2. S \subseteq rOpen /\ \A k \in S : m[k] = n[k]
        BY <1>1, <3>1
      <3>3. Counted(rOpen, F) = Numbered(rOpen, n) /\ Counted(rOpen', F) = Numbered(S, m)
        BY <3>1 DEF Counted
      <3>4. IsFiniteSet(Numbered(rOpen, n))
        BY <2>1, <3>3 DEF Counts
      <3> HIDE DEF m, n
      <3>5. /\ IsFiniteSet(Numbered(S, m))
            /\ Cardinality(Numbered(S, m)) <= Cardinality(Numbered(rOpen, n))
        BY <3>2, <3>4, FewerThings, Zenon
      <3> QED
        BY <3>3, <3>5
    <2>6. Cardinality(Counted(rOpen', F)) <= table'[u].cnt[t]
      <3>1. CASE table'[u].cnt[t] = table[u].cnt[t]
        BY <2>1, <2>3, <2>5, <3>1, FS_CardinalityType DEF Counts
      <3>2. CASE table[u].conns \subseteq {l} /\ table'[u].cnt[t] = 0
        <4>1. \A k \in rOpen' : F[k][0] \in Nat /\ k \in Link
          BY <1>1 DEF IInv, Types, TypeOK, Ledger
        <4>2. \A k \in rOpen' : 1..F[k][0] = {}
          BY <2>3, <2>4, <3>2, <4>1
        <4>3. Counted(rOpen', F) = {}
          BY <4>1, <4>2, CountedIs
        <4> QED
          BY <3>2, <4>3, FS_EmptySet
      <3> QED
        BY <2>3, <3>1, <3>2
    <2>7. Counts(F, u, t)'
      BY <1>2, <2>4, <2>5, <2>6 DEF Counts
    <2> QED
      BY <2>2, <2>7 DEF Balanced
  <1> QED
    BY <1>1, <1>3, <1>4 DEF Accounts

LEMMA NextIInv == IInv /\ [Next]_vars => IInv'
  <1> SUFFICES ASSUME IInv, [Next]_vars PROVE Accounts'
    BY NextTypes DEF IInv
  <1>1. CASE UNCHANGED vars
    BY <1>1, StaysBalanced DEF vars
  <1>2. ASSUME NEW s \in Server, NEW l \in Link, Connect(s, l) PROVE Accounts'
    BY <1>2, ConnectCounts
  <1>3. ASSUME NEW s \in Server, NEW u \in User, NEW t \in ClientType,
               NEW st \in BOOLEAN, ClientOpens(s, u, t, st) \/ ClientCloses(s, u, t, st)
        PROVE  Accounts'
    BY <1>3, ClientCounts
  <1>4. ASSUME NEW l \in Link, MsgServerReceives(l) PROVE Accounts'
    BY <1>4, StaysBalanced DEF MsgServerReceives
  <1>5. ASSUME NEW l \in Link, MsgServerLosesLink(l) PROVE Accounts'
    <2>1. l \in mOpen /\ mOpen' = mOpen \ {l} /\ losses' = IF l \in rOpen THEN losses + 1 ELSE losses
      BY <1>5 DEF MsgServerLosesLink
    <2>2. losses' # 0
      BY <2>1 DEF IInv, Accounts, AllOpen, Types, TypeOK
    <2> QED
      BY <1>5, <2>1, <2>2, StaysBalanced DEF MsgServerLosesLink
  <1>6. ASSUME NEW l \in Link,
               HandleUserStatusUpdate(l) \/ HandleOnlineUserInfo(l) \/ RouteServerClosesLink(l)
        PROVE  Accounts'
    BY <1>6, ReadCounts, CloseCounts
  <1> QED
    BY <1>1, <1>2, <1>3, <1>4, <1>5, <1>6 DEF Next

LEMMA SpecIInv == Spec => []IInv
  BY InitCounts, NextIInv, PTL DEF Spec

-----------------------------------------------------------------------------
(* What the counts mean *)

HeardOnes == {s \in Server : Heard(s)}

\* A server that is heard has one link, whose packets were all read: what is counted for
\* the link are the clients of the server.
LEMMA HeardCounted ==
    ASSUME IInv, NEW u \in User, NEW t \in ClientType, <<u, t>> \notin listedOff
    PROVE  /\ table[u].cnt[t] >= Clients(HeardOnes, u, t)
           /\ losses = 0 /\ (\A l \in rOpen : Heard(owner[l])) =>
                table[u].cnt[t] = Clients(HeardOnes, u, t)
           /\ IsFiniteSet(Numbered(HeardOnes, [s \in HeardOnes |-> local[s][u][t]]))
  <1>1. PICK F \in Ledger : Runs(F, u, t) /\ Counts(F, u, t)
    BY DEF IInv, Accounts, Balanced
  <1>2. table[u].cnt[t] \in Nat
    BY Entries DEF IInv, Types, Count
  <1> DEFINE Best(s) == CHOOSE l \in Link : l \in mOpen /\ l \in rOpen /\ owner[l] = s /\ up[l] = <<>>
             f == [s \in HeardOnes |-> Best(s)]
             n == [s \in HeardOnes |-> local[s][u][t]]
             m == [l \in rOpen |-> F[l][0]]
  <1>3. ASSUME NEW s \in HeardOnes
        PROVE  Best(s) \in mOpen /\ Best(s) \in rOpen /\ owner[Best(s)] = s /\ up[Best(s)] = <<>>
    <2>1. \E l \in Link : l \in mOpen /\ l \in rOpen /\ owner[l] = s /\ up[l] = <<>>
      BY DEF HeardOnes, Heard, LinksOf, IInv, Types, TypeOK
    <2> QED
      BY <2>1
  <1> HIDE DEF Best
  <1>4. f \in [HeardOnes -> rOpen] /\ \A x, y \in HeardOnes : f[x] = f[y] => x = y
    BY <1>3
  <1>5. ASSUME NEW s \in HeardOnes PROVE n[s] = m[f[s]]
    <2>1. PICK l \in rOpen : l = Best(s) /\ l \in mOpen /\ owner[l] = s /\ up[l] = <<>>
      BY <1>3
    <2>2. F[l][Len(up[l])] = local[owner[l]][u][t]
      BY <1>1, <2>1 DEF Runs
    <2>3. F[l][0] = local[s][u][t]
      BY <2>1, <2>2
    <2> QED
      BY <2>1, <2>3
  <1>6. Counted(rOpen, F) = Numbered(rOpen, m) /\ Clients(HeardOnes, u, t) = Cardinality(Numbered(HeardOnes, n))
       /\ Numbered(HeardOnes, n) = Numbered(HeardOnes, [s \in HeardOnes |-> local[s][u][t]])
    BY DEF Counted, Clients
  <1>7. losses = 0 /\ (\A l \in rOpen : Heard(owner[l])) => \A l \in rOpen : \E s \in HeardOnes : f[s] = l
    <2> SUFFICES ASSUME losses = 0, \A l \in rOpen : Heard(owner[l]), NEW l \in rOpen
                 PROVE  f[owner[l]] = l /\ owner[l] \in HeardOnes
      OBVIOUS
    <2>1. l \in mOpen /\ owner[l] \in HeardOnes
      BY DEF IInv, Types, Accounts, AllOpen, HeardOnes
    <2>2. Best(owner[l]) \in mOpen /\ owner[Best(owner[l])] = owner[l]
      BY <1>3, <2>1
    <2>3. Best(owner[l]) = l
      BY <2>1, <2>2 DEF IInv, Accounts, OneLink
    <2> QED
      BY <2>1, <2>3
  <1> HIDE DEF f, n, m
  <1>8. IsFiniteSet(Numbered(rOpen, m))
    BY <1>1, <1>6 DEF Counts
  <1>9. /\ IsFiniteSet(Numbered(HeardOnes, n))
        /\ Cardinality(Numbered(HeardOnes, n)) <= Cardinality(Numbered(rOpen, m))
        /\ (\A l \in rOpen : \E s \in HeardOnes : f[s] = l) =>
             Cardinality(Numbered(HeardOnes, n)) = Cardinality(Numbered(rOpen, m))
    BY <1>4, <1>5, <1>8, NumberedInto
  <1>10. Cardinality(Numbered(HeardOnes, n)) \in Nat /\ Cardinality(Numbered(rOpen, m)) \in Nat
    BY <1>8, <1>9, FS_CardinalityType
  <1>11. /\ Cardinality(Numbered(rOpen, m)) <= table[u].cnt[t]
         /\ losses = 0 => Cardinality(Numbered(rOpen, m)) = table[u].cnt[t]
    BY <1>1, <1>6 DEF Counts
  <1> QED
    BY <1>2, <1>6, <1>7, <1>9, <1>10, <1>11

LEMMA IInvNeverUndercounts == IInv => NeverUndercounts
  BY HeardCounted DEF NeverUndercounts, HeardOnes

\* The route server never counts too few clients of the servers it has heard, in whatever
\* order the two ends of old and new links notice, drain and reconnect, except of a user and
\* client type that a list gave as OFFLINE.
THEOREM OnlineNotForgotten == Spec => []NeverUndercounts
  BY SpecIInv, IInvNeverUndercounts, PTL

LEMMA IInvExact == IInv => ExactWithoutLoss
  <1> SUFFICES ASSUME IInv, losses = 0, \A s \in Server : LinksOf(s) # {} => Heard(s),
                      NEW u \in User, NEW t \in ClientType
               PROVE  table[u].cnt[t] = Clients({s \in Server : LinksOf(s) # {}}, u, t)
    BY DEF ExactWithoutLoss
  <1>1. {s \in Server : LinksOf(s) # {}} = HeardOnes
    BY DEF HeardOnes, Heard
  <1>2. ASSUME NEW l \in rOpen PROVE Heard(owner[l])
    <2>1. l \in mOpen /\ owner[l] \in Server
      BY DEF IInv, Types, Accounts, AllOpen
    <2> QED
      BY <2>1 DEF LinksOf
  <1>3. <<u, t>> \notin listedOff
    BY DEF IInv, Accounts, NoList
  <1> QED
    BY <1>1, <1>2, <1>3, HeardCounted

\* While no link was lost the counts are exact whenever every packet was read.
THEOREM CountsExact == Spec => []ExactWithoutLoss
  BY SpecIInv, IInvExact, PTL

-----------------------------------------------------------------------------
(* What clients are told *)

Shows(p, u) == p.kind = "STATUS_NOTIFY" /\ p.user = u

\* When the packets d have been read the last status of u that was passed on, if any, is on;
\* sh is the last one passed on so far.
Seen(d, sh, u, on) ==
    /\ \A i \in 1..Len(d) :
         Shows(d[i], u) /\ (\A j \in 1..Len(d) : j > i => ~Shows(d[j], u)) => d[i].on = on
    /\ (\A i \in 1..Len(d) : ~Shows(d[i], u)) => sh \in {"nothing", Status(on)}

\* Without a loss a server that had no link yet was told nothing, and every link brings its
\* server the status the table says.
Told ==
    /\ \A l \in Link : owner[l] = NoServer => down[l] = <<>>
    /\ losses = 0 =>
         /\ \A s \in Server : LinksOf(s) = {} => \A u \in User : shown[s][u] = "nothing"
         /\ \A l \in rOpen, u \in User :
              Seen(down[l], shown[owner[l]][u], u, IsPCClientLogin(table[u]))

LEMMA SeenNothing == ASSUME NEW u, NEW on PROVE Seen(<<>>, "nothing", u, on)
  BY DEF Seen

\* Packets that do not show u, one that does, and the first one read.
LEMMA SeenOthers ==
    ASSUME NEW d \in Seq(DownPacket), NEW a \in Seq(DownPacket), NEW sh, NEW u, NEW on,
           \A i \in 1..Len(a) : ~Shows(a[i], u), Seen(d, sh, u, on)
    PROVE  Seen(d \o a, sh, u, on)
  <1>1. /\ Len(d) \in Nat /\ Len(a) \in Nat /\ Len(d \o a) = Len(d) + Len(a)
        /\ \A i \in 1..Len(d) : (d \o a)[i] = d[i]
        /\ \A i \in 1..Len(d \o a) : i \notin 1..Len(d) => ~Shows((d \o a)[i], u)
    <2>1. Len(d) \in Nat /\ Len(a) \in Nat /\ Len(d \o a) = Len(d) + Len(a)
      BY ConcatProperties
    <2>2. \A i \in 1..(Len(d) + Len(a)) :
            (d \o a)[i] = IF i <= Len(d) THEN d[i] ELSE a[i - Len(d)]
      BY ConcatProperties
    <2>3. \A i \in 1..(Len(d) + Len(a)) : i \notin 1..Len(d) => i - Len(d) \in 1..Len(a)
      BY <2>1
    <2> QED
      BY <2>1, <2>2, <2>3
  <1> DEFINE b == d \o a
  <1> HIDE DEF b
  <1>2. \A i \in 1..Len(d) : i \in 1..Len(b) /\ b[i] = d[i]
    BY <1>1 DEF b
  <1>3. \A i \in 1..Len(b) : Shows(b[i], u) => i \in 1..Len(d)
    BY <1>1 DEF b
  <1>4. ASSUME NEW i \in 1..Len(b), Shows(b[i], u), \A j \in 1..Len(b) : j > i => ~Shows(b[j], u)
        PROVE  b[i].on = on
    BY <1>2, <1>3, <1>4 DEF Seen
  <1>5. ASSUME \A i \in 1..Len(b) : ~Shows(b[i], u) PROVE sh \in {"nothing", Status(on)}
    BY <1>2, <1>5 DEF Seen
  <1>6. Seen(b, sh, u, on)
    BY <1>4, <1>5 DEF Seen
  <1> QED
    BY <1>6 DEF b

LEMMA SeenThis ==
    ASSUME NEW d \in Seq(DownPacket), NEW p \in DownPacket, NEW sh, NEW u, Shows(p, u)
    PROVE  Seen(d \o <<p>>, sh, u, p.on)
  <1> DEFINE b == d \o <<p>>
  <1>1. /\ Len(d) \in Nat /\ Len(b) = Len(d) + 1 /\ b[Len(d) + 1] = p
    BY ConcatProperties
  <1> HIDE DEF b
  <1>2. Len(b) \in 1..Len(b) /\ Shows(b[Len(b)], u) /\ \A i \in 1..Len(b) : i = Len(b) \/ Len(b) > i
    BY <1>1
  <1>3. Seen(b, sh, u, p.on)
    BY <1>1, <1>2 DEF Seen
  <1> QED
    BY <1>3 DEF b

LEMMA SeenTail ==
    ASSUME NEW d \in Seq(DownPacket), d # <<>>, NEW sh, NEW u, NEW on, Seen(d, sh, u, on)
    PROVE  Seen(Tail(d), IF Shows(Head(d), u) THEN Status(Head(d).on) ELSE sh, u, on)
  <1> DEFINE b == Tail(d)
             sh2 == IF Shows(Head(d), u) THEN Status(Head(d).on) ELSE sh
  <1>1. /\ Len(d) \in Nat \ {0} /\ Len(b) = Len(d) - 1 /\ Head(d) = d[1]
        /\ \A i \in 1..Len(b) : b[i] = d[i + 1]
    BY HeadTailProperties
  <1> HIDE DEF b
  <1>2. \A j \in 1..Len(d) : j = 1 \/ (j - 1 \in 1..Len(b) /\ d[j] = b[j - 1])
    <2>1. \A j \in 1..Len(d) : j # 1 => j - 1 \in 1..Len(b) /\ (j - 1) + 1 = j
      BY <1>1
    <2> QED
      BY <1>1, <2>1
  <1>3. ASSUME NEW i \in 1..Len(b), Shows(b[i], u), \A j \in 1..Len(b) : j > i => ~Shows(b[j], u)
        PROVE  b[i].on = on
    <2>1. i + 1 \in 1..Len(d) /\ b[i] = d[i + 1]
      BY <1>1
    <2>2. ASSUME NEW j \in 1..Len(d), j > i + 1 PROVE ~Shows(d[j], u)
      <3>1. j - 1 \in 1..Len(b) /\ d[j] = b[j - 1] /\ j - 1 > i
        BY <1>1, <1>2, <2>2
      <3> QED
        BY <1>3, <3>1
    <2> QED
      BY <1>3, <2>1, <2>2 DEF Seen
  <1>4. ASSUME \A i \in 1..Len(b) : ~Shows(b[i], u) PROVE sh2 \in {"nothing", Status(on)}
    <2>1. \A j \in 1..Len(d) : j = 1 \/ ~Shows(d[j], u)
      BY <1>2, <1>4
    <2>2. CASE Shows(Head(d), u)
      <3>1. 1 \in 1..Len(d) /\ \A j \in 1..Len(d) : j > 1 => ~Shows(d[j], u)
        BY <1>1, <2>1
      <3>2. d[1].on = on
        BY <1>1, <2>2, <3>1 DEF Seen
      <3> QED
        BY <1>1, <2>2, <3>2
    <2>3. CASE ~Shows(Head(d), u)
      BY <1>1, <2>1, <2>3 DEF Seen
    <2> QED
      BY <2>2, <2>3
  <1> HIDE DEF sh2
  <1>5. Seen(b, sh2, u, on)
    BY <1>3, <1>4 DEF Seen
  <1> QED
    BY <1>5 DEF b, sh2

\* The STATUS_NOTIFY of an update tells what the new entry says, and none is sent only when
\* the entry says what it said before.
LEMMA NotifyTrue ==
    ASSUME NEW old \in Entry, NEW new \in Entry, NEW l \in Link, NEW u, NEW w \in ClientType,
           NEW on \in BOOLEAN, new = UpdateUserStatus(old, l, w, on)
    PROVE  \/ /\ StatusNotify(new, u, w, on) = <<[kind |-> "STATUS_NOTIFY", user |-> u, on |-> on]>>
              /\ IsPCClientLogin(new) = on
           \/ /\ StatusNotify(new, u, w, on) = <<>>
              /\ IsPCClientLogin(new) = IsPCClientLogin(old)
  <1>1. /\ \A t \in ClientType : old.cnt[t] \in Nat /\ new.cnt[t] \in Nat
        /\ new.conns = {} => \A t \in ClientType : new.cnt[t] = 0
    BY DEF Entry, Count, NoCount
  <1>2. /\ on => new.cnt[w] > 0
        /\ ~on => \A t \in ClientType : new.cnt[t] <= old.cnt[t]
        /\ \A t \in ClientType : t # w => new.cnt[t] = old.cnt[t]
    <2>1. /\ on => new.cnt = [old.cnt EXCEPT ![w] = @ + 1]
          /\ ~on => new = old \/ new.cnt = [old.cnt EXCEPT ![w] = IF @ > 0 THEN @ - 1 ELSE 0]
      BY Updated, SMTT(30)
    <2>2. old.cnt \in Count
      BY DEF Entry
    <2> QED
      BY <1>1, <2>1, <2>2 DEF Count
  <1>3. CASE w \in PcType /\ ~(~on /\ Exists(new) /\ IsPCClientLogin(new))
    <2>1. IsPCClientLogin(new) = on
      <3>1. CASE on
        <4>1. IsPCClientLogin(new)
          BY <1>2, <1>3, <3>1 DEF IsPCClientLogin
        <4> QED
          BY <3>1, <4>1 DEF IsPCClientLogin
      <3>2. CASE ~on
        <4>1. ~IsPCClientLogin(new)
          BY <1>1, <1>3, <3>2 DEF Exists, IsPCClientLogin
        <4> QED
          BY <3>2, <4>1 DEF IsPCClientLogin
      <3> QED
        BY <3>1, <3>2
    <2> QED
      BY <1>3, <2>1 DEF StatusNotify
  <1>4. CASE ~(w \in PcType /\ ~(~on /\ Exists(new) /\ IsPCClientLogin(new)))
    <2>1. IsPCClientLogin(new) = IsPCClientLogin(old)
      <3>1. CASE w \notin PcType
        BY <1>2, <3>1 DEF IsPCClientLogin
      <3>2. CASE ~on /\ IsPCClientLogin(new)
        BY <1>1, <1>2, <3>2 DEF IsPCClientLogin
      <3> QED
        BY <1>4, <3>1, <3>2
    <2> QED
      BY <1>4, <2>1 DEF StatusNotify
  <1> QED
    BY <1>3, <1>4

\* The packets of an update bring every msg_server the status the new entry says.
LEMMA BroadcastTrue ==
    ASSUME NEW old \in Entry, NEW new \in Entry, NEW l \in Link, NEW v \in User,
           NEW w \in ClientType, NEW on \in BOOLEAN, new = UpdateUserStatus(old, l, w, on),
           NEW d \in Seq(DownPacket), NEW sh
    PROVE  /\ Seen(d, sh, v, IsPCClientLogin(old)) =>
                Seen(d \o (PcLoginNotify(new, v, w, on) \o StatusNotify(new, v, w, on)), sh, v,
                     IsPCClientLogin(new))
           /\ \A u \in User : \A b : u # v /\ Seen(d, sh, u, b) =>
                Seen(d \o (PcLoginNotify(new, v, w, on) \o StatusNotify(new, v, w, on)), sh, u, b)
  <1>1. PICK a : a = PcLoginNotify(new, v, w, on)
    OBVIOUS
  <1>2. PICK c : c = StatusNotify(new, v, w, on)
    OBVIOUS
  <1>3. PICK p \in DownPacket : p = [kind |-> "STATUS_NOTIFY", user |-> v, on |-> on]
    BY DEF DownPacket
  <1>4. a \in Seq(DownPacket) /\ \A u : \A i \in 1..Len(a) : ~Shows(a[i], u)
    <2>1. [kind |-> "LOGIN_STATUS_NOTIFY", user |-> v, on |-> on] \in DownPacket
      BY DEF DownPacket
    <2> QED
      BY <1>1, <2>1 DEF PcLoginNotify, Shows
  <1>5. /\ c = <<p>> \/ c = <<>>
        /\ c \in Seq(DownPacket) /\ p.on = on /\ p.user = v /\ Shows(p, v)
    BY <1>2, <1>3 DEF StatusNotify, Shows
  <1>6. d \o a \in Seq(DownPacket) /\ d \o (a \o c) = (d \o a) \o c
    <2>1. a \in Seq(DownPacket) /\ c \in Seq(DownPacket)
      BY <1>4, <1>5
    <2>2. d \o a \in Seq(DownPacket)
      BY <2>1, ConcatProperties
    <2>3. d \o (a \o c) = (d \o a) \o c
      BY <2>1
    <2> QED
      BY <2>2, <2>3
  <1>7. ASSUME Seen(d, sh, v, IsPCClientLogin(old))
        PROVE  Seen((d \o a) \o c, sh, v, IsPCClientLogin(new))
    <2>1. Seen(d \o a, sh, v, IsPCClientLogin(old))
      BY <1>4, <1>7, SeenOthers
    <2>2. \/ c = <<p>> /\ IsPCClientLogin(new) = on
          \/ c = <<>> /\ IsPCClientLogin(new) = IsPCClientLogin(old)
      BY <1>2, <1>3, NotifyTrue
    <2>3. CASE c = <<p>> /\ IsPCClientLogin(new) = on
      <3>1. Seen((d \o a) \o <<p>>, sh, v, p.on)
        BY <1>5, <1>6, SeenThis
      <3> QED
        BY <1>5, <2>3, <3>1
    <2>4. CASE c = <<>> /\ IsPCClientLogin(new) = IsPCClientLogin(old)
      <3>1. (d \o a) \o c = d \o a
        BY <1>6, <2>4, ConcatEmptySeq
      <3> QED
        BY <2>1, <2>4, <3>1
    <2> QED
      BY <2>2, <2>3, <2>4
  <1>8. ASSUME NEW u \in User, NEW b, u # v, Seen(d, sh, u, b)
        PROVE  Seen((d \o a) \o c, sh, u, b)
    <2>1. Seen(d \o a, sh, u, b)
      BY <1>4, <1>8, SeenOthers
    <2>2. \A i \in 1..Len(c) : ~Shows(c[i], u)
      BY <1>5, <1>8 DEF Shows
    <2> QED
      BY <1>5, <1>6, <2>1, <2>2, SeenOthers
  <1> QED
    BY <1>1, <1>2, <1>6, <1>7, <1>8

LEMMA InitTold == Init => Told
  BY DEF Init, Told

\* The facts Told states, one by one, for a state without a loss.
LEMMA ToldIs ==
    ASSUME IInv, Told, losses = 0
    PROVE  /\ mOpen = rOpen /\ mOpen \subseteq Link
           /\ \A l \in Link : owner[l] # NoServer => l \in mOpen
           /\ \A k, l \in mOpen : owner[k] = owner[l] => k = l
           /\ \A l \in mOpen : owner[l] \in Server
           /\ \A s \in Server : (\A l \in mOpen : owner[l] # s) => \A u \in User : shown[s][u] = "nothing"
           /\ \A l \in rOpen, u \in User :
                Seen(down[l], shown[owner[l]][u], u, IsPCClientLogin(table[u]))
  <1>1. /\ mOpen = rOpen /\ mOpen \subseteq Link
        /\ \A l \in Link : owner[l] # NoServer => l \in mOpen
        /\ \A k, l \in mOpen : owner[k] = owner[l] => k = l
        /\ \A l \in mOpen : owner[l] \in Server
    BY DEF IInv, Types, TypeOK, Accounts, AllOpen, OneLink
  <1>2. ASSUME NEW s \in Server, \A l \in mOpen : owner[l] # s
        PROVE  \A u \in User : shown[s][u] = "nothing"
    BY <1>2 DEF Told, LinksOf
  <1>3. \A l \in rOpen, u \in User :
          Seen(down[l], shown[owner[l]][u], u, IsPCClientLogin(table[u]))
    BY DEF Told
  <1> QED
    BY <1>1, <1>2, <1>3

LEMMA ConnectTold ==
    ASSUME IInv, Told, NEW s \in Server, NEW l \in Link, Connect(s, l) PROVE Told'
  <1>1. /\ \A k \in mOpen : owner[k] # s
        /\ owner[l] = NoServer /\ owner' = [owner EXCEPT ![l] = s]
        /\ mOpen' = mOpen \cup {l} /\ rOpen' = rOpen \cup {l}
        /\ UNCHANGED <<local, pc, shown, down, table, opened, losses>>
    BY DEF Connect, LinksOf
  <1>2. l \notin mOpen /\ l \notin rOpen /\ rOpen \subseteq Link
    BY <1>1, NullAssumption DEF IInv, Types, TypeOK
  <1>3. owner'[l] = s /\ \A k \in Link : k # l => owner'[k] = owner[k]
    BY <1>1 DEF IInv, Types, TypeOK
  <1>4. \A k \in Link : owner'[k] = NoServer => down'[k] = <<>>
    BY <1>1, <1>3, NullAssumption DEF Told
  <1>5. ASSUME losses = 0
        PROVE  /\ \A x \in Server : (\A k \in mOpen' : owner'[k] # x) =>
                    \A u \in User : shown[x][u] = "nothing"
               /\ \A k \in rOpen', u \in User :
                    Seen(down[k], shown[owner'[k]][u], u, IsPCClientLogin(table[u]))
    <2>1. ASSUME NEW u \in User PROVE Seen(down[l], shown[s][u], u, IsPCClientLogin(table[u]))
      <3>1. shown[s][u] = "nothing"
        BY <1>1, <1>5, ToldIs
      <3>2. down[l] = <<>>
        BY <1>1 DEF Told
      <3> QED
        BY <3>1, <3>2, SeenNothing
    <2>2. ASSUME NEW k \in rOpen', k # l PROVE k \in rOpen /\ k \in Link /\ owner'[k] = owner[k]
      BY <1>1, <1>2, <1>3, <2>2
    <2>3. \A x \in Server : (\A k \in mOpen' : owner'[k] # x) => \A k \in mOpen : owner[k] # x
      BY <1>1, <1>2, <1>3, <1>5, ToldIs
    <2>4. \A k \in rOpen', u \in User : Seen(down[k], shown[owner'[k]][u], u, IsPCClientLogin(table[u]))
      BY <1>3, <1>5, <2>1, <2>2, ToldIs
    <2> QED
      BY <1>5, <2>3, <2>4, ToldIs
  <1> QED
    BY <1>1, <1>4, <1>5 DEF Told, LinksOf

\* Clients that open or close, and a step that changes nothing Told speaks of.
LEMMA StaysTold ==
    ASSUME Told, UNCHANGED <<shown, down, owner, mOpen, rOpen, table, losses>> PROVE Told'
  <1>1. \A x \in Server : LinksOf(x)' = LinksOf(x)
    BY DEF LinksOf
  <1> QED
    BY <1>1 DEF Told

\* A msg_server reads a packet of its one link.
LEMMA ReceivesTold ==
    ASSUME IInv, Told, NEW l \in Link, MsgServerReceives(l) PROVE Told'
  <1>1. /\ l \in mOpen /\ down[l] # <<>> /\ down' = [down EXCEPT ![l] = Tail(@)]
        /\ UNCHANGED <<owner, mOpen, rOpen, table, losses>>
    BY DEF MsgServerReceives
  <1>2. PICK p \in DownPacket : p = Head(down[l])
    BY <1>1 DEF IInv, Types, PacketTypes
  <1>3. PICK s \in Server : s = owner[l]
    BY <1>1 DEF IInv, Types
  <1>4. \A x \in Server, u \in User :
          shown'[x][u] = IF x = s /\ Shows(p, u) THEN Status(p.on) ELSE shown[x][u]
    <2>1. p.user \in User /\ shown \in [Server -> [User -> {"nothing", "online", "offline"}]]
      BY DEF DownPacket, IInv, Types, TypeOK
    <2>2. shown' = IF p.kind = "STATUS_NOTIFY" THEN [shown EXCEPT ![s][p.user] = Status(p.on)] ELSE shown
      BY <1>2, <1>3 DEF MsgServerReceives
    <2> HIDE DEF Status
    <2> QED
      BY <2>1, <2>2 DEF Shows
  <1>5. down[l] \in Seq(DownPacket) /\ down'[l] = Tail(down[l]) /\ \A k \in Link : k # l => down'[k] = down[k]
    BY <1>1 DEF IInv, Types, PacketTypes
  <1>6. \A k \in Link : owner[k] = NoServer => down'[k] = <<>>
    BY <1>3, <1>5, NullAssumption DEF Told
  <1>7. ASSUME losses = 0
        PROVE  /\ \A x \in Server : (\A k \in mOpen : owner[k] # x) =>
                    \A u \in User : shown'[x][u] = "nothing"
               /\ \A k \in rOpen, u \in User :
                    Seen(down'[k], shown'[owner[k]][u], u, IsPCClientLogin(table[u]))
    <2>1. ASSUME NEW x \in Server, \A k \in mOpen : owner[k] # x, NEW u \in User
          PROVE  shown'[x][u] = "nothing"
      BY <1>1, <1>3, <1>4, <1>7, <2>1, ToldIs
    <2>2. ASSUME NEW k \in rOpen, NEW u \in User
          PROVE  Seen(down'[k], shown'[owner[k]][u], u, IsPCClientLogin(table[u]))
      <3>1. k \in Link /\ k \in mOpen /\ owner[k] \in Server
        BY <1>7, ToldIs
      <3>2. Seen(down[k], shown[owner[k]][u], u, IsPCClientLogin(table[u]))
        BY <1>7, ToldIs
      <3>3. CASE k = l
        <4>1. Seen(Tail(down[l]), IF Shows(p, u) THEN Status(p.on) ELSE shown[s][u], u,
                   IsPCClientLogin(table[u]))
          BY <1>1, <1>2, <1>3, <1>5, <3>2, <3>3, SeenTail
        <4> QED
          BY <1>3, <1>4, <1>5, <3>3, <4>1
      <3>4. CASE k # l
        <4>1. owner[k] # s
          BY <1>1, <1>3, <1>7, <3>1, <3>4, ToldIs
        <4> QED
          BY <1>4, <1>5, <3>1, <3>2, <3>4, <4>1
      <3> QED
        BY <3>3, <3>4
    <2> QED
      BY <2>1, <2>2
  <1>8. \A x \in Server : LinksOf(x)' = {} => \A k \in mOpen : owner[k] # x
    BY <1>1 DEF LinksOf
  <1> QED
    BY <1>1, <1>6, <1>7, <1>8 DEF Told

\* Before the first loss there is no list with a client in it.
LEMMA InfoTold ==
    ASSUME IInv, Told, NEW l \in Link, HandleOnlineUserInfo(l) PROVE Told'
  <1>1. /\ l \in rOpen /\ up[l] # <<>> /\ Head(up[l]).kind # "USER_STATUS_UPDATE"
        /\ UNCHANGED <<down, owner, losses>>
    BY DEF HandleOnlineUserInfo
  <1>2. losses # 0
    <2>1. Head(up[l]) = up[l][1] /\ 1 \in 1..Len(up[l])
      BY <1>1 DEF IInv, Types, TypeOK, PacketTypes
    <2> QED
      BY <1>1, <2>1 DEF IInv, Accounts, NoList
  <1> QED
    BY <1>1, <1>2 DEF Told

LEMMA UpdateTold ==
    ASSUME IInv, Told, NEW l \in Link, HandleUserStatusUpdate(l) PROVE Told'
  <1>1. PICK v \in User, w \in ClientType, on \in BOOLEAN, old \in Entry, new \in Entry :
          /\ old = table[v] /\ new = UpdateUserStatus(old, l, w, on)
          /\ table' = [table EXCEPT ![v] = new]
          /\ Broadcast(PcLoginNotify(new, v, w, on) \o StatusNotify(new, v, w, on))
          /\ UNCHANGED <<shown, owner, mOpen, rOpen, losses>>
    BY ReadIs DEF IInv
  <1>2. PICK a : a = PcLoginNotify(new, v, w, on) \o StatusNotify(new, v, w, on)
    OBVIOUS
  <1>3. down' = [k \in Link |-> IF k \in rOpen \cap mOpen THEN down[k] \o a ELSE down[k]]
    BY <1>1, <1>2 DEF Broadcast
  <1>4. table'[v] = new /\ \A u \in User : u # v => table'[u] = table[u]
    BY <1>1 DEF IInv, Types, TypeOK
  <1>6. ASSUME losses = 0, NEW k \in rOpen, NEW u \in User
        PROVE  Seen(down'[k], shown[owner[k]][u], u, IsPCClientLogin(table'[u]))
    <2>1. k \in Link /\ down'[k] = down[k] \o a
      BY <1>3, <1>6, ToldIs
    <2>2. PICK d \in Seq(DownPacket) : d = down[k]
      BY <2>1 DEF IInv, Types, PacketTypes
    <2>3. PICK sh : sh = shown[owner[k]][u]
      OBVIOUS
    <2>4. Seen(d, sh, u, IsPCClientLogin(table[u]))
      BY <1>6, <2>2, <2>3, ToldIs
    <2>5. CASE u = v
      <3>1. Seen(d, sh, v, IsPCClientLogin(old))
        BY <1>1, <2>4, <2>5
      <3>2. Seen(d \o a, sh, v, IsPCClientLogin(new))
        BY <1>1, <1>2, <3>1, BroadcastTrue
      <3> QED
        BY <1>4, <2>1, <2>2, <2>3, <2>5, <3>2
    <2>6. CASE u # v
      <3>1. Seen(d \o a, sh, u, IsPCClientLogin(table[u]))
        BY <1>1, <1>2, <2>4, <2>6, BroadcastTrue
      <3> QED
        BY <1>4, <2>1, <2>2, <2>3, <2>6, <3>1
    <2> QED
      BY <2>5, <2>6
  <1>7. \A x \in Server : LinksOf(x)' = LinksOf(x)
    BY <1>1 DEF LinksOf
  <1>8. losses = 0 => \A s \in Server : LinksOf(s) = {} =>
          \A u \in User : shown[s][u] = "nothing"
    BY DEF Told
  <1>9. \A k \in Link : owner[k] = NoServer => down'[k] = <<>>
    BY <1>3, NullAssumption DEF Told, IInv, Types
  <1> QED
    BY <1>1, <1>6, <1>7, <1>8, <1>9 DEF Told

\* A step that takes a link is a loss.
LEMMA LossTold ==
    ASSUME IInv, Told, NEW l \in Link, MsgServerLosesLink(l) \/ RouteServerClosesLink(l)
    PROVE  Told'
  <1>1. losses' # 0
    <2>1. /\ l \in mOpen \/ l \in rOpen
          /\ losses' = IF l \in mOpen \cap rOpen THEN losses + 1 ELSE losses
      BY DEF MsgServerLosesLink, RouteServerClosesLink
    <2> QED
      BY <2>1 DEF IInv, Accounts, AllOpen, Types, TypeOK
  <1>2. owner' = owner /\ \A k \in Link : down'[k] = down[k] \/ down'[k] = <<>>
    BY DEF MsgServerLosesLink, RouteServerClosesLink, IInv, Types, PacketTypes
  <1> QED
    BY <1>1, <1>2 DEF Told

LEMMA NextTold == IInv /\ Told /\ [Next]_vars => Told'
  <1> SUFFICES ASSUME IInv, Told, [Next]_vars PROVE Told'
    OBVIOUS
  <1>1. CASE UNCHANGED vars
    BY <1>1, StaysTold DEF vars
  <1>2. ASSUME NEW s \in Server, NEW l \in Link, Connect(s, l) PROVE Told'
    BY <1>2, ConnectTold
  <1>3. ASSUME NEW s \in Server, NEW u \in User, NEW t \in ClientType,
               NEW st \in BOOLEAN, ClientOpens(s, u, t, st) \/ ClientCloses(s, u, t, st)
        PROVE  Told'
    BY <1>3, StaysTold DEF ClientOpens, ClientCloses
  <1>4. ASSUME NEW l \in Link,
               \/ MsgServerReceives(l) \/ MsgServerLosesLink(l) \/ HandleUserStatusUpdate(l)
               \/ HandleOnlineUserInfo(l) \/ RouteServerClosesLink(l)
        PROVE  Told'
    BY <1>4, ReceivesTold, InfoTold, UpdateTold, LossTold
  <1> QED
    BY <1>1, <1>2, <1>3, <1>4 DEF Next

\* The users the table says are on a PC are those who are.
LEMMA TableTrue ==
    ASSUME IInv, losses = 0, \A s \in Server : Heard(s), NEW u \in User
    PROVE  IsPCClientLogin(table[u]) = PcOnline(u)
  <1>1. HeardOnes = Server /\ \A l \in rOpen : Heard(owner[l])
    BY DEF HeardOnes, IInv, Types
  <1>2. ASSUME NEW t \in ClientType
        PROVE  table[u].cnt[t] > 0 <=> \E s \in Server : local[s][u][t] > 0
    <2> DEFINE n == [s \in Server |-> local[s][u][t]]
    <2>1. IsFiniteSet(Numbered(Server, n)) /\ table[u].cnt[t] = Cardinality(Numbered(Server, n))
      BY <1>1, HeardCounted DEF Clients, IInv, Accounts, NoList
    <2>2. \A s \in Server : n[s] = local[s][u][t] /\ n[s] \in Nat
      BY DEF IInv, Types, TypeOK
    <2> HIDE DEF n
    <2>3. Cardinality(Numbered(Server, n)) \in Nat
          /\ (Cardinality(Numbered(Server, n)) = 0 <=> Numbered(Server, n) = {})
      BY <2>1, FS_CardinalityType, FS_EmptySet
    <2>4. Numbered(Server, n) # {} <=> \E s \in Server : n[s] > 0
      <3>1. \A s \in Server : n[s] > 0 <=> \E i : i \in 1..n[s]
        <4>1. \A s \in Server : n[s] > 0 => 1 \in 1..n[s]
          BY <2>2
        <4> QED
          BY <2>2, <4>1
      <3>2. \A y : y \in Numbered(Server, n) <=> \E s \in Server : \E i \in 1..n[s] : y = <<s, i>>
        BY NumberedIs
      <3> QED
        BY <3>1, <3>2
    <2> QED
      BY <2>1, <2>2, <2>3, <2>4
  <1> QED
    BY <1>2 DEF IsPCClientLogin, PcOnline

LEMMA ToldTrue == IInv /\ Told => StatusShownIsTrue
  <1> SUFFICES ASSUME IInv, Told, losses = 0, Quiet, NEW s \in Server, NEW u \in User
               PROVE  shown[s][u] = "nothing" \/ shown[s][u] = Status(PcOnline(u))
    BY DEF StatusShownIsTrue
  <1>1. PICK l \in rOpen : owner[l] = s /\ down[l] = <<>>
    BY DEF Quiet, Heard, LinksOf
  <1>2. Seen(<<>>, shown[s][u], u, IsPCClientLogin(table[u]))
    BY <1>1, ToldIs
  <1>3. shown[s][u] \in {"nothing", Status(IsPCClientLogin(table[u]))}
    BY <1>2 DEF Seen
  <1>4. IsPCClientLogin(table[u]) = PcOnline(u)
    BY TableTrue DEF Quiet
  <1> QED
    BY <1>3, <1>4

\* While no link was lost, the status of a user a server last passed on to its PC clients is
\* true once every packet was read.
THEOREM StatusTrue == Spec => []StatusShownIsTrue
  <1>1. Spec => []Told
    <2>1. Init => Told
      BY InitTold
    <2> QED
      BY <2>1, NextTold, SpecIInv, PTL DEF Spec
  <1> QED
    BY <1>1, SpecIInv, ToldTrue, PTL

=============================================================================
