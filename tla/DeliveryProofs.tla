--------------------------- MODULE DeliveryProofs ---------------------------
(* No connection learns of a message twice, for any number of msg_servers,   *)
(* users, connections and messages, whatever is lost on the way.             *)
EXTENDS Delivery, SequenceTheorems, WellFoundedInduction, TLAPS

-----------------------------------------------------------------------------
(* Sequences *)

\* Taking the first message off a link that carries each once.
LEMMA TakenFromFront ==
    ASSUME NEW q \in Seq(Msg), q # <<>>, IsInjective(q)
    PROVE  /\ Tail(q) \in Seq(Msg) /\ IsInjective(Tail(q)) /\ Head(q) \in Msg
           /\ Head(q) \in ToSet(q) /\ ToSet(Tail(q)) = ToSet(q) \ {Head(q)}
  <1> DEFINE r == Tail(q)
  <1>1. /\ r \in Seq(Msg) /\ Len(q) \in Nat \ {0} /\ Len(r) = Len(q) - 1
        /\ \A i \in 1..Len(r) : i + 1 \in 1..Len(q) /\ i + 1 # 1 /\ r[i] = q[i + 1]
        /\ Head(q) = q[1] /\ 1 \in 1..Len(q) /\ Head(q) \in Msg
    OBVIOUS
  <1>2. DOMAIN r = 1..Len(r) /\ DOMAIN q = 1..Len(q)
    OBVIOUS
  <1> HIDE DEF r
  <1>3. \A i, j \in 1..Len(q) : q[i] = q[j] => i = j
    BY <1>2, Zenon DEF IsInjective
  <1>4. IsInjective(r)
    <2>1. ASSUME NEW i \in 1..Len(r), NEW j \in 1..Len(r), r[i] = r[j] PROVE i = j
      <3>1. q[i + 1] = q[j + 1] /\ i + 1 \in 1..Len(q) /\ j + 1 \in 1..Len(q)
        BY <1>1, <2>1
      <3>2. i + 1 = j + 1
        BY <1>3, <3>1
      <3> QED
        BY <3>2
    <2> QED
      BY <1>2, <2>1, Zenon DEF IsInjective
  <1>5. Head(q) \in ToSet(q)
    BY <1>1, <1>2, Zenon DEF ToSet
  <1>6. ASSUME NEW c \in ToSet(r) PROVE c \in ToSet(q) /\ c # Head(q)
    <2>1. PICK i \in 1..Len(r) : c = q[i + 1]
      BY <1>1, <1>2 DEF ToSet
    <2> QED
      BY <1>1, <1>2, <1>3, <2>1 DEF ToSet
  <1>7. ASSUME NEW c \in ToSet(q), c # Head(q) PROVE c \in ToSet(r)
    <2>1. PICK i \in 1..Len(q) : c = q[i]
      BY <1>2 DEF ToSet
    <2>2. i - 1 \in 1..Len(r) /\ r[i - 1] = q[i]
      BY <1>1, <1>7, <2>1
    <2> QED
      BY <1>2, <2>1, <2>2 DEF ToSet
  <1> QED
    BY <1>1, <1>4, <1>5, <1>6, <1>7 DEF r

\* Putting a message on a link that does not carry it.
LEMMA PutAtBack ==
    ASSUME NEW q \in Seq(Msg), NEW m \in Msg, IsInjective(q), m \notin ToSet(q)
    PROVE  /\ Append(q, m) \in Seq(Msg) /\ IsInjective(Append(q, m))
           /\ ToSet(Append(q, m)) = ToSet(q) \cup {m}
  <1> DEFINE r == Append(q, m)
  <1>1. /\ r \in Seq(Msg) /\ Len(q) \in Nat /\ Len(r) = Len(q) + 1
        /\ DOMAIN r = 1..Len(r) /\ DOMAIN q = 1..Len(q)
        /\ \A i \in 1..Len(q) : r[i] = q[i]
        /\ r[Len(q) + 1] = m
    OBVIOUS
  <1> HIDE DEF r
  <1>2. IsInjective(r)
    BY <1>1 DEF IsInjective, ToSet
  <1>3. ToSet(r) = ToSet(q) \cup {m}
    BY <1>1 DEF ToSet
  <1> QED
    BY <1>1, <1>2, <1>3 DEF r

\* A set of natural numbers has a least one: the one that is chosen exists.
LEMMA Least ==
    ASSUME NEW S, S \subseteq Nat, S # {}
    PROVE  \E i \in S : \A j \in S : i <= j
  <1>1. \E i \in S : \A j \in S : ~(<<j, i>> \in OpToRel(<, Nat))
    BY NatLessThanWellFounded, WFMin
  <1>2. PICK i \in S : \A j \in S : ~(<<j, i>> \in OpToRel(<, Nat))
    BY <1>1
  <1>3. ASSUME NEW j \in S PROVE i <= j
    <2>1. ~(<<j, i>> \in OpToRel(<, Nat))
      BY <1>2
    <2>2. ~(j < i)
      BY <2>1 DEF OpToRel
    <2> QED
      BY <2>2
  <1> QED
    BY <1>3

-----------------------------------------------------------------------------
(* The list of messages that wait for the client's answer *)

\* The oldest are at its head, none older than the limit.
Sorted(l) == l \in Seq(Pending) /\ \A i, j \in 1..Len(l) : i <= j => l[j].age <= l[i].age

LEMMA AppendedSorted ==
    ASSUME NEW l, Sorted(l), NEW m \in Msg PROVE Sorted(Append(l, [m |-> m, age |-> 0]))
  <1> DEFINE e == [m |-> m, age |-> 0]
             r == Append(l, e)
  <1>1. e \in Pending /\ e.age = 0
    BY ExpiryAssumption DEF Pending
  <1> HIDE DEF e
  <1>2. /\ r \in Seq(Pending) /\ Len(r) = Len(l) + 1 /\ Len(l) \in Nat
        /\ \A i \in 1..Len(l) : r[i] = l[i] /\ l[i] \in Pending
        /\ r[Len(l) + 1] = e
    BY <1>1, AppendProperties, LenProperties DEF Sorted
  <1> HIDE DEF r
  <1>3. ASSUME NEW i \in 1..Len(r), NEW j \in 1..Len(r), i <= j PROVE r[j].age <= r[i].age
    <2>1. CASE j \in 1..Len(l)
      BY <1>2, <1>3, <2>1 DEF Sorted
    <2>2. CASE j = Len(l) + 1
      <3>1. r[i] \in Pending
        BY <1>1, <1>2
      <3> QED
        BY <1>1, <1>2, <2>2, <3>1 DEF Pending
    <2> QED
      BY <1>2, <2>1, <2>2
  <1> QED
    BY <1>2, <1>3 DEF Sorted, r, e

LEMMA WithoutFirstSorted ==
    ASSUME NEW l, Sorted(l), NEW m PROVE Sorted(WithoutFirst(l, m))
  <1> DEFINE at == {i \in 1..Len(l) : l[i].m = m}
             k == CHOOSE i \in at : \A j \in at : i <= j
  <1>1. CASE at = {}
    BY <1>1 DEF WithoutFirst
  <1>2. CASE at # {}
    <2>1. k \in 1..Len(l)
      <3>1. \E i \in at : \A j \in at : i <= j
        <4>1. at \subseteq Nat
          OBVIOUS
        <4> HIDE DEF at
        <4> QED
          BY <1>2, <4>1, Least
      <3> QED
        BY <3>1
    <2>2. WithoutFirst(l, m) = RemoveAt(l, k)
      BY <1>2 DEF WithoutFirst
    <2> HIDE DEF k, at
    <2> DEFINE p == SubSeq(l, 1, k - 1)
               q == SubSeq(l, k + 1, Len(l))
               r == p \o q
    <2>3. l \in Seq(Pending) /\ Len(l) \in Nat /\ \A i \in 1..Len(l) : l[i] \in Pending
      BY LenProperties DEF Sorted
    <2>4. /\ p \in Seq(Pending) /\ Len(p) = k - 1
          /\ \A i \in 1..(k - 1) : p[i] = l[i]
      BY <2>1, <2>3, SubSeqProperties
    <2>5. /\ q \in Seq(Pending) /\ Len(q) = Len(l) - k
          /\ \A i \in 1..(Len(l) - k) : q[i] = l[k + i]
      BY <2>1, <2>3, SubSeqProperties
    <2> HIDE DEF p, q
    <2>6. /\ r \in Seq(Pending) /\ Len(r) = Len(l) - 1
          /\ \A i \in 1..Len(r) : r[i] = IF i <= k - 1 THEN p[i] ELSE q[i - (k - 1)]
      <3>1. /\ r \in Seq(Pending) /\ Len(r) = Len(p) + Len(q)
            /\ \A i \in 1..(Len(p) + Len(q)) : r[i] = IF i <= Len(p) THEN p[i] ELSE q[i - Len(p)]
        BY <2>4, <2>5, ConcatProperties
      <3> HIDE DEF r
      <3>2. Len(p) + Len(q) = Len(l) - 1
        BY <2>1, <2>3, <2>4, <2>5
      <3> QED
        BY <2>4, <3>1, <3>2
    <2> HIDE DEF r
    <2>7. \A i \in 1..Len(r) : r[i] = IF i < k THEN l[i] ELSE l[i + 1]
      <3>1. ASSUME NEW i \in 1..Len(r), i < k PROVE r[i] = l[i]
        BY <2>1, <2>3, <2>4, <2>6, <3>1
      <3>2. ASSUME NEW i \in 1..Len(r), ~(i < k) PROVE r[i] = l[i + 1]
        <4>1. i - (k - 1) \in 1..(Len(l) - k) /\ k + (i - (k - 1)) = i + 1
          BY <2>1, <2>3, <2>6, <3>2
        <4>2. q[i - (k - 1)] = l[k + (i - (k - 1))]
          BY <2>5, <4>1
        <4>3. ~(i <= k - 1)
          BY <2>1, <2>3, <2>6, <3>2
        <4>4. r[i] = q[i - (k - 1)]
          BY <2>6, <4>3
        <4> QED
          BY <4>1, <4>2, <4>4
      <3> QED
        BY <3>1, <3>2
    <2>8. ASSUME NEW i \in 1..Len(r), NEW j \in 1..Len(r), i <= j PROVE r[j].age <= r[i].age
      <3> DEFINE f(x) == IF x < k THEN x ELSE x + 1
      <3>1. f(i) \in 1..Len(l) /\ f(j) \in 1..Len(l) /\ f(i) <= f(j)
        BY <2>1, <2>3, <2>6, <2>8
      <3>2. r[i] = l[f(i)] /\ r[j] = l[f(j)]
        BY <2>7
      <3> HIDE DEF f
      <3> QED
        BY <3>1, <3>2 DEF Sorted
    <2>9. Sorted(r)
      BY <2>6, <2>8 DEF Sorted
    <2> QED
      BY <2>2, <2>9 DEF RemoveAt, r, p, q
  <1> QED
    BY <1>1, <1>2

\* What the timer leaves has not reached the limit; each entry is a tick older.
LEMMA OlderSorted ==
    ASSUME NEW l, Sorted(l)
    PROVE  Sorted([i \in 1..Len(Expired(l)) |-> [Expired(l)[i] EXCEPT !.age = @ + 1]])
  <1> DEFINE fresh == {i \in 1..Len(l) : l[i].age < Expiry}
             k == CHOOSE i \in fresh : \A j \in fresh : i <= j
             e == Expired(l)
             r == [i \in 1..Len(e) |-> [e[i] EXCEPT !.age = @ + 1]]
  <1>1. l \in Seq(Pending) /\ Len(l) \in Nat /\ \A i \in 1..Len(l) : l[i] \in Pending
    BY LenProperties DEF Sorted
  <1>2. /\ e \in Seq(Pending) /\ Len(e) \in Nat
        /\ \A i \in 1..Len(e) : e[i] \in Pending /\ e[i].age < Expiry
        /\ \A i, j \in 1..Len(e) : i <= j => e[j].age <= e[i].age
    <2>1. CASE fresh = {}
      <3>1. e = <<>>
        BY <2>1 DEF Expired
      <3> QED
        BY <3>1
    <2>2. CASE fresh # {}
      <3>1. k \in fresh
        <4>1. \E i \in fresh : \A j \in fresh : i <= j
          <5>1. fresh \subseteq Nat
            OBVIOUS
          <5> HIDE DEF fresh
          <5> QED
            BY <2>2, <5>1, Least
        <4> QED
          BY <4>1
      <3>2. e = SubSeq(l, k, Len(l))
        BY <2>2 DEF Expired
      <3>3. k \in 1..Len(l) /\ l[k].age < Expiry
        BY <3>1
      <3> HIDE DEF k, fresh
      <3>4. /\ SubSeq(l, k, Len(l)) \in Seq(Pending) /\ Len(SubSeq(l, k, Len(l))) = Len(l) - k + 1
            /\ \A i \in 1..(Len(l) - k + 1) : SubSeq(l, k, Len(l))[i] = l[k + i - 1]
        BY <1>1, <3>3, SubSeqProperties
      <3> HIDE DEF e
      <3>5. /\ e \in Seq(Pending) /\ Len(e) = Len(l) - k + 1
            /\ \A i \in 1..Len(e) : e[i] = l[k + i - 1] /\ k + i - 1 \in 1..Len(l) /\ k <= k + i - 1
        BY <1>1, <3>2, <3>3, <3>4
      <3>6. \A i \in 1..Len(e) : e[i] \in Pending /\ e[i].age < Expiry
        <4>1. ASSUME NEW i \in 1..Len(e) PROVE e[i] \in Pending /\ e[i].age < Expiry
          <5>1. e[i] \in Pending /\ e[i].age <= l[k].age
            BY <1>1, <3>3, <3>5 DEF Sorted
          <5>2. e[i].age \in Nat /\ l[k].age \in Nat
            BY <1>1, <3>3, <5>1 DEF Pending
          <5> QED
            BY <3>3, <5>1, <5>2, ExpiryAssumption
        <4> QED
          BY <4>1
      <3>7. \A i, j \in 1..Len(e) : i <= j => e[j].age <= e[i].age
        <4>1. ASSUME NEW i \in 1..Len(e), NEW j \in 1..Len(e), i <= j PROVE e[j].age <= e[i].age
          <5>1. k + i - 1 <= k + j - 1
            BY <3>3, <4>1
          <5> QED
            BY <3>5, <5>1 DEF Sorted
        <4> QED
          BY <4>1
      <3>8. Len(e) \in Nat
        BY <3>5, LenProperties
      <3> QED
        BY <3>5, <3>6, <3>7, <3>8
    <2> QED
      BY <2>1, <2>2
  <1> HIDE DEF e
  <1>3. ASSUME NEW i \in 1..Len(e)
        PROVE  [e[i] EXCEPT !.age = @ + 1] \in Pending
               /\ [e[i] EXCEPT !.age = @ + 1].age = e[i].age + 1
    BY <1>2, <1>3, ExpiryAssumption DEF Pending
  <1>4. /\ r \in Seq(Pending) /\ Len(r) = Len(e)
        /\ \A i \in 1..Len(e) : r[i].age = e[i].age + 1
    <2>1. r \in [1..Len(e) -> Pending]
      BY <1>3
    <2>2. r \in Seq(Pending) /\ Len(r) = Len(e)
      BY <1>2, <2>1
    <2> QED
      BY <1>3, <2>2
  <1> HIDE DEF r
  <1>5. ASSUME NEW i \in 1..Len(r), NEW j \in 1..Len(r), i <= j PROVE r[j].age <= r[i].age
    <2>1. e[j].age <= e[i].age /\ e[i].age \in Nat /\ e[j].age \in Nat
      BY <1>2, <1>4, <1>5 DEF Pending
    <2> QED
      BY <1>4, <2>1
  <1>6. Sorted(r)
    BY <1>4, <1>5 DEF Sorted
  <1> QED
    BY <1>6 DEF r, e

-----------------------------------------------------------------------------
(* The inductive invariant *)

\* Every request under way, unanswered or answered.
Reqs == asked \cup {a.req : a \in answered}

\* The ways on which message m may still come to the connections of server s.
Storing(m)   == \E r \in Reqs : r.kind = "store" /\ r.m = m
Asking(m, s) == \E r \in Reqs : r.kind = "info" /\ r.m = m /\ r.at = s
Upward(m, s) == m \in ToSet(up[s])
Downward(m, s) == m \in ToSet(down[s])
NoneGot(m, s) == \A c \in Conn : ServerOf[c] = s => got[c][m] = 0

\* A request is answered once, and is no longer asked then.
AnswersOnce ==
  /\ \A a, b \in answered : a.req = b.req => a = b
  /\ \A a \in answered : a.req \notin asked

\* The server a message came from asks with the sender's handle, the others with none.
RequestShape ==
  \A r \in Reqs :
    /\ msg[r.m] # NoMsg
    /\ r.kind = "store" => r.at = Origin(r.m)
    /\ r.h = IF r.at = Origin(r.m) THEN msg[r.m].h ELSE NoHandle

\* A message goes up from its origin and down to the others, once on a link.
RouteShape ==
  \A s \in Server :
    /\ IsInjective(up[s]) /\ IsInjective(down[s])
    /\ \A m \in Msg : /\ Upward(m, s) => msg[m] # NoMsg /\ s = Origin(m)
                      /\ Downward(m, s) => msg[m] # NoMsg /\ s # Origin(m)

\* A message has one way left to the connections of a server, and while it has one
\* they have not got it.
OneWayOf(m) ==
  /\ Storing(m) => /\ \A s \in Server : ~Asking(m, s) /\ ~Upward(m, s) /\ ~Downward(m, s)
                   /\ \A c \in Conn : got[c][m] = 0 /\ acked[c][m] = 0
  /\ \A s, t \in Server : Upward(m, s) /\ t # s =>
       ~Downward(m, t) /\ ~Asking(m, t) /\ NoneGot(m, t)
  /\ \A s \in Server : /\ Downward(m, s) => ~Asking(m, s) /\ NoneGot(m, s)
                       /\ Asking(m, s) => NoneGot(m, s)
OneWay == \A m \in Msg : OneWayOf(m)

\* An acknowledgement went to a connection of the sender, with the handle it had.
AckedSender ==
  \A c \in Conn, m \in Msg : acked[c][m] > 0 =>
    /\ msg[m] # NoMsg /\ conn[c] # "new" /\ handle[c] = msg[m].h
    /\ ServerOf[c] = Origin(m) /\ UserOf[c] = Sender(m)

\* What was not sent is nowhere.
NotSent == \A m \in Msg : msg[m] = NoMsg => \A c \in Conn : got[c][m] = 0 /\ acked[c][m] = 0

Ways == /\ AnswersOnce /\ RequestShape /\ RouteShape
        /\ OneWay /\ AckedSender /\ NotSent /\ AtMostOnce

\* An open connection has a handle; the lists are sorted by age.
OpenHandles == \A c \in Conn : conn[c] = "open" => handle[c] \in Handle
SortedLists == \A c \in Conn : Sorted(waits[c])
Types == TypeOK /\ OpenHandles /\ SortedLists

IInv == Types /\ Ways

LEMMA InitIInv == Init => IInv
  <1> SUFFICES ASSUME Init PROVE IInv
    OBVIOUS
  <1>1. \A c \in Conn : waits[c] = <<>> /\ Sorted(waits[c])
    BY DEF Init, Sorted
  <1>2. waits \in [Conn -> Seq(Pending)]
    BY DEF Init
  <1>3. up \in [Server -> Seq(Msg)] /\ down \in [Server -> Seq(Msg)]
    BY DEF Init
  <1>4. got \in [Conn -> [Msg -> Nat]] /\ acked \in [Conn -> [Msg -> Nat]]
    BY DEF Init
  <1>5. /\ conn \in [Conn -> {"new", "open", "closed"}] /\ handle \in [Conn -> Handle \cup {NoHandle}]
        /\ msg \in [Msg -> [from : Conn, to : User \cup {Group}, h : Handle] \cup {NoMsg}]
        /\ asked = {} /\ answered = {} /\ members \subseteq User /\ linked \subseteq Server
        /\ owed \in [Msg -> SUBSET Conn] /\ mishaps \in 0..MaxMishaps
    BY BoundAssumption DEF Init
  <1>6. Types
    BY <1>1, <1>2, <1>3, <1>4, <1>5 DEF Init, Types, TypeOK, OpenHandles, SortedLists
  <1>7. Reqs = {}
    BY <1>5 DEF Reqs
  <1>8. \A s \in Server : /\ up[s] = <<>> /\ down[s] = <<>> /\ ToSet(up[s]) = {} /\ ToSet(down[s]) = {}
                          /\ IsInjective(up[s]) /\ IsInjective(down[s])
    BY DEF Init, ToSet, IsInjective
  <1>9. \A c \in Conn, m \in Msg : got[c][m] = 0 /\ acked[c][m] = 0
    BY DEF Init
  <1>10. AnswersOnce /\ RequestShape /\ RouteShape
    BY <1>5, <1>7, <1>8 DEF AnswersOnce, RequestShape, RouteShape, Upward, Downward
  <1>11. OneWay
    BY <1>7, <1>8 DEF OneWay, OneWayOf, Storing, Asking, Upward, Downward
  <1>12. AckedSender /\ NotSent /\ AtMostOnce
    BY <1>9 DEF AckedSender, NotSent, AtMostOnce
  <1> QED
    BY <1>6, <1>10, <1>11, <1>12 DEF IInv, Ways

-----------------------------------------------------------------------------
(* Steps that open no way *)

\* A step that gives nothing to a connection and may only end ways keeps them single.
LEMMA WaysEnd ==
    ASSUME IInv, UNCHANGED <<msg, got, acked>>, AnswersOnce', Reqs' \subseteq Reqs,
           \A s \in Server : /\ IsInjective(up'[s]) /\ ToSet(up'[s]) \subseteq ToSet(up[s])
                             /\ IsInjective(down'[s]) /\ ToSet(down'[s]) \subseteq ToSet(down[s]),
           \A c \in Conn : conn[c] # "new" => conn'[c] # "new" /\ handle'[c] = handle[c]
    PROVE  Ways'
  <1> USE DEF IInv, Ways
  <1>1. /\ \A m \in Msg : Storing(m)' => Storing(m)
        /\ \A m \in Msg, s \in Server : /\ Asking(m, s)' => Asking(m, s)
                                        /\ Upward(m, s)' => Upward(m, s)
                                        /\ Downward(m, s)' => Downward(m, s)
        /\ \A m : \A s : NoneGot(m, s)' <=> NoneGot(m, s)
    BY DEF Storing, Asking, Upward, Downward, NoneGot
  <1>2. RequestShape'
    BY DEF RequestShape, Origin
  <1>3. RouteShape'
    BY <1>1 DEF RouteShape, Origin
  <1>4. OneWay'
    BY <1>1 DEF OneWay, OneWayOf
  <1>5. AckedSender'
    BY DEF AckedSender, Origin, Sender
  <1>6. NotSent' /\ AtMostOnce'
    BY DEF NotSent, AtMostOnce
  <1> QED
    BY <1>2, <1>3, <1>4, <1>5, <1>6

LEMMA WaysStay ==
    ASSUME IInv, UNCHANGED <<msg, asked, answered, up, down, got, acked>>,
           \A c \in Conn : conn[c] # "new" => conn'[c] # "new" /\ handle'[c] = handle[c]
    PROVE  Ways'
  <1>1. AnswersOnce' /\ Reqs' = Reqs
    BY DEF IInv, Ways, AnswersOnce, Reqs
  <1>2. \A s \in Server : IsInjective(up'[s]) /\ IsInjective(down'[s])
    BY DEF IInv, Ways, RouteShape
  <1> QED
    BY <1>1, <1>2, WaysEnd

\* The types when the sessions stay as they are, or their lists do.
LEMMA TypesStay ==
    ASSUME IInv, UNCHANGED <<conn, handle, waits>>, TypeOK' PROVE Types'
  BY DEF IInv, Types, OpenHandles, SortedLists

\* The least free handle: another connection's, while that is open, it never is.
LEMMA LoginIInv == ASSUME IInv, NEW c \in Conn, Login(c) PROVE IInv'
  <1>1. PICK h \in Handle : handle' = [handle EXCEPT ![c] = h]
    BY DEF Login
  <1>2. /\ conn[c] = "new" /\ conn' = [conn EXCEPT ![c] = "open"]
        /\ UNCHANGED <<waits, msg, asked, answered, members, linked, up, down, got, acked, owed, mishaps>>
    BY DEF Login, routes
  <1>3. Types'
    BY <1>1, <1>2 DEF IInv, Types, TypeOK, OpenHandles, SortedLists
  <1>4. \A d \in Conn : conn[d] # "new" => conn'[d] # "new" /\ handle'[d] = handle[d]
    BY <1>1, <1>2 DEF IInv, Types, TypeOK
  <1> QED
    BY <1>2, <1>3, <1>4, WaysStay DEF IInv

LEMMA CloseIInv == ASSUME IInv, NEW c \in Conn, Close(c) PROVE IInv'
  <1>1. /\ conn' = [conn EXCEPT ![c] = "closed"] /\ waits' = [waits EXCEPT ![c] = <<>>]
        /\ owed' = [m \in Msg |-> owed[m] \ {c}] /\ mishaps < MaxMishaps /\ mishaps' = mishaps + 1
        /\ UNCHANGED <<handle, msg, asked, answered, members, linked, up, down, got, acked>>
    BY DEF Close, Mishap, routes
  <1>2. owed' \in [Msg -> SUBSET Conn] /\ mishaps' \in 0..MaxMishaps
    BY <1>1, BoundAssumption DEF IInv, Types, TypeOK
  <1>3. waits' \in [Conn -> Seq(Pending)] /\ SortedLists'
    BY <1>1 DEF IInv, Types, TypeOK, SortedLists, Sorted
  <1>4. Types'
    BY <1>1, <1>2, <1>3 DEF IInv, Types, TypeOK, OpenHandles
  <1>5. \A d \in Conn : conn[d] # "new" => conn'[d] # "new" /\ handle'[d] = handle[d]
    BY <1>1 DEF IInv, Types, TypeOK
  <1> QED
    BY <1>1, <1>4, <1>5, WaysStay DEF IInv

LEMMA HandleClientMsgDataAckIInv ==
    ASSUME IInv, NEW c \in Conn, NEW m \in Msg, NEW session \in User,
           HandleClientMsgDataAck(c, m, session)
    PROVE  IInv'
  <1>1. /\ waits' = [waits EXCEPT ![c] = WithoutFirst(waits[c], m)]
        /\ UNCHANGED <<conn, handle, msg, asked, answered, members, linked, up, down, got, acked,
                       owed, mishaps>>
    BY DEF HandleClientMsgDataAck, routes
  <1>2. waits \in [Conn -> Seq(Pending)] /\ \A d \in Conn : Sorted(waits[d])
    BY DEF IInv, Types, TypeOK, SortedLists
  <1>3. Sorted(WithoutFirst(waits[c], m))
    BY <1>2, WithoutFirstSorted
  <1>4. \A d \in Conn : Sorted(waits'[d])
    BY <1>1, <1>2, <1>3
  <1>5. waits' \in [Conn -> Seq(Pending)]
    BY <1>1, <1>2, <1>3 DEF Sorted
  <1>6. Types'
    BY <1>1, <1>4, <1>5 DEF IInv, Types, TypeOK, OpenHandles, SortedLists
  <1> QED
    BY <1>1, <1>6, WaysStay DEF IInv

LEMMA OnTimerIInv == ASSUME IInv, NEW s \in Server, OnTimer(s) PROVE IInv'
  <1> DEFINE older(l) == [i \in 1..Len(Expired(l)) |-> [Expired(l)[i] EXCEPT !.age = @ + 1]]
  <1>1. /\ waits' = [c \in Conn |-> IF c \notin Open(s) THEN waits[c] ELSE older(waits[c])]
        /\ UNCHANGED <<conn, handle, msg, asked, answered, members, linked, up, down, got, acked,
                       owed, mishaps>>
    BY DEF OnTimer, routes
  <1>2. \A d \in Conn : Sorted(waits[d]) /\ Sorted(older(waits[d]))
    BY OlderSorted DEF IInv, Types, SortedLists
  <1> HIDE DEF older
  <1>3. \A d \in Conn : Sorted(waits'[d])
    BY <1>1, <1>2
  <1>4. waits' \in [Conn -> Seq(Pending)]
    BY <1>1, <1>2 DEF Sorted
  <1>5. Types'
    BY <1>1, <1>3, <1>4 DEF IInv, Types, TypeOK, OpenHandles, SortedLists
  <1> QED
    BY <1>1, <1>5, WaysStay DEF IInv

LEMMA LeaveIInv == ASSUME IInv, NEW u \in User, Leave(u) PROVE IInv'
  <1>1. /\ members' = members \ {u} /\ mishaps < MaxMishaps /\ mishaps' = mishaps + 1
        /\ owed' = [m \in Msg |-> IF msg[m] = NoMsg \/ ~ToGroup(m) THEN owed[m]
                                  ELSE IF Sender(m) = u THEN {} ELSE {c \in owed[m] : UserOf[c] # u}]
        /\ UNCHANGED <<conn, handle, waits, msg, asked, answered, linked, up, down, got, acked>>
    BY DEF Leave, Mishap, sessions, routes
  <1>2. owed' \in [Msg -> SUBSET Conn] /\ mishaps' \in 0..MaxMishaps
    BY <1>1, BoundAssumption DEF IInv, Types, TypeOK
  <1>3. TypeOK'
    BY <1>1, <1>2 DEF IInv, Types, TypeOK
  <1> QED
    BY <1>1, <1>3, TypesStay, WaysStay DEF IInv

LEMMA JoinIInv == ASSUME IInv, NEW u \in User, Join(u) PROVE IInv'
  <1>1. /\ members' = members \cup {u}
        /\ UNCHANGED <<conn, handle, waits, msg, asked, answered, linked, up, down, got, acked,
                       owed, mishaps>>
    BY DEF Join, sessions, routes
  <1>2. TypeOK'
    BY <1>1 DEF IInv, Types, TypeOK
  <1> QED
    BY <1>1, <1>2, TypesStay, WaysStay DEF IInv

LEMMA RouteLinkUpIInv == ASSUME IInv, NEW s \in Server, RouteLinkUp(s) PROVE IInv'
  <1>1. /\ linked' = linked \cup {s}
        /\ UNCHANGED <<conn, handle, waits, msg, asked, answered, members, up, down, got, acked,
                       owed, mishaps>>
    BY DEF RouteLinkUp, sessions
  <1>2. TypeOK'
    BY <1>1 DEF IInv, Types, TypeOK
  <1> QED
    BY <1>1, <1>2, TypesStay, WaysStay DEF IInv

\* What is on the link is lost.
LEMMA RouteLinkLostIInv == ASSUME IInv, NEW s \in Server, RouteLinkLost(s) PROVE IInv'
  <1>1. /\ linked' = linked \ {s} /\ mishaps < MaxMishaps /\ mishaps' = mishaps + 1
        /\ up' = [up EXCEPT ![s] = <<>>] /\ down' = [down EXCEPT ![s] = <<>>]
        /\ UNCHANGED <<conn, handle, waits, msg, asked, answered, members, got, acked>>
    BY DEF RouteLinkLost, Mishap, sessions
  <1>2. owed' \in [Msg -> SUBSET Conn] /\ mishaps' \in 0..MaxMishaps
    BY <1>1, BoundAssumption DEF IInv, Types, TypeOK, RouteLinkLost
  <1>3. up' \in [Server -> Seq(Msg)] /\ down' \in [Server -> Seq(Msg)]
    BY <1>1 DEF IInv, Types, TypeOK
  <1>4. TypeOK'
    BY <1>1, <1>2, <1>3 DEF IInv, Types, TypeOK
  <1>5. \A t \in Server : /\ IsInjective(up'[t]) /\ ToSet(up'[t]) \subseteq ToSet(up[t])
                          /\ IsInjective(down'[t]) /\ ToSet(down'[t]) \subseteq ToSet(down[t])
    <2>1. IsInjective(<<>>) /\ ToSet(<<>>) = {}
      BY DEF IsInjective, ToSet
    <2>2. \A t \in Server : IsInjective(up[t]) /\ IsInjective(down[t])
      BY DEF IInv, Ways, RouteShape
    <2>3. \A t \in Server : up'[t] \in {<<>>, up[t]} /\ down'[t] \in {<<>>, down[t]}
      BY <1>1 DEF IInv, Types, TypeOK
    <2> QED
      BY <2>1, <2>2, <2>3
  <1>6. AnswersOnce' /\ Reqs' = Reqs
    BY <1>1 DEF IInv, Ways, AnswersOnce, Reqs
  <1> QED
    BY <1>1, <1>4, <1>5, <1>6, TypesStay, WaysEnd DEF IInv

-----------------------------------------------------------------------------
(* Requests that are answered, refused or lost *)

\* A request leaves, and at most one answer to it comes.
LEMMA RequestGone ==
    ASSUME IInv, NEW r \in asked, asked' = asked \ {r},
           answered' = answered \/ \E a \in Answer : a.req = r /\ answered' = answered \cup {a}
    PROVE  AnswersOnce' /\ Reqs' \subseteq Reqs
  BY DEF IInv, Ways, AnswersOnce, Reqs

\* An answer leaves.
LEMMA AnswerGone ==
    ASSUME IInv, NEW a \in answered, answered' = answered \ {a}, asked' = asked
    PROVE  AnswersOnce' /\ Reqs' \subseteq Reqs
  BY DEF IInv, Ways, AnswersOnce, Reqs

LEMMA StoreIInv == ASSUME IInv, NEW r \in asked, Store(r) PROVE IInv'
  <1>1. /\ asked' = asked \ {r} /\ r \in Request
        /\ UNCHANGED <<conn, handle, waits, msg, members, linked, up, down, got, acked, mishaps>>
    BY DEF Store, sessions, routes, IInv, Types, TypeOK
  <1>2. /\ owed' \in [Msg -> SUBSET Conn]
        /\ answered' = answered \/ \E a \in Answer : a.req = r /\ answered' = answered \cup {a}
    <2>1. CASE UNCHANGED <<answered, owed>>
      BY <2>1 DEF IInv, Types, TypeOK
    <2>2. CASE \E ok \in BOOLEAN :
             /\ Reply(r, ok, {})
             /\ owed' = [owed EXCEPT ![r.m] = IF ok
                  THEN {c \in Conn : conn[c] = "open" /\ UserOf[c] \in Concerned(r.m)}
                         \ GetMsgConnByHandle(r.at, r.m, r.h)
                  ELSE {}]
      <3>1. PICK ok \in BOOLEAN :
             /\ Reply(r, ok, {})
             /\ owed' = [owed EXCEPT ![r.m] = IF ok
                  THEN {c \in Conn : conn[c] = "open" /\ UserOf[c] \in Concerned(r.m)}
                         \ GetMsgConnByHandle(r.at, r.m, r.h)
                  ELSE {}]
        BY <2>2
      <3>2. [req |-> r, ok |-> ok, list |-> {}] \in Answer
        BY <1>1 DEF Answer
      <3>3. answered' = answered \cup {[req |-> r, ok |-> ok, list |-> {}]}
        BY <3>1 DEF Reply
      <3>4. owed' \in [Msg -> SUBSET Conn]
        BY <3>1 DEF IInv, Types, TypeOK
      <3> QED
        BY <3>2, <3>3, <3>4
    <2> QED
      BY <2>1, <2>2 DEF Store
  <1>3. TypeOK'
    BY <1>1, <1>2 DEF IInv, Types, TypeOK
  <1>4. AnswersOnce' /\ Reqs' \subseteq Reqs
    BY <1>1, <1>2, RequestGone
  <1>5. \A s \in Server : IsInjective(up'[s]) /\ IsInjective(down'[s])
    BY <1>1 DEF IInv, Ways, RouteShape
  <1> QED
    BY <1>1, <1>3, <1>4, <1>5, TypesStay, WaysEnd DEF IInv

\* An excuse is for connections that were owed.
LEMMA ExcuseTyped ==
    ASSUME IInv, NEW m, NEW C, Excuse(m, C) PROVE owed' \in [Msg -> SUBSET Conn]
  BY DEF IInv, Types, TypeOK, Excuse

LEMMA GetGroupInfoIInv == ASSUME IInv, NEW r \in asked, GetGroupInfo(r) PROVE IInv'
  <1>1. /\ asked' = asked \ {r} /\ r \in Request
        /\ UNCHANGED <<conn, handle, waits, msg, members, linked, up, down, got, acked>>
    BY DEF GetGroupInfo, sessions, routes, IInv, Types, TypeOK
  <1>2. PICK L \in SUBSET User : answered' = answered \cup {[req |-> r, ok |-> TRUE, list |-> L]}
    BY DEF GetGroupInfo, Reply, IInv, Types, TypeOK
  <1>3. [req |-> r, ok |-> TRUE, list |-> L] \in Answer
    BY <1>1 DEF Answer
  <1>4. owed' \in [Msg -> SUBSET Conn]
    <2>1. CASE UNCHANGED <<owed, mishaps>>
      BY <2>1 DEF IInv, Types, TypeOK
    <2>2. CASE Excuse(r.m, At({r.at}))
      BY <2>2, ExcuseTyped
    <2> QED
      BY <2>1, <2>2 DEF GetGroupInfo
  <1>5. mishaps' \in 0..MaxMishaps
    <2>1. mishaps' = mishaps \/ (mishaps < MaxMishaps /\ mishaps' = mishaps + 1)
      BY DEF GetGroupInfo, Mishap
    <2>2. mishaps \in 0..MaxMishaps
      BY DEF IInv, Types, TypeOK
    <2> QED
      BY <2>1, <2>2, BoundAssumption
  <1>6. TypeOK'
    BY <1>1, <1>2, <1>3, <1>4, <1>5 DEF IInv, Types, TypeOK
  <1>7. AnswersOnce' /\ Reqs' \subseteq Reqs
    <2>1. \E a \in Answer : a.req = r /\ answered' = answered \cup {a}
      BY <1>2, <1>3
    <2> QED
      BY <1>1, <2>1, RequestGone
  <1>8. \A s \in Server : IsInjective(up'[s]) /\ IsInjective(down'[s])
    BY <1>1 DEF IInv, Ways, RouteShape
  <1> QED
    BY <1>1, <1>6, <1>7, <1>8, TypesStay, WaysEnd DEF IInv

LEMMA DbLinkLostIInv == ASSUME IInv, NEW r \in Reqs, DbLinkLost(r) PROVE IInv'
  <1>1. /\ mishaps < MaxMishaps /\ mishaps' = mishaps + 1
        /\ \/ r \in asked /\ asked' = asked \ {r} /\ UNCHANGED answered
           \/ \E a \in answered : answered' = answered \ {a} /\ UNCHANGED asked
        /\ UNCHANGED <<conn, handle, waits, msg, members, linked, up, down, got, acked>>
    BY DEF DbLinkLost, Mishap, sessions, routes
  <1>2. owed' \in [Msg -> SUBSET Conn] /\ mishaps' \in 0..MaxMishaps
    <2>1. owed' \in [Msg -> SUBSET Conn]
      BY ExcuseTyped DEF DbLinkLost
    <2> QED
      BY <1>1, <2>1, BoundAssumption DEF IInv, Types, TypeOK
  <1>3. TypeOK'
    BY <1>1, <1>2 DEF IInv, Types, TypeOK
  <1>4. AnswersOnce' /\ Reqs' \subseteq Reqs
    BY <1>1, RequestGone, AnswerGone
  <1>5. \A s \in Server : IsInjective(up'[s]) /\ IsInjective(down'[s])
    BY <1>1 DEF IInv, Ways, RouteShape
  <1> QED
    BY <1>1, <1>3, <1>4, <1>5, TypesStay, WaysEnd DEF IInv

-----------------------------------------------------------------------------
(* A message is sent *)

\* The ways of the messages a step has nothing to do with.
LEMMA OtherMessage ==
    ASSUME NEW n \in Msg, OneWayOf(n), Storing(n)' => Storing(n),
           \A s \in Server : /\ Asking(n, s)' => Asking(n, s)
                             /\ Upward(n, s)' => Upward(n, s)
                             /\ Downward(n, s)' => Downward(n, s),
           \A c \in Conn : got'[c][n] = got[c][n] /\ acked'[c][n] = acked[c][n]
    PROVE  OneWayOf(n)'
  BY DEF OneWayOf, NoneGot

\* A request under way is about a message that was sent, and is of its server or asks
\* for the members.
LEMMA RequestTyped ==
    ASSUME IInv, NEW r \in Reqs
    PROVE  r \in Request /\ r.m \in Msg /\ r.at \in Server /\ r.kind \in {"store", "info"}
  BY DEF IInv, Types, TypeOK, Reqs, Request, Answer

\* A message that was not sent before has one way: its request to be stored.
LEMMA HandleClientMsgDataIInv ==
    ASSUME IInv, NEW c \in Conn, NEW m \in Msg, NEW to \in User \cup {Group},
           HandleClientMsgData(c, m, to)
    PROVE  IInv'
  <1> DEFINE rec == [from |-> c, to |-> to, h |-> handle[c]]
             q == [kind |-> "store", m |-> m, at |-> ServerOf[c], h |-> handle[c]]
  <1>1. /\ conn[c] = "open" /\ msg[m] = NoMsg
        /\ msg' = [msg EXCEPT ![m] = rec] /\ asked' = asked \cup {q}
        /\ UNCHANGED <<conn, handle, waits, answered, members, linked, up, down, got, acked, owed,
                       mishaps>>
    BY DEF HandleClientMsgData, Ask, sessions, routes
  <1>2. handle[c] \in Handle /\ ServerOf[c] \in Server
    BY <1>1, ConnAssumption DEF IInv, Types, OpenHandles
  <1>3. rec \in [from : Conn, to : User \cup {Group}, h : Handle] /\ q \in Request
    BY <1>2 DEF Request
  <1>4. rec # NoMsg /\ rec.from = c /\ rec.h = handle[c]
    <2>1. DOMAIN rec # DOMAIN NoMsg
      <3>1. "h" \in DOMAIN rec /\ "h" \notin DOMAIN NoMsg
        BY DEF NoMsg
      <3> QED
        BY <3>1
    <2> QED
      BY <2>1
  <1>5. q.kind = "store" /\ q.m = m /\ q.at = ServerOf[c] /\ q.h = handle[c]
    OBVIOUS
  <1> HIDE DEF rec, q
  <1>6. TypeOK'
    BY <1>1, <1>3 DEF IInv, Types, TypeOK
  <1>7. msg'[m] = rec /\ (\A n \in Msg : n # m => msg'[n] = msg[n]) /\ Reqs' = Reqs \cup {q}
    BY <1>1 DEF IInv, Types, TypeOK, Reqs
  <1>8. \A r \in Reqs : r.m \in Msg /\ r.m # m
    BY <1>1, RequestTyped DEF IInv, Ways, RequestShape
  <1>9. \A s \in Server : ~Upward(m, s) /\ ~Downward(m, s)
    BY <1>1 DEF IInv, Ways, RouteShape
  <1>10. AnswersOnce'
    BY <1>1, <1>5, <1>8 DEF IInv, Ways, AnswersOnce, Reqs
  <1>11. RequestShape'
    BY <1>4, <1>5, <1>7, <1>8 DEF IInv, Ways, RequestShape, Origin
  <1>12. RouteShape'
    <2>1. \A s \in Server : IsInjective(up'[s]) /\ IsInjective(down'[s])
      BY <1>1 DEF IInv, Ways, RouteShape
    <2>2. ASSUME NEW s \in Server, NEW n \in Msg
          PROVE  /\ Upward(n, s)' => msg'[n] # NoMsg /\ s = Origin(n)'
                 /\ Downward(n, s)' => msg'[n] # NoMsg /\ s # Origin(n)'
      <3>1. (Upward(n, s)' <=> Upward(n, s)) /\ (Downward(n, s)' <=> Downward(n, s))
        BY <1>1 DEF Upward, Downward
      <3>2. n # m => Origin(n)' = Origin(n)
        BY <1>7 DEF Origin
      <3> QED
        BY <1>7, <1>9, <3>1, <3>2 DEF IInv, Ways, RouteShape
    <2> QED
      BY <2>1, <2>2 DEF RouteShape
  <1>13. OneWay'
    <2>1. ASSUME NEW n \in Msg, n # m PROVE OneWayOf(n)'
      <3>1. /\ Storing(n)' => Storing(n)
            /\ \A s \in Server : Asking(n, s)' => Asking(n, s)
        BY <1>5, <1>7, <2>1 DEF Storing, Asking
      <3>2. \A s \in Server : (Upward(n, s)' => Upward(n, s)) /\ (Downward(n, s)' => Downward(n, s))
        BY <1>1 DEF Upward, Downward
      <3> QED
        BY <1>1, <3>1, <3>2, OtherMessage DEF IInv, Ways, OneWay
    <2>2. OneWayOf(m)'
      <3>1. \A s \in Server : ~Asking(m, s)' /\ ~Upward(m, s)' /\ ~Downward(m, s)'
        BY <1>1, <1>5, <1>7, <1>8, <1>9 DEF Asking, Upward, Downward
      <3>2. \A d \in Conn : got'[d][m] = 0 /\ acked'[d][m] = 0
        BY <1>1 DEF IInv, Ways, NotSent
      <3> QED
        BY <3>1, <3>2 DEF OneWayOf
    <2> QED
      BY <2>1, <2>2 DEF OneWay
  <1>14. AckedSender'
    <2>1. \A d \in Conn : acked[d][m] = 0
      BY <1>1 DEF IInv, Ways, NotSent
    <2>2. \A n \in Msg : n # m => Origin(n)' = Origin(n) /\ Sender(n)' = Sender(n)
      BY <1>7 DEF Origin, Sender
    <2> QED
      BY <1>1, <1>7, <2>1, <2>2 DEF IInv, Ways, AckedSender
  <1>15. NotSent' /\ AtMostOnce'
    BY <1>1, <1>7 DEF IInv, Ways, NotSent, AtMostOnce
  <1> QED
    BY <1>1, <1>6, <1>10, <1>11, <1>12, <1>13, <1>14, <1>15, TypesStay DEF IInv, Ways

-----------------------------------------------------------------------------
(* A message comes a way further *)

LEMMA GiveIs ==
    ASSUME IInv, NEW m \in Msg, NEW C, Give(C, m)
    PROVE  /\ got' \in [Conn -> [Msg -> Nat]]
           /\ \A c \in Conn, n \in Msg :
                got'[c][n] = IF n = m /\ c \in C THEN got[c][n] + 1 ELSE got[c][n]
  <1> DEFINE row(c) == [got[c] EXCEPT ![m] = IF c \in C THEN @ + 1 ELSE @]
  <1>1. got' = [c \in Conn |-> row(c)]
    BY DEF Give
  <1>2. ASSUME NEW c \in Conn
        PROVE  /\ row(c) \in [Msg -> Nat]
               /\ \A n \in Msg : row(c)[n] = IF n = m /\ c \in C THEN got[c][n] + 1 ELSE got[c][n]
    <2>1. got[c] \in [Msg -> Nat]
      BY DEF IInv, Types, TypeOK
    <2> QED
      BY <2>1
  <1> HIDE DEF row
  <1> QED
    BY <1>1, <1>2

LEMMA AckIs ==
    ASSUME IInv, NEW m \in Msg, NEW C, Ack(C, m)
    PROVE  /\ acked' \in [Conn -> [Msg -> Nat]]
           /\ \A c \in Conn, n \in Msg :
                acked'[c][n] = IF n = m /\ c \in C THEN acked[c][n] + 1 ELSE acked[c][n]
  <1> DEFINE row(c) == [acked[c] EXCEPT ![m] = IF c \in C THEN @ + 1 ELSE @]
  <1>1. acked' = [c \in Conn |-> row(c)]
    BY DEF Ack
  <1>2. ASSUME NEW c \in Conn
        PROVE  /\ row(c) \in [Msg -> Nat]
               /\ \A n \in Msg : row(c)[n] = IF n = m /\ c \in C THEN acked[c][n] + 1 ELSE acked[c][n]
    <2>1. acked[c] \in [Msg -> Nat]
      BY DEF IInv, Types, TypeOK
    <2> QED
      BY <2>1
  <1> HIDE DEF row
  <1> QED
    BY <1>1, <1>2

LEMMA BroadcastIs ==
    ASSUME IInv, NEW m \in Msg, NEW C, NEW lost, BroadcastClientMsgData(C, m, lost)
    PROVE  /\ Give(C, m) /\ owed' \in [Msg -> SUBSET Conn]
           /\ waits' \in [Conn -> Seq(Pending)] /\ SortedLists'
  <1>1. /\ Give(C, m) /\ Excuse(m, C \cup lost)
        /\ waits' = [c \in Conn |-> IF c \in C THEN Append(waits[c], [m |-> m, age |-> 0])
                                               ELSE waits[c]]
    BY DEF BroadcastClientMsgData
  <1>2. \A c \in Conn : Sorted(waits[c]) /\ Sorted(Append(waits[c], [m |-> m, age |-> 0]))
    BY AppendedSorted DEF IInv, Types, SortedLists
  <1>3. \A c \in Conn : Sorted(waits'[c])
    BY <1>1, <1>2
  <1>4. waits' \in [Conn -> Seq(Pending)]
    BY <1>1, <1>2 DEF Sorted
  <1> QED
    BY <1>1, <1>3, <1>4, ExcuseTyped DEF SortedLists

\* A request with the same kind, message and server is the same request.
LEMMA SameRequest ==
    ASSUME IInv, NEW q \in Reqs, NEW r \in Reqs, q.kind = r.kind, q.m = r.m,
           q.kind = "info" => q.at = r.at
    PROVE  q = r
  <1>1. q \in Request /\ r \in Request /\ q.kind \in {"store", "info"}
    BY RequestTyped
  <1>2. q.at = r.at /\ q.h = r.h
    BY <1>1 DEF IInv, Ways, RequestShape
  <1> QED
    BY <1>1, <1>2 DEF Request

\* When an answer leaves, nothing is left of its request.
LEMMA AnswerLeaves ==
    ASSUME IInv, NEW a \in answered
    PROVE  a.req \notin asked /\ \A b \in answered \ {a} : b.req # a.req
  BY DEF IInv, Ways, AnswersOnce

\* A step about one message that was sent.
LEMMA WaysMove ==
    ASSUME IInv, NEW m \in Msg, msg[m] # NoMsg, UNCHANGED <<conn, handle, msg>>,
           AnswersOnce', RequestShape', RouteShape', OneWayOf(m)',
           \A n \in Msg : n # m =>
             /\ Storing(n)' => Storing(n)
             /\ \A s \in Server : /\ Asking(n, s)' => Asking(n, s)
                                  /\ Upward(n, s)' => Upward(n, s)
                                  /\ Downward(n, s)' => Downward(n, s)
             /\ \A c \in Conn : got'[c][n] = got[c][n] /\ acked'[c][n] = acked[c][n],
           \A c \in Conn : /\ got'[c][m] + acked'[c][m] <= 1
                           /\ acked'[c][m] > 0 =>
                                /\ conn[c] # "new" /\ handle[c] = msg[m].h
                                /\ ServerOf[c] = Origin(m) /\ UserOf[c] = Sender(m)
    PROVE  Ways'
  <1>1. OneWay'
    <2>1. ASSUME NEW n \in Msg, n # m PROVE OneWayOf(n)'
      BY <2>1, OtherMessage DEF IInv, Ways, OneWay
    <2> QED
      BY <2>1 DEF OneWay
  <1>2. AckedSender'
    <2>1. \A n \in Msg : Origin(n)' = Origin(n) /\ Sender(n)' = Sender(n)
      BY DEF Origin, Sender
    <2>2. \A n \in Msg : n # m => \A c \in Conn : acked'[c][n] = acked[c][n]
      OBVIOUS
    <2> QED
      BY <2>1, <2>2 DEF IInv, Ways, AckedSender
  <1>3. NotSent'
    BY DEF IInv, Ways, NotSent
  <1>4. AtMostOnce'
    <2>1. ASSUME NEW c \in Conn, NEW n \in Msg PROVE got'[c][n] + acked'[c][n] <= 1
      <3>1. CASE n = m
        BY <3>1
      <3>2. CASE n # m
        BY <3>2 DEF IInv, Ways, AtMostOnce
      <3> QED
        BY <3>1, <3>2
    <2> QED
      BY <2>1 DEF AtMostOnce
  <1> QED
    BY <1>1, <1>2, <1>3, <1>4 DEF Ways

\* A copy comes to the route server, and leaves for the servers linked but its own.
LEMMA HandleRoutePduIInv == ASSUME IInv, NEW s \in Server, HandleRoutePdu(s) PROVE IInv'
  <1>0. PICK m \in Msg : m = Head(up[s]) /\ m \in ToSet(up[s])
    <2>1. up[s] # <<>> /\ up[s] \in Seq(Msg) /\ IsInjective(up[s])
      BY DEF HandleRoutePdu, IInv, Types, TypeOK, Ways, RouteShape
    <2> QED
      BY <2>1, TakenFromFront
  <1>1. /\ up[s] # <<>> /\ up' = [up EXCEPT ![s] = Tail(up[s])]
        /\ down' = [t \in Server |-> IF t \in linked \ {s} THEN Append(down[t], m) ELSE down[t]]
        /\ Excuse(m, At(Server \ linked))
        /\ UNCHANGED <<conn, handle, waits, msg, asked, answered, members, linked, got, acked, mishaps>>
    BY <1>0 DEF HandleRoutePdu, sessions
  <1>2. \A t \in Server : /\ up[t] \in Seq(Msg) /\ down[t] \in Seq(Msg)
                          /\ IsInjective(up[t]) /\ IsInjective(down[t])
    BY DEF IInv, Types, TypeOK, Ways, RouteShape
  <1>3. /\ Tail(up[s]) \in Seq(Msg) /\ IsInjective(Tail(up[s])) /\ m \in Msg
        /\ m \in ToSet(up[s]) /\ ToSet(Tail(up[s])) = ToSet(up[s]) \ {m}
    BY <1>0, <1>1, <1>2, TakenFromFront
  <1>4. Upward(m, s) /\ msg[m] # NoMsg /\ s = Origin(m) /\ ~Downward(m, s)
    BY <1>3 DEF IInv, Ways, RouteShape, Upward
  <1>5. /\ ~Storing(m)
        /\ \A t \in Server : t # s => ~Downward(m, t) /\ ~Asking(m, t) /\ NoneGot(m, t)
    BY <1>3, <1>4 DEF IInv, Ways, OneWay, OneWayOf
  <1>6. \A t \in Server : /\ up'[t] \in Seq(Msg) /\ IsInjective(up'[t])
                          /\ ToSet(up'[t]) = IF t = s THEN ToSet(up[t]) \ {m} ELSE ToSet(up[t])
    BY <1>1, <1>2, <1>3 DEF IInv, Types, TypeOK
  <1>7. \A t \in Server : /\ down'[t] \in Seq(Msg) /\ IsInjective(down'[t])
                          /\ ToSet(down'[t]) = IF t \in linked \ {s} THEN ToSet(down[t]) \cup {m}
                                                                    ELSE ToSet(down[t])
    <2>1. ASSUME NEW t \in Server, t # s
          PROVE  /\ Append(down[t], m) \in Seq(Msg) /\ IsInjective(Append(down[t], m))
                 /\ ToSet(Append(down[t], m)) = ToSet(down[t]) \cup {m}
      BY <1>2, <1>3, <1>5, <2>1, PutAtBack DEF Downward
    <2> QED
      BY <1>1, <1>2, <2>1
  <1>8. TypeOK'
    <2>1. up' \in [Server -> Seq(Msg)] /\ down' \in [Server -> Seq(Msg)]
      BY <1>1, <1>6, <1>7 DEF IInv, Types, TypeOK
    <2> QED
      BY <1>1, <1>3, <2>1, ExcuseTyped DEF IInv, Types, TypeOK
  <1>9. /\ \A n \in Msg, t \in Server :
             /\ Upward(n, t)' <=> Upward(n, t) /\ ~(n = m /\ t = s)
             /\ Downward(n, t)' <=> Downward(n, t) \/ (n = m /\ t \in linked \ {s})
        /\ \A n, t : (Asking(n, t)' <=> Asking(n, t)) /\ (NoneGot(n, t)' <=> NoneGot(n, t))
        /\ \A n : Storing(n)' <=> Storing(n)
    <2>1. Reqs' = Reqs
      BY <1>1 DEF Reqs
    <2>2. \A n \in Msg, t \in Server : Upward(n, t)' <=> Upward(n, t) /\ ~(n = m /\ t = s)
      BY <1>6 DEF Upward
    <2>3. \A n \in Msg, t \in Server : Downward(n, t)' <=> Downward(n, t) \/ (n = m /\ t \in linked \ {s})
      BY <1>7 DEF Downward
    <2>4. \A n, t : NoneGot(n, t)' <=> NoneGot(n, t)
      BY <1>1 DEF NoneGot
    <2>5. \A n, t : Asking(n, t)' <=> Asking(n, t)
      BY <2>1, Zenon DEF Asking
    <2>6. \A n : Storing(n)' <=> Storing(n)
      BY <2>1, Zenon DEF Storing
    <2> QED
      BY <2>2, <2>3, <2>4, <2>5, <2>6
  <1>10. AnswersOnce' /\ RequestShape'
    BY <1>1 DEF IInv, Ways, AnswersOnce, RequestShape, Reqs, Origin
  <1>11. RouteShape'
    <2>1. \A n : Origin(n)' = Origin(n)
      BY <1>1 DEF Origin
    <2> QED
      BY <1>1, <1>4, <1>6, <1>7, <1>9, <2>1 DEF IInv, Ways, RouteShape
  <1>12. OneWayOf(m)'
    <2>1. \A t \in Server : ~Upward(m, t)'
      BY <1>3, <1>4, <1>9 DEF IInv, Ways, RouteShape
    <2> QED
      BY <1>3, <1>4, <1>5, <1>9, <2>1 DEF IInv, Ways, OneWay, OneWayOf
  <1>13. \A c \in Conn : got[c][m] + acked[c][m] <= 1
    BY <1>3 DEF IInv, Ways, AtMostOnce
  <1>14. Ways'
    BY <1>1, <1>3, <1>4, <1>9, <1>10, <1>11, <1>12, <1>13, WaysMove DEF IInv, Ways, AckedSender
  <1> QED
    BY <1>1, <1>8, <1>14, TypesStay DEF IInv

\* The answer with the members: they get it, but for the connection it came from.
LEMMA HandleGroupInfoResponseIInv ==
    ASSUME IInv, NEW a \in answered, HandleGroupInfoResponse(a) PROVE IInv'
  <1>0. a.req \in Reqs /\ a.req.m \in Msg /\ a.req.at \in Server
    BY RequestTyped DEF Reqs
  <1>1. PICK m \in Msg, s \in Server : m = a.req.m /\ s = a.req.at
    BY <1>0
  <1> DEFINE from == IF a.req.h = NoHandle THEN {} ELSE GetMsgConnByHandle(s, m, a.req.h)
             C == ConnsOf(s, a.list) \ from
  <1>2. /\ a.req.kind = "info" /\ answered' = answered \ {a}
        /\ \/ Give(C, m) /\ Excuse(m, C)
           \/ UNCHANGED <<got, owed>>
        /\ UNCHANGED <<conn, handle, waits, msg, asked, members, linked, up, down, acked, mishaps>>
    BY <1>1 DEF HandleGroupInfoResponse, sessions, routes
  <1>3. Asking(m, s) /\ msg[m] # NoMsg /\ a.req.h = IF s = Origin(m) THEN msg[m].h ELSE NoHandle
    BY <1>0, <1>1, <1>2 DEF Asking, IInv, Ways, RequestShape
  <1>4. /\ ~Storing(m) /\ ~Downward(m, s) /\ NoneGot(m, s)
        /\ \A t \in Server : Upward(m, t) => t = s
    BY <1>3 DEF IInv, Ways, OneWay, OneWayOf
  <1>5. \A c \in C : c \in Conn /\ ServerOf[c] = s /\ got[c][m] = 0 /\ acked[c][m] = 0
    <2>1. ASSUME NEW c \in C PROVE c \in Conn /\ ServerOf[c] = s /\ got[c][m] = 0 /\ ~(acked[c][m] > 0)
      <3>1. c \in Conn /\ ServerOf[c] = s /\ conn[c] = "open" /\ c \notin from
        BY <2>1 DEF ConnsOf, Open
      <3>2. got[c][m] = 0
        BY <1>4, <3>1 DEF NoneGot
      <3>3. handle[c] \in Handle /\ handle[c] # NoHandle
        BY <3>1, HandleAssumption DEF IInv, Types, OpenHandles
      <3>4. ASSUME acked[c][m] > 0 PROVE FALSE
        <4>1. handle[c] = msg[m].h /\ s = Origin(m) /\ UserOf[c] = Sender(m)
          BY <3>1, <3>4 DEF IInv, Ways, AckedSender
        <4>2. a.req.h = handle[c] /\ a.req.h # NoHandle
          BY <1>3, <3>3, <4>1
        <4>3. c \in GetMsgConnByHandle(s, m, a.req.h)
          BY <3>1, <4>1, <4>2 DEF GetMsgConnByHandle, ConnsOf, Open
        <4> QED
          BY <3>1, <4>2, <4>3
      <3> QED
        BY <3>1, <3>2, <3>4
    <2>2. ASSUME NEW c \in C PROVE acked[c][m] = 0
      <3>1. acked[c][m] \in Nat
        BY <2>1 DEF IInv, Types, TypeOK
      <3> QED
        BY <2>1, <3>1
    <2> QED
      BY <2>1, <2>2
  <1>6. PICK D \in SUBSET Conn :
          /\ \A c \in D : ServerOf[c] = s /\ got[c][m] = 0 /\ acked[c][m] = 0
          /\ got' \in [Conn -> [Msg -> Nat]]
          /\ \A c \in Conn, n \in Msg :
               got'[c][n] = IF n = m /\ c \in D THEN got[c][n] + 1 ELSE got[c][n]
    <2>1. CASE Give(C, m)
      <3>1. C \in SUBSET Conn
        BY <1>5
      <3> HIDE DEF C
      <3>2. /\ got' \in [Conn -> [Msg -> Nat]]
            /\ \A c \in Conn, n \in Msg :
                 got'[c][n] = IF n = m /\ c \in C THEN got[c][n] + 1 ELSE got[c][n]
        BY <2>1, GiveIs
      <3> QED
        BY <1>5, <3>1, <3>2
    <2>2. CASE got' = got
      <3>1. got \in [Conn -> [Msg -> Nat]]
        BY DEF IInv, Types, TypeOK
      <3>2. WITNESS {} \in SUBSET Conn
      <3> QED
        BY <2>2, <3>1
    <2> QED
      BY <1>2, <2>1, <2>2
  <1>7. owed' \in [Msg -> SUBSET Conn]
    BY <1>2, ExcuseTyped DEF IInv, Types, TypeOK
  <1> HIDE DEF C, from
  <1>8. TypeOK'
    BY <1>2, <1>6, <1>7 DEF IInv, Types, TypeOK
  <1>9. AnswersOnce' /\ Reqs' \subseteq Reqs /\ a.req \notin Reqs'
    BY <1>2, AnswerGone, AnswerLeaves DEF Reqs
  <1>10. /\ \A n \in Msg, t \in Server :
              /\ Upward(n, t)' <=> Upward(n, t)
              /\ Downward(n, t)' <=> Downward(n, t)
              /\ Asking(n, t)' => Asking(n, t)
         /\ \A n : Storing(n)' => Storing(n)
         /\ ~Asking(m, s)'
         /\ \A t \in Server : t # s => (NoneGot(m, t)' <=> NoneGot(m, t))
    <2>1. \A n \in Msg, t \in Server : (Upward(n, t)' <=> Upward(n, t)) /\ (Downward(n, t)' <=> Downward(n, t))
      BY <1>2 DEF Upward, Downward
    <2>2. \A n, t : Asking(n, t)' => Asking(n, t)
      BY <1>9, Zenon DEF Asking
    <2>3. \A n : Storing(n)' => Storing(n)
      BY <1>9, Zenon DEF Storing
    <2>4. ~Asking(m, s)'
      <3>1. ASSUME NEW r \in Reqs', r.kind = "info", r.m = m, r.at = s PROVE FALSE
        <4>1. r = a.req
          BY <1>0, <1>1, <1>2, <1>9, <3>1, SameRequest
        <4> QED
          BY <1>9, <3>1, <4>1
      <3> QED
        BY <3>1 DEF Asking
    <2>5. \A t \in Server : t # s => (NoneGot(m, t)' <=> NoneGot(m, t))
      BY <1>6 DEF NoneGot
    <2> QED
      BY <2>1, <2>2, <2>3, <2>4, <2>5
  <1>11. RequestShape' /\ RouteShape'
    <2>1. RequestShape'
      BY <1>2, <1>9 DEF IInv, Ways, RequestShape, Origin
    <2>2. \A n : Origin(n)' = Origin(n)
      BY <1>2 DEF Origin
    <2> QED
      BY <1>2, <1>10, <2>1, <2>2 DEF IInv, Ways, RouteShape
  <1>12. OneWayOf(m)'
    <2>0. OneWayOf(m)
      BY DEF IInv, Ways, OneWay
    <2>1. ~Storing(m)' /\ ~Downward(m, s)' /\ ~Asking(m, s)'
      BY <1>4, <1>10, Zenon
    <2>2. ASSUME NEW t \in Server, t # s
          PROVE  /\ ~Upward(m, t)'
                 /\ Upward(m, s)' => ~Downward(m, t)' /\ ~Asking(m, t)' /\ NoneGot(m, t)'
                 /\ Downward(m, t)' => ~Asking(m, t)' /\ NoneGot(m, t)'
                 /\ Asking(m, t)' => NoneGot(m, t)'
      <3>1. /\ Upward(m, t)' <=> Upward(m, t)
            /\ Upward(m, s)' <=> Upward(m, s)
            /\ Downward(m, t)' <=> Downward(m, t)
            /\ Asking(m, t)' => Asking(m, t)
            /\ NoneGot(m, t)' <=> NoneGot(m, t)
        BY <1>10, <2>2, Zenon
      <3>2. /\ ~Upward(m, t)
            /\ Upward(m, s) => ~Downward(m, t) /\ ~Asking(m, t) /\ NoneGot(m, t)
            /\ Downward(m, t) => ~Asking(m, t) /\ NoneGot(m, t)
            /\ Asking(m, t) => NoneGot(m, t)
        BY <1>4, <2>0, <2>2, Zenon DEF OneWayOf
      <3> QED
        BY <3>1, <3>2, Zenon
    <2> QED
      BY <2>1, <2>2 DEF OneWayOf
  <1>13. \A c \in Conn : /\ got'[c][m] + acked'[c][m] <= 1
                         /\ acked'[c][m] = acked[c][m]
    BY <1>2, <1>6 DEF IInv, Ways, AtMostOnce
  <1>14. Ways'
    BY <1>2, <1>3, <1>6, <1>9, <1>10, <1>11, <1>12, <1>13, WaysMove DEF IInv, Ways, AckedSender
  <1> QED
    BY <1>2, <1>8, <1>14, TypesStay DEF IInv

\* A copy comes from the route server: a message of another server, which the
\* connections here have not got, and for which none here was acknowledged.
LEMMA HandleRoutedMsgDataIInv == ASSUME IInv, NEW s \in Server, HandleRoutedMsgData(s) PROVE IInv'
  <1>0. PICK m \in Msg : m = Head(down[s]) /\ m \in ToSet(down[s])
    <2>1. down[s] # <<>> /\ down[s] \in Seq(Msg) /\ IsInjective(down[s])
      BY DEF HandleRoutedMsgData, IInv, Types, TypeOK, Ways, RouteShape
    <2> QED
      BY <2>1, TakenFromFront
  <1> DEFINE q == [kind |-> "info", m |-> m, at |-> s, h |-> NoHandle]
             C == ConnsOf(s, Concerned(m))
  <1>1. /\ down[s] # <<>> /\ down' = [down EXCEPT ![s] = Tail(down[s])]
        /\ \/ asked' = asked \cup {q} /\ UNCHANGED <<waits, got, owed>>
           \/ BroadcastClientMsgData(C, m, {}) /\ UNCHANGED asked
        /\ UNCHANGED <<conn, handle, msg, answered, members, linked, up, acked, mishaps>>
    BY <1>0 DEF HandleRoutedMsgData, Ask
  <1>2. \A t \in Server : /\ up[t] \in Seq(Msg) /\ down[t] \in Seq(Msg)
                          /\ IsInjective(up[t]) /\ IsInjective(down[t])
    BY DEF IInv, Types, TypeOK, Ways, RouteShape
  <1>3. /\ Tail(down[s]) \in Seq(Msg) /\ IsInjective(Tail(down[s]))
        /\ ToSet(Tail(down[s])) = ToSet(down[s]) \ {m}
    BY <1>0, <1>1, <1>2, TakenFromFront
  <1>4. Downward(m, s) /\ msg[m] # NoMsg /\ s # Origin(m)
    BY <1>0 DEF IInv, Ways, RouteShape, Downward
  <1>5. /\ ~Storing(m) /\ ~Asking(m, s) /\ NoneGot(m, s)
        /\ \A t \in Server : ~Upward(m, t)
    <2>1. ~Storing(m) /\ ~Asking(m, s) /\ NoneGot(m, s) /\ \A t \in Server : t # s => ~Upward(m, t)
      BY <1>4 DEF IInv, Ways, OneWay, OneWayOf
    <2>2. ~Upward(m, s)
      BY <1>4 DEF IInv, Ways, RouteShape
    <2> QED
      BY <2>1, <2>2
  <1>6. q \in Request /\ q.kind = "info" /\ q.m = m /\ q.at = s /\ q.h = NoHandle
    BY DEF Request
  <1>7. /\ \A c \in C : c \in Conn /\ ServerOf[c] = s /\ got[c][m] = 0 /\ acked[c][m] = 0
        /\ C \in SUBSET Conn
    <2>1. ASSUME NEW c \in C PROVE c \in Conn /\ ServerOf[c] = s /\ got[c][m] = 0 /\ ~(acked[c][m] > 0)
      <3>1. c \in Conn /\ ServerOf[c] = s
        BY <2>1 DEF ConnsOf, Open
      <3> QED
        BY <1>4, <1>5, <3>1 DEF NoneGot, IInv, Ways, AckedSender
    <2>2. ASSUME NEW c \in C PROVE acked[c][m] = 0
      <3>1. acked[c][m] \in Nat
        BY <2>1 DEF IInv, Types, TypeOK
      <3> QED
        BY <2>1, <3>1
    <2> QED
      BY <2>1, <2>2
  <1> HIDE DEF C, q
  <1>8. PICK D \in SUBSET Conn, Q \in SUBSET {q} :
          /\ D = {} \/ Q = {}
          /\ asked' = asked \cup Q
          /\ \A c \in D : ServerOf[c] = s /\ got[c][m] = 0 /\ acked[c][m] = 0
          /\ got' \in [Conn -> [Msg -> Nat]]
          /\ \A c \in Conn, n \in Msg :
               got'[c][n] = IF n = m /\ c \in D THEN got[c][n] + 1 ELSE got[c][n]
    <2>1. CASE BroadcastClientMsgData(C, m, {}) /\ UNCHANGED asked
      <3>1. /\ got' \in [Conn -> [Msg -> Nat]]
            /\ \A c \in Conn, n \in Msg :
                 got'[c][n] = IF n = m /\ c \in C THEN got[c][n] + 1 ELSE got[c][n]
        BY <2>1, BroadcastIs, GiveIs
      <3>2. asked' = asked \cup {}
        BY <2>1
      <3> QED
        BY <1>7, <3>1, <3>2
    <2>2. CASE asked' = asked \cup {q} /\ UNCHANGED got
      <3>1. got' = got /\ got \in [Conn -> [Msg -> Nat]]
        BY <2>2 DEF IInv, Types, TypeOK
      <3>2. WITNESS {} \in SUBSET Conn, {q} \in SUBSET {q}
      <3> QED
        BY <2>2, <3>1
    <2> QED
      BY <1>1, <2>1, <2>2
  <1>9. owed' \in [Msg -> SUBSET Conn] /\ waits' \in [Conn -> Seq(Pending)] /\ SortedLists'
    <2>1. CASE BroadcastClientMsgData(C, m, {})
      BY <2>1, BroadcastIs
    <2>2. CASE UNCHANGED <<waits, owed>>
      BY <2>2 DEF IInv, Types, TypeOK, SortedLists
    <2> QED
      BY <1>1, <2>1, <2>2
  <1>10. \A t \in Server : /\ down'[t] \in Seq(Msg) /\ IsInjective(down'[t])
                           /\ ToSet(down'[t]) = IF t = s THEN ToSet(down[t]) \ {m} ELSE ToSet(down[t])
    BY <1>1, <1>2, <1>3 DEF IInv, Types, TypeOK
  <1>11. Types'
    <2>1. down' \in [Server -> Seq(Msg)]
      BY <1>1, <1>10 DEF IInv, Types, TypeOK
    <2>2. asked' \subseteq Request
      BY <1>6, <1>8 DEF IInv, Types, TypeOK
    <2>3. TypeOK'
      BY <1>1, <1>8, <1>9, <2>1, <2>2 DEF IInv, Types, TypeOK
    <2> QED
      BY <1>1, <1>9, <2>3 DEF IInv, Types, OpenHandles
  <1>12. Reqs' = Reqs \cup Q /\ \A r \in Q : r = q /\ r \notin Reqs
    <2>1. Reqs' = Reqs \cup Q
      BY <1>1, <1>8 DEF Reqs
    <2>2. q \notin Reqs
      BY <1>5, <1>6 DEF Asking
    <2> QED
      BY <1>8, <2>1, <2>2
  <1>13. AnswersOnce'
    BY <1>1, <1>8, <1>12 DEF IInv, Ways, AnswersOnce, Reqs
  <1>14. RequestShape'
    <2>1. \A n : Origin(n)' = Origin(n)
      BY <1>1 DEF Origin
    <2> QED
      BY <1>1, <1>4, <1>6, <1>12, <2>1 DEF IInv, Ways, RequestShape
  <1>15. /\ \A n \in Msg, t \in Server :
              /\ Upward(n, t)' <=> Upward(n, t)
              /\ Downward(n, t)' <=> Downward(n, t) /\ ~(n = m /\ t = s)
              /\ Asking(n, t)' => Asking(n, t) \/ (n = m /\ t = s /\ Q # {})
         /\ \A n : Storing(n)' => Storing(n)
         /\ \A t \in Server : t # s => (NoneGot(m, t)' <=> NoneGot(m, t))
         /\ D = {} => NoneGot(m, s)'
    <2>1. \A n \in Msg, t \in Server : Upward(n, t)' <=> Upward(n, t)
      BY <1>1 DEF Upward
    <2>2. \A n \in Msg, t \in Server : Downward(n, t)' <=> Downward(n, t) /\ ~(n = m /\ t = s)
      BY <1>10 DEF Downward
    <2>3. \A n \in Msg, t \in Server : Asking(n, t)' => Asking(n, t) \/ (n = m /\ t = s /\ Q # {})
      BY <1>6, <1>12 DEF Asking
    <2>4. \A n : Storing(n)' => Storing(n)
      BY <1>6, <1>12 DEF Storing
    <2>5. \A t \in Server : t # s => (NoneGot(m, t)' <=> NoneGot(m, t))
      BY <1>8 DEF NoneGot
    <2>6. D = {} => NoneGot(m, s)'
      BY <1>5, <1>8 DEF NoneGot
    <2> QED
      BY <2>1, <2>2, <2>3, <2>4, <2>5, <2>6
  <1>16. RouteShape'
    <2>1. \A n : Origin(n)' = Origin(n)
      BY <1>1 DEF Origin
    <2> QED
      BY <1>1, <1>10, <1>15, <2>1 DEF IInv, Ways, RouteShape
  <1>17. OneWayOf(m)'
    BY <1>5, <1>8, <1>15 DEF IInv, Ways, OneWay, OneWayOf
  <1>18. \A c \in Conn : got'[c][m] + acked'[c][m] <= 1 /\ acked'[c][m] = acked[c][m]
    BY <1>1, <1>8 DEF IInv, Ways, AtMostOnce
  <1>19. Ways'
    BY <1>1, <1>4, <1>8, <1>13, <1>14, <1>15, <1>16, <1>17, <1>18, WaysMove DEF IInv, Ways, AckedSender
  <1> QED
    BY <1>11, <1>19 DEF IInv

\* The answer to the request to store: nobody has got the message yet. The connection
\* it came from is acknowledged, the others of this server get it or the members are
\* asked for, the other servers are told.
LEMMA HandleMsgDataIInv == ASSUME IInv, NEW a \in answered, HandleMsgData(a) PROVE IInv'
  <1>0. a.req \in Reqs /\ a.req \in Request /\ a.req.m \in Msg /\ a.req.at \in Server
    BY RequestTyped DEF Reqs
  <1>1. PICK m \in Msg, s \in Server : m = a.req.m /\ s = a.req.at
    BY <1>0
  <1> DEFINE from == GetMsgConnByHandle(s, m, a.req.h)
             C == ConnsOf(s, Concerned(m)) \ from
             q == [kind |-> "info", m |-> m, at |-> s, h |-> a.req.h]
             unreached == IF s \in linked THEN {} ELSE At(Server \ {s})
  <1>2. /\ a.req.kind = "store" /\ answered' = answered \ {a}
        /\ UNCHANGED <<conn, handle, msg, members, linked, down, mishaps>>
        /\ \/ UNCHANGED <<waits, asked, up, got, acked, owed>>
           \/ /\ Ack(from, m)
              /\ up' = IF s \in linked THEN [up EXCEPT ![s] = Append(up[s], m)] ELSE up
              /\ \/ asked' = asked \cup {q} /\ Excuse(m, unreached) /\ UNCHANGED <<waits, got>>
                 \/ BroadcastClientMsgData(C, m, unreached) /\ UNCHANGED asked
    BY <1>1 DEF HandleMsgData, Ask
  <1>3. CASE UNCHANGED <<waits, asked, up, got, acked, owed>>
    <2>1. AnswersOnce' /\ Reqs' \subseteq Reqs
      BY <1>2, <1>3, AnswerGone
    <2>2. \A t \in Server : IsInjective(up'[t]) /\ IsInjective(down'[t])
      BY <1>2, <1>3 DEF IInv, Ways, RouteShape
    <2>3. TypeOK'
      BY <1>2, <1>3 DEF IInv, Types, TypeOK
    <2> QED
      BY <1>2, <1>3, <2>1, <2>2, <2>3, TypesStay, WaysEnd DEF IInv
  <1>4. CASE /\ Ack(from, m)
             /\ up' = IF s \in linked THEN [up EXCEPT ![s] = Append(up[s], m)] ELSE up
             /\ \/ asked' = asked \cup {q} /\ Excuse(m, unreached) /\ UNCHANGED <<waits, got>>
                \/ BroadcastClientMsgData(C, m, unreached) /\ UNCHANGED asked
    <2>1. Storing(m) /\ msg[m] # NoMsg /\ s = Origin(m) /\ a.req.h = msg[m].h
      BY <1>0, <1>1, <1>2 DEF Storing, IInv, Ways, RequestShape
    <2>2. /\ \A t \in Server : ~Asking(m, t) /\ ~Upward(m, t) /\ ~Downward(m, t)
          /\ \A c \in Conn : got[c][m] = 0 /\ acked[c][m] = 0
      BY <2>1 DEF IInv, Ways, OneWay, OneWayOf
    <2>3. q \in Request /\ q.kind = "info" /\ q.m = m /\ q.at = s /\ q.h = a.req.h
      BY <1>0 DEF Request
    <2>4. \A c \in from : /\ c \in Conn /\ conn[c] = "open" /\ handle[c] = msg[m].h
                          /\ ServerOf[c] = s /\ UserOf[c] = Sender(m)
      BY <2>1 DEF GetMsgConnByHandle, ConnsOf, Open
    <2>5. C \in SUBSET Conn /\ \A c \in C : ServerOf[c] = s /\ c \notin from
      BY DEF ConnsOf, Open
    <2> HIDE DEF from, C, q, unreached
    <2>6. /\ acked' \in [Conn -> [Msg -> Nat]]
          /\ \A c \in Conn, n \in Msg :
               acked'[c][n] = IF n = m /\ c \in from THEN acked[c][n] + 1 ELSE acked[c][n]
      BY <1>4, AckIs
    <2>7. PICK F \in SUBSET Conn : \A c \in Conn : c \in F <=> c \in from
      <3>1. {c \in Conn : c \in from} \in SUBSET Conn
        OBVIOUS
      <3> QED
        BY <3>1
    <2>8. PICK D \in SUBSET Conn, Q \in SUBSET {q} :
            /\ asked' = asked \cup Q
            /\ D = {} \/ Q = {}
            /\ \A c \in D : ServerOf[c] = s /\ c \notin F
            /\ got' \in [Conn -> [Msg -> Nat]]
            /\ \A c \in Conn, n \in Msg :
                 got'[c][n] = IF n = m /\ c \in D THEN got[c][n] + 1 ELSE got[c][n]
      <3>1. CASE BroadcastClientMsgData(C, m, unreached) /\ UNCHANGED asked
        <4>1. /\ got' \in [Conn -> [Msg -> Nat]]
              /\ \A c \in Conn, n \in Msg :
                   got'[c][n] = IF n = m /\ c \in C THEN got[c][n] + 1 ELSE got[c][n]
          BY <3>1, BroadcastIs, GiveIs
        <4>2. asked' = asked \cup {} /\ \A c \in C : ServerOf[c] = s /\ c \notin F
          BY <2>5, <2>7, <3>1
        <4> QED
          BY <2>5, <4>1, <4>2
      <3>2. CASE asked' = asked \cup {q} /\ UNCHANGED got
        <4>1. got' = got /\ got \in [Conn -> [Msg -> Nat]]
          BY <3>2 DEF IInv, Types, TypeOK
        <4>2. WITNESS {} \in SUBSET Conn, {q} \in SUBSET {q}
        <4> QED
          BY <3>2, <4>1
      <3> QED
        BY <1>4, <3>1, <3>2
    <2>9. owed' \in [Msg -> SUBSET Conn] /\ waits' \in [Conn -> Seq(Pending)] /\ SortedLists'
      <3>1. CASE BroadcastClientMsgData(C, m, unreached)
        BY <3>1, BroadcastIs
      <3>2. CASE Excuse(m, unreached) /\ UNCHANGED waits
        BY <3>2, ExcuseTyped DEF IInv, Types, TypeOK, SortedLists
      <3> QED
        BY <1>4, <3>1, <3>2
    <2>10. \A t \in Server : /\ up'[t] \in Seq(Msg) /\ IsInjective(up'[t])
                             /\ ToSet(up'[t]) \subseteq IF t = s THEN ToSet(up[t]) \cup {m} ELSE ToSet(up[t])
      <3>1. \A t \in Server : up[t] \in Seq(Msg) /\ IsInjective(up[t])
        BY DEF IInv, Types, TypeOK, Ways, RouteShape
      <3>2. /\ Append(up[s], m) \in Seq(Msg) /\ IsInjective(Append(up[s], m))
            /\ ToSet(Append(up[s], m)) = ToSet(up[s]) \cup {m}
        BY <2>2, <3>1, PutAtBack DEF Upward
      <3> QED
        BY <1>4, <3>1, <3>2 DEF IInv, Types, TypeOK
    <2>11. Types'
      <3>1. up' \in [Server -> Seq(Msg)]
        BY <1>4, <2>10 DEF IInv, Types, TypeOK
      <3>2. asked' \subseteq Request
        BY <2>3, <2>8 DEF IInv, Types, TypeOK
      <3>3. TypeOK'
        BY <1>2, <2>6, <2>8, <2>9, <3>1, <3>2 DEF IInv, Types, TypeOK
      <3> QED
        BY <1>2, <2>9, <3>3 DEF IInv, Types, OpenHandles
    <2>12. Reqs' = (Reqs \ {a.req}) \cup Q /\ \A r \in Q : r = q /\ r \notin Reqs
      <3>1. q \notin Reqs
        BY <2>2, <2>3 DEF Asking
      <3>2. a.req \notin asked /\ \A b \in answered \ {a} : b.req # a.req
        BY AnswerLeaves
      <3>3. Q \subseteq {q}
        OBVIOUS
      <3> QED
        BY <1>0, <1>2, <2>8, <3>1, <3>2, <3>3 DEF Reqs
    <2>13. AnswersOnce'
      BY <1>2, <2>8, <2>12 DEF IInv, Ways, AnswersOnce, Reqs
    <2>14. RequestShape'
      <3>1. \A n : Origin(n)' = Origin(n)
        BY <1>2 DEF Origin
      <3> QED
        BY <1>2, <2>1, <2>3, <2>12, <3>1 DEF IInv, Ways, RequestShape
    <2>15. /\ \A n \in Msg, t \in Server :
                /\ Upward(n, t)' => Upward(n, t) \/ (n = m /\ t = s)
                /\ Downward(n, t)' <=> Downward(n, t)
                /\ Asking(n, t)' => Asking(n, t) \/ (n = m /\ t = s /\ Q # {})
           /\ \A n : Storing(n)' => Storing(n)
           /\ ~Storing(m)'
           /\ \A t \in Server : t # s => NoneGot(m, t)'
           /\ D = {} => NoneGot(m, s)'
      <3>1. \A n \in Msg, t \in Server : Upward(n, t)' => Upward(n, t) \/ (n = m /\ t = s)
        BY <2>10 DEF Upward
      <3>2. \A n \in Msg, t \in Server : Downward(n, t)' <=> Downward(n, t)
        BY <1>2 DEF Downward
      <3>3. \A n \in Msg, t \in Server : Asking(n, t)' => Asking(n, t) \/ (n = m /\ t = s /\ Q # {})
        BY <2>3, <2>12 DEF Asking
      <3>4. \A n : Storing(n)' => Storing(n)
        BY <2>3, <2>12 DEF Storing
      <3>5. ~Storing(m)'
        <4>1. ASSUME NEW r \in Reqs', r.kind = "store", r.m = m PROVE FALSE
          <5>1. r \in Reqs /\ r # a.req
            BY <2>3, <2>12, <4>1
          <5>2. r = a.req
            BY <1>0, <1>1, <1>2, <4>1, <5>1, SameRequest
          <5> QED
            BY <5>1, <5>2
        <4> QED
          BY <4>1 DEF Storing
      <3>6. \A t \in Server : t # s => NoneGot(m, t)'
        BY <2>2, <2>8 DEF NoneGot
      <3>7. D = {} => NoneGot(m, s)'
        BY <2>2, <2>8 DEF NoneGot
      <3> QED
        BY <3>1, <3>2, <3>3, <3>4, <3>5, <3>6, <3>7
    <2>16. RouteShape'
      <3>1. \A n : Origin(n)' = Origin(n)
        BY <1>2 DEF Origin
      <3>2. \A t \in Server : IsInjective(down'[t])
        BY <1>2 DEF IInv, Ways, RouteShape
      <3> QED
        BY <1>2, <2>1, <2>10, <2>15, <3>1, <3>2 DEF IInv, Ways, RouteShape
    <2>17. OneWayOf(m)'
      <3>1. \A t \in Server : /\ ~Downward(m, t)'
                              /\ Upward(m, t)' => t = s
                              /\ Asking(m, t)' => t = s /\ NoneGot(m, s)'
        BY <2>2, <2>8, <2>15
      <3> QED
        BY <2>15, <3>1 DEF OneWayOf
    <2>18. \A c \in Conn : /\ got'[c][m] + acked'[c][m] <= 1
                           /\ acked'[c][m] > 0 => /\ conn[c] # "new" /\ handle[c] = msg[m].h
                                                  /\ ServerOf[c] = Origin(m) /\ UserOf[c] = Sender(m)
      <3>1. ASSUME NEW c \in Conn
            PROVE  /\ got'[c][m] = (IF c \in D THEN 1 ELSE 0)
                   /\ acked'[c][m] = (IF c \in from THEN 1 ELSE 0)
                   /\ ~(c \in D /\ c \in from)
        BY <2>2, <2>6, <2>7, <2>8
      <3>2. \A c \in from : /\ conn[c] # "new" /\ handle[c] = msg[m].h
                            /\ ServerOf[c] = Origin(m) /\ UserOf[c] = Sender(m)
        BY <2>1, <2>4
      <3> QED
        BY <3>1, <3>2
    <2>19. \A n \in Msg : n # m => \A c \in Conn : got'[c][n] = got[c][n] /\ acked'[c][n] = acked[c][n]
      BY <2>6, <2>8
    <2>20. Ways'
      BY <1>2, <2>1, <2>13, <2>14, <2>15, <2>16, <2>17, <2>18, <2>19, WaysMove
    <2> QED
      BY <2>11, <2>20 DEF IInv
  <1> QED
    BY <1>2, <1>3, <1>4

-----------------------------------------------------------------------------
(* The theorems *)

LEMMA NextIInv == IInv /\ [Next]_vars => IInv'
  <1> SUFFICES ASSUME IInv, [Next]_vars PROVE IInv'
    OBVIOUS
  <1>1. ASSUME NEW c \in Conn, Client(c) PROVE IInv'
    BY <1>1, LoginIInv, CloseIInv, HandleClientMsgDataIInv, HandleClientMsgDataAckIInv DEF Client
  <1>2. CASE Db
    BY <1>2, StoreIInv, GetGroupInfoIInv DEF Db
  <1>3. CASE DbAnswer
    BY <1>3, HandleMsgDataIInv, HandleGroupInfoResponseIInv DEF DbAnswer
  <1>4. ASSUME NEW u \in User, Leave(u) \/ Join(u) PROVE IInv'
    BY <1>4, LeaveIInv, JoinIInv
  <1>5. ASSUME NEW r \in asked \cup {a.req : a \in answered}, DbLinkLost(r) PROVE IInv'
    BY <1>5, DbLinkLostIInv DEF Reqs
  <1>6. ASSUME NEW s \in Server, Route(s) \/ OnTimer(s) \/ RouteLinkLost(s) \/ RouteLinkUp(s)
        PROVE  IInv'
    BY <1>6, HandleRoutePduIInv, HandleRoutedMsgDataIInv, OnTimerIInv, RouteLinkLostIInv,
       RouteLinkUpIInv DEF Route
  <1>7. CASE UNCHANGED vars
    <2>1. UNCHANGED <<conn, handle, waits, msg, asked, answered, members, linked, up, down, got,
                      acked, owed, mishaps>>
      BY <1>7 DEF vars, sessions, routes
    <2>2. TypeOK'
      BY <2>1 DEF IInv, Types, TypeOK
    <2> QED
      BY <2>1, <2>2, TypesStay, WaysStay DEF IInv
  <1> QED
    BY <1>1, <1>2, <1>3, <1>4, <1>5, <1>6, <1>7 DEF Next

LEMMA SpecIInv == Spec => []IInv
  BY InitIInv, NextIInv, PTL DEF Spec

\* The state keeps its types; an entry of a list of messages that wait for an answer
\* never gets older than the limit of the timer, because the oldest is at the head.
THEOREM TypeCorrect == Spec => []TypeOK
  <1>1. IInv => TypeOK
    BY DEF IInv, Types
  <1> QED
    BY <1>1, SpecIInv, PTL

\* No connection is given a message twice, nor one it was acknowledged: not through the
\* database and the route server, not through two answers with the members.
THEOREM NothingTwice == Spec => []AtMostOnce
  <1>1. IInv => AtMostOnce
    BY DEF IInv, Ways
  <1> QED
    BY <1>1, SpecIInv, PTL

=============================================================================
