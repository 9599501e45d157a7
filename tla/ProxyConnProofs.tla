-------------------------- MODULE ProxyConnProofs ---------------------------
(* Answers reach the connection that asked, once, and only connected servers *)
(* are listed, for any number of connections, handles, workers and requests. *)
EXTENDS ProxyConn, SequenceTheorems, TLAPS

-----------------------------------------------------------------------------
(* Sequences of requests *)

\* The request numbers of a sequence, and that none is there twice.
Numbers(s) == {s[i].n : i \in 1..Len(s)}
Distinct(s) == \A i, j \in 1..Len(s) : s[i].n = s[j].n => i = j

\* Putting a request with a number of its own behind the others.
LEMMA AppendNumbers ==
    ASSUME NEW s \in Seq(Request), NEW r \in Request, Distinct(s), r.n \notin Numbers(s)
    PROVE  /\ Append(s, r) \in Seq(Request)
           /\ Distinct(Append(s, r))
           /\ Numbers(Append(s, r)) = Numbers(s) \cup {r.n}
  <1> DEFINE t == Append(s, r)
  <1>1. /\ t \in Seq(Request) /\ Len(t) = Len(s) + 1 /\ Len(s) \in Nat
        /\ \A i \in 1..Len(s) : t[i] = s[i]
        /\ t[Len(s) + 1] = r
    OBVIOUS
  <1> HIDE DEF t
  <1>2. Distinct(t)
    BY <1>1 DEF Distinct, Numbers
  <1>3. Numbers(t) = Numbers(s) \cup {r.n}
    BY <1>1 DEF Numbers
  <1> QED
    BY <1>1, <1>2, <1>3 DEF t

\* Taking the first request off.
LEMMA TailNumbers ==
    ASSUME NEW s \in Seq(Request), s # <<>>, Distinct(s)
    PROVE  /\ Head(s) \in Request /\ Tail(s) \in Seq(Request)
           /\ Distinct(Tail(s))
           /\ Head(s).n \in Numbers(s)
           /\ Numbers(Tail(s)) = Numbers(s) \ {Head(s).n}
  <1> DEFINE t == Tail(s)
  <1>1. /\ t \in Seq(Request) /\ Len(t) = Len(s) - 1 /\ Len(s) \in Nat \ {0}
        /\ \A i \in 1..Len(t) : t[i] = s[i + 1]
        /\ Head(s) = s[1] /\ s[1] \in Request
    OBVIOUS
  <1> HIDE DEF t
  <1>2. Distinct(t)
    BY <1>1 DEF Distinct
  <1>3. Head(s).n \in Numbers(s)
    BY <1>1 DEF Numbers
  <1>4. ASSUME NEW x \in Numbers(t) PROVE x \in Numbers(s) /\ x # Head(s).n
    <2>1. PICK i \in 1..Len(t) : x = s[i + 1].n
      BY <1>1 DEF Numbers
    <2> QED
      BY <1>1, <2>1 DEF Numbers, Distinct
  <1>5. ASSUME NEW x \in Numbers(s), x # Head(s).n PROVE x \in Numbers(t)
    <2>1. PICK i \in 1..Len(s) : x = s[i].n
      BY DEF Numbers
    <2>2. i - 1 \in 1..Len(t) /\ t[i - 1] = s[i]
      BY <1>1, <1>5, <2>1
    <2> QED
      BY <2>1, <2>2 DEF Numbers
  <1> QED
    BY <1>1, <1>2, <1>3, <1>4, <1>5 DEF t

-----------------------------------------------------------------------------
(* The inductive invariant *)

JobNumber(w) == {job[w].n} \ {0}
Answered == UNION {Numbers(got[k]) : k \in Uuid}

\* A worker has a task or an answer in hand exactly at the steps that work on it.
JobShape ==
  \A w \in Worker : IF pc[w] \in {"run", "found"} THEN job[w] \in Request
                                                  ELSE job[w] = NoJob

\* A request is at one place only: with a worker, on the list, or answered.
OnePlace ==
  /\ Distinct(response) /\ \A w \in Worker : Distinct(queue[w])
  /\ \A k \in Uuid : Distinct(got[k])
  /\ \A w, v \in Worker :
       /\ w # v => /\ Numbers(queue[w]) \cap Numbers(queue[v]) = {}
                   /\ JobNumber(w) \cap JobNumber(v) = {}
       /\ JobNumber(w) \cap Numbers(queue[v]) = {}
  /\ \A w \in Worker :
       /\ (Numbers(queue[w]) \cup JobNumber(w)) \cap (Numbers(response) \cup Answered) = {}
       /\ Numbers(queue[w]) \cup JobNumber(w) \subseteq 1..read
  /\ Numbers(response) \cap Answered = {}
  /\ Numbers(response) \cup Answered \subseteq 1..read

\* Only requests handled inline let a worker drain the list.
KindsKnown ==
  \A w \in Worker :
    /\ \A i \in 1..Len(queue[w]) : queue[w][i].inline \in kinds
    /\ pc[w] = "run" => job[w].inline \in kinds
    /\ pc[w] \in {"drain", "found"} => TRUE \in kinds

IInv == /\ TypeOK /\ JobShape /\ OnePlace /\ KindsKnown
        /\ AnswerToAskerFromMainThread /\ ListedOnlyIfConnected

-----------------------------------------------------------------------------
(* Init *)

LEMMA InitIInv == Init => IInv
  <1> SUFFICES ASSUME Init PROVE IInv
    OBVIOUS
  <1> USE ProxyAssumption
  <1>1. handle \in [1..accepted -> Handle] /\ server \in [1..accepted -> Server]
    BY DEF Init
  <1>2. TypeOK
    <2>1. kinds \subseteq BOOLEAN
      BY DEF Init
    <2>2. queue \in [Worker -> Seq(Request)] /\ got \in [Uuid -> Seq(Request)] /\ response \in Seq(Request)
      BY DEF Init
    <2>3. pc \in [Worker -> {"idle", "run", "drain", "found"}] /\ job \in [Worker -> Request \cup {NoJob}]
      BY DEF Init
    <2> QED
      BY <1>1, <2>1, <2>2, <2>3 DEF Init, TypeOK
  <1>3. JobShape
    BY DEF Init, JobShape
  <1>4. Answered = {} /\ Numbers(response) = {}
    BY DEF Init, Answered, Numbers
  <1>5. \A w \in Worker : Numbers(queue[w]) = {} /\ JobNumber(w) = {} /\ Distinct(queue[w])
    BY DEF Init, Numbers, JobNumber, NoJob, Distinct
  <1>6. Distinct(response) /\ \A k \in Uuid : Distinct(got[k])
    BY DEF Init, Distinct
  <1>7. OnePlace
    BY <1>4, <1>5, <1>6 DEF OnePlace
  <1>8. KindsKnown
    BY DEF Init, KindsKnown
  <1>9. AnswerToAskerFromMainThread
    BY DEF Init, AnswerToAskerFromMainThread, AnswerToAsker, ToSet
  <1>10. ListedOnlyIfConnected
    BY DEF Init, ListedOnlyIfConnected
  <1> QED
    BY <1>2, <1>3, <1>7, <1>8, <1>9, <1>10 DEF IInv

-----------------------------------------------------------------------------
(* The steps of the main thread *)

\* What the requests' parts of the invariant say of a step that moves none.
LEMMA RequestsStay ==
    ASSUME IInv, UNCHANGED <<kinds, queue, pc, job, response, got, read, silent>>
    PROVE  JobShape' /\ OnePlace' /\ KindsKnown' /\ AnswerToAskerFromMainThread'
  <1> USE DEF IInv
  <1>1. JobShape' /\ KindsKnown'
    BY DEF JobShape, KindsKnown
  <1>2. AnswerToAskerFromMainThread'
    BY DEF AnswerToAskerFromMainThread, AnswerToAsker
  <1>3. /\ \A w \in Worker : Numbers(queue[w])' = Numbers(queue[w]) /\ JobNumber(w)' = JobNumber(w)
        /\ Numbers(response)' = Numbers(response) /\ Answered' = Answered
    BY DEF Numbers, JobNumber, Answered
  <1>4. /\ Distinct(response)' /\ \A w \in Worker : Distinct(queue[w])'
        /\ \A k \in Uuid : Distinct(got[k])'
    BY DEF OnePlace, Distinct
  <1>5. OnePlace'
    BY <1>3, <1>4 DEF OnePlace
  <1> QED
    BY <1>1, <1>2, <1>5

\* ... and the connections' parts of a step that changes no connection.
LEMMA ConnectionsStay ==
    ASSUME IInv, UNCHANGED <<accepted, handle, server, open, known, listed, left>>
    PROVE  ListedOnlyIfConnected'
  BY DEF IInv, ListedOnlyIfConnected

LEMMA OnConnectIInv == ASSUME IInv, OnConnect PROVE IInv'
  <1> USE ProxyAssumption DEF IInv
  <1>1. PICK h \in FreeHandle, s \in Server :
            handle' = Append(handle, h) /\ server' = Append(server, s)
    BY DEF OnConnect
  <1>2. /\ accepted \in Nat /\ accepted + 1 \in 0..MaxConn /\ accepted' = accepted + 1
        /\ handle \in [1..accepted -> Handle] /\ server \in [1..accepted -> Server]
        /\ h \in Handle
    BY DEF OnConnect, TypeOK, FreeHandle
  <1>3. /\ handle \in Seq(Handle) /\ Len(handle) = accepted
        /\ server \in Seq(Server) /\ Len(server) = accepted
    BY <1>2
  <1> HIDE DEF IInv
  <1>4. /\ handle' \in [1..(accepted + 1) -> Handle]
        /\ handle'[accepted + 1] = h
        /\ \A k \in 1..accepted : handle'[k] = handle[k]
    <2> DEFINE t == Append(handle, h)
    <2>1. /\ t \in Seq(Handle) /\ Len(t) = accepted + 1 /\ t[accepted + 1] = h
          /\ \A k \in 1..accepted : t[k] = handle[k]
      BY <1>2, <1>3, AppendProperties
    <2>2. t \in [1..Len(t) -> Handle]
      BY <2>1, LenProperties
    <2> HIDE DEF t
    <2>3. handle' = t
      BY <1>1 DEF t
    <2> QED
      BY <2>1, <2>2, <2>3
  <1>5. /\ server' \in [1..(accepted + 1) -> Server]
        /\ \A k \in 1..accepted : server'[k] = server[k]
    <2> DEFINE t == Append(server, s)
    <2>1. /\ t \in Seq(Server) /\ Len(t) = accepted + 1 /\ t[accepted + 1] = s
          /\ \A k \in 1..accepted : t[k] = server[k]
      BY <1>2, <1>3, AppendProperties
    <2>2. t \in [1..Len(t) -> Server]
      BY <2>1, LenProperties
    <2> HIDE DEF t
    <2>3. server' = t
      BY <1>1 DEF t
    <2> QED
      BY <2>1, <2>2, <2>3
  <1>6. \A j, k \in open' : handle'[j] = handle'[k] => j = k
    <2>1. \A k \in open : k \in 1..accepted /\ handle'[k] # h
      BY <1>1, <1>4 DEF IInv, TypeOK, FreeHandle
    <2> QED
      BY <1>2, <1>4, <2>1 DEF IInv, TypeOK, OnConnect
  <1>7. TypeOK'
    BY <1>2, <1>4, <1>5, <1>6 DEF IInv, TypeOK, OnConnect
  <1>8. ListedOnlyIfConnected'
    BY <1>5 DEF IInv, TypeOK, OnConnect, ListedOnlyIfConnected
  <1> QED
    BY <1>7, <1>8, RequestsStay DEF IInv, OnConnect

LEMMA HandledoRecMsgSrvInfoIInv ==
    ASSUME IInv, NEW k \in open, HandledoRecMsgSrvInfo(k) PROVE IInv'
  <1>1. TypeOK'
    BY DEF IInv, TypeOK, HandledoRecMsgSrvInfo, Store
  <1>2. ListedOnlyIfConnected'
    BY DEF IInv, ListedOnlyIfConnected, HandledoRecMsgSrvInfo, Store
  <1> QED
    BY <1>1, <1>2, RequestsStay DEF IInv, HandledoRecMsgSrvInfo

LEMMA HandleUserCntUpdateIInv ==
    ASSUME IInv, NEW k \in open, HandleUserCntUpdate(k) PROVE IInv'
  <1>1. TypeOK'
    BY DEF IInv, TypeOK, HandleUserCntUpdate, Store
  <1>2. ListedOnlyIfConnected'
    BY DEF IInv, ListedOnlyIfConnected, HandleUserCntUpdate, Store
  <1> QED
    BY <1>1, <1>2, RequestsStay DEF IInv, HandleUserCntUpdate

\* The server this connection reported leaves the list, or is counted as left
\* there; any other server still listed is vouched for by a connection that is not
\* this one.
LEMMA CloseIInv == ASSUME IInv, NEW k \in open, Close(k) PROVE IInv'
  <1>1. /\ server' = server /\ known' = known \ {k}
        /\ listed' \subseteq listed /\ listed' \ left' \subseteq listed \ left
        /\ left' \subseteq listed'
        /\ k \in known => server[k] \notin listed' \ left'
    BY DEF IInv, TypeOK, Close, Unlist
  <1>2. TypeOK'
    BY <1>1 DEF IInv, TypeOK, Close
  <1>3. ASSUME NEW s \in listed' \ left' PROVE \E j \in known' : server'[j] = s
    <2>1. PICK j \in known : server[j] = s
      BY <1>1 DEF IInv, ListedOnlyIfConnected
    <2>2. j # k
      BY <1>1, <2>1
    <2> QED
      BY <1>1, <2>1, <2>2
  <1>4. ListedOnlyIfConnected'
    BY <1>3 DEF ListedOnlyIfConnected
  <1> QED
    BY <1>2, <1>4, RequestsStay DEF IInv, Close

\* A request read from the socket gets a number nobody has.
LEMMA HandlePduBufIInv == ASSUME IInv, NEW k \in open, HandlePduBuf(k) PROVE IInv'
  <1> USE ProxyAssumption DEF IInv
  <1>1. PICK i \in kinds, w \in Worker :
          queue' = [queue EXCEPT ![w] = Append(@, [uuid |-> k, n |-> read + 1, inline |-> i])]
    BY DEF HandlePduBuf
  <1> DEFINE r == [uuid |-> k, n |-> read + 1, inline |-> i]
  <1>2. k \in Uuid /\ read \in Nat /\ read + 1 \in 1..MaxReq /\ read' = read + 1 /\ i \in BOOLEAN
    BY DEF TypeOK, HandlePduBuf, Uuid
  <1>3. r \in Request /\ r.n = read + 1 /\ r.inline = i
    BY <1>2 DEF Request
  <1>4. /\ queue[w] \in Seq(Request) /\ queue' = [queue EXCEPT ![w] = Append(queue[w], r)]
        /\ queue \in [Worker -> Seq(Request)]
    BY <1>1 DEF TypeOK
  <1> HIDE DEF r
  <1>5. Distinct(queue[w]) /\ r.n \notin Numbers(queue[w])
    BY <1>2, <1>3 DEF OnePlace
  <1>6. /\ queue'[w] \in Seq(Request) /\ Distinct(queue'[w])
        /\ Numbers(queue'[w]) = Numbers(queue[w]) \cup {r.n}
    BY <1>3, <1>4, <1>5, AppendNumbers
  <1>7. \A v \in Worker : v # w => queue'[v] = queue[v]
    BY <1>4
  <1>8. /\ queue' \in [Worker -> Seq(Request)]
        /\ \A v \in Worker : Numbers(queue'[v]) \subseteq Numbers(queue[v]) \cup {r.n}
        /\ \A v \in Worker : v # w => Numbers(queue'[v]) = Numbers(queue[v])
        /\ \A v \in Worker : Distinct(queue'[v])
    BY <1>4, <1>6, <1>7 DEF OnePlace
  <1>9. UNCHANGED <<kinds, accepted, handle, server, open, known, listed, left, pc, job, response, got, silent>>
    BY DEF HandlePduBuf
  <1>10. TypeOK'
    BY <1>2, <1>8, <1>9 DEF TypeOK
  <1>11. JobShape' /\ AnswerToAskerFromMainThread'
    BY <1>9 DEF JobShape, AnswerToAskerFromMainThread, AnswerToAsker
  <1>12. /\ \A v \in Worker : JobNumber(v)' = JobNumber(v)
         /\ Answered' = Answered /\ Numbers(response)' = Numbers(response)
    BY <1>9 DEF JobNumber, Answered, Numbers
  <1>13. \A v \in Worker : Numbers(queue[v]) \cup JobNumber(v) \subseteq 1..read
    BY DEF OnePlace
  <1>14. r.n \notin 1..read /\ 1..read \subseteq 1..read' /\ r.n \in 1..read'
    BY <1>2, <1>3
  <1>15. OnePlace'
    <2>1. Distinct(response)' /\ \A j \in Uuid : Distinct(got[j])'
      BY <1>9 DEF OnePlace, Distinct
    <2>2. ASSUME NEW v \in Worker, NEW u \in Worker, v # u
          PROVE  Numbers(queue'[v]) \cap Numbers(queue'[u]) = {}
      <3>1. /\ Numbers(queue[v]) \cap Numbers(queue[u]) = {}
            /\ r.n \notin Numbers(queue[v]) /\ r.n \notin Numbers(queue[u])
        BY <1>13, <1>14, <2>2 DEF OnePlace
      <3> QED
        BY <1>8, <2>2, <3>1
    <2>3. ASSUME NEW v \in Worker, NEW u \in Worker PROVE JobNumber(v) \cap Numbers(queue'[u]) = {}
      <3>1. JobNumber(v) \cap Numbers(queue[u]) = {} /\ r.n \notin JobNumber(v)
        BY <1>13, <1>14 DEF OnePlace
      <3> QED
        BY <1>8, <3>1
    <2>4. ASSUME NEW v \in Worker
          PROVE  /\ (Numbers(queue'[v]) \cup JobNumber(v)) \cap (Numbers(response) \cup Answered) = {}
                 /\ Numbers(queue'[v]) \cup JobNumber(v) \subseteq 1..read'
      <3>1. r.n \notin Numbers(response) \cup Answered
        BY <1>14 DEF OnePlace
      <3>2. (Numbers(queue[v]) \cup JobNumber(v)) \cap (Numbers(response) \cup Answered) = {}
        BY DEF OnePlace
      <3> QED
        BY <1>8, <1>13, <1>14, <3>1, <3>2
    <2>5. Numbers(response) \cup Answered \subseteq 1..read'
      BY <1>14 DEF OnePlace
    <2> QED
      BY <1>8, <1>12, <2>1, <2>2, <2>3, <2>4, <2>5 DEF OnePlace
  <1>16. KindsKnown'
    <2> DEFINE q == queue[w]
               t == queue'[w]
    <2>1. /\ Len(q) \in Nat /\ Len(t) = Len(q) + 1 /\ t[Len(q) + 1] = r
          /\ \A j \in 1..Len(q) : t[j] = q[j]
      BY <1>3, <1>4, AppendProperties, LenProperties
    <2>2. \A j \in 1..Len(q) : q[j].inline \in kinds
      BY DEF KindsKnown
    <2>3. \A j \in 1..Len(t) : j \in 1..Len(q) \/ j = Len(q) + 1
      BY <2>1
    <2>4. \A j \in 1..Len(t) : t[j].inline \in kinds
      BY <1>1, <1>3, <2>1, <2>2, <2>3
    <2> QED
      BY <1>7, <1>9, <2>4 DEF KindsKnown
  <1>17. ListedOnlyIfConnected'
    BY <1>9, ConnectionsStay
  <1> QED
    BY <1>10, <1>11, <1>15, <1>16, <1>17

-----------------------------------------------------------------------------
(* Moving a request from one place to the next *)

\* A step that takes request n from where it is, and puts it at one of the later
\* places at most, leaves every request at one place.
LEMMA MovedOnce ==
    ASSUME OnePlace, read' = read, NEW n \in 1..read,
           Distinct(response)', \A v \in Worker : Distinct(queue[v])',
           \A k \in Uuid : Distinct(got[k])',
           \A v \in Worker : /\ Numbers(queue[v])' \subseteq Numbers(queue[v]) \ {n}
                             /\ JobNumber(v)' \subseteq JobNumber(v) \cup {n}
                             /\ n \in JobNumber(v)' => n \notin Numbers(response)' \cup Answered',
           \A v, u \in Worker : n \in JobNumber(v)' /\ n \in JobNumber(u)' => v = u,
           Numbers(response)' \subseteq Numbers(response) \cup {n},
           Answered' \subseteq Answered \cup {n},
           n \notin Numbers(response)' \cap Answered'
    PROVE  OnePlace'
  <1>1. ASSUME NEW v \in Worker, NEW u \in Worker
        PROVE  /\ v # u => /\ Numbers(queue[v])' \cap Numbers(queue[u])' = {}
                           /\ JobNumber(v)' \cap JobNumber(u)' = {}
               /\ JobNumber(v)' \cap Numbers(queue[u])' = {}
    <2>1. /\ v # u => /\ Numbers(queue[v]) \cap Numbers(queue[u]) = {}
                      /\ JobNumber(v) \cap JobNumber(u) = {}
          /\ JobNumber(v) \cap Numbers(queue[u]) = {}
      BY DEF OnePlace
    <2> QED
      BY <2>1
  <1>2. ASSUME NEW v \in Worker
        PROVE  /\ (Numbers(queue[v])' \cup JobNumber(v)') \cap (Numbers(response)' \cup Answered') = {}
               /\ Numbers(queue[v])' \cup JobNumber(v)' \subseteq 1..read
    <2>1. /\ (Numbers(queue[v]) \cup JobNumber(v)) \cap (Numbers(response) \cup Answered) = {}
          /\ Numbers(queue[v]) \cup JobNumber(v) \subseteq 1..read
      BY DEF OnePlace
    <2> QED
      BY <2>1
  <1>3. Numbers(response)' \cap Answered' = {} /\ Numbers(response)' \cup Answered' \subseteq 1..read
    BY DEF OnePlace
  <1> QED
    BY <1>1, <1>2, <1>3 DEF OnePlace

\* An answer sent to any set of connections is a new one to each of them.
LEMMA SentIsNew ==
    ASSUME IInv, NEW r \in Request, r.n \notin Answered, NEW conns, SendPdu(conns, r)
    PROVE  /\ got' \in [Uuid -> Seq(Request)]
           /\ \A k \in Uuid : Distinct(got[k])'
           /\ Answered' \subseteq Answered \cup {r.n}
  <1>1. ASSUME NEW k \in Uuid
        PROVE  /\ got'[k] \in Seq(Request) /\ Distinct(got'[k])
               /\ Numbers(got'[k]) \subseteq Numbers(got[k]) \cup {r.n}
    <2>1. got[k] \in Seq(Request) /\ Distinct(got[k]) /\ r.n \notin Numbers(got[k])
      BY DEF IInv, TypeOK, OnePlace, Answered
    <2>2. got'[k] = IF k \in conns THEN Append(got[k], r) ELSE got[k]
      BY DEF SendPdu
    <2> QED
      BY <2>1, <2>2, AppendNumbers
  <1>2. got' \in [Uuid -> Seq(Request)]
    BY <1>1 DEF SendPdu
  <1>3. Answered' \subseteq Answered \cup {r.n}
    BY <1>1 DEF Answered
  <1> QED
    BY <1>1, <1>2, <1>3

\* The answer at the head of the list.
LEMMA Popped ==
    ASSUME IInv, response # <<>>, response' = Tail(response)
    PROVE  /\ Head(response) \in Request /\ response' \in Seq(Request)
           /\ Distinct(response')
           /\ Head(response).n \in Numbers(response)
           /\ Numbers(response') = Numbers(response) \ {Head(response).n}
           /\ Head(response).n \in 1..read /\ Head(response).n \notin Answered
           /\ \A w \in Worker : Head(response).n \notin Numbers(queue[w]) \cup JobNumber(w)
  <1>1. response \in Seq(Request) /\ Distinct(response)
    BY DEF IInv, TypeOK, OnePlace
  <1>2. /\ Head(response) \in Request /\ Tail(response) \in Seq(Request)
        /\ Distinct(Tail(response)) /\ Head(response).n \in Numbers(response)
        /\ Numbers(Tail(response)) = Numbers(response) \ {Head(response).n}
    BY <1>1, TailNumbers
  <1> QED
    BY <1>2 DEF IInv, OnePlace

\* The main thread's answer goes to the connection with the asker's uuid.
LEMMA SendResponsePduListIInv == ASSUME IInv, SendResponsePduList PROVE IInv'
  <1> DEFINE r == Head(response)
             n == r.n
  <1>1. /\ r \in Request /\ response' \in Seq(Request) /\ Distinct(response')
        /\ n \in 1..read /\ n \notin Answered
        /\ Numbers(response') = Numbers(response) \ {n}
        /\ \A w \in Worker : n \notin Numbers(queue[w]) \cup JobNumber(w)
    BY Popped DEF SendResponsePduList
  <1>2. SendPdu(ConnByUuid(r), r)
    BY DEF SendResponsePduList
  <1> HIDE DEF r
  <1>3. /\ got' \in [Uuid -> Seq(Request)] /\ \A k \in Uuid : Distinct(got[k])'
        /\ Answered' \subseteq Answered \cup {n}
    BY <1>1, <1>2, SentIsNew
  <1>4. UNCHANGED <<kinds, accepted, handle, server, open, known, listed, left, queue, pc, job, read, silent>>
    BY DEF SendResponsePduList
  <1>5. TypeOK'
    BY <1>1, <1>3, <1>4 DEF IInv, TypeOK
  <1>6. JobShape' /\ KindsKnown' /\ ListedOnlyIfConnected'
    BY <1>4, ConnectionsStay DEF IInv, JobShape, KindsKnown
  <1>7. /\ \A v \in Worker : Numbers(queue[v])' = Numbers(queue[v]) /\ JobNumber(v)' = JobNumber(v)
        /\ \A v \in Worker : Distinct(queue[v])'
    BY <1>4 DEF IInv, OnePlace, Numbers, JobNumber, Distinct
  <1>8. OnePlace'
    <2>1. Distinct(response)' /\ Numbers(response)' = Numbers(response) \ {n}
      BY <1>1
    <2>2. OnePlace
      BY DEF IInv
    <2> HIDE DEF n
    <2> QED
      BY <1>1, <1>3, <1>4, <1>7, <2>1, <2>2, MovedOnce
  <1>9. AnswerToAskerFromMainThread'
    <2>1. ASSUME AnswerToAsker PROVE AnswerToAsker'
      <3>1. ASSUME NEW k \in Uuid, NEW x \in ToSet(got'[k]) PROVE x.uuid = k
        <4>1. got'[k] = IF k \in ConnByUuid(r) THEN Append(got[k], r) ELSE got[k]
          BY <1>2 DEF SendPdu
        <4>2. got[k] \in Seq(Request)
          BY DEF IInv, TypeOK
        <4>3. x \in ToSet(got[k]) \/ (k \in ConnByUuid(r) /\ x = r)
          BY <1>1, <4>1, <4>2, AppendProperties, LenProperties DEF ToSet
        <4> QED
          BY <2>1, <4>3 DEF AnswerToAsker, ConnByUuid
      <3> QED
        BY <3>1 DEF AnswerToAsker
    <2> QED
      BY <1>4, <2>1 DEF IInv, AnswerToAskerFromMainThread
  <1> QED
    BY <1>5, <1>6, <1>8, <1>9 DEF IInv

-----------------------------------------------------------------------------
(* The steps of the workers *)

\* The first task of a worker's list becomes the one it runs.
LEMMA ExecuteIInv == ASSUME IInv, NEW w \in Worker, Execute(w) PROVE IInv'
  <1> DEFINE r == Head(queue[w])
             n == r.n
  <1>1. /\ queue[w] \in Seq(Request) /\ queue[w] # <<>> /\ Distinct(queue[w])
        /\ queue \in [Worker -> Seq(Request)]
        /\ pc \in [Worker -> {"idle", "run", "drain", "found"}] /\ pc[w] = "idle"
        /\ job \in [Worker -> Request \cup {NoJob}]
    BY DEF IInv, TypeOK, OnePlace, Execute
  <1>2. /\ r \in Request /\ Tail(queue[w]) \in Seq(Request) /\ Distinct(Tail(queue[w]))
        /\ n \in Numbers(queue[w]) /\ Numbers(Tail(queue[w])) = Numbers(queue[w]) \ {n}
    BY <1>1, TailNumbers
  <1>3. r.inline \in kinds /\ \A i \in 1..Len(Tail(queue[w])) : Tail(queue[w])[i].inline \in kinds
    <2>1. \A i \in 1..Len(queue[w]) : queue[w][i].inline \in kinds
      BY DEF IInv, KindsKnown
    <2>2. /\ r = queue[w][1] /\ Len(queue[w]) \in Nat \ {0}
          /\ Len(Tail(queue[w])) = Len(queue[w]) - 1
          /\ \A i \in 1..Len(Tail(queue[w])) : Tail(queue[w])[i] = queue[w][i + 1]
      BY <1>1
    <2> QED
      BY <2>1, <2>2
  <1>4. /\ queue' = [queue EXCEPT ![w] = Tail(queue[w])]
        /\ pc' = [pc EXCEPT ![w] = "run"] /\ job' = [job EXCEPT ![w] = r]
        /\ UNCHANGED <<kinds, accepted, handle, server, open, known, listed, left, response, got, read, silent>>
    BY DEF Execute
  <1> HIDE DEF r
  <1>5. TypeOK'
    BY <1>1, <1>2, <1>4 DEF IInv, TypeOK
  <1>6. JobShape'
    BY <1>1, <1>2, <1>4 DEF IInv, JobShape
  <1>7. KindsKnown'
    BY <1>1, <1>3, <1>4 DEF IInv, KindsKnown
  <1>8. OnePlace'
    <2>1. OnePlace
      BY DEF IInv
    <2>2. /\ n \in 1..read /\ n \notin Numbers(response) \cup Answered
          /\ \A v \in Worker : n \notin JobNumber(v)
          /\ \A v \in Worker : v # w => n \notin Numbers(queue[v])
      BY <1>2, <2>1 DEF OnePlace
    <2>3. /\ queue'[w] = Tail(queue[w]) /\ job'[w] = r
          /\ \A v \in Worker : v # w => queue'[v] = queue[v] /\ job'[v] = job[v]
      BY <1>1, <1>4
    <2>4. ASSUME NEW v \in Worker
          PROVE  /\ Distinct(queue[v])' /\ Numbers(queue[v])' \subseteq Numbers(queue[v]) \ {n}
                 /\ JobNumber(v)' \subseteq JobNumber(v) \cup {n}
                 /\ n \in JobNumber(v)' => v = w
      BY <1>2, <2>1, <2>2, <2>3 DEF OnePlace, JobNumber
    <2>5. /\ Distinct(response)' /\ \A k \in Uuid : Distinct(got[k])'
          /\ Numbers(response)' = Numbers(response) /\ Answered' = Answered
      BY <1>4, <2>1 DEF OnePlace, Distinct, Numbers, Answered
    <2> HIDE DEF n
    <2> QED
      BY <1>4, <2>1, <2>2, <2>4, <2>5, MovedOnce
  <1>9. AnswerToAskerFromMainThread' /\ ListedOnlyIfConnected'
    BY <1>4, ConnectionsStay DEF IInv, AnswerToAskerFromMainThread, AnswerToAsker
  <1> QED
    BY <1>5, <1>6, <1>7, <1>8, <1>9 DEF IInv

\* The answer to a task goes behind the others on the list.
LEMMA RunTaskIInv == ASSUME IInv, NEW w \in Worker, RunTask(w) PROVE IInv'
  <1> DEFINE r == job[w]
             n == r.n
  <1>1. /\ pc \in [Worker -> {"idle", "run", "drain", "found"}] /\ pc[w] = "run"
        /\ job \in [Worker -> Request \cup {NoJob}]
        /\ r \in Request /\ r.inline \in kinds
    BY DEF IInv, TypeOK, JobShape, KindsKnown, RunTask
  <1>2. /\ response' = Append(response, r)
        /\ pc' = [pc EXCEPT ![w] = IF r.inline THEN "drain" ELSE "idle"]
        /\ job' = [job EXCEPT ![w] = NoJob]
        /\ UNCHANGED <<kinds, accepted, handle, server, open, known, listed, left, queue, got, read, silent>>
    BY DEF RunTask
  <1>3. n \in JobNumber(w)
    BY <1>1, ProxyAssumption DEF JobNumber, Request
  <1>4. /\ n \in 1..read /\ n \notin Numbers(response) \cup Answered
        /\ \A v \in Worker : n \notin Numbers(queue[v])
        /\ \A v \in Worker : v # w => n \notin JobNumber(v)
    BY <1>3 DEF IInv, OnePlace
  <1>5. response \in Seq(Request) /\ Distinct(response)
    BY DEF IInv, TypeOK, OnePlace
  <1> HIDE DEF r
  <1>6. /\ response' \in Seq(Request) /\ Distinct(response')
        /\ Numbers(response') = Numbers(response) \cup {n}
    BY <1>1, <1>2, <1>4, <1>5, AppendNumbers
  <1>7. TypeOK'
    BY <1>1, <1>2, <1>6 DEF IInv, TypeOK
  <1>8. JobShape'
    BY <1>1, <1>2 DEF IInv, JobShape
  <1>9. KindsKnown'
    <2>1. r.inline => TRUE \in kinds
      BY <1>1 DEF Request
    <2> QED
      BY <1>1, <1>2, <2>1 DEF IInv, KindsKnown
  <1>10. OnePlace'
    <2>1. OnePlace
      BY DEF IInv
    <2>2. job'[w] = NoJob /\ \A v \in Worker : v # w => job'[v] = job[v]
      BY <1>1, <1>2
    <2>3. ASSUME NEW v \in Worker
          PROVE  /\ Distinct(queue[v])' /\ Numbers(queue[v])' = Numbers(queue[v])
                 /\ JobNumber(v)' \subseteq JobNumber(v) /\ n \notin JobNumber(v)'
      <3>1. Distinct(queue[v])' /\ Numbers(queue[v])' = Numbers(queue[v])
        BY <1>2, <2>1 DEF OnePlace, Distinct, Numbers
      <3>2. JobNumber(v)' \subseteq JobNumber(v) /\ n \notin JobNumber(v)'
        <4>1. CASE v = w
          BY <2>2, <4>1 DEF JobNumber, NoJob
        <4>2. CASE v # w
          BY <1>4, <2>2, <4>2 DEF JobNumber
        <4> QED
          BY <4>1, <4>2
      <3> QED
        BY <3>1, <3>2
    <2>4. \A k \in Uuid : Distinct(got[k])'
      BY <1>2, <2>1 DEF OnePlace, Distinct
    <2>5. Answered' = Answered
      BY <1>2 DEF Answered, Numbers
    <2>6. Distinct(response)' /\ Numbers(response)' = Numbers(response) \cup {n}
      BY <1>6
    <2> HIDE DEF n
    <2> QED
      BY <1>2, <1>4, <2>1, <2>3, <2>4, <2>5, <2>6, MovedOnce
  <1>11. AnswerToAskerFromMainThread' /\ ListedOnlyIfConnected'
    BY <1>2, ConnectionsStay DEF IInv, AnswerToAskerFromMainThread, AnswerToAsker
  <1> QED
    BY <1>7, <1>8, <1>9, <1>10, <1>11 DEF IInv

\* A task that ends without an answer is nowhere any more.
LEMMA RunWithoutAnswerIInv == ASSUME IInv, NEW w \in Worker, RunWithoutAnswer(w) PROVE IInv'
  <1> DEFINE n == job[w].n
  <1>1. /\ pc \in [Worker -> {"idle", "run", "drain", "found"}] /\ pc[w] = "run"
        /\ job \in [Worker -> Request \cup {NoJob}] /\ job[w] \in Request
    BY DEF IInv, TypeOK, JobShape, RunWithoutAnswer
  <1>2. /\ silent' = silent \cup {n}
        /\ pc' = [pc EXCEPT ![w] = "idle"] /\ job' = [job EXCEPT ![w] = NoJob]
        /\ UNCHANGED <<kinds, accepted, handle, server, open, known, listed, left, queue,
                       response, got, read>>
    BY DEF RunWithoutAnswer
  <1>3. n \in JobNumber(w)
    BY <1>1, ProxyAssumption DEF JobNumber, Request
  <1>4. /\ n \in 1..read /\ n \notin Numbers(response) \cup Answered
        /\ \A v \in Worker : n \notin Numbers(queue[v])
        /\ \A v \in Worker : v # w => n \notin JobNumber(v)
    BY <1>3 DEF IInv, OnePlace
  <1>5. TypeOK'
    BY <1>1, <1>2, <1>4 DEF IInv, TypeOK
  <1>6. JobShape' /\ KindsKnown'
    BY <1>1, <1>2 DEF IInv, JobShape, KindsKnown
  <1>7. OnePlace'
    <2>1. OnePlace
      BY DEF IInv
    <2>2. job'[w] = NoJob /\ \A v \in Worker : v # w => job'[v] = job[v]
      BY <1>1, <1>2
    <2>3. ASSUME NEW v \in Worker
          PROVE  /\ Distinct(queue[v])' /\ Numbers(queue[v])' = Numbers(queue[v])
                 /\ JobNumber(v)' \subseteq JobNumber(v) /\ n \notin JobNumber(v)'
      <3>1. Distinct(queue[v])' /\ Numbers(queue[v])' = Numbers(queue[v])
        BY <1>2, <2>1 DEF OnePlace, Distinct, Numbers
      <3>2. JobNumber(v)' \subseteq JobNumber(v) /\ n \notin JobNumber(v)'
        <4>1. CASE v = w
          BY <1>4, <2>2, <4>1 DEF JobNumber, NoJob
        <4>2. CASE v # w
          BY <1>4, <2>2, <4>2 DEF JobNumber
        <4> QED
          BY <4>1, <4>2
      <3> QED
        BY <3>1, <3>2
    <2>4. /\ Distinct(response)' /\ \A k \in Uuid : Distinct(got[k])'
          /\ Numbers(response)' = Numbers(response) /\ Answered' = Answered
      BY <1>2, <2>1 DEF OnePlace, Distinct, Numbers, Answered
    <2> HIDE DEF n
    <2> QED
      BY <1>2, <1>4, <2>1, <2>3, <2>4, MovedOnce
  <1>8. AnswerToAskerFromMainThread' /\ ListedOnlyIfConnected'
    BY <1>2, ConnectionsStay DEF IInv, AnswerToAskerFromMainThread, AnswerToAsker
  <1> QED
    BY <1>5, <1>6, <1>7, <1>8 DEF IInv

\* A worker that drains the list holds what it took off, if the asker is there.
LEMMA PopResponseIInv == ASSUME IInv, NEW w \in Worker, PopResponse(w) PROVE IInv'
  <1> DEFINE r == Head(response)
             n == r.n
  <1>1. /\ r \in Request /\ response' \in Seq(Request) /\ Distinct(response')
        /\ n \in 1..read /\ n \notin Answered
        /\ Numbers(response') = Numbers(response) \ {n}
        /\ \A v \in Worker : n \notin Numbers(queue[v]) \cup JobNumber(v)
    BY Popped DEF PopResponse
  <1>2. \/ pc' = [pc EXCEPT ![w] = "found"] /\ job' = [job EXCEPT ![w] = r]
        \/ UNCHANGED <<pc, job>>
    BY DEF PopResponse
  <1>3. /\ pc \in [Worker -> {"idle", "run", "drain", "found"}] /\ pc[w] = "drain"
        /\ job \in [Worker -> Request \cup {NoJob}]
    BY DEF IInv, TypeOK, PopResponse
  <1>4. UNCHANGED <<kinds, accepted, handle, server, open, known, listed, left, queue, got, read, silent>>
    BY DEF PopResponse
  <1> HIDE DEF r
  <1>5. TypeOK'
    BY <1>1, <1>2, <1>3, <1>4 DEF IInv, TypeOK
  <1>6. JobShape'
    BY <1>1, <1>2, <1>3 DEF IInv, JobShape
  <1>7. KindsKnown'
    BY <1>2, <1>3, <1>4 DEF IInv, KindsKnown
  <1>8. OnePlace'
    <2>1. OnePlace
      BY DEF IInv
    <2>2. \A v \in Worker : job'[v] = job[v] \/ (v = w /\ job'[v] = r)
      BY <1>2, <1>3
    <2>3. ASSUME NEW v \in Worker
          PROVE  /\ Distinct(queue[v])' /\ Numbers(queue[v])' \subseteq Numbers(queue[v]) \ {n}
                 /\ JobNumber(v)' \subseteq JobNumber(v) \cup {n}
                 /\ n \in JobNumber(v)' => v = w
      <3>1. Distinct(queue[v])' /\ Numbers(queue[v])' = Numbers(queue[v])
        BY <1>4, <2>1 DEF OnePlace, Distinct, Numbers
      <3>2. JobNumber(v)' \subseteq JobNumber(v) \cup {n} /\ (n \in JobNumber(v)' => v = w)
        BY <1>1, <2>2 DEF JobNumber
      <3> QED
        BY <1>1, <3>1, <3>2
    <2>4. \A k \in Uuid : Distinct(got[k])'
      BY <1>4, <2>1 DEF OnePlace, Distinct
    <2>5. Answered' = Answered
      BY <1>4 DEF Answered, Numbers
    <2>6. Distinct(response)' /\ Numbers(response)' = Numbers(response) \ {n}
      BY <1>1
    <2> HIDE DEF n
    <2> QED
      BY <1>1, <1>4, <2>1, <2>3, <2>4, <2>5, <2>6, MovedOnce
  <1>9. AnswerToAskerFromMainThread' /\ ListedOnlyIfConnected'
    BY <1>4, ConnectionsStay DEF IInv, AnswerToAskerFromMainThread, AnswerToAsker
  <1> QED
    BY <1>5, <1>6, <1>7, <1>8, <1>9 DEF IInv

LEMMA ListEmptyIInv == ASSUME IInv, NEW w \in Worker, ListEmpty(w) PROVE IInv'
  <1>1. /\ pc' = [pc EXCEPT ![w] = "idle"] /\ pc[w] = "drain"
        /\ UNCHANGED <<kinds, accepted, handle, server, open, known, listed, left, queue, job,
                       response, got, read, silent>>
    BY DEF ListEmpty
  <1>2. TypeOK'
    BY <1>1 DEF IInv, TypeOK
  <1>3. JobShape' /\ KindsKnown'
    BY <1>1 DEF IInv, TypeOK, JobShape, KindsKnown
  <1>4. /\ \A v \in Worker : Numbers(queue[v])' = Numbers(queue[v]) /\ JobNumber(v)' = JobNumber(v)
        /\ Numbers(response)' = Numbers(response) /\ Answered' = Answered
    BY <1>1 DEF Numbers, JobNumber, Answered
  <1>5. /\ Distinct(response)' /\ \A v \in Worker : Distinct(queue[v])'
        /\ \A k \in Uuid : Distinct(got[k])'
    BY <1>1 DEF IInv, OnePlace, Distinct
  <1>6. OnePlace'
    BY <1>1, <1>4, <1>5 DEF IInv, OnePlace
  <1>7. AnswerToAskerFromMainThread' /\ ListedOnlyIfConnected'
    BY <1>1, ConnectionsStay DEF IInv, AnswerToAskerFromMainThread, AnswerToAsker
  <1> QED
    BY <1>2, <1>3, <1>6, <1>7 DEF IInv

\* Whoever gets the answer of a worker, it is answered now and in no other hand.
LEMMA SendToFoundIInv == ASSUME IInv, NEW w \in Worker, SendToFound(w) PROVE IInv'
  <1> DEFINE r == job[w]
             n == r.n
  <1>1. /\ pc \in [Worker -> {"idle", "run", "drain", "found"}] /\ pc[w] = "found"
        /\ job \in [Worker -> Request \cup {NoJob}]
        /\ r \in Request /\ TRUE \in kinds
    BY DEF IInv, TypeOK, JobShape, KindsKnown, SendToFound
  <1>2. /\ pc' = [pc EXCEPT ![w] = "drain"] /\ job' = [job EXCEPT ![w] = NoJob]
        /\ UNCHANGED <<kinds, accepted, handle, server, open, known, listed, left, queue,
                       response, read, silent>>
    BY DEF SendToFound
  <1>3. got' = got \/ \E conns : SendPdu(conns, r)
    BY DEF SendToFound
  <1>4. n \in JobNumber(w)
    BY <1>1, ProxyAssumption DEF JobNumber, Request
  <1>5. /\ n \in 1..read /\ n \notin Numbers(response) \cup Answered
        /\ \A v \in Worker : n \notin Numbers(queue[v])
        /\ \A v \in Worker : v # w => n \notin JobNumber(v)
    BY <1>4 DEF IInv, OnePlace
  <1> HIDE DEF r
  <1>6. /\ got' \in [Uuid -> Seq(Request)] /\ \A k \in Uuid : Distinct(got[k])'
        /\ Answered' \subseteq Answered \cup {n}
    <2>1. CASE got' = got
      BY <2>1 DEF IInv, TypeOK, OnePlace, Distinct, Answered, Numbers
    <2>2. CASE \E conns : SendPdu(conns, r)
      BY <1>1, <1>5, <2>2, SentIsNew
    <2> QED
      BY <1>3, <2>1, <2>2
  <1>7. TypeOK'
    BY <1>1, <1>2, <1>6 DEF IInv, TypeOK
  <1>8. JobShape' /\ KindsKnown'
    BY <1>1, <1>2 DEF IInv, JobShape, KindsKnown
  <1>9. OnePlace'
    <2>1. OnePlace
      BY DEF IInv
    <2>2. job'[w] = NoJob /\ \A v \in Worker : v # w => job'[v] = job[v]
      BY <1>1, <1>2
    <2>3. ASSUME NEW v \in Worker
          PROVE  /\ Distinct(queue[v])' /\ Numbers(queue[v])' = Numbers(queue[v])
                 /\ JobNumber(v)' \subseteq JobNumber(v) /\ n \notin JobNumber(v)'
      <3>1. Distinct(queue[v])' /\ Numbers(queue[v])' = Numbers(queue[v])
        BY <1>2, <2>1 DEF OnePlace, Distinct, Numbers
      <3>2. JobNumber(v)' \subseteq JobNumber(v) /\ n \notin JobNumber(v)'
        <4>1. CASE v = w
          BY <2>2, <4>1 DEF JobNumber, NoJob
        <4>2. CASE v # w
          BY <1>5, <2>2, <4>2 DEF JobNumber
        <4> QED
          BY <4>1, <4>2
      <3> QED
        BY <3>1, <3>2
    <2>4. Distinct(response)' /\ Numbers(response)' = Numbers(response)
      BY <1>2, <2>1 DEF OnePlace, Distinct, Numbers
    <2> HIDE DEF n
    <2> QED
      BY <1>2, <1>5, <1>6, <2>1, <2>3, <2>4, MovedOnce
  <1>10. AnswerToAskerFromMainThread' /\ ListedOnlyIfConnected'
    BY <1>1, <1>2, ConnectionsStay DEF AnswerToAskerFromMainThread
  <1> QED
    BY <1>7, <1>8, <1>9, <1>10 DEF IInv

-----------------------------------------------------------------------------
(* The theorems *)

LEMMA NextIInv == ASSUME IInv, [Next]_vars PROVE IInv'
  <1>1. CASE OnConnect
    BY <1>1, OnConnectIInv
  <1>2. ASSUME NEW k \in open, HandlePduBuf(k) PROVE IInv'
    BY <1>2, HandlePduBufIInv
  <1>3. ASSUME NEW k \in open, Close(k) PROVE IInv'
    BY <1>3, CloseIInv
  <1>4. ASSUME NEW k \in open, HandledoRecMsgSrvInfo(k) PROVE IInv'
    BY <1>4, HandledoRecMsgSrvInfoIInv
  <1>5. ASSUME NEW k \in open, HandleUserCntUpdate(k) PROVE IInv'
    BY <1>5, HandleUserCntUpdateIInv
  <1>6. CASE SendResponsePduList
    BY <1>6, SendResponsePduListIInv
  <1>7. ASSUME NEW w \in Worker, Work(w) PROVE IInv'
    BY <1>7, ExecuteIInv, RunTaskIInv, RunWithoutAnswerIInv, PopResponseIInv, ListEmptyIInv,
       SendToFoundIInv DEF Work
  <1>8. CASE UNCHANGED vars
    <2>1. UNCHANGED <<kinds, accepted, handle, server, open, known, listed, left, queue, pc, job,
                      response, got, read, silent>>
      BY <1>8 DEF vars
    <2>2. TypeOK'
      BY <2>1 DEF IInv, TypeOK
    <2> QED
      BY <2>1, <2>2, RequestsStay, ConnectionsStay DEF IInv
  <1> QED
    BY <1>1, <1>2, <1>3, <1>4, <1>5, <1>6, <1>7, <1>8 DEF Next

\* The inductive invariant holds for every number of connections, handles and
\* workers, whichever requests drain the answer list on their worker.
THEOREM IInvHolds == Spec => []IInv
  BY InitIInv, NextIInv, PTL DEF Spec

\* The main thread's maps and the workers' lists keep their types; in particular
\* two open connections never have one handle.
THEOREM TypeCorrect == Spec => []TypeOK
  <1>1. IInv => TypeOK
    BY DEF IInv
  <1> QED
    BY <1>1, IInvHolds, PTL

\* SendResponsePduList on the main thread answers the connection that asked, even
\* after it closed and its handle was reused.
THEOREM MainThreadAnswersAsker == Spec => []AnswerToAskerFromMainThread
  <1>1. IInv => AnswerToAskerFromMainThread
    BY DEF IInv
  <1> QED
    BY <1>1, IInvHolds, PTL

\* No connection gets two answers to a request, whichever threads drain the list.
THEOREM AnsweredAtMostOnce == Spec => []AnsweredOnce
  <1>1. ASSUME IInv PROVE AnsweredOnce
    <2>1. ASSUME NEW k \in Uuid PROVE IsInjective(got[k])
      <3>1. got[k] \in Seq(Request) /\ Distinct(got[k])
        BY <1>1 DEF IInv, TypeOK, OnePlace
      <3>2. DOMAIN got[k] = 1..Len(got[k])
        BY <3>1, LenProperties
      <3> QED
        BY <3>1, <3>2 DEF IsInjective, Distinct
    <2> QED
      BY <2>1 DEF AnsweredOnce
  <1> QED
    BY <1>1, IInvHolds, PTL

\* A server in msg_srv_list has an open connection whose Close will try to take it
\* out, unless it is there because such a try did not reach redis.
THEOREM ListedAreConnected == Spec => []ListedOnlyIfConnected
  <1>1. IInv => ListedOnlyIfConnected
    BY DEF IInv
  <1> QED
    BY <1>1, IInvHolds, PTL
=============================================================================
