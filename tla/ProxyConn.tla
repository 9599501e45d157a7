----------------------------- MODULE ProxyConn ------------------------------
(***************************************************************************)
(* The connections of db_proxy_server: the main thread reads requests and  *)
(* hands each to a worker of CThreadPool chosen at random; workers put the *)
(* answers on one list, which the main thread's loop callback drains.      *)
(*                                                                         *)
(* The unread-count handler drains the list itself, on its worker thread:  *)
(* requests with inline = TRUE.                                            *)
(***************************************************************************)
EXTENDS Naturals, Sequences, FiniteSets, SequencesExt

CONSTANTS
    Handle,      \* socket handles; the system reuses a closed one
    Worker,
    Server,      \* msg_servers; each may open several connections
    MaxConn,     \* bound on the connections accepted, below 2^32: uuids are fresh
    MaxReq       \* bound on the requests read

ASSUME ProxyAssumption == MaxConn \in Nat /\ MaxReq \in Nat

Uuid == 1..MaxConn
Request == [uuid : Uuid, n : 1..MaxReq, inline : BOOLEAN]
NoJob == [uuid |-> 0, n |-> 0, inline |-> FALSE]

VARIABLES
    kinds,       \* the kinds of request (inline or not) made in this behaviour
    accepted,    \* s_uuid_alloctor
    handle,      \* uuid -> m_handle of the object
    server,      \* uuid -> the msg_server at the other end
    open,        \* keys of g_uuid_conn_map; an object outside it is deleted
    known,       \* connections with an entry in g_msg_serv_info
    listed,      \* servers in the redis hash msg_srv_list
    left,        \* those of them a process left there without removing (history)
    queue,       \* worker -> m_task_list
    pc,          \* worker -> "idle", "run", "drain" or "found" (a CProxyConn*)
    job,         \* worker -> the task it runs, or the answer it is sending
    response,    \* s_response_pdu_list
    got,         \* uuid -> the answers written to the connection's socket
    read,        \* requests read so far (bounded)
    silent       \* the requests whose handler ended without an answer (history)

vars == <<kinds, accepted, handle, server, open, known, listed, left, queue, pc, job, response, got,
          read, silent>>

TypeOK ==
    /\ kinds \subseteq BOOLEAN
    /\ accepted \in 0..MaxConn /\ read \in 0..MaxReq
    /\ handle \in [1..accepted -> Handle] /\ server \in [1..accepted -> Server]
    /\ open \subseteq 1..accepted /\ known \subseteq open /\ listed \subseteq Server /\ left \subseteq listed
    /\ \A j, k \in open : handle[j] = handle[k] => j = k
    /\ queue \in [Worker -> Seq(Request)]
    /\ pc \in [Worker -> {"idle", "run", "drain", "found"}]
    /\ job \in [Worker -> Request \cup {NoJob}]
    /\ response \in Seq(Request)
    /\ got \in [Uuid -> Seq(Request)]
    /\ silent \subseteq 1..read

Init ==
    /\ kinds \in {{FALSE}, BOOLEAN}
    /\ accepted = 0 /\ handle = <<>> /\ server = <<>>
    /\ open = {} /\ known = {}
    /\ listed \in SUBSET Server   \* redis outlives the process
    /\ left = listed
    /\ queue = [w \in Worker |-> <<>>]
    /\ pc = [w \in Worker |-> "idle"]
    /\ job = [w \in Worker |-> NoJob]
    /\ response = <<>>
    /\ got = [k \in Uuid |-> <<>>]
    /\ read = 0 /\ silent = {}

-----------------------------------------------------------------------------
(* The main thread *)

(* The system gives no handle twice before it is closed. *)
FreeHandle == Handle \ {handle[k] : k \in open}

(* The constructor and OnConnect *)
OnConnect ==
    /\ accepted < MaxConn
    /\ accepted' = accepted + 1
    /\ \E h \in FreeHandle, s \in Server :
        /\ handle' = Append(handle, h)
        /\ server' = Append(server, s)
    /\ open' = open \cup {accepted + 1}
    /\ UNCHANGED <<kinds, known, listed, left, queue, pc, job, response, got, read, silent>>

(* HandlePduBuf for a command with a handler: CThreadPool::AddTask. *)
HandlePduBuf(k) ==
    /\ k \in open /\ read < MaxReq
    /\ read' = read + 1
    /\ \E i \in kinds, w \in Worker :
        queue' = [queue EXCEPT ![w] = Append(@, [uuid |-> k, n |-> read + 1, inline |-> i])]
    /\ UNCHANGED <<kinds, accepted, handle, server, open, known, listed, left, pc, job, response, got,
                   silent>>

(* hset: stores the server in msg_srv_list if redis can be reached. *)
Store(s) == listed' \in {listed, listed \cup {s}}

(* _HandledoRecMsgSrvInfo: every connection of a msg_server reports it. *)
HandledoRecMsgSrvInfo(k) ==
    /\ k \in open
    /\ known' = known \cup {k}
    /\ Store(server[k])
    /\ UNCHANGED <<kinds, accepted, handle, server, open, left, queue, pc, job, response, got, read, silent>>

(* Mutant of HandleUserCntUpdate: g_msg_serv_info is not looked at. *)
CountUnknownToo(k) ==
    /\ k \in open
    /\ Store(server[k])
    /\ UNCHANGED <<kinds, accepted, handle, server, open, known, left, queue, pc, job, response, got, read, silent>>

(* _HandleUserCntUpdate *)
HandleUserCntUpdate(k) ==
    /\ k \in known
    /\ Store(server[k])
    /\ UNCHANGED <<kinds, accepted, handle, server, open, known, left, queue, pc, job, response, got, read, silent>>

(* hdel, of the server this connection reported; without redis it is skipped, *)
(* and nobody will do it later.                                              *)
Unlist(k) ==
    \/ /\ k \notin known
       /\ UNCHANGED <<listed, left>>
    \/ /\ k \in known
       /\ listed' = listed \ {server[k]}
       /\ left' = left \ {server[k]}
    \/ /\ k \in known
       /\ listed' = listed
       /\ left' = left \cup ({server[k]} \cap listed)

(* Mutant of Close: the entry of g_msg_serv_info stays. *)
CloseKeepsReport(k) ==
    /\ k \in open
    /\ open' = open \ {k}
    /\ Unlist(k)
    /\ UNCHANGED <<kinds, accepted, handle, server, known, queue, pc, job, response, got, read, silent>>

(* Close removes the server from msg_srv_list if this connection reported it. *)
Close(k) ==
    /\ k \in open
    /\ open' = open \ {k}
    /\ known' = known \ {k}
    /\ Unlist(k)
    /\ UNCHANGED <<kinds, accepted, handle, server, queue, pc, job, response, got, read, silent>>

(* The connection that has the handle the asker had (SendToFound, and a      *)
(* mutant of ConnByUuid).                                                    *)
ConnByHandle(r) == {k \in open : handle[k] = handle[r.uuid]}

(* get_proxy_conn_by_uuid *)
ConnByUuid(r) == {k \in open : k = r.uuid}

SendPdu(conns, r) == got' = [k \in Uuid |-> IF k \in conns THEN Append(got[k], r) ELSE got[k]]

(* Mutant of SendResponsePduList: an answer to a closed connection stays at  *)
(* the head of the list.                                                     *)
SendWhileOpen ==
    /\ response # <<>> /\ Head(response).uuid \in open
    /\ response' = Tail(response)
    /\ SendPdu(ConnByUuid(Head(response)), Head(response))
    /\ UNCHANGED <<kinds, accepted, handle, server, open, known, listed, left, queue, pc, job, read, silent>>

(* Mutant of SendResponsePduList: the answer may stay after it is sent.      *)
SendAndKeep ==
    /\ response # <<>>
    /\ SendPdu(ConnByUuid(Head(response)), Head(response))
    /\ Len(got[Head(response).uuid]) < MaxReq
    /\ response' \in {response, Tail(response)}
    /\ UNCHANGED <<kinds, accepted, handle, server, open, known, listed, left, queue, pc, job, read, silent>>

(* SendResponsePduList on the main thread, one pass of its loop. *)
SendResponsePduList ==
    /\ response # <<>>
    /\ response' = Tail(response)
    /\ SendPdu(ConnByUuid(Head(response)), Head(response))
    /\ UNCHANGED <<kinds, accepted, handle, server, open, known, listed, left, queue, pc, job, read, silent>>

-----------------------------------------------------------------------------
(* The workers *)

(* CWorkerThread::Execute takes the next task. *)
Execute(w) ==
    /\ pc[w] = "idle" /\ queue[w] # <<>>
    /\ job' = [job EXCEPT ![w] = Head(queue[w])]
    /\ queue' = [queue EXCEPT ![w] = Tail(@)]
    /\ pc' = [pc EXCEPT ![w] = "run"]
    /\ UNCHANGED <<kinds, accepted, handle, server, open, known, listed, left, response, got, read, silent>>

(* CProxyTask::run of a handler that ends in AddResponsePdu;                 *)
(* getUnreadMsgCounter calls SendResponsePduList after it.                   *)
RunTask(w) ==
    /\ pc[w] = "run"
    /\ response' = Append(response, job[w])
    /\ pc' = [pc EXCEPT ![w] = IF job[w].inline THEN "drain" ELSE "idle"]
    /\ job' = [job EXCEPT ![w] = NoJob]
    /\ UNCHANGED <<kinds, accepted, handle, server, open, known, listed, left, queue, got, read, silent>>

(* ... and of one that returns without an answer: the request cannot be      *)
(* parsed, its check failed, or the command has none.                        *)
RunWithoutAnswer(w) ==
    /\ pc[w] = "run"
    /\ silent' = silent \cup {job[w].n}
    /\ pc' = [pc EXCEPT ![w] = "idle"]
    /\ job' = [job EXCEPT ![w] = NoJob]
    /\ UNCHANGED <<kinds, accepted, handle, server, open, known, listed, left, queue, response, got, read>>

(* The worker's SendResponsePduList: the list's lock is held for the pop     *)
(* only, and the connection is looked up after it.                           *)
PopResponse(w) ==
    /\ pc[w] = "drain" /\ response # <<>>
    /\ response' = Tail(response)
    /\ IF ConnByUuid(Head(response)) # {}
       THEN /\ pc' = [pc EXCEPT ![w] = "found"]
            /\ job' = [job EXCEPT ![w] = Head(response)]
       ELSE UNCHANGED <<pc, job>>
    /\ UNCHANGED <<kinds, accepted, handle, server, open, known, listed, left, queue, got, read, silent>>

ListEmpty(w) ==
    /\ pc[w] = "drain" /\ response = <<>>
    /\ pc' = [pc EXCEPT ![w] = "idle"]
    /\ UNCHANGED <<kinds, accepted, handle, server, open, known, listed, left, queue, job, response, got, read, silent>>

(* pConn->SendPdu.  If the main thread closed the connection meanwhile, the  *)
(* object is deleted: what its memory still holds is the old handle, and the *)
(* write reaches whoever has that handle now, or nobody.                     *)
SendToFound(w) ==
    /\ pc[w] = "found"
    /\ \/ job[w].uuid \in open /\ SendPdu({job[w].uuid}, job[w])
       \/ job[w].uuid \notin open /\ SendPdu(ConnByHandle(job[w]), job[w])
       \/ job[w].uuid \notin open /\ UNCHANGED got
    /\ pc' = [pc EXCEPT ![w] = "drain"]
    /\ job' = [job EXCEPT ![w] = NoJob]
    /\ UNCHANGED <<kinds, accepted, handle, server, open, known, listed, left, queue, response, read, silent>>

Work(w) ==
    \/ Execute(w) \/ RunTask(w) \/ RunWithoutAnswer(w)
    \/ PopResponse(w) \/ ListEmpty(w) \/ SendToFound(w)

Next ==
    \/ OnConnect
    \/ \E k \in open :
        \/ HandlePduBuf(k) \/ Close(k)
        \/ HandledoRecMsgSrvInfo(k) \/ HandleUserCntUpdate(k)
    \/ SendResponsePduList
    \/ \E w \in Worker : Work(w)

Spec == Init /\ [][Next]_vars

(* The event loop calls its loop callback on every turn, the workers are     *)
(* threads of their own; nothing makes a msg_server connect or ask.          *)
FairSpec == Spec /\ WF_vars(SendResponsePduList) /\ \A w \in Worker : WF_vars(Work(w))

-----------------------------------------------------------------------------

(* An answer is written only to the connection that asked, though its task   *)
(* may end long after that connection closed and its handle was reused: what *)
(* the uuid of a CProxyConn is for.  It holds while only the main thread     *)
(* drains the list.                                                          *)
AnswerToAsker == \A k \in Uuid : \A r \in ToSet(got[k]) : r.uuid = k

AnswerToAskerFromMainThread == TRUE \notin kinds => AnswerToAsker

(* No request is answered twice, whichever threads drain the list. *)
AnsweredOnce == \A k \in Uuid : IsInjective(got[k])

(* A server in msg_srv_list has a connection whose Close will try to take it *)
(* out, unless such a try, or an earlier process, left it there: clients are *)
(* sent to a msg_server that is gone only after redis could not be reached.  *)
ListedOnlyIfConnected == \A s \in listed \ left : \E k \in known : server[k] = s

(* A request whose handler answers is answered unless its connection closes  *)
(* first, in whatever order the workers finish and whichever connections     *)
(* close meanwhile.                                                          *)
Pending(k, n) ==
    /\ k \in open
    /\ \/ \E w \in Worker : \E r \in ToSet(queue[w]) : r.uuid = k /\ r.n = n
       \/ \E w \in Worker : job[w].uuid = k /\ job[w].n = n
RequestsAnswered ==
    \A k \in Uuid : \A n \in 1..MaxReq :
        Pending(k, n) ~> (k \notin open \/ n \in silent \/ \E r \in ToSet(got[k]) : r.n = n)
=============================================================================
