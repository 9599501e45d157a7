--------------------------- MODULE FileTransfer ---------------------------
(***************************************************************************)
(* file_server: transfer tasks (transfer_task.cpp, transfer_task_manager   *)
(* .cpp) and the client connections that join them (file_client_conn.cpp), *)
(* with the part of msg_server that tells the two users of a task.         *)
(*                                                                         *)
(* Online, the server relays pull requests of the receiver to the sender   *)
(* and segments back.  Offline, the sender uploads to a file, and the      *)
(* receiver downloads it later, from a task loaded from that file.         *)
(*                                                                         *)
(* A connection keeps a raw pointer to its task (transfer_task_); deleting *)
(* the task leaves it behind in the other connections: Freed.              *)
(***************************************************************************)
EXTENDS Naturals, Sequences

CONSTANTS Conn,      \* connections of clients, each used once
          Task,      \* task ids (uuids), each given once
          NoConn,    \* NULL in from_conn_ and to_conn_
          NoTask,    \* NULL in transfer_task_; no entry in transfer_tasks_
          Freed,     \* transfer_task_ of a task that was deleted
          Segments,  \* sengment_size_ of every file
          MaxPulls,  \* bound: requests of a receiver online
          Orderly    \* what clients keep to although no handler makes them

ASSUME SegmentsAssumption == Segments \in Nat \ {0}
ASSUME NullAssumption == /\ NoConn \notin Conn
                         /\ NoTask \notin Task /\ Freed \notin Task
                         /\ NoTask # Freed
ASSUME MaxPullsAssumption == MaxPulls \in Nat

\* Clients join an end of a task with one connection at a time; log in once with
\* a connection; upload a file before the receiver is told of it, and download
\* it after.
Habit == {"oneConnection", "oneLogin", "uploadFirst"}
ASSUME OrderlyAssumption == Orderly \subseteq Habit

VARIABLES task,      \* transfer_tasks_: task id -> task object, or NoTask
          mode,      \* mode a task was created with, "none" before
          disk,      \* offline files: task id -> segments behind the header
          spoiled,   \* history: files with a segment that was not written
          cState,    \* "idle", "open", "closed"
          cTask,     \* transfer_task_
          cEnd,      \* the end of its task a connection joined (user_id_)
          ask,       \* offsets a sender online was asked for and has not answered
          got,       \* segments sent to a connection that downloads
          relayed,   \* segments and request numbers relayed to a receiver
          ahead,     \* history: receivers that asked out of turn
          notified,  \* IMFileState messages sent to clients
          knows,     \* users of a task who have its id
          listed     \* offline tasks the receiver was told are ready

vars == <<task, mode, disk, spoiled, cState, cTask, cEnd, ask, got, relayed,
          ahead, notified, knows, listed>>

(***************************************************************************)
(* Types                                                                   *)
(***************************************************************************)
End == {"from", "to"}
Other(e) == IF e = "from" THEN "to" ELSE "from"
Offset == 0 .. Segments - 1

TaskState == {"invalid", "ready", "waitingSender", "waitingReceiver",
              "waitingTransfer", "transfering", "waitingUpload", "uploading",
              "uploadEnd", "waitingDownload", "downloading"}

\* The states >= kTransferTaskStateUploadEnd.
AfterUpload == {"uploadEnd", "waitingDownload", "downloading"}

NoSeq == <<NoConn, 0>>
\* A sequence number of the receiver stands for its connection and the offset
\* it asked for.
SeqNum == (Conn \X Offset) \cup {NoSeq}

TaskObject == [mode : {"online", "offline"}, state : TaskState,
               from : Conn \cup {NoConn}, to : Conn \cup {NoConn},
               idx : 0 .. Segments, seq : SeqNum]

ASSUME NoTaskAssumption == NoTask \notin TaskObject

Notice == Task \X Conn \X {"ready", "done", "cancel"}

TypeOK ==
  /\ task \in [Task -> TaskObject \cup {NoTask}]
  /\ mode \in [Task -> {"none", "online", "offline"}]
  /\ DOMAIN disk \subseteq Task
  /\ \A t \in DOMAIN disk : disk[t] \in Seq(Offset)
  /\ spoiled \subseteq Task
  /\ cState \in [Conn -> {"idle", "open", "closed"}]
  /\ cTask \in [Conn -> Task \cup {NoTask, Freed}]
  /\ cEnd \in [Conn -> End]
  /\ ask \in [Conn -> Seq(Offset)]
  /\ got \in [Conn -> Seq(Offset)]
  /\ relayed \in [Conn -> Seq(SeqNum \X Offset)]
  /\ ahead \subseteq Conn
  /\ notified \subseteq Notice
  /\ knows \in [Task -> SUBSET End]
  /\ listed \subseteq Task

Init ==
  /\ task = [t \in Task |-> NoTask]
  /\ mode = [t \in Task |-> "none"]
  /\ disk = [t \in {} |-> <<>>]
  /\ spoiled = {}
  /\ cState = [c \in Conn |-> "idle"]
  /\ cTask = [c \in Conn |-> NoTask]
  /\ cEnd = [c \in Conn |-> "from"]
  /\ ask = [c \in Conn |-> <<>>]
  /\ got = [c \in Conn |-> <<>>]
  /\ relayed = [c \in Conn |-> <<>>]
  /\ ahead = {}
  /\ notified = {}
  /\ knows = [t \in Task |-> {}]
  /\ listed = {}

(***************************************************************************)
(* Tasks                                                                   *)
(***************************************************************************)
NewTask(m, s) == [mode |-> m, state |-> s, from |-> NoConn, to |-> NoConn,
                  idx |-> 0, seq |-> NoSeq]

\* Mutant of Loadable: LoadFromDisk does not compare the sizes.
LoadableUnfinished(t) == t \in DOMAIN disk

\* LoadFromDisk takes a file only if it is as long as its header says.
Loadable(t) == t \in DOMAIN disk /\ Len(disk[t]) = Segments

\* The state after ChangePullState.  A role that does not fit the state leaves
\* the state alone and, as rv is still true from the check of the user, the
\* login succeeds.
OnlinePullState(s, e) ==
  CASE s = "ready" -> IF e = "from" THEN "waitingReceiver" ELSE "waitingSender"
    [] <<s, e>> \in {<<"waitingReceiver", "to">>, <<"waitingSender", "from">>} ->
         "waitingTransfer"
    [] OTHER -> s

OfflinePullState(s, e) ==
  CASE s = "ready" /\ e = "from" -> "waitingUpload"
    [] s \in {"uploadEnd", "waitingDownload"} /\ e = "to" -> "waitingDownload"
    [] OTHER -> s

PullState(T, e) == IF T.mode = "online" THEN OnlinePullState(T.state, e)
                                        ELSE OfflinePullState(T.state, e)

\* Mutants of CloseEnd: the states of a finished transfer are mixed up; the task
\* goes with the first end that closes; the other end is not told to stop.
CloseEndDone(T, e) ==
  IF T[Other(e)] = NoConn THEN NoTask
  ELSE [T EXCEPT ![e] = NoConn, !.state = "transferDone"]
CloseEndFirst(T, e) ==
  IF T.mode = "online" \/ T.state # "waitingUpload" THEN NoTask
  ELSE [T EXCEPT ![e] = NoConn]
CloseEndSilent(T, e) ==
  IF (T.mode = "online" /\ T[Other(e)] # NoConn) \/ T.state = "waitingUpload"
  THEN [T EXCEPT ![e] = NoConn] ELSE NoTask

\* What Close does to the task T of a connection at end e, with
\* DeleteTransferTaskByConnClose; NoTask if the task is deleted.
CloseEnd(T, e) ==
  LET S == [T EXCEPT ![e] = NoConn,
                     !.state = IF T.mode = "online" THEN "invalid"
                               ELSE IF T.state \in AfterUpload THEN "waitingDownload"
                               ELSE T.state]
      deleted == IF T.mode = "online" THEN S.from = NoConn /\ S.to = NoConn
                                      ELSE S.state # "waitingUpload"
  IN IF deleted THEN NoTask ELSE S

(***************************************************************************)
(* Connections                                                             *)
(***************************************************************************)
Joined(c) == cState[c] = "open" /\ cTask[c] \in Task

\* The rest of a handler of c that has brought its task t to T and goes on.
Keep(t, T) == /\ task' = [task EXCEPT ![t] = T]
              /\ UNCHANGED <<cState, cTask>>

\* The rest of a handler of c that has brought its task t to T and closes c.
Close(c, t, T) ==
  LET S == CloseEnd(T, cEnd[c]) IN
  /\ task' = [task EXCEPT ![t] = S]
  /\ cState' = [cState EXCEPT ![c] = "closed"]
  /\ cTask' = [d \in Conn |-> IF d = c THEN NoTask
                              ELSE IF S = NoTask /\ cTask[d] = t THEN Freed
                              ELSE cTask[d]]

\* Close of a connection that has not joined a task.
CloseAlone(c) == /\ cState' = [cState EXCEPT ![c] = "closed"]
                 /\ UNCHANGED <<task, cTask>>

Leave(c) == IF cTask[c] = NoTask THEN CloseAlone(c)
                                 ELSE Close(c, cTask[c], task[cTask[c]])

\* OnConnect
Connect(c) ==
  /\ cState[c] = "idle"
  /\ cState' = [cState EXCEPT ![c] = "open"]
  /\ UNCHANGED <<task, mode, disk, spoiled, cTask, cEnd, ask, got, relayed, ahead,
                 notified, knows, listed>>

MayJoin(c, t, e) ==
  /\ "oneConnection" \in Orderly => \A d \in Conn : cTask[d] = t => cEnd[d] # e
  /\ "oneLogin" \in Orderly => cTask[c] = NoTask
  /\ "uploadFirst" \in Orderly => (mode[t] = "offline" => (e = "to" <=> t \in listed))

\* _HandleClientFileLoginReq: find the task, or load it for a download, and join
\* it, with whatever task the connection had joined before.
HandleLogin(c, t, e) ==
  /\ cState[c] = "open" /\ cTask[c] # Freed
  /\ e \in knows[t]
  /\ MayJoin(c, t, e)
  /\ LET load == mode[t] = "offline" /\ e = "to" /\ Loadable(t)
         found == IF task[t] = NoTask /\ load THEN NewTask("offline", "waitingDownload")
                                              ELSE task[t]
         T == [found EXCEPT !.state = PullState(found, e), ![e] = c]
     IN IF found = NoTask
        THEN Leave(c) /\ UNCHANGED <<cEnd, notified>>
        ELSE /\ task' = [task EXCEPT ![t] = T]
             /\ cTask' = [cTask EXCEPT ![c] = t]
             /\ cEnd' = [cEnd EXCEPT ![c] = e]
             /\ notified' = IF T.mode = "online" /\ T.state = "waitingTransfer"
                            THEN notified \cup {<<t, T.to, "ready">>}
                            ELSE notified
             /\ UNCHANGED cState
  /\ UNCHANGED <<mode, disk, spoiled, ask, got, relayed, ahead, knows, listed>>

\* OnClose, or OnTimer after CLIENT_TIMEOUT: the client went away.  Requests for
\* another user, task or role, and files that cannot be opened, end the same way.
OnClose(c) ==
  /\ cState[c] = "open" /\ cTask[c] # Freed
  /\ Leave(c)
  /\ UNCHANGED <<mode, disk, spoiled, cEnd, ask, got, relayed, ahead, notified, knows,
                 listed>>

\* Mutant of OnTimer: it waits for a state no task ever has.
OnTimerDone(c) ==
  /\ Joined(c)
  /\ task[cTask[c]].mode = "online" /\ task[cTask[c]].state = "transferDone"
  /\ Close(c, cTask[c], task[cTask[c]])
  /\ UNCHANGED <<mode, disk, spoiled, cEnd, ask, got, relayed, ahead, notified, knows,
                 listed>>

\* OnTimer: the other end of an online task has closed.
OnTimer(c) ==
  /\ Joined(c)
  /\ task[cTask[c]].mode = "online" /\ task[cTask[c]].state = "invalid"
  /\ Close(c, cTask[c], task[cTask[c]])
  /\ UNCHANGED <<mode, disk, spoiled, cEnd, ask, got, relayed, ahead, notified, knows,
                 listed>>

\* _HandleClientFileStates: pass the client's state s to the other end, close.
\* A client says "done" when it has all; CLIENT_FILE_REFUSE is treated as
\* CLIENT_FILE_CANCEL.
HandleStates(c, s) ==
  /\ Joined(c)
  /\ s = "done" => cEnd[c] = "to" /\ Len(relayed[c]) >= Segments
  /\ LET t == cTask[c]
         opponent == task[t][Other(cEnd[c])]
     IN /\ notified' = IF opponent = NoConn THEN notified
                                            ELSE notified \cup {<<t, opponent, s>>}
        /\ Close(c, t, task[t])
  /\ UNCHANGED <<mode, disk, spoiled, cEnd, ask, got, relayed, ahead, knows, listed>>

(***************************************************************************)
(* Online transfer                                                         *)
(***************************************************************************)
Transferable(T) == T.state \in {"waitingTransfer", "transfering"}

Asked(T) == IF T.from = NoConn THEN <<>> ELSE ask[T.from]

\* _HandleClientFilePullFileReq with OnlineTransferTask::DoPullFileRequest: the
\* receiver asks for any segment, whatever it has asked for already; the request
\* goes to the sender, its number replaces that of the one before.
PullOnline(c, off) ==
  LET t == cTask[c]
      T == task[t]
      inTurn == off = Len(relayed[c]) /\ Asked(T) = <<>>
  IN /\ Joined(c) /\ T.mode = "online" /\ cEnd[c] = "to"
     /\ Len(relayed[c]) + Len(Asked(T)) < MaxPulls
     /\ IF Transferable(T)
        THEN /\ Keep(t, [T EXCEPT !.state = "transfering", !.seq = <<c, off>>])
             /\ ask' = IF T.from = NoConn THEN ask
                       ELSE [ask EXCEPT ![T.from] = Append(@, off)]
             /\ ahead' = IF inTurn THEN ahead ELSE ahead \cup {c}
        ELSE Close(c, t, T) /\ UNCHANGED <<ask, ahead>>
     /\ UNCHANGED <<mode, disk, spoiled, cEnd, got, relayed, notified, knows, listed>>

\* _HandleClientFilePullFileRsp with OnlineTransferTask::DoRecvData: the sender
\* answers its requests in order, the answer goes to the receiver under the
\* task's request number.
SendOnline(c) ==
  LET t == cTask[c]
      T == task[t]
  IN /\ Joined(c) /\ T.mode = "online" /\ cEnd[c] = "from"
     /\ ask[c] # <<>>
     /\ ask' = [ask EXCEPT ![c] = Tail(@)]
     /\ IF Transferable(T)
        THEN /\ Keep(t, [T EXCEPT !.state = "transfering"])
             /\ relayed' = IF T.to = NoConn THEN relayed
                           ELSE [relayed EXCEPT ![T.to] = Append(@, <<T.seq, Head(ask[c])>>)]
        ELSE Close(c, t, T) /\ UNCHANGED relayed
     /\ UNCHANGED <<mode, disk, spoiled, cEnd, got, ahead, notified, knows, listed>>

(***************************************************************************)
(* Offline transfer                                                        *)
(***************************************************************************)
\* The file after a segment is written, or, when the write fails, without it.
\* The first write opens the file and writes the header.
Written(t, body) == [x \in DOMAIN disk \cup {t} |-> IF x = t THEN body ELSE disk[x]]
Body(t) == IF t \in DOMAIN disk THEN disk[t] ELSE <<>>

Uploadable(T, off) == T.state \in {"waitingUpload", "uploading"} /\ off = T.idx

\* _HandleClientFilePullFileRsp with OfflineTransferTask::DoRecvData: the
\* client sends segment off.  Results of fwrite are not looked at.
Upload(c, off) ==
  LET t == cTask[c]
      T == task[t]
      last == T.idx + 1 = Segments
      S == [T EXCEPT !.idx = @ + 1, !.state = IF last THEN "uploadEnd" ELSE "uploading"]
  IN /\ Joined(c) /\ T.mode = "offline" /\ cEnd[c] = "from"
     /\ IF Uploadable(T, off)
        THEN /\ \/ disk' = Written(t, Append(Body(t), off)) /\ UNCHANGED spoiled
                \/ disk' = Written(t, Body(t)) /\ spoiled' = spoiled \cup {t}
             /\ IF last THEN Close(c, t, S) /\ notified' = notified \cup {<<t, c, "done">>}
                        ELSE Keep(t, S) /\ UNCHANGED notified
        ELSE Close(c, t, T) /\ UNCHANGED <<disk, spoiled, notified>>
     /\ UNCHANGED <<mode, cEnd, ask, got, relayed, ahead, knows, listed>>

Downloadable(T, off) ==
  \/ T.state = "waitingDownload" /\ off = 0
  \/ T.state = "downloading" /\ off = T.idx

\* _HandleClientFilePullFileReq with OfflineTransferTask::DoPullFileRequest.
\* The last segment takes the task to kTransferTaskStateUploadEnd.
Download(c, off) ==
  LET t == cTask[c]
      T == task[t]
      last == off + 1 = Segments
      S == [T EXCEPT !.idx = off + 1, !.state = IF last THEN "uploadEnd" ELSE "downloading"]
  IN /\ Joined(c) /\ T.mode = "offline" /\ cEnd[c] = "to"
     /\ IF Downloadable(T, off) /\ t \in DOMAIN disk /\ off < Len(disk[t])
        THEN /\ got' = [got EXCEPT ![c] = Append(@, disk[t][off + 1])]
             /\ IF last THEN Close(c, t, S) /\ notified' = notified \cup {<<t, c, "done">>}
                        ELSE Keep(t, S) /\ UNCHANGED notified
        ELSE Close(c, t, T) /\ UNCHANGED <<got, notified>>
     /\ UNCHANGED <<mode, disk, spoiled, cEnd, ask, relayed, ahead, knows, listed>>

(***************************************************************************)
(* msg_server                                                              *)
(***************************************************************************)
\* _HandleMsgFileTransferReq creates the task; _HandleFileMsgTransRsp of
\* msg_server passes its id to the sender, if still connected, and to the
\* receiver, if logged in.
Create(t, m, users) ==
  /\ mode[t] = "none"
  /\ mode' = [mode EXCEPT ![t] = m]
  /\ task' = [task EXCEPT ![t] = NewTask(m, "ready")]
  /\ knows' = [knows EXCEPT ![t] = users]
  /\ UNCHANGED <<disk, spoiled, cState, cTask, cEnd, ask, got, relayed, ahead, notified, listed>>

\* HandleClientFileAddOfflineReq: the sender reports the upload, the receiver is
\* told now or when it next asks for its offline files.
AddOffline(t) ==
  /\ mode[t] = "offline"
  /\ \E c \in Conn : cEnd[c] = "from" /\ <<t, c, "done">> \in notified
  /\ t \notin listed
  /\ listed' = listed \cup {t}
  /\ knows' = [knows EXCEPT ![t] = @ \cup {"to"}]
  /\ UNCHANGED <<task, mode, disk, spoiled, cState, cTask, cEnd, ask, got, relayed, ahead,
                 notified>>

(***************************************************************************)
(* Restart of file_server: connections and tasks are gone, files stay.  It *)
(* may stop between the header and the first segment of a file.            *)
(***************************************************************************)
LoseMemory ==
  /\ task' = [t \in Task |-> NoTask]
  /\ cState' = [c \in Conn |-> IF cState[c] = "open" THEN "closed" ELSE cState[c]]
  /\ cTask' = [c \in Conn |-> NoTask]
  /\ UNCHANGED <<mode, spoiled, cEnd, ask, got, relayed, ahead, notified, knows, listed>>

Restart == /\ \E t \in Task : task[t] # NoTask
           /\ LoseMemory
           /\ UNCHANGED disk

CrashAfterHeader(c) ==
  /\ Joined(c)
  /\ task[cTask[c]].state = "waitingUpload" /\ cEnd[c] = "from"
  /\ disk' = Written(cTask[c], <<>>)
  /\ LoseMemory

Next ==
  \/ \E c \in Conn :
       \/ Connect(c) \/ OnClose(c) \/ OnTimer(c) \/ CrashAfterHeader(c)
       \/ \E s \in {"done", "cancel"} : HandleStates(c, s)
       \/ \E t \in Task, e \in End : HandleLogin(c, t, e)
       \/ SendOnline(c)
       \/ \E off \in Offset : PullOnline(c, off) \/ Upload(c, off) \/ Download(c, off)
  \/ \E t \in Task :
       \/ \E m \in {"online", "offline"}, users \in SUBSET End : Create(t, m, users)
       \/ AddOffline(t)
  \/ Restart

Spec == Init /\ [][Next]_vars

\* FileClientConnTimerCallback calls OnTimer of every connection each second.
FairSpec == Spec /\ \A c \in Conn : WF_vars(OnTimer(c))

(***************************************************************************)
(* Properties                                                              *)
(***************************************************************************)
\* No connection keeps a pointer to a deleted task (transfer_task_ is used
\* without a test in every handler), and the connections a task knows are open
\* and joined to that end of it.
EndsMatch ==
  /\ \A c \in Conn : cTask[c] # Freed
  /\ \A t \in Task, e \in End :
       task[t] # NoTask => \/ task[t][e] = NoConn
                           \/ LET c == task[t][e] IN
                              cState[c] = "open" /\ cTask[c] = t /\ cEnd[c] = e

\* A receiver online that asks for one segment after the other gets them in
\* order, each as the answer to the request it made for it, although the server
\* keeps one request number per task (SetSeqNum), checks no offset, and either
\* end may close and come back.
RelayedAsAsked ==
  \A c \in Conn \ ahead : \A i \in DOMAIN relayed[c] : relayed[c][i] = <<<<c, i - 1>>, i - 1>>

\* Each segment comes to the receiver under the number of his request for it, as
\* transfer_task.h says of mac_seq_num_ that the server records and sets it.
AnswersNumbered ==
  \A c \in Conn : \A i \in DOMAIN relayed[c] : relayed[c][i][1] = <<c, relayed[c][i][2]>>

\* The first to join an offline task must be the one who uploads (transfer_task.cpp,
\* OfflineTransferTask::ChangePullState): a receiver joins when the upload is over.
ReceiverAfterUpload ==
  \A c \in Conn :
    (Joined(c) /\ task[cTask[c]].mode = "offline" /\ cEnd[c] = "to")
      => task[cTask[c]].state \in AfterUpload

\* When an end of an online task has closed, the other is closed by its timer
\* and the task goes (Close, OnTimer).
OnlineEndsTogether ==
  \A t \in Task :
    (task[t] # NoTask /\ mode[t] = "online" /\ task[t].state = "invalid")
      ~> (task[t] = NoTask)

\* What the offline part does to files, their senders and readers is FileStore.
Told(e, t) == {c \in Conn : cEnd[c] = e /\ <<t, c, "done">> \in notified}
Store == INSTANCE FileStore WITH
  stored <- [t \in Task |-> IF t \in spoiled THEN <<>> ELSE Body(t)],
  confirmed <- {t \in Task : mode[t] = "offline" /\ Told("from", t) # {}},
  read <- got,
  finished <- UNION {Told("to", t) : t \in {x \in Task : mode[x] = "offline"}}

\* A sender is told an upload is done when the file is stored, unless a write
\* failed; readers get whole files, in order, whatever restarts in between.
FilesDelivered == Store!Spec
==========================================================================
