-------------------------- MODULE FileTransferProofs --------------------------
(* The tasks and connections of file_server, for any number of tasks,        *)
(* connections and segments: no connection keeps a deleted task, segments    *)
(* are relayed as they were asked for, and files sent offline are a          *)
(* FileStore.                                                                *)
EXTENDS FileTransfer, SequenceTheorems, TLAPS

-----------------------------------------------------------------------------
(* Task objects *)

LEMMA Ends ==
    ASSUME NEW e \in End
    PROVE  /\ Other(e) \in End /\ Other(e) # e /\ Other(Other(e)) = e
           /\ \A d \in End : d # e => d = Other(e)
           /\ \A T : /\ e = "from" => T[e] = T.from /\ T[Other(e)] = T.to
                     /\ e = "to" => T[e] = T.to /\ T[Other(e)] = T.from
  BY DEF End, Other

\* What is left of a task one end of which closes: nothing when it was the last end of
\* an online task, or when an offline task was not waiting for its upload.
LEMMA CloseEndIs ==
    ASSUME NEW T \in TaskObject, NEW e \in End
    PROVE  LET S == CloseEnd(T, e)
           IN /\ S = NoTask <=> IF T.mode = "online" THEN T[Other(e)] = NoConn
                                                     ELSE T.state # "waitingUpload"
              /\ S # NoTask =>
                   /\ S \in TaskObject /\ S[e] = NoConn /\ S[Other(e)] = T[Other(e)]
                   /\ S.mode = T.mode /\ S.idx = T.idx /\ S.seq = T.seq
                   /\ S.state = IF T.mode = "online" THEN "invalid" ELSE T.state
  <1> DEFINE s == IF T.mode = "online" THEN "invalid"
                  ELSE IF T.state \in AfterUpload THEN "waitingDownload" ELSE T.state
             S == [T EXCEPT ![e] = NoConn, !.state = s]
             deleted == IF T.mode = "online" THEN S.from = NoConn /\ S.to = NoConn
                                             ELSE S.state # "waitingUpload"
  <1>1. s \in TaskState
    BY DEF TaskState, TaskObject
  <1>2. CloseEnd(T, e) = IF deleted THEN NoTask ELSE S
    BY DEF CloseEnd
  <1>3. T.mode # "online" => (s # "waitingUpload" <=> T.state # "waitingUpload")
                             /\ (s = "waitingUpload" => s = T.state)
    BY DEF AfterUpload
  <1>4. T.mode = "online" => s = "invalid"
    OBVIOUS
  <1> HIDE DEF s
  <1>5. /\ S \in TaskObject /\ S[e] = NoConn /\ S[Other(e)] = T[Other(e)]
        /\ S.state = s /\ S.mode = T.mode /\ S.idx = T.idx /\ S.seq = T.seq
    <2>1. CASE e = "from"
      BY <1>1, <2>1 DEF TaskObject, Other
    <2>2. CASE e = "to"
      BY <1>1, <2>2 DEF TaskObject, Other
    <2> QED
      BY <2>1, <2>2 DEF End
  <1>6. S # NoTask
    BY <1>5, NoTaskAssumption
  <1>7. (S.from = NoConn /\ S.to = NoConn) <=> T[Other(e)] = NoConn
    <2>1. e \in {"from", "to"}
      BY DEF End
    <2>2. CASE e = "from"
      BY <1>5, <2>2 DEF Other
    <2>3. CASE e = "to"
      BY <1>5, <2>3 DEF Other
    <2> QED
      BY <2>1, <2>2, <2>3
  <1> HIDE DEF S
  <1> QED
    BY <1>2, <1>3, <1>4, <1>5, <1>6, <1>7

-----------------------------------------------------------------------------
(* Types *)

\* An online task that waits for one end has the other, one that transfers has both:
\* who is told that it is ready is a connection.
EndsThere(T) == T.mode = "online" =>
  /\ T.state \in {"waitingSender", "waitingTransfer", "transfering"} => T.to # NoConn
  /\ T.state \in {"waitingReceiver", "waitingTransfer", "transfering"} => T.from # NoConn

TaskTypes == /\ task \in [Task -> TaskObject \cup {NoTask}]
             /\ cState \in [Conn -> {"idle", "open", "closed"}]
             /\ cTask \in [Conn -> Task \cup {NoTask, Freed}]
             /\ \A t \in Task : task[t] # NoTask => EndsThere(task[t])
             /\ \A c \in Conn : cTask[c] \in Task => task[cTask[c]] # NoTask
DataTypes == /\ mode \in [Task -> {"none", "online", "offline"}]
             /\ DOMAIN disk \subseteq Task
             /\ \A t \in DOMAIN disk : disk[t] \in Seq(Offset)
             /\ spoiled \subseteq Task
             /\ cEnd \in [Conn -> End]
             /\ ask \in [Conn -> Seq(Offset)]
             /\ got \in [Conn -> Seq(Offset)]
             /\ relayed \in [Conn -> Seq(SeqNum \X Offset)]
             /\ ahead \subseteq Conn
             /\ notified \subseteq Notice
             /\ knows \in [Task -> SUBSET End]
             /\ listed \subseteq Task
Types == TaskTypes /\ DataTypes

LEMMA KeepTypes ==
    ASSUME TaskTypes, NEW t \in Task, NEW T \in TaskObject, EndsThere(T), Keep(t, T)
    PROVE  TaskTypes'
  <1>1. T # NoTask
    BY NoTaskAssumption
  <1> QED
    BY <1>1 DEF TaskTypes, Keep

LEMMA CloseTypes ==
    ASSUME TaskTypes, NEW c \in Conn, NEW t \in Task, NEW T \in TaskObject, EndsThere(T),
           cEnd[c] \in End, Close(c, t, T)
    PROVE  TaskTypes'
  <1> DEFINE S == CloseEnd(T, cEnd[c])
  <1>1. /\ S \in TaskObject \cup {NoTask}
        /\ S # NoTask => EndsThere(S)
    <2>1. /\ S # NoTask => /\ S \in TaskObject /\ S.mode = T.mode
                           /\ S.mode = "online" => S.state = "invalid"
      BY CloseEndIs
    <2> QED
      BY <2>1 DEF EndsThere
  <1>2. /\ task' = [task EXCEPT ![t] = S]
        /\ cState' = [cState EXCEPT ![c] = "closed"]
        /\ cTask' = [d \in Conn |-> IF d = c THEN NoTask
                                    ELSE IF S = NoTask /\ cTask[d] = t THEN Freed ELSE cTask[d]]
    BY DEF Close
  <1> HIDE DEF S
  <1>3. /\ task' \in [Task -> TaskObject \cup {NoTask}]
        /\ cState' \in [Conn -> {"idle", "open", "closed"}]
        /\ \A x \in Task : task'[x] # NoTask => EndsThere(task'[x])
    BY <1>1, <1>2 DEF TaskTypes
  <1>4. cTask' \in [Conn -> Task \cup {NoTask, Freed}]
    BY <1>2 DEF TaskTypes
  <1>5. \A d \in Conn : cTask'[d] \in Task => task'[cTask'[d]] # NoTask
    BY <1>2, NullAssumption DEF TaskTypes
  <1> QED
    BY <1>3, <1>4, <1>5 DEF TaskTypes

LEMMA CloseAloneTypes ==
    ASSUME TaskTypes, NEW c \in Conn, CloseAlone(c) PROVE TaskTypes'
  BY DEF TaskTypes, CloseAlone

\* The task and the end of a connection that has joined one.
LEMMA JoinedTypes ==
    ASSUME Types, NEW c \in Conn, Joined(c)
    PROVE  /\ cTask[c] \in Task /\ cEnd[c] \in End
           /\ task[cTask[c]] \in TaskObject /\ EndsThere(task[cTask[c]])
  BY DEF Types, TaskTypes, DataTypes, Joined

LEMMA LeaveTypes ==
    ASSUME Types, NEW c \in Conn, cState[c] = "open", cTask[c] # Freed, Leave(c) PROVE TaskTypes'
  <1>1. CASE cTask[c] = NoTask
    BY <1>1, CloseAloneTypes DEF Leave, Types
  <1>2. CASE cTask[c] # NoTask
    <2>1. Joined(c) /\ Close(c, cTask[c], task[cTask[c]])
      BY <1>2 DEF Leave, Joined, Types, TaskTypes
    <2> QED
      BY <2>1, JoinedTypes, CloseTypes DEF Types
  <1> QED
    BY <1>1, <1>2

LEMMA InitTypes == Init => Types
  <1> SUFFICES ASSUME Init PROVE Types
    OBVIOUS
  <1>1. TaskTypes
    BY NullAssumption DEF Init, TaskTypes
  <1>2. /\ got \in [Conn -> Seq(Offset)] /\ ask \in [Conn -> Seq(Offset)] /\ relayed \in [Conn -> Seq(SeqNum \X Offset)]
        /\ DOMAIN disk = {}
    BY DEF Init
  <1>3. DataTypes
    BY <1>2 DEF Init, DataTypes, End
  <1> QED
    BY <1>1, <1>3 DEF Types

LEMMA LoginTypes ==
    ASSUME Types, NEW c \in Conn, NEW t \in Task, NEW e \in End, HandleLogin(c, t, e) PROVE Types'
  <1> DEFINE load == mode[t] = "offline" /\ e = "to" /\ Loadable(t)
             found == IF task[t] = NoTask /\ load THEN NewTask("offline", "waitingDownload") ELSE task[t]
             s == PullState(found, e)
             T == [found EXCEPT !.state = s, ![e] = c]
  <1>1. CASE found = NoTask
    <2>1. /\ cState[c] = "open" /\ cTask[c] # Freed /\ Leave(c)
          /\ UNCHANGED <<mode, disk, spoiled, cEnd, ask, got, relayed, ahead, notified, knows, listed>>
      BY <1>1 DEF HandleLogin
    <2> QED
      BY <2>1, LeaveTypes DEF Types, DataTypes
  <1>2. CASE found # NoTask
    <2>1. /\ task' = [task EXCEPT ![t] = T] /\ cTask' = [cTask EXCEPT ![c] = t]
          /\ cEnd' = [cEnd EXCEPT ![c] = e] /\ UNCHANGED cState
          /\ notified' = IF T.mode = "online" /\ T.state = "waitingTransfer"
                         THEN notified \cup {<<t, T.to, "ready">>} ELSE notified
          /\ UNCHANGED <<mode, disk, spoiled, ask, got, relayed, ahead, knows, listed>>
      BY <1>2 DEF HandleLogin
    <2>2. found \in TaskObject /\ EndsThere(found)
      <3>1. NewTask("offline", "waitingDownload") \in TaskObject
        BY SegmentsAssumption DEF NewTask, TaskObject, TaskState, SeqNum, NoSeq
      <3>2. EndsThere(NewTask("offline", "waitingDownload"))
        BY DEF EndsThere, NewTask
      <3> QED
        BY <1>2, <3>1, <3>2 DEF Types, TaskTypes
    <2> HIDE DEF found
    <2>3. s \in TaskState
      BY <2>2 DEF PullState, OnlinePullState, OfflinePullState, TaskObject, TaskState
    <2>4. /\ s = "waitingSender" => found.mode # "online" \/ (e = "to" \/ found.state = "waitingSender")
          /\ found.mode = "online" /\ s \in {"waitingSender", "waitingTransfer", "transfering"} =>
               e = "to" \/ found.to # NoConn
          /\ found.mode = "online" /\ s \in {"waitingReceiver", "waitingTransfer", "transfering"} =>
               e = "from" \/ found.from # NoConn
      BY <2>2 DEF PullState, OnlinePullState, EndsThere, End
    <2> HIDE DEF s
    <2>5. T \in TaskObject /\ T[e] = c /\ T[Other(e)] = found[Other(e)] /\ T.state = s /\ T.mode = found.mode
      <3>1. CASE e = "from"
        BY <2>2, <2>3, <3>1 DEF TaskObject, Other
      <3>2. CASE e = "to"
        BY <2>2, <2>3, <3>2 DEF TaskObject, Other
      <3> QED
        BY <3>1, <3>2 DEF End
    <2>6. EndsThere(T)
      <3>1. e = "from" => T.from = c /\ T.to = found.to
        BY <2>5 DEF Other
      <3>2. e = "to" => T.to = c /\ T.from = found.from
        BY <2>5 DEF Other
      <3> HIDE DEF T
      <3> QED
        BY <2>4, <2>5, <3>1, <3>2, NullAssumption DEF EndsThere, End
    <2> HIDE DEF T
    <2>7. TaskTypes'
      <3>1. T # NoTask
        BY <2>5, NoTaskAssumption
      <3> QED
        BY <2>1, <2>5, <2>6, <3>1 DEF Types, TaskTypes
    <2>8. notified' \subseteq Notice
      <3>1. ASSUME T.mode = "online", T.state = "waitingTransfer" PROVE T.to \in Conn
        BY <2>5, <2>6, <3>1 DEF EndsThere, TaskObject
      <3>2. \A d \in Conn : <<t, d, "ready">> \in Notice
        BY DEF Notice
      <3> QED
        BY <2>1, <3>1, <3>2 DEF Types, DataTypes
    <2>9. DataTypes'
      BY <2>1, <2>8 DEF Types, DataTypes
    <2> QED
      BY <2>7, <2>9 DEF Types
  <1> QED
    BY <1>1, <1>2

LEMMA StatesTypes ==
    ASSUME Types, NEW c \in Conn, NEW s \in {"done", "cancel"}, HandleStates(c, s) PROVE Types'
  <1> DEFINE t == cTask[c]
             opponent == task[t][Other(cEnd[c])]
  <1>1. /\ Joined(c) /\ Close(c, t, task[t])
        /\ notified' = IF opponent = NoConn THEN notified ELSE notified \cup {<<t, opponent, s>>}
        /\ UNCHANGED <<mode, disk, spoiled, cEnd, ask, got, relayed, ahead, knows, listed>>
    BY DEF HandleStates
  <1>2. t \in Task /\ cEnd[c] \in End /\ task[t] \in TaskObject /\ EndsThere(task[t])
    BY <1>1, JoinedTypes
  <1>3. TaskTypes'
    BY <1>1, <1>2, CloseTypes DEF Types
  <1>4. opponent \in Conn \cup {NoConn}
    BY <1>2 DEF TaskObject, End, Other
  <1>5. \A x \in Task, d \in Conn : <<x, d, s>> \in Notice
    BY DEF Notice
  <1> HIDE DEF t, opponent
  <1>6. notified' \subseteq Notice
    BY <1>1, <1>2, <1>4, <1>5 DEF Types, DataTypes
  <1>7. DataTypes'
    BY <1>1, <1>6 DEF Types, DataTypes
  <1> QED
    BY <1>3, <1>7 DEF Types

LEMMA OnCloseTypes == ASSUME Types, NEW c \in Conn, OnClose(c) \/ OnTimer(c) PROVE Types'
  <1>1. UNCHANGED <<mode, disk, spoiled, cEnd, ask, got, relayed, ahead, notified, knows, listed>>
    BY DEF OnClose, OnTimer
  <1>2. CASE OnClose(c)
    <2>1. TaskTypes'
      BY <1>2, LeaveTypes DEF OnClose
    <2> QED
      BY <1>1, <2>1 DEF Types, DataTypes
  <1>3. CASE OnTimer(c)
    <2>1. TaskTypes'
      BY <1>3, JoinedTypes, CloseTypes DEF OnTimer, Types
    <2> QED
      BY <1>1, <2>1 DEF Types, DataTypes
  <1> QED
    BY <1>2, <1>3

LEMMA PullOnlineTypes ==
    ASSUME Types, NEW c \in Conn, NEW off \in Offset, PullOnline(c, off) PROVE Types'
  <1> DEFINE t == cTask[c]
             S == [task[t] EXCEPT !.state = "transfering", !.seq = <<c, off>>]
  <1>1. /\ Joined(c) /\ ahead' \subseteq ahead \cup {c}
        /\ \/ /\ Transferable(task[t]) /\ Keep(t, S)
              /\ ask' = IF task[t].from = NoConn THEN ask ELSE [ask EXCEPT ![task[t].from] = Append(@, off)]
           \/ Close(c, t, task[t]) /\ UNCHANGED ask
        /\ UNCHANGED <<mode, disk, spoiled, cEnd, got, relayed, notified, knows, listed>>
    BY DEF PullOnline
  <1>2. t \in Task /\ cEnd[c] \in End /\ task[t] \in TaskObject /\ EndsThere(task[t])
    BY <1>1, JoinedTypes
  <1>4. TaskTypes'
    <2>1. CASE Transferable(task[t]) /\ Keep(t, S)
      <3>1. <<c, off>> \in SeqNum
        BY DEF SeqNum
      <3>2. S \in TaskObject /\ S.mode = task[t].mode /\ S.from = task[t].from /\ S.to = task[t].to
            /\ S.state = "transfering"
        BY <1>2, <3>1 DEF TaskObject, TaskState
      <3>3. EndsThere(S)
        BY <1>2, <2>1, <3>2 DEF EndsThere, Transferable
      <3> QED
        BY <1>2, <2>1, <3>2, <3>3, KeepTypes DEF Types
    <2>2. CASE Close(c, t, task[t])
      BY <1>2, <2>2, CloseTypes DEF Types
    <2> QED
      BY <1>1, <2>1, <2>2
  <1>5. ask' \in [Conn -> Seq(Offset)]
    <2>1. PICK d \in Conn \cup {NoConn} : d = task[t].from
      BY <1>2 DEF TaskObject
    <2>2. ask' \in {ask, [ask EXCEPT ![d] = Append(@, off)]}
      BY <1>1, <2>1
    <2>3. ask \in [Conn -> Seq(Offset)]
      BY DEF Types, DataTypes
    <2>4. d \in Conn => Append(ask[d], off) \in Seq(Offset)
      BY <2>3
    <2> QED
      BY <2>2, <2>3, <2>4
  <1>6. DataTypes'
    BY <1>1, <1>5 DEF Types, DataTypes
  <1> QED
    BY <1>4, <1>6 DEF Types

LEMMA SendOnlineTypes == ASSUME Types, NEW c \in Conn, SendOnline(c) PROVE Types'
  <1> DEFINE t == cTask[c]
             S == [task[t] EXCEPT !.state = "transfering"]
  <1>1. /\ Joined(c) /\ ask[c] # <<>> /\ ask' = [ask EXCEPT ![c] = Tail(@)]
        /\ \/ /\ Transferable(task[t]) /\ Keep(t, S)
              /\ relayed' = IF task[t].to = NoConn THEN relayed
                            ELSE [relayed EXCEPT ![task[t].to] = Append(@, <<task[t].seq, Head(ask[c])>>)]
           \/ Close(c, t, task[t]) /\ UNCHANGED relayed
        /\ UNCHANGED <<mode, disk, spoiled, cEnd, got, ahead, notified, knows, listed>>
    BY DEF SendOnline
  <1>2. t \in Task /\ cEnd[c] \in End /\ task[t] \in TaskObject /\ EndsThere(task[t])
    BY <1>1, JoinedTypes
  <1>3. TaskTypes'
    <2>1. CASE Transferable(task[t]) /\ Keep(t, S)
      <3>1. S \in TaskObject /\ S.mode = task[t].mode /\ S.from = task[t].from /\ S.to = task[t].to
            /\ S.state = "transfering"
        BY <1>2 DEF TaskObject, TaskState
      <3>2. EndsThere(S)
        BY <1>2, <2>1, <3>1 DEF EndsThere, Transferable
      <3> QED
        BY <1>2, <2>1, <3>1, <3>2, KeepTypes DEF Types
    <2>2. CASE Close(c, t, task[t])
      BY <1>2, <2>2, CloseTypes DEF Types
    <2> QED
      BY <1>1, <2>1, <2>2
  <1>4. relayed' \in [Conn -> Seq(SeqNum \X Offset)]
    <2>1. <<task[t].seq, Head(ask[c])>> \in SeqNum \X Offset
      <3>1. ask[c] \in Seq(Offset) /\ ask[c] # <<>>
        BY <1>1 DEF Types, DataTypes
      <3>2. Head(ask[c]) \in Offset
        BY <3>1
      <3> QED
        BY <1>2, <3>2 DEF TaskObject
    <2>2. task[t].to \in Conn \cup {NoConn}
      BY <1>2 DEF TaskObject
    <2>3. relayed' \in {relayed, [relayed EXCEPT ![task[t].to] = Append(@, <<task[t].seq, Head(ask[c])>>)]}
      BY <1>1
    <2>4. PICK P : P = SeqNum \X Offset
      OBVIOUS
    <2>5. PICK d \in Conn \cup {NoConn}, e \in P :
            relayed' \in {relayed, [relayed EXCEPT ![d] = Append(@, e)]}
      <3> DEFINE d == task[t].to
                 e == <<task[t].seq, Head(ask[c])>>
      <3>1. d \in Conn \cup {NoConn} /\ e \in P
        BY <2>1, <2>2, <2>4
      <3>2. relayed' \in {relayed, [relayed EXCEPT ![d] = Append(@, e)]}
        BY <2>3
      <3> HIDE DEF d, e
      <3> QED
        BY <3>1, <3>2
    <2>6. relayed \in [Conn -> Seq(P)]
      BY <2>4 DEF Types, DataTypes
    <2>7. relayed' \in [Conn -> Seq(P)]
      <3>1. ASSUME d \in Conn PROVE Append(relayed[d], e) \in Seq(P)
        <4>1. relayed[d] \in Seq(P)
          BY <2>6, <3>1
        <4> QED
          BY <4>1
      <3> QED
        BY <2>5, <2>6, <3>1
    <2> QED
      BY <2>4, <2>7
  <1>5. ask' \in [Conn -> Seq(Offset)]
    <2>1. ask \in [Conn -> Seq(Offset)]
      BY DEF Types, DataTypes
    <2>2. Tail(ask[c]) \in Seq(Offset)
      BY <1>1, <2>1
    <2> QED
      BY <1>1, <2>1, <2>2
  <1>6. DataTypes'
    BY <1>1, <1>4, <1>5 DEF Types, DataTypes
  <1> QED
    BY <1>3, <1>6 DEF Types

\* A segment is written, or it is not: the file keeps its type.
LEMMA WrittenTypes ==
    ASSUME Types, NEW t \in Task, NEW off \in Offset,
           disk' = Written(t, Append(Body(t), off)) \/ disk' = Written(t, Body(t))
    PROVE  DOMAIN disk' \subseteq Task /\ \A x \in DOMAIN disk' : disk'[x] \in Seq(Offset)
  <1>1. Body(t) \in Seq(Offset)
    BY DEF Types, DataTypes, Body
  <1>2. Append(Body(t), off) \in Seq(Offset)
    BY <1>1
  <1> QED
    BY <1>1, <1>2 DEF Written, Types, DataTypes

LEMMA UploadTypes == ASSUME Types, NEW c \in Conn, NEW off \in Offset, Upload(c, off) PROVE Types'
  <1> DEFINE t == cTask[c]
             T == task[t]
             last == T.idx + 1 = Segments
             S == [T EXCEPT !.idx = @ + 1, !.state = IF last THEN "uploadEnd" ELSE "uploading"]
  <1>1. /\ Joined(c) /\ T.mode = "offline"
        /\ \/ /\ off = T.idx
              /\ \/ disk' = Written(t, Append(Body(t), off)) /\ UNCHANGED spoiled
                 \/ disk' = Written(t, Body(t)) /\ spoiled' = spoiled \cup {t}
              /\ \/ Close(c, t, S) /\ notified' = notified \cup {<<t, c, "done">>}
                 \/ Keep(t, S) /\ UNCHANGED notified
           \/ Close(c, t, T) /\ UNCHANGED <<disk, spoiled, notified>>
        /\ UNCHANGED <<mode, cEnd, ask, got, relayed, ahead, knows, listed>>
    BY DEF Upload, Uploadable
  <1>2. t \in Task /\ cEnd[c] \in End /\ T \in TaskObject /\ EndsThere(T)
    BY <1>1, JoinedTypes
  <1>3. CASE Close(c, t, T) /\ UNCHANGED <<disk, spoiled, notified>>
    <2>1. TaskTypes'
      BY <1>2, <1>3, CloseTypes DEF Types
    <2> QED
      BY <1>1, <1>3, <2>1 DEF Types, DataTypes
  <1>4. CASE /\ off = T.idx
             /\ \/ disk' = Written(t, Append(Body(t), off)) /\ UNCHANGED spoiled
                \/ disk' = Written(t, Body(t)) /\ spoiled' = spoiled \cup {t}
             /\ \/ Close(c, t, S) /\ notified' = notified \cup {<<t, c, "done">>}
                \/ Keep(t, S) /\ UNCHANGED notified
    <2>1. S \in TaskObject /\ S.mode = "offline"
      <3>1. T.idx + 1 \in 0..Segments
        BY <1>4, SegmentsAssumption DEF Offset
      <3> QED
        BY <1>1, <1>2, <3>1 DEF TaskObject, TaskState
    <2>2. EndsThere(S)
      BY <2>1 DEF EndsThere
    <2> HIDE DEF S
    <2>3. TaskTypes'
      BY <1>2, <1>4, <2>1, <2>2, CloseTypes, KeepTypes DEF Types
    <2>4. <<t, c, "done">> \in Notice
      BY <1>2 DEF Notice
    <2>5. DataTypes'
      <3>1. DOMAIN disk' \subseteq Task /\ \A x \in DOMAIN disk' : disk'[x] \in Seq(Offset)
        BY <1>2, <1>4, WrittenTypes
      <3>2. spoiled' \subseteq Task /\ notified' \subseteq Notice
        BY <1>2, <1>4, <2>4 DEF Types, DataTypes
      <3> QED
        BY <1>1, <3>1, <3>2 DEF Types, DataTypes
    <2> QED
      BY <2>3, <2>5 DEF Types
  <1> QED
    BY <1>1, <1>3, <1>4

LEMMA DownloadTypes == ASSUME Types, NEW c \in Conn, NEW off \in Offset, Download(c, off) PROVE Types'
  <1> DEFINE t == cTask[c]
             T == task[t]
             last == off + 1 = Segments
             S == [T EXCEPT !.idx = off + 1, !.state = IF last THEN "uploadEnd" ELSE "downloading"]
  <1>1. /\ Joined(c) /\ T.mode = "offline"
        /\ \/ /\ t \in DOMAIN disk /\ off < Len(disk[t])
              /\ got' = [got EXCEPT ![c] = Append(@, disk[t][off + 1])]
              /\ \/ Close(c, t, S) /\ notified' = notified \cup {<<t, c, "done">>}
                 \/ Keep(t, S) /\ UNCHANGED notified
           \/ Close(c, t, T) /\ UNCHANGED <<got, notified>>
        /\ UNCHANGED <<mode, disk, spoiled, cEnd, ask, relayed, ahead, knows, listed>>
    BY DEF Download
  <1>2. t \in Task /\ cEnd[c] \in End /\ T \in TaskObject /\ EndsThere(T)
    BY <1>1, JoinedTypes
  <1>3. CASE Close(c, t, T) /\ UNCHANGED <<got, notified>>
    <2>1. TaskTypes'
      BY <1>2, <1>3, CloseTypes DEF Types
    <2> QED
      BY <1>1, <1>3, <2>1 DEF Types, DataTypes
  <1>4. CASE /\ t \in DOMAIN disk /\ off < Len(disk[t])
             /\ got' = [got EXCEPT ![c] = Append(@, disk[t][off + 1])]
             /\ \/ Close(c, t, S) /\ notified' = notified \cup {<<t, c, "done">>}
                \/ Keep(t, S) /\ UNCHANGED notified
    <2>1. S \in TaskObject /\ S.mode = "offline"
      <3>1. off + 1 \in 0..Segments
        BY SegmentsAssumption DEF Offset
      <3> QED
        BY <1>1, <1>2, <3>1 DEF TaskObject, TaskState
    <2>2. EndsThere(S)
      BY <2>1 DEF EndsThere
    <2> HIDE DEF S
    <2>3. TaskTypes'
      BY <1>2, <1>4, <2>1, <2>2, CloseTypes, KeepTypes DEF Types
    <2>4. <<t, c, "done">> \in Notice
      BY <1>2 DEF Notice
    <2>5. DataTypes'
      <3>1. got' \in [Conn -> Seq(Offset)]
        <4>1. disk[t] \in Seq(Offset) /\ off + 1 \in 1..Len(disk[t])
          BY <1>4, LenProperties, SegmentsAssumption DEF Types, DataTypes, Offset
        <4>2. disk[t][off + 1] \in Offset
          BY <4>1
        <4>3. Append(got[c], disk[t][off + 1]) \in Seq(Offset)
          BY <4>2 DEF Types, DataTypes
        <4> QED
          BY <1>4, <4>3 DEF Types, DataTypes
      <3>2. notified' \subseteq Notice
        BY <1>4, <2>4 DEF Types, DataTypes
      <3> QED
        BY <1>1, <3>1, <3>2 DEF Types, DataTypes
    <2> QED
      BY <2>3, <2>5 DEF Types
  <1> QED
    BY <1>1, <1>3, <1>4

LEMMA CreateTypes ==
    ASSUME Types, NEW t \in Task, NEW m \in {"online", "offline"}, NEW users \in SUBSET End,
           Create(t, m, users)
    PROVE  Types'
  <1>1. NewTask(m, "ready") \in TaskObject /\ EndsThere(NewTask(m, "ready"))
    BY SegmentsAssumption DEF NewTask, TaskObject, TaskState, SeqNum, NoSeq, EndsThere
  <1>2. NewTask(m, "ready") # NoTask
    BY <1>1, NoTaskAssumption
  <1>3. TaskTypes'
    BY <1>1, <1>2 DEF Create, Types, TaskTypes
  <1>4. DataTypes'
    BY DEF Create, Types, DataTypes
  <1> QED
    BY <1>3, <1>4 DEF Types

LEMMA AddOfflineTypes == ASSUME Types, NEW t \in Task, AddOffline(t) PROVE Types'
  <1>1. knows' \in [Task -> SUBSET End]
    BY DEF AddOffline, Types, DataTypes, End
  <1> QED
    BY <1>1 DEF AddOffline, Types, TaskTypes, DataTypes

LEMMA ConnectTypes == ASSUME Types, NEW c \in Conn, Connect(c) PROVE Types'
  BY DEF Connect, Types, TaskTypes, DataTypes

LEMMA LoseMemoryTypes ==
    ASSUME Types, LoseMemory,
           disk' = disk \/ \E t \in Task : disk' = Written(t, <<>>)
    PROVE  Types'
  <1>1. TaskTypes'
    BY NullAssumption DEF LoseMemory, Types, TaskTypes
  <1>2. DOMAIN disk' \subseteq Task /\ \A x \in DOMAIN disk' : disk'[x] \in Seq(Offset)
    <2>1. CASE disk' = disk
      BY <2>1 DEF Types, DataTypes
    <2>2. ASSUME NEW t \in Task, disk' = Written(t, <<>>)
          PROVE  DOMAIN disk' \subseteq Task /\ \A x \in DOMAIN disk' : disk'[x] \in Seq(Offset)
      BY <2>2 DEF Written, Types, DataTypes
    <2> QED
      BY <2>1, <2>2
  <1>3. DataTypes'
    BY <1>2 DEF LoseMemory, Types, DataTypes
  <1> QED
    BY <1>1, <1>3 DEF Types

LEMMA NextTypes == Types /\ [Next]_vars => Types'
  <1> SUFFICES ASSUME Types, [Next]_vars PROVE Types'
    OBVIOUS
  <1>1. ASSUME NEW c \in Conn, CrashAfterHeader(c) PROVE Types'
    BY <1>1, LoseMemoryTypes DEF CrashAfterHeader, Joined
  <1>2. CASE Restart
    BY <1>2, LoseMemoryTypes DEF Restart
  <1>3. CASE UNCHANGED vars
    BY <1>3 DEF vars, Types, TaskTypes, DataTypes
  <1>4. ASSUME NEW t \in Task, \E m \in {"online", "offline"}, users \in SUBSET End : Create(t, m, users)
        PROVE  Types'
    BY <1>4, CreateTypes
  <1>5. ASSUME NEW c \in Conn, \/ \E s \in {"done", "cancel"} : HandleStates(c, s)
                               \/ \E t \in Task, e \in End : HandleLogin(c, t, e)
        PROVE  Types'
    BY <1>5, StatesTypes, LoginTypes
  <1>6. ASSUME NEW c \in Conn,
               \E off \in Offset : PullOnline(c, off) \/ Upload(c, off) \/ Download(c, off)
        PROVE  Types'
    BY <1>6, PullOnlineTypes, UploadTypes, DownloadTypes
  <1>7. ASSUME NEW c \in Conn, Connect(c) \/ OnClose(c) \/ OnTimer(c) \/ SendOnline(c)
        PROVE  Types'
    BY <1>7, ConnectTypes, OnCloseTypes, SendOnlineTypes
  <1>8. ASSUME NEW t \in Task, AddOffline(t) PROVE Types'
    BY <1>8, AddOfflineTypes
  <1> QED
    BY <1>1, <1>2, <1>3, <1>4, <1>5, <1>6, <1>7, <1>8 DEF Next

LEMMA SpecTypes == Spec => []Types
  BY InitTypes, NextTypes, PTL DEF Spec

\* The state keeps its types, with whatever connections join a task: what is read of a
\* file, the offsets of a task and of its requests stay within the file, and who is told
\* that a task is ready is a connection.
THEOREM TypeCorrect == Spec => []TypeOK
  <1>1. Types => TypeOK
    BY DEF Types, TaskTypes, DataTypes, TypeOK
  <1> QED
    BY <1>1, SpecTypes, PTL

-----------------------------------------------------------------------------
(* The inductive invariant, when clients are orderly *)

Kind == {"ready", "done", "cancel"}
Noted(t, c, k) == <<t, c, k>> \in notified

\* A connection that has not joined a task: nothing was asked of it, nothing sent to it.
New(c) == cState[c] # "closed" /\ cTask[c] = NoTask

\* A connection that has joined a task is open and that task's connection at its end.
ConnOk(c) ==
  /\ cTask[c] # Freed
  /\ cTask[c] \in Task => /\ cState[c] = "open" /\ task[cTask[c]][cEnd[c]] = c
                          /\ mode[cTask[c]] = "offline" => relayed[c] = <<>>
  /\ New(c) => /\ ask[c] = <<>> /\ relayed[c] = <<>> /\ got[c] = <<>>
               /\ \A t \in Task, k \in Kind : ~Noted(t, c, k)

EndsOk(t) == task[t] # NoTask =>
  \A e \in End : task[t][e] # NoConn => cTask[task[t][e]] = t /\ cEnd[task[t][e]] = e

ModeOk(t) ==
  /\ task[t] # NoTask => task[t].mode = mode[t]
  /\ mode[t] = "none" => task[t] = NoTask /\ \A c \in Conn, k \in Kind : ~Noted(t, c, k)

\* The sender of task T has one request to answer, for the next segment of the receiver,
\* who asked for nothing after it.
OneAsked(T) == /\ Len(ask[T.from]) = 1
               /\ Head(ask[T.from]) = Len(relayed[T.to])
               /\ T.seq = <<T.to, Len(relayed[T.to])>>

\* While neither end has closed, a receiver that asks in turn waits for at most one segment.
OnlineOk(t) ==
  /\ task[t].state \in {"invalid", "ready", "waitingSender", "waitingReceiver",
                        "waitingTransfer", "transfering"}
  /\ task[t].state # "invalid" /\ task[t].from # NoConn =>
       \/ ask[task[t].from] = <<>>
       \/ Transferable(task[t]) /\ (task[t].to \in ahead \/ OneAsked(task[t]))

\* Until the upload is done, and so reported, only a sender is there; what is on disk is
\* what the task counts, less the segments that were not written.
Uploading(t) ==
  /\ t \notin listed /\ task[t].to = NoConn
  /\ \A c \in Conn : Noted(t, c, "done") => cEnd[c] # "from"
  /\ task[t].state \in {"ready", "waitingUpload", "uploading"}
  /\ task[t].idx < Segments
  /\ task[t].state # "uploading" => task[t].idx = 0
  /\ t \notin spoiled => Len(Body(t)) = task[t].idx
  /\ t \in spoiled => Len(Body(t)) < task[t].idx

\* After that a receiver is there, and the file is whole.
Downloading(t) ==
  /\ t \in listed /\ task[t].from = NoConn /\ task[t].to # NoConn
  /\ task[t].state \in {"waitingDownload", "downloading"}
  /\ task[t].state = "waitingDownload" => task[t].idx = 0
  /\ task[t].idx < Segments
  /\ task[t].idx = Len(got[task[t].to])
  /\ t \in DOMAIN disk /\ Len(disk[t]) = Segments

StageOk(t) == task[t] # NoTask =>
  /\ mode[t] = "online" => OnlineOk(t)
  /\ mode[t] = "offline" => Uploading(t) \/ Downloading(t)

TaskOk(t) == EndsOk(t) /\ ModeOk(t) /\ StageOk(t)

\* A file holds its segments in order, fewer than all if one was not written.
FileOk(t) ==
  /\ mode[t] # "offline" => t \notin DOMAIN disk /\ t \notin spoiled /\ t \notin listed
  /\ t \in spoiled => Len(Body(t)) < Segments
  /\ t \notin spoiled => Len(Body(t)) <= Segments /\ \A i \in 1..Len(Body(t)) : Body(t)[i] = i - 1

Rest == /\ \A c \in Conn : ConnOk(c)
        /\ \A t \in Task : TaskOk(t) /\ FileOk(t)
        /\ RelayedAsAsked

IInv == Types /\ Rest

-----------------------------------------------------------------------------
(* What a step leaves alone *)

\* A connection of a task is at one of its ends.
LEMMA AtItsEnd ==
    ASSUME IInv, NEW c \in Conn, cTask[c] \in Task
    PROVE  LET t == cTask[c]
           IN /\ cState[c] = "open" /\ task[t] \in TaskObject /\ task[t] # NoTask
              /\ cEnd[c] \in End /\ task[t][cEnd[c]] = c
  BY DEF IInv, Rest, ConnOk, Types, TaskTypes, DataTypes

LEMMA OtherTask ==
    ASSUME IInv, ahead \subseteq ahead', NEW x \in Task, task'[x] = task[x], mode'[x] = mode[x],
           x \in listed' <=> x \in listed, x \in spoiled' <=> x \in spoiled,
           x \in DOMAIN disk' <=> x \in DOMAIN disk, x \in DOMAIN disk => disk'[x] = disk[x],
           \A d \in Conn : cTask[d] = x =>
             cTask'[d] = x /\ cEnd'[d] = cEnd[d] /\ ask'[d] = ask[d] /\ got'[d] = got[d]
             /\ relayed'[d] = relayed[d],
           \A d \in Conn, k \in Kind : Noted(x, d, k)' => Noted(x, d, k) /\ cEnd'[d] = cEnd[d]
    PROVE  TaskOk(x)' /\ FileOk(x)'
  <1>1. TaskOk(x) /\ FileOk(x) /\ Body(x)' = Body(x)
    BY DEF IInv, Rest, Body
  <1>2. task[x] # NoTask => \A e \in End : task[x][e] \in Conn \cup {NoConn}
    BY DEF IInv, Types, TaskTypes, TaskObject, End
  <1>3. EndsOk(x)'
    BY <1>1, <1>2 DEF TaskOk, EndsOk
  <1>4. ModeOk(x)'
    BY <1>1 DEF TaskOk, ModeOk
  <1>5. FileOk(x)'
    BY <1>1 DEF FileOk
  <1>6. StageOk(x)'
    <2>1. CASE task[x] = NoTask
      BY <2>1 DEF StageOk
    <2>2. CASE task[x] # NoTask
      <3>1. /\ "from" \in End /\ "to" \in End
            /\ task[x].from \in Conn \cup {NoConn} /\ task[x].to \in Conn \cup {NoConn}
            /\ task[x].from # NoConn => cTask[task[x].from] = x
            /\ task[x].to # NoConn => cTask[task[x].to] = x
        BY <1>1, <1>2, <2>2 DEF TaskOk, EndsOk, End
      <3>2. OnlineOk(x) /\ task[x].mode = "online" => OnlineOk(x)'
        <4>1. task[x].mode = "online" /\ Transferable(task[x]) => task[x].to # NoConn
          BY <2>2 DEF Transferable, IInv, Types, TaskTypes, EndsThere
        <4> QED
          BY <3>1, <4>1 DEF OnlineOk, OneAsked, Transferable
      <3>3. Uploading(x) => Uploading(x)'
        <4>1. "done" \in Kind
          BY DEF Kind
        <4> QED
          BY <1>1, <4>1 DEF Uploading
      <3>4. Downloading(x) => Downloading(x)'
        BY <3>1 DEF Downloading
      <3> QED
        BY <1>1, <2>2, <3>2, <3>3, <3>4 DEF TaskOk, ModeOk, StageOk
    <2> QED
      BY <2>1, <2>2
  <1> QED
    BY <1>3, <1>4, <1>5, <1>6 DEF TaskOk

LEMMA OtherConn ==
    ASSUME IInv, NEW d \in Conn,
           cState'[d] = cState[d], cTask'[d] = cTask[d], cEnd'[d] = cEnd[d],
           cTask[d] \in Task => /\ task'[cTask[d]][cEnd[d]] = d /\ mode'[cTask[d]] = mode[cTask[d]]
                                /\ mode[cTask[d]] = "offline" => relayed'[d] = relayed[d],
           New(d) => ask'[d] = ask[d] /\ relayed'[d] = relayed[d] /\ got'[d] = got[d],
           \A t \in Task, k \in Kind : New(d) /\ Noted(t, d, k)' => Noted(t, d, k)
    PROVE  ConnOk(d)'
  BY DEF IInv, Rest, ConnOk, New

-----------------------------------------------------------------------------
(* A connection closes *)

\* The task of a connection that closes goes only when nobody else has joined it: no
\* other connection is left with it.
LEMMA CloseIs ==
    ASSUME IInv, NEW c \in Conn, NEW t \in Task, t = cTask[c], NEW T \in TaskObject,
           T.mode = task[t].mode, T.from = task[t].from, T.to = task[t].to, Close(c, t, T)
    PROVE  /\ task' = [task EXCEPT ![t] = CloseEnd(T, cEnd[c])]
           /\ cState' = [cState EXCEPT ![c] = "closed"]
           /\ cTask' = [cTask EXCEPT ![c] = NoTask]
           /\ \A d \in Conn : d # c /\ cTask[d] = t =>
                CloseEnd(T, cEnd[c]) # NoTask /\ cEnd[d] = Other(cEnd[c])
  <1> DEFINE e == cEnd[c]
             S == CloseEnd(T, e)
  <1>1. /\ task' = [task EXCEPT ![t] = S] /\ cState' = [cState EXCEPT ![c] = "closed"]
        /\ cTask' = [d \in Conn |-> IF d = c THEN NoTask
                                    ELSE IF S = NoTask /\ cTask[d] = t THEN Freed ELSE cTask[d]]
    BY DEF Close
  <1>2. e \in End /\ task[t] \in TaskObject /\ task[t] # NoTask /\ task[t][e] = c
    BY AtItsEnd
  <1>3. S = NoTask <=> IF T.mode = "online" THEN T[Other(e)] = NoConn ELSE T.state # "waitingUpload"
    BY <1>2, CloseEndIs
  <1>4. T[Other(e)] = task[t][Other(e)]
    BY <1>2 DEF End, Other
  <1>5. T.mode # "online" => task[t][Other(e)] = NoConn
    <2>1. ASSUME T.mode # "online" PROVE Uploading(t) \/ Downloading(t)
      BY <1>2, <2>1 DEF TaskObject, IInv, Rest, TaskOk, ModeOk, StageOk
    <2>2. task[t].from = NoConn \/ task[t].to = NoConn \/ T.mode = "online"
      BY <2>1 DEF Uploading, Downloading
    <2> QED
      BY <1>2, <2>2, NullAssumption DEF End, Other
  <1> HIDE DEF S
  <1>6. ASSUME NEW d \in Conn, d # c, cTask[d] = t PROVE S # NoTask /\ cEnd[d] = Other(e)
    <2>1. cEnd[d] \in End /\ task[t][cEnd[d]] = d
      BY <1>6, AtItsEnd
    <2>2. cEnd[d] = Other(e)
      BY <1>2, <1>6, <2>1, Ends
    <2>3. T[Other(e)] = d /\ d # NoConn
      BY <1>4, <2>1, <2>2, NullAssumption
    <2> QED
      BY <1>3, <1>4, <1>5, <2>2, <2>3
  <1> HIDE DEF e
  <1>7. cTask' = [cTask EXCEPT ![c] = NoTask]
    BY <1>1, <1>6 DEF IInv, Types, TaskTypes
  <1> QED
    BY <1>1, <1>6, <1>7 DEF S, e

\* A connection c of task t closes, and with it the task or this end of it; what the step
\* does to files concerns t, and only when the task goes; what it notes, concerns t and
\* the connections of t.
LEMMA CloseKeeps ==
    ASSUME IInv, Types', NEW c \in Conn, NEW t \in Task, t = cTask[c], NEW T \in TaskObject,
           T.mode = task[t].mode, T.from = task[t].from, T.to = task[t].to, Close(c, t, T),
           T = task[t] \/ (T.mode = "offline" /\ T.state # "waitingUpload"),
           UNCHANGED <<mode, cEnd, listed, relayed, ahead>>,
           \A d \in Conn : d # c => ask'[d] = ask[d] /\ got'[d] = got[d],
           \A x \in Task : x # t \/ CloseEnd(T, cEnd[c]) # NoTask =>
             /\ x \in spoiled' <=> x \in spoiled
             /\ x \in DOMAIN disk' <=> x \in DOMAIN disk
             /\ x \in DOMAIN disk => disk'[x] = disk[x],
           FileOk(t)',
           \A x \in Task, d \in Conn, k \in Kind : Noted(x, d, k)' =>
             \/ Noted(x, d, k)
             \/ /\ x = t /\ cTask[d] = t
                /\ k # "done" \/ mode[t] # "offline" \/ CloseEnd(T, cEnd[c]) = NoTask
    PROVE  Rest'
  <1> DEFINE e == cEnd[c]
             S == CloseEnd(T, e)
  <1>1. /\ task' = [task EXCEPT ![t] = S] /\ cState' = [cState EXCEPT ![c] = "closed"]
        /\ cTask' = [cTask EXCEPT ![c] = NoTask]
        /\ \A d \in Conn : d # c /\ cTask[d] = t => S # NoTask /\ cEnd[d] = Other(e)
    BY CloseIs
  <1>2. e \in End /\ task[t] \in TaskObject /\ task[t] # NoTask /\ task[t][e] = c /\ Other(e) \in End
    BY AtItsEnd, Ends
  <1>3. S # NoTask => /\ S \in TaskObject /\ S[e] = NoConn /\ S[Other(e)] = T[Other(e)]
                      /\ S.mode = T.mode /\ S.idx = T.idx
                      /\ S.state = (IF T.mode = "online" THEN "invalid" ELSE T.state)
                      /\ T.mode # "online" => T.state = "waitingUpload" /\ T = task[t]
    BY <1>2, CloseEndIs
  <1>4. T[Other(e)] = task[t][Other(e)]
    BY <1>2 DEF End, Other
  <1> HIDE DEF S, e
  <1>5. /\ task \in [Task -> TaskObject \cup {NoTask}] /\ cTask \in [Conn -> Task \cup {NoTask, Freed}]
        /\ cState \in [Conn -> {"idle", "open", "closed"}]
    BY DEF IInv, Types, TaskTypes
  <1>6. ASSUME NEW d \in Conn PROVE ConnOk(d)'
    <2>1. CASE d = c
      BY <1>1, <1>5, <2>1, NullAssumption DEF ConnOk, New
    <2>2. CASE d # c
      <3>1. cState'[d] = cState[d] /\ cTask'[d] = cTask[d]
        BY <1>1, <1>5, <2>2
      <3>2. cTask[d] \in Task => task'[cTask[d]][cEnd[d]] = d
        <4>1. CASE cTask[d] = t
          <5>1. cEnd[d] = Other(e) /\ S # NoTask /\ task[t][cEnd[d]] = d
            BY <1>1, <2>2, <4>1, AtItsEnd
          <5> QED
            BY <1>1, <1>3, <1>4, <1>5, <4>1, <5>1
        <4>2. CASE cTask[d] # t
          BY <1>1, <1>5, <4>2, AtItsEnd
        <4> QED
          BY <4>1, <4>2
      <3>3. ~New(d) \/ cTask[d] # t
        BY NullAssumption DEF New
      <3>4. \A x \in Task, k \in Kind : New(d) /\ Noted(x, d, k)' => Noted(x, d, k)
        BY <3>3
      <3> QED
        BY <2>2, <3>1, <3>2, <3>4, OtherConn
    <2> QED
      BY <2>1, <2>2
  <1>7. ASSUME NEW x \in Task, x # t PROVE TaskOk(x)' /\ FileOk(x)'
    <2>1. \A d \in Conn : cTask[d] = x => cTask'[d] = x /\ d # c
      BY <1>1, <1>5, <1>7
    <2>2. task'[x] = task[x]
      BY <1>1, <1>5, <1>7
    <2> QED
      BY <1>7, <2>1, <2>2, OtherTask
  <1>8. TaskOk(t)'
    <2>1. task'[t] = S
      BY <1>1, <1>5
    <2>2. TaskOk(t)
      BY DEF IInv, Rest
    <2>3. CASE S = NoTask
      <3>1. mode[t] # "none"
        BY <1>2, <2>2 DEF TaskOk, ModeOk
      <3> QED
        BY <2>1, <2>3, <3>1 DEF TaskOk, EndsOk, ModeOk, StageOk
    <2>4. CASE S # NoTask
      <3>1. EndsOk(t)'
        <4>1. ASSUME NEW i \in End, S[i] # NoConn PROVE cTask'[S[i]] = t /\ cEnd[S[i]] = i
          <5>1. i = Other(e) /\ i # e /\ S[i] = task[t][i]
            BY <1>2, <1>3, <1>4, <2>4, <4>1, Ends
          <5>2. cTask[S[i]] = t /\ cEnd[S[i]] = i
            BY <1>2, <2>2, <4>1, <5>1 DEF TaskOk, EndsOk
          <5>3. S[i] # c
            BY <5>1, <5>2 DEF e
          <5> QED
            BY <1>1, <1>5, <5>2, <5>3
        <4> QED
          BY <2>1, <4>1 DEF EndsOk
      <3>2. ModeOk(t)'
        <4>1. S.mode = mode[t] /\ mode[t] # "none"
          BY <1>2, <1>3, <2>2, <2>4 DEF TaskOk, ModeOk
        <4> QED
          BY <2>1, <4>1 DEF ModeOk
      <3>3. StageOk(t)'
        <4>1. T.mode = mode[t]
          BY <1>2, <2>2 DEF TaskOk, ModeOk
        <4>2. mode[t] = "online" => OnlineOk(t)'
          BY <1>3, <2>1, <2>4, <4>1 DEF OnlineOk
        <4>3. mode[t] = "offline" => Uploading(t)'
          <5>1. SUFFICES ASSUME mode[t] = "offline" PROVE Uploading(t)'
            OBVIOUS
          <5>2. Uploading(t) /\ T = task[t] /\ T.state = "waitingUpload"
            BY <1>2, <1>3, <2>2, <2>4, <4>1, <5>1 DEF TaskOk, StageOk, Uploading, Downloading
          <5>3. S.to = NoConn
            BY <1>2, <1>3, <1>4, <2>4, <5>2 DEF End, Other, Uploading
          <5>4. \A d \in Conn : Noted(t, d, "done")' => Noted(t, d, "done")
            BY <2>4, <5>1 DEF S, e, Kind
          <5>5. Body(t)' = Body(t) /\ (t \in spoiled' <=> t \in spoiled)
            BY <2>4 DEF S, e, Body
          <5> QED
            BY <1>3, <2>1, <2>4, <4>1, <5>1, <5>2, <5>3, <5>4, <5>5 DEF Uploading
        <4> QED
          BY <4>2, <4>3 DEF StageOk
      <3> QED
        BY <3>1, <3>2, <3>3 DEF TaskOk
    <2> QED
      BY <2>3, <2>4
  <1>9. RelayedAsAsked'
    BY DEF IInv, Rest, RelayedAsAsked
  <1> QED
    BY <1>6, <1>7, <1>8, <1>9 DEF Rest

LEMMA CloseAloneKeeps ==
    ASSUME IInv, NEW c \in Conn, cTask[c] = NoTask, CloseAlone(c),
           UNCHANGED <<mode, disk, spoiled, cEnd, ask, got, relayed, ahead, notified, listed>>
    PROVE  Rest'
  <1>1. cState' = [cState EXCEPT ![c] = "closed"] /\ UNCHANGED <<task, cTask>>
    BY DEF CloseAlone
  <1>2. ASSUME NEW d \in Conn PROVE ConnOk(d)'
    <2>1. CASE d = c
      BY <1>1, <2>1, NullAssumption DEF ConnOk, New, IInv, Types, TaskTypes
    <2>2. CASE d # c
      <3>1. cState'[d] = cState[d]
        BY <1>1, <2>2 DEF IInv, Types, TaskTypes
      <3> QED
        BY <1>1, <3>1, AtItsEnd, OtherConn DEF Noted
    <2> QED
      BY <2>1, <2>2
  <1>3. ASSUME NEW x \in Task PROVE TaskOk(x)' /\ FileOk(x)'
    BY <1>1, OtherTask DEF Noted
  <1>4. RelayedAsAsked'
    BY DEF IInv, Rest, RelayedAsAsked
  <1> QED
    BY <1>2, <1>3, <1>4 DEF Rest

-----------------------------------------------------------------------------
(* A handler goes on *)

\* A handler has brought task t to T, with the same connections.
LEMMA KeepKeeps ==
    ASSUME IInv, NEW t \in Task, task[t] # NoTask, NEW T \in TaskObject,
           T.from = task[t].from, T.to = task[t].to, Keep(t, T),
           UNCHANGED <<mode, cEnd, listed, notified>>, ahead \subseteq ahead',
           \A d \in Conn : cTask[d] # t => ask'[d] = ask[d] /\ got'[d] = got[d] /\ relayed'[d] = relayed[d],
           mode[t] = "offline" => relayed' = relayed,
           \A x \in Task : x # t => /\ x \in spoiled' <=> x \in spoiled
                                    /\ x \in DOMAIN disk' <=> x \in DOMAIN disk
                                    /\ x \in DOMAIN disk => disk'[x] = disk[x],
           T.mode = task[t].mode, StageOk(t)', FileOk(t)', RelayedAsAsked'
    PROVE  Rest'
  <1>1. task' = [task EXCEPT ![t] = T] /\ UNCHANGED <<cState, cTask>>
    BY DEF Keep
  <1>2. /\ task \in [Task -> TaskObject \cup {NoTask}] /\ task'[t] = T
        /\ \A x \in Task : x # t => task'[x] = task[x]
    BY <1>1 DEF IInv, Types, TaskTypes
  <1>3. \A i \in End : T[i] = task[t][i]
    BY DEF End
  <1>4. ASSUME NEW d \in Conn PROVE ConnOk(d)'
    <2>1. cTask[d] \in Task => task'[cTask[d]][cEnd[d]] = d
      BY <1>2, <1>3, AtItsEnd
    <2>2. New(d) => cTask[d] # t
      BY NullAssumption DEF New
    <2>3. cTask[d] \in Task /\ mode[cTask[d]] = "offline" => relayed'[d] = relayed[d]
      OBVIOUS
    <2> QED
      BY <1>1, <2>1, <2>2, <2>3, OtherConn DEF Noted
  <1>5. ASSUME NEW x \in Task, x # t PROVE TaskOk(x)' /\ FileOk(x)'
    BY <1>1, <1>2, <1>5, OtherTask DEF Noted
  <1>6. TaskOk(t)'
    <2>1. TaskOk(t)
      BY DEF IInv, Rest
    <2>2. EndsOk(t)'
      BY <1>1, <1>2, <1>3, <2>1 DEF TaskOk, EndsOk
    <2>3. ModeOk(t)'
      BY <1>2, <2>1 DEF TaskOk, ModeOk
    <2> QED
      BY <2>2, <2>3 DEF TaskOk
  <1> QED
    BY <1>4, <1>5, <1>6 DEF Rest

-----------------------------------------------------------------------------
(* The steps *)

LEMMA InitRest == Init => Rest
  <1> SUFFICES ASSUME Init PROVE Rest
    OBVIOUS
  <1>1. \A t \in Task : Body(t) = <<>> /\ t \notin DOMAIN disk /\ t \notin spoiled /\ t \notin listed
    BY DEF Init, Body
  <1>2. \A c \in Conn : ConnOk(c)
    BY NullAssumption DEF Init, ConnOk, Noted
  <1>3. \A t \in Task : TaskOk(t)
    BY DEF Init, TaskOk, EndsOk, ModeOk, StageOk, Noted
  <1>4. \A t \in Task : FileOk(t)
    BY <1>1, SegmentsAssumption DEF FileOk
  <1>5. RelayedAsAsked
    BY DEF Init, RelayedAsAsked
  <1> QED
    BY <1>2, <1>3, <1>4, <1>5 DEF Rest

LEMMA ConnectRest == ASSUME IInv, NEW c \in Conn, Connect(c) PROVE Rest'
  <1>1. /\ cState[c] = "idle" /\ cState' = [cState EXCEPT ![c] = "open"]
        /\ UNCHANGED <<task, mode, disk, spoiled, cTask, cEnd, ask, got, relayed, ahead, notified, knows, listed>>
    BY DEF Connect
  <1>2. ASSUME NEW d \in Conn PROVE ConnOk(d)'
    <2>1. CASE d = c
      <3>1. ConnOk(c) /\ cState'[c] = "open"
        BY <1>1 DEF IInv, Rest, Types, TaskTypes
      <3> QED
        BY <1>1, <2>1, <3>1 DEF ConnOk, New, Noted
    <2>2. CASE d # c
      <3>1. cState'[d] = cState[d]
        BY <1>1, <2>2 DEF IInv, Types, TaskTypes
      <3> QED
        BY <1>1, <3>1, AtItsEnd, OtherConn DEF Noted
    <2> QED
      BY <2>1, <2>2
  <1>3. ASSUME NEW x \in Task PROVE TaskOk(x)' /\ FileOk(x)'
    BY <1>1, OtherTask DEF Noted
  <1>4. RelayedAsAsked'
    BY <1>1 DEF IInv, Rest, RelayedAsAsked
  <1> QED
    BY <1>2, <1>3, <1>4 DEF Rest

\* A handler of c closes it, and has done nothing else but, possibly, answer.
LEMMA JustCloses ==
    ASSUME IInv, Types', NEW c \in Conn, Joined(c), Close(c, cTask[c], task[cTask[c]]),
           UNCHANGED <<mode, disk, spoiled, cEnd, got, relayed, ahead, notified, listed>>,
           \A d \in Conn : d # c => ask'[d] = ask[d]
    PROVE  Rest'
  <1> DEFINE t == cTask[c]
  <1>1. PICK u \in Task : u = t
    BY DEF Joined
  <1>2. task[u] \in TaskObject
    BY <1>1, JoinedTypes DEF IInv
  <1>3. FileOk(u)'
    BY DEF IInv, Rest, FileOk, Body
  <1>4. Close(c, u, task[u])
    BY <1>1
  <1> QED
    BY <1>1, <1>2, <1>3, <1>4, CloseKeeps DEF Noted

LEMMA OnCloseRest == ASSUME IInv, Types', NEW c \in Conn, OnClose(c) \/ OnTimer(c) PROVE Rest'
  <1>1. UNCHANGED <<mode, disk, spoiled, cEnd, ask, got, relayed, ahead, notified, knows, listed>>
    BY DEF OnClose, OnTimer
  <1>2. CASE cTask[c] = NoTask /\ CloseAlone(c)
    BY <1>1, <1>2, CloseAloneKeeps
  <1>3. CASE Joined(c) /\ Close(c, cTask[c], task[cTask[c]])
    BY <1>1, <1>3, JustCloses
  <1> QED
    BY <1>2, <1>3 DEF OnClose, OnTimer, Leave, Joined, IInv, Types, TaskTypes

\* The other end is told; that it is done is told only in an online transfer.
LEMMA StatesRest ==
    ASSUME IInv, Types', NEW c \in Conn, NEW s \in {"done", "cancel"}, HandleStates(c, s) PROVE Rest'
  <1>1. PICK t \in Task : t = cTask[c]
    BY DEF HandleStates, Joined
  <1> DEFINE opponent == task[t][Other(cEnd[c])]
  <1>2. /\ Joined(c) /\ Close(c, t, task[t])
        /\ notified' = IF opponent = NoConn THEN notified ELSE notified \cup {<<t, opponent, s>>}
        /\ UNCHANGED <<mode, disk, spoiled, cEnd, ask, got, relayed, ahead, knows, listed>>
        /\ s = "done" => Len(relayed[c]) >= Segments
    BY <1>1 DEF HandleStates
  <1>3. task[t] \in TaskObject /\ task[t] # NoTask /\ cEnd[c] \in End /\ Other(cEnd[c]) \in End
    BY <1>1, AtItsEnd, Ends
  <1>4. opponent # NoConn => cTask[opponent] = t
    BY <1>3 DEF IInv, Rest, TaskOk, EndsOk
  <1>5. s = "done" => mode[t] # "offline"
    <2>1. ConnOk(c)
      BY DEF IInv, Rest
    <2>2. Len(relayed[c]) >= Segments => relayed[c] # <<>>
      BY SegmentsAssumption
    <2> QED
      BY <1>1, <1>2, <2>1, <2>2 DEF ConnOk
  <1>6. FileOk(t)'
    BY <1>2 DEF IInv, Rest, FileOk, Body
  <1>7. \A x \in Task, d \in Conn, k \in Kind : Noted(x, d, k)' =>
          \/ Noted(x, d, k)
          \/ x = t /\ cTask[d] = t /\ (k # "done" \/ mode[t] # "offline")
    <2> HIDE DEF opponent
    <2> QED
      BY <1>2, <1>4, <1>5 DEF Noted
  <1> HIDE DEF opponent
  <1> QED
    BY <1>1, <1>2, <1>3, <1>6, <1>7, CloseKeeps

\* A receiver that asks in turn asks for its next segment when the sender has answered the
\* requests before: the request is the only one, and its number that of the task.
LEMMA PullOnlineRest ==
    ASSUME IInv, Types', NEW c \in Conn, NEW off \in Offset, PullOnline(c, off) PROVE Rest'
  <1>1. PICK t \in Task : t = cTask[c]
    BY DEF PullOnline, Joined
  <1> DEFINE S == [task[t] EXCEPT !.state = "transfering", !.seq = <<c, off>>]
             inTurn == off = Len(relayed[c]) /\ Asked(task[t]) = <<>>
  <1>3. /\ Joined(c) /\ task[t].mode = "online" /\ cEnd[c] = "to"
        /\ \/ /\ Transferable(task[t]) /\ Keep(t, S)
              /\ ask' = IF task[t].from = NoConn THEN ask
                        ELSE [ask EXCEPT ![task[t].from] = Append(@, off)]
              /\ ahead' = IF inTurn THEN ahead ELSE ahead \cup {c}
           \/ Close(c, t, task[t]) /\ UNCHANGED <<ask, ahead>>
        /\ UNCHANGED <<mode, disk, spoiled, cEnd, got, relayed, notified, knows, listed>>
    BY <1>1 DEF PullOnline
  <1>4. CASE Close(c, t, task[t]) /\ UNCHANGED <<ask, ahead>>
    BY <1>1, <1>3, <1>4, JustCloses
  <1>5. CASE /\ Transferable(task[t]) /\ Keep(t, S)
             /\ ask' = IF task[t].from = NoConn THEN ask
                       ELSE [ask EXCEPT ![task[t].from] = Append(@, off)]
             /\ ahead' = IF inTurn THEN ahead ELSE ahead \cup {c}
    <2>1. /\ task[t] \in TaskObject /\ task[t] # NoTask /\ task[t].to = c /\ TaskOk(t)
          /\ task[t].from # NoConn /\ task[t].from \in Conn
      <3>1. task[t] \in TaskObject /\ task[t] # NoTask /\ task[t]["to"] = c
        BY <1>1, <1>3, AtItsEnd
      <3>2. EndsThere(task[t]) /\ TaskOk(t)
        BY <3>1 DEF IInv, Types, TaskTypes, Rest
      <3> QED
        BY <1>3, <1>5, <3>1, <3>2 DEF EndsThere, Transferable, TaskObject
    <2>2. PICK f \in Conn : f = task[t].from
      BY <2>1
    <2>12. /\ S \in TaskObject /\ S.from = f /\ S.to = c /\ S.mode = "online"
          /\ S.state = "transfering" /\ S.seq = <<c, off>>
      <3>1. <<c, off>> \in SeqNum
        BY DEF SeqNum
      <3> QED
        BY <1>3, <2>1, <2>2, <3>1 DEF TaskObject, TaskState
    <2> HIDE DEF S
    <2>3. PICK U \in TaskObject : /\ U = S /\ U.from = f /\ U.to = c /\ U.mode = "online"
                                  /\ U.state = "transfering" /\ U.seq = <<c, off>>
      BY <2>12
    <2>4. cTask[f] = t
      BY <2>1, <2>2 DEF TaskOk, EndsOk, End
    <2>5. ask' = [ask EXCEPT ![f] = Append(ask[f], off)] /\ ask \in [Conn -> Seq(Offset)]
      BY <1>5, <2>1, <2>2 DEF IInv, Types, DataTypes
    <2>6. task'[t] = U /\ ask'[f] = Append(ask[f], off) /\ \A d \in Conn : d # f => ask'[d] = ask[d]
      BY <1>5, <2>1, <2>3, <2>5 DEF Keep, IInv, Types, TaskTypes
    <2>7. mode[t] = "online"
      BY <1>3, <2>1 DEF TaskOk, ModeOk
    <2>8. ahead \subseteq ahead' /\ (c \notin ahead' => inTurn)
      BY <1>5
    <2>9. StageOk(t)'
      <3>1. ASSUME c \notin ahead' PROVE OneAsked(U)'
        <4>1. off = Len(relayed[c]) /\ ask[f] = <<>>
          <5>1. inTurn /\ task[t].from # NoConn
            BY <2>1, <2>8, <3>1
          <5> QED
            BY <2>2, <5>1 DEF Asked
        <4>2. ask'[f] = <<off>>
          BY <2>6, <4>1
        <4>3. relayed' = relayed
          BY <1>3
        <4>4. Len(ask'[f]) = 1 /\ Head(ask'[f]) = off
          BY <4>2
        <4> QED
          BY <2>3, <4>1, <4>3, <4>4 DEF OneAsked
      <3>2. OnlineOk(t)'
        BY <2>3, <2>6, <3>1 DEF OnlineOk, Transferable
      <3> QED
        BY <1>3, <2>7, <3>2 DEF StageOk
    <2>10. FileOk(t)' /\ RelayedAsAsked'
      BY <1>3, <2>8 DEF IInv, Rest, FileOk, Body, RelayedAsAsked
    <2>11. \A d \in Conn : cTask[d] # t => ask'[d] = ask[d]
      BY <2>4, <2>6
    <2> HIDE DEF inTurn
    <2> QED
      BY <1>3, <1>5, <2>1, <2>2, <2>3, <2>7, <2>8, <2>9, <2>10, <2>11, KeepKeeps
  <1> QED
    BY <1>3, <1>4, <1>5

\* The sender answers the first request it has: of a receiver that asks in turn the only
\* one, which is the one the task numbers.
LEMMA SendOnlineRest == ASSUME IInv, Types', NEW c \in Conn, SendOnline(c) PROVE Rest'
  <1>1. PICK t \in Task : t = cTask[c]
    BY DEF SendOnline, Joined
  <1> DEFINE S == [task[t] EXCEPT !.state = "transfering"]
  <1>2. /\ Joined(c) /\ ask[c] # <<>> /\ ask' = [ask EXCEPT ![c] = Tail(@)]
        /\ task[t].mode = "online" /\ cEnd[c] = "from"
        /\ \/ /\ Transferable(task[t]) /\ Keep(t, S)
              /\ relayed' = IF task[t].to = NoConn THEN relayed
                            ELSE [relayed EXCEPT ![task[t].to] = Append(@, <<task[t].seq, Head(ask[c])>>)]
           \/ Close(c, t, task[t]) /\ UNCHANGED relayed
        /\ UNCHANGED <<mode, disk, spoiled, cEnd, got, ahead, notified, knows, listed>>
    BY <1>1 DEF SendOnline
  <1>3. \A d \in Conn : d # c => ask'[d] = ask[d]
    BY <1>2 DEF IInv, Types, DataTypes
  <1>4. CASE Close(c, t, task[t]) /\ UNCHANGED relayed
    BY <1>1, <1>2, <1>3, <1>4, JustCloses
  <1>5. CASE /\ Transferable(task[t]) /\ Keep(t, S)
             /\ relayed' = IF task[t].to = NoConn THEN relayed
                           ELSE [relayed EXCEPT ![task[t].to] = Append(@, <<task[t].seq, Head(ask[c])>>)]
    <2>1. /\ task[t] \in TaskObject /\ task[t] # NoTask /\ task[t].from = c /\ TaskOk(t)
          /\ task[t].to # NoConn /\ task[t].to \in Conn
      <3>1. task[t] \in TaskObject /\ task[t] # NoTask /\ task[t]["from"] = c
        BY <1>1, <1>2, AtItsEnd
      <3>2. EndsThere(task[t]) /\ TaskOk(t)
        BY <3>1 DEF IInv, Types, TaskTypes, Rest
      <3> QED
        BY <1>2, <1>5, <3>1, <3>2 DEF EndsThere, Transferable, TaskObject
    <2>2. PICK r \in Conn : r = task[t].to
      BY <2>1
    <2>3. /\ S \in TaskObject /\ S.from = c /\ S.to = r /\ S.mode = "online"
          /\ S.state = "transfering"
      BY <1>2, <2>1, <2>2 DEF TaskObject, TaskState
    <2> HIDE DEF S
    <2>4. mode[t] = "online"
      BY <1>2, <2>1 DEF TaskOk, ModeOk
    <2>5. cTask[r] = t
      BY <2>1, <2>2 DEF TaskOk, EndsOk, End
    <2>6. r \notin ahead => /\ task[t].seq = <<r, Len(relayed[r])>> /\ Head(ask[c]) = Len(relayed[r])
                            /\ Len(ask[c]) = 1
      <3>1. OnlineOk(t) /\ task[t].state # "invalid" /\ NoConn # c
        BY <1>5, <2>1, <2>4, NullAssumption DEF TaskOk, StageOk, Transferable
      <3> QED
        BY <1>2, <2>1, <2>2, <3>1 DEF OnlineOk, OneAsked
    <2>13. PICK a : a = <<task[t].seq, Head(ask[c])>>
      OBVIOUS
    <2>7. /\ relayed' = [relayed EXCEPT ![r] = Append(relayed[r], a)]
          /\ r \notin ahead => a = <<<<r, Len(relayed[r])>>, Len(relayed[r])>>
      BY <1>5, <2>1, <2>2, <2>6, <2>13
    <2>8. RelayedAsAsked'
      <3>7. CASE r \in ahead
        BY <1>2, <2>7, <3>7 DEF IInv, Rest, RelayedAsAsked, Types, DataTypes
      <3> SUFFICES ASSUME r \notin ahead PROVE RelayedAsAsked'
        BY <3>7
      <3> DEFINE l == relayed[r]
                 x == <<<<r, Len(l)>>, Len(l)>>
      <3>1. l \in Seq(SeqNum \X Offset) /\ \A i \in DOMAIN l : l[i] = <<<<r, i - 1>>, i - 1>>
        BY DEF IInv, Rest, RelayedAsAsked, Types, DataTypes
      <3>2. PICK P : l \in Seq(P)
        BY <3>1
      <3>3. x = <<<<r, (Len(l) + 1) - 1>>, (Len(l) + 1) - 1>>
        <4>1. Len(l) \in Nat /\ (Len(l) + 1) - 1 = Len(l)
          BY <3>2
        <4> QED
          BY <4>1
      <3> HIDE DEF x
      <3>4. /\ DOMAIN Append(l, x) = 1..(Len(l) + 1) /\ DOMAIN l = 1..Len(l) /\ Len(l) \in Nat
            /\ \A i \in 1..Len(l) : Append(l, x)[i] = l[i]
            /\ Append(l, x)[Len(l) + 1] = x
        <4>1. l \in Seq(P \cup {x}) /\ x \in P \cup {x}
          <5>1. P \subseteq P \cup {x}
            OBVIOUS
          <5> QED
            BY <3>2
        <4> HIDE DEF l
        <4> QED
          BY <4>1
      <3>5. \A i \in DOMAIN Append(l, x) : Append(l, x)[i] = <<<<r, i - 1>>, i - 1>>
        <4> HIDE DEF l
        <4> QED
          BY <3>1, <3>3, <3>4
      <3>6. relayed'[r] = Append(l, x) /\ \A d \in Conn : d # r => relayed'[d] = relayed[d]
        BY <2>7 DEF x, IInv, Types, DataTypes
      <3> HIDE DEF l
      <3> QED
        BY <1>2, <3>5, <3>6 DEF IInv, Rest, RelayedAsAsked
    <2>9. \A d \in Conn : cTask[d] # t => ask'[d] = ask[d] /\ relayed'[d] = relayed[d]
      BY <1>1, <1>3, <2>5, <2>7 DEF IInv, Types, DataTypes
    <2>10. task'[t] = S /\ ask'[c] = Tail(ask[c])
      BY <1>2, <1>5, <2>1 DEF Keep, IInv, Types, TaskTypes, DataTypes
    <2>11. StageOk(t)'
      <3>1. r \notin ahead => ask'[c] = <<>>
        <4>1. ask[c] \in Seq(Offset)
          BY DEF IInv, Types, DataTypes
        <4>2. Len(ask[c]) = 1 => Tail(ask[c]) = <<>>
          <5>1. PICK q : q = ask[c]
            OBVIOUS
          <5>2. Len(q) = 1 => Tail(q) \in Seq(Offset) /\ Len(Tail(q)) = 0
            BY <4>1, <5>1, HeadTailProperties, EmptySeq
          <5> QED
            BY <5>1, <5>2, EmptySeq
        <4> QED
          BY <2>6, <2>10, <4>2
      <3>2. OnlineOk(t)'
        BY <1>2, <2>3, <2>10, <3>1 DEF OnlineOk, Transferable
      <3> QED
        BY <1>2, <2>4, <3>2 DEF StageOk
    <2>12. FileOk(t)'
      BY <1>2 DEF IInv, Rest, FileOk, Body
    <2> QED
      BY <1>2, <1>5, <2>1, <2>2, <2>3, <2>4, <2>8, <2>9, <2>11, <2>12, KeepKeeps
  <1> QED
    BY <1>2, <1>4, <1>5

\* The task of a sender offline is uploading, that of a receiver downloading.
LEMMA OfflineStage ==
    ASSUME IInv, NEW c \in Conn, NEW t \in Task, t = cTask[c], task[t].mode = "offline"
    PROVE  /\ mode[t] = "offline" /\ relayed[c] = <<>>
           /\ cEnd[c] = "from" => Uploading(t) /\ task[t].from = c
           /\ cEnd[c] = "to" => Downloading(t) /\ task[t].to = c
  <1>1. task[t] # NoTask /\ task[t][cEnd[c]] = c /\ c # NoConn
    BY AtItsEnd, NullAssumption
  <1>2. mode[t] = "offline" /\ (Uploading(t) \/ Downloading(t)) /\ relayed[c] = <<>>
    BY <1>1 DEF IInv, Rest, TaskOk, ModeOk, StageOk, ConnOk
  <1> QED
    BY <1>1, <1>2 DEF Uploading, Downloading

\* The file after a segment was written or not: its length, and that it is in order.
LEMMA WrittenIs ==
    ASSUME IInv, NEW t \in Task, NEW off \in Offset, mode[t] = "offline", UNCHANGED mode,
           Uploading(t), off = task[t].idx,
           \/ disk' = Written(t, Append(Body(t), off)) /\ UNCHANGED spoiled
           \/ disk' = Written(t, Body(t)) /\ spoiled' = spoiled \cup {t}
    PROVE  /\ FileOk(t)'
           /\ t \notin spoiled' => Len(Body(t)') = off + 1
           /\ t \in spoiled' => Len(Body(t)') < off + 1
           /\ \A x \in Task : x # t => /\ x \in spoiled' <=> x \in spoiled
                                       /\ x \in DOMAIN disk' <=> x \in DOMAIN disk
                                       /\ x \in DOMAIN disk => disk'[x] = disk[x]
  <1> DEFINE b == Body(t)
  <1>1. b \in Seq(Offset) /\ Len(b) \in Nat /\ off \in Nat /\ off + 1 <= Segments /\ FileOk(t)
    <2>1. b \in Seq(Offset)
      BY DEF IInv, Types, DataTypes, Body
    <2>2. off \in Nat /\ off + 1 <= Segments
      BY SegmentsAssumption DEF Offset
    <2> QED
      BY <2>1, <2>2, LenProperties DEF IInv, Rest
  <1>2. /\ Append(b, off) \in Seq(Offset) /\ Len(Append(b, off)) = Len(b) + 1
        /\ \A i \in 1..Len(b) : Append(b, off)[i] = b[i]
        /\ Append(b, off)[Len(b) + 1] = off
    BY <1>1
  <1>3. (t \notin spoiled => Len(b) = off) /\ (t \in spoiled => Len(b) < off)
    BY DEF Uploading
  <1>4. \/ Body(t)' = Append(b, off) /\ spoiled' = spoiled
        \/ Body(t)' = b /\ spoiled' = spoiled \cup {t}
    BY DEF Written, Body
  <1>5. \A x \in Task : x # t => /\ x \in spoiled' <=> x \in spoiled
                                 /\ x \in DOMAIN disk' <=> x \in DOMAIN disk
                                 /\ x \in DOMAIN disk => disk'[x] = disk[x]
    BY DEF Written
  <1> HIDE DEF b
  <1>6. /\ t \notin spoiled' => /\ Body(t)' = Append(b, off) /\ t \notin spoiled
                                /\ Len(Body(t)') = off + 1
        /\ t \in spoiled' => Len(Body(t)') < off + 1
    BY <1>1, <1>2, <1>3, <1>4
  <1>7. FileOk(t)'
    <2>1. t \in spoiled' => Len(Body(t)') < Segments
      <3>1. Len(Body(t)') \in Nat
        BY <1>1, <1>2, <1>4
      <3> QED
        BY <1>1, <1>6, <3>1, SegmentsAssumption
    <2>2. t \notin spoiled' => Len(Body(t)') <= Segments /\ \A i \in 1..Len(Body(t)') : Body(t)'[i] = i - 1
      <3>1. SUFFICES ASSUME t \notin spoiled' PROVE Len(Body(t)') <= Segments /\ \A i \in 1..Len(Body(t)') : Body(t)'[i] = i - 1
        OBVIOUS
      <3>2. \A i \in 1..Len(b) : b[i] = i - 1
        BY <1>1, <1>6, <3>1 DEF FileOk, b
      <3>3. \A i \in 1..(Len(b) + 1) : Append(b, off)[i] = i - 1
        BY <1>1, <1>2, <1>3, <1>6, <3>1, <3>2
      <3> QED
        BY <1>1, <1>2, <1>6, <3>1, <3>3
    <2> QED
      BY <2>1, <2>2 DEF FileOk
  <1> QED
    BY <1>5, <1>6, <1>7

LEMMA UploadRest == ASSUME IInv, Types', NEW c \in Conn, NEW off \in Offset, Upload(c, off) PROVE Rest'
  <1>1. PICK t \in Task : t = cTask[c]
    BY DEF Upload, Joined
  <1> DEFINE last == task[t].idx + 1 = Segments
             S == [task[t] EXCEPT !.idx = @ + 1, !.state = IF last THEN "uploadEnd" ELSE "uploading"]
  <1>2. /\ Joined(c) /\ task[t].mode = "offline" /\ cEnd[c] = "from"
        /\ \/ /\ off = task[t].idx
              /\ \/ disk' = Written(t, Append(Body(t), off)) /\ UNCHANGED spoiled
                 \/ disk' = Written(t, Body(t)) /\ spoiled' = spoiled \cup {t}
              /\ IF last THEN Close(c, t, S) /\ notified' = notified \cup {<<t, c, "done">>}
                         ELSE Keep(t, S) /\ UNCHANGED notified
           \/ Close(c, t, task[t]) /\ UNCHANGED <<disk, spoiled, notified>>
        /\ UNCHANGED <<mode, cEnd, ask, got, relayed, ahead, knows, listed>>
    BY <1>1 DEF Upload, Uploadable
  <1>3. /\ task[t] \in TaskObject /\ task[t] # NoTask /\ mode[t] = "offline"
        /\ Uploading(t) /\ task[t].from = c
    BY <1>1, <1>2, AtItsEnd, OfflineStage
  <1>4. CASE Close(c, t, task[t]) /\ UNCHANGED <<disk, spoiled, notified>>
    BY <1>1, <1>2, <1>4, JustCloses
  <1>5. CASE /\ off = task[t].idx
             /\ \/ disk' = Written(t, Append(Body(t), off)) /\ UNCHANGED spoiled
                \/ disk' = Written(t, Body(t)) /\ spoiled' = spoiled \cup {t}
             /\ IF last THEN Close(c, t, S) /\ notified' = notified \cup {<<t, c, "done">>}
                        ELSE Keep(t, S) /\ UNCHANGED notified
    <2>1. /\ FileOk(t)'
          /\ t \notin spoiled' => Len(Body(t)') = off + 1
          /\ t \in spoiled' => Len(Body(t)') < off + 1
          /\ \A x \in Task : x # t => /\ x \in spoiled' <=> x \in spoiled
                                      /\ x \in DOMAIN disk' <=> x \in DOMAIN disk
                                      /\ x \in DOMAIN disk => disk'[x] = disk[x]
      BY <1>2, <1>3, <1>5, WrittenIs
    <2>2. /\ S \in TaskObject /\ S.from = task[t].from /\ S.to = task[t].to /\ S.mode = "offline"
          /\ S.idx = off + 1 /\ S.state = (IF last THEN "uploadEnd" ELSE "uploading")
      <3>1. off + 1 \in 0..Segments
        BY SegmentsAssumption DEF Offset
      <3> QED
        BY <1>2, <1>3, <1>5, <3>1 DEF TaskObject, TaskState
    <2>3. last <=> off + 1 = Segments
      BY <1>5
    <2> HIDE DEF S, last
    <2>4. CASE last
      <3>1. Close(c, t, S) /\ notified' = notified \cup {<<t, c, "done">>}
        BY <1>5, <2>4
      <3>2. CloseEnd(S, cEnd[c]) = NoTask /\ S.state # "waitingUpload"
        BY <1>2, <2>2, <2>4, CloseEndIs DEF End
      <3>3. \A x \in Task, d \in Conn, k \in Kind : Noted(x, d, k)' =>
              Noted(x, d, k) \/ (x = t /\ cTask[d] = t /\ CloseEnd(S, cEnd[c]) = NoTask)
        BY <1>1, <3>1, <3>2 DEF Noted
      <3> QED
        BY <1>1, <1>2, <1>3, <2>1, <2>2, <3>1, <3>2, <3>3, CloseKeeps
    <2>5. CASE ~last
      <3>1. Keep(t, S) /\ UNCHANGED notified
        BY <1>5, <2>5
      <3>2. task'[t] = S
        BY <3>1 DEF Keep, IInv, Types, TaskTypes
      <3>3. Uploading(t)'
        <4>1. off + 1 < Segments
          BY <2>3, <2>5, SegmentsAssumption DEF Offset
        <4> QED
          BY <1>2, <1>3, <2>1, <2>2, <2>5, <3>1, <3>2, <4>1 DEF Uploading, Noted
      <3>4. StageOk(t)'
        BY <1>2, <1>3, <3>3 DEF StageOk
      <3>5. RelayedAsAsked'
        BY <1>2 DEF IInv, Rest, RelayedAsAsked
      <3> QED
        BY <1>2, <1>3, <2>1, <2>2, <3>1, <3>4, <3>5, KeepKeeps
    <2> QED
      BY <2>4, <2>5
  <1> QED
    BY <1>2, <1>4, <1>5

LEMMA DownloadRest == ASSUME IInv, Types', NEW c \in Conn, NEW off \in Offset, Download(c, off) PROVE Rest'
  <1>1. PICK t \in Task : t = cTask[c]
    BY DEF Download, Joined
  <1> DEFINE last == off + 1 = Segments
             S == [task[t] EXCEPT !.idx = off + 1, !.state = IF last THEN "uploadEnd" ELSE "downloading"]
  <1>2. /\ Joined(c) /\ task[t].mode = "offline" /\ cEnd[c] = "to"
        /\ \/ /\ Downloadable(task[t], off)
              /\ got' = [got EXCEPT ![c] = Append(@, disk[t][off + 1])]
              /\ IF last THEN Close(c, t, S) /\ notified' = notified \cup {<<t, c, "done">>}
                         ELSE Keep(t, S) /\ UNCHANGED notified
           \/ Close(c, t, task[t]) /\ UNCHANGED <<got, notified>>
        /\ UNCHANGED <<mode, disk, spoiled, cEnd, ask, relayed, ahead, knows, listed>>
    BY <1>1 DEF Download
  <1>3. /\ task[t] \in TaskObject /\ task[t] # NoTask /\ mode[t] = "offline"
        /\ Downloading(t) /\ task[t].to = c
    BY <1>1, <1>2, AtItsEnd, OfflineStage
  <1>4. FileOk(t)'
    BY <1>2 DEF IInv, Rest, FileOk, Body
  <1>5. CASE Close(c, t, task[t]) /\ UNCHANGED <<got, notified>>
    BY <1>1, <1>2, <1>5, JustCloses
  <1>6. CASE /\ Downloadable(task[t], off)
             /\ got' = [got EXCEPT ![c] = Append(@, disk[t][off + 1])]
             /\ IF last THEN Close(c, t, S) /\ notified' = notified \cup {<<t, c, "done">>}
                        ELSE Keep(t, S) /\ UNCHANGED notified
    <2>1. /\ S \in TaskObject /\ S.from = task[t].from /\ S.to = task[t].to /\ S.mode = "offline"
          /\ S.idx = off + 1 /\ S.state = (IF last THEN "uploadEnd" ELSE "downloading")
      <3>1. off + 1 \in 0..Segments
        BY SegmentsAssumption DEF Offset
      <3> QED
        BY <1>2, <1>3, <3>1 DEF TaskObject, TaskState
    <2>2. \A d \in Conn : d # c => got'[d] = got[d]
      BY <1>6 DEF IInv, Types, DataTypes
    <2> HIDE DEF S
    <2>3. CASE last
      <3>1. Close(c, t, S) /\ notified' = notified \cup {<<t, c, "done">>}
        BY <1>6, <2>3
      <3>2. CloseEnd(S, cEnd[c]) = NoTask /\ S.state # "waitingUpload"
        BY <1>2, <2>1, <2>3, CloseEndIs DEF End
      <3>3. \A x \in Task, d \in Conn, k \in Kind : Noted(x, d, k)' =>
              Noted(x, d, k) \/ (x = t /\ cTask[d] = t /\ CloseEnd(S, cEnd[c]) = NoTask)
        BY <1>1, <3>1, <3>2 DEF Noted
      <3> QED
        BY <1>1, <1>2, <1>3, <1>4, <2>1, <2>2, <3>1, <3>2, <3>3, CloseKeeps
    <2>4. CASE ~last
      <3>1. Keep(t, S) /\ UNCHANGED notified
        BY <1>6, <2>4
      <3>2. task'[t] = S
        BY <3>1 DEF Keep, IInv, Types, TaskTypes
      <3>3. off = Len(got[c]) /\ got[c] \in Seq(Offset)
        BY <1>3, <1>6 DEF Downloading, Downloadable, IInv, Types, DataTypes
      <3>4. Len(got'[c]) = off + 1
        <4>1. got'[c] = Append(got[c], disk[t][off + 1])
          BY <1>6 DEF IInv, Types, DataTypes
        <4>2. disk[t][off + 1] \in Offset
          <5>1. disk[t] \in Seq(Offset) /\ Len(disk[t]) = Segments /\ off + 1 \in 1..Segments
            BY <1>3, SegmentsAssumption DEF Downloading, IInv, Types, DataTypes, Offset
          <5> QED
            BY <5>1
        <4> QED
          BY <3>3, <4>1, <4>2
      <3>5. Downloading(t)'
        <4>1. off + 1 < Segments
          BY <2>4, SegmentsAssumption DEF Offset
        <4> QED
          BY <1>2, <1>3, <2>1, <2>4, <3>2, <3>4, <4>1 DEF Downloading
      <3>6. StageOk(t)'
        BY <1>2, <1>3, <3>5 DEF StageOk
      <3>7. RelayedAsAsked'
        BY <1>2 DEF IInv, Rest, RelayedAsAsked
      <3>8. \A d \in Conn : cTask[d] # t => got'[d] = got[d]
        BY <1>1, <2>2
      <3> QED
        BY <1>2, <1>3, <1>4, <2>1, <3>1, <3>6, <3>7, <3>8, KeepKeeps
    <2> QED
      BY <2>3, <2>4
  <1> QED
    BY <1>2, <1>5, <1>6

LEMMA CreateRest ==
    ASSUME IInv, NEW t \in Task, NEW m \in {"online", "offline"}, NEW users \in SUBSET End,
           Create(t, m, users)
    PROVE  Rest'
  <1> DEFINE N == NewTask(m, "ready")
  <1>1. /\ mode[t] = "none" /\ mode' = [mode EXCEPT ![t] = m] /\ task' = [task EXCEPT ![t] = N]
        /\ UNCHANGED <<disk, spoiled, cState, cTask, cEnd, ask, got, relayed, ahead, notified, listed>>
    BY DEF Create
  <1>2. /\ N.mode = m /\ N.state = "ready" /\ N.idx = 0 /\ N.from = NoConn /\ N.to = NoConn
        /\ N["from"] = NoConn /\ N["to"] = NoConn
    BY DEF NewTask
  <1> HIDE DEF N
  <1>3. /\ task[t] = NoTask /\ (\A c \in Conn, k \in Kind : ~Noted(t, c, k))
        /\ t \notin DOMAIN disk /\ t \notin spoiled /\ t \notin listed
    BY <1>1 DEF IInv, Rest, TaskOk, ModeOk, FileOk
  <1>4. /\ mode'[t] = m /\ task'[t] = N
        /\ \A x \in Task : x # t => mode'[x] = mode[x] /\ task'[x] = task[x]
    BY <1>1 DEF IInv, Types, TaskTypes, DataTypes
  <1>5. ASSUME NEW d \in Conn PROVE ConnOk(d)'
    <2>1. cTask[d] # t
      BY <1>3, AtItsEnd
    <2> QED
      BY <1>1, <1>4, <2>1, AtItsEnd, OtherConn DEF Noted
  <1>6. ASSUME NEW x \in Task, x # t PROVE TaskOk(x)' /\ FileOk(x)'
    BY <1>1, <1>4, <1>6, OtherTask DEF Noted
  <1>7. TaskOk(t)'
    <2>1. EndsOk(t)'
      BY <1>2, <1>4 DEF EndsOk, End
    <2>2. ModeOk(t)'
      BY <1>2, <1>4 DEF ModeOk
    <2>3. OnlineOk(t)'
      BY <1>2, <1>4 DEF OnlineOk
    <2>4. Uploading(t)'
      <3>1. Body(t)' = <<>> /\ Len(<<>>) = 0
        BY <1>1, <1>3 DEF Body
      <3>2. \A c \in Conn : ~Noted(t, c, "done")'
        BY <1>1, <1>3 DEF Noted, Kind
      <3> QED
        BY <1>1, <1>2, <1>3, <1>4, <3>1, <3>2, SegmentsAssumption DEF Uploading
    <2> QED
      BY <2>1, <2>2, <2>3, <2>4 DEF TaskOk, StageOk
  <1>8. FileOk(t)'
    <2>1. Body(t)' = <<>> /\ Len(<<>>) = 0
      BY <1>1, <1>3 DEF Body
    <2> QED
      BY <1>1, <1>3, <2>1, SegmentsAssumption DEF FileOk
  <1>9. RelayedAsAsked'
    BY <1>1 DEF IInv, Rest, RelayedAsAsked
  <1> QED
    BY <1>5, <1>6, <1>7, <1>8, <1>9 DEF Rest

\* A file is reported when its sender was told that it is done: then nobody uploads it.
LEMMA AddOfflineRest == ASSUME IInv, NEW t \in Task, AddOffline(t) PROVE Rest'
  <1>1. /\ mode[t] = "offline" /\ t \notin listed /\ listed' = listed \cup {t}
        /\ \E c \in Conn : cEnd[c] = "from" /\ Noted(t, c, "done")
        /\ UNCHANGED <<task, mode, disk, spoiled, cState, cTask, cEnd, ask, got, relayed, ahead, notified>>
    BY DEF AddOffline, Noted
  <1>2. task[t] = NoTask
    BY <1>1 DEF IInv, Rest, TaskOk, StageOk, Uploading, Downloading
  <1>3. TaskOk(t)' /\ FileOk(t)'
    <2>1. EndsOk(t)' /\ StageOk(t)'
      BY <1>1, <1>2 DEF EndsOk, StageOk
    <2>2. ModeOk(t)'
      BY <1>1 DEF IInv, Rest, TaskOk, ModeOk, Noted
    <2>3. FileOk(t)'
      BY <1>1 DEF IInv, Rest, FileOk, Body
    <2> QED
      BY <2>1, <2>2, <2>3 DEF TaskOk
  <1>4. ASSUME NEW x \in Task, x # t PROVE TaskOk(x)' /\ FileOk(x)'
    BY <1>1, <1>4, OtherTask DEF Noted
  <1>5. ASSUME NEW d \in Conn PROVE ConnOk(d)'
    BY <1>1, AtItsEnd, OtherConn DEF Noted
  <1>6. RelayedAsAsked'
    BY <1>1 DEF IInv, Rest, RelayedAsAsked
  <1> QED
    BY <1>3, <1>4, <1>5, <1>6 DEF Rest

\* Without its tasks and connections the server has the files left; the header of one may
\* have been written.
LEMMA LoseMemoryRest ==
    ASSUME IInv, LoseMemory,
           \/ UNCHANGED disk
           \/ \E t \in Task : disk' = Written(t, <<>>) /\ Body(t) = <<>> /\ mode[t] = "offline"
                              /\ t \notin spoiled
    PROVE  Rest' /\ \A t \in Task : Body(t)' = Body(t)
  <1>1. /\ task' = [t \in Task |-> NoTask] /\ cTask' = [c \in Conn |-> NoTask]
        /\ cState' = [c \in Conn |-> IF cState[c] = "open" THEN "closed" ELSE cState[c]]
        /\ UNCHANGED <<mode, spoiled, cEnd, ask, got, relayed, ahead, notified, knows, listed>>
    BY DEF LoseMemory
  <1>2. ASSUME NEW x \in Task
        PROVE  Body(x)' = Body(x) /\ (x \in DOMAIN disk' => x \in DOMAIN disk \/ mode[x] = "offline")
    <2>1. CASE UNCHANGED disk
      BY <2>1 DEF Body
    <2>2. ASSUME NEW t \in Task, disk' = Written(t, <<>>), Body(t) = <<>>, mode[t] = "offline"
          PROVE  Body(x)' = Body(x) /\ (x \in DOMAIN disk' => x \in DOMAIN disk \/ mode[x] = "offline")
      BY <2>2 DEF Body, Written
    <2> QED
      BY <2>1, <2>2
  <1>3. ASSUME NEW x \in Task PROVE TaskOk(x)' /\ FileOk(x)'
    <2>1. EndsOk(x)' /\ StageOk(x)'
      BY <1>1 DEF EndsOk, StageOk
    <2>2. ModeOk(x)'
      BY <1>1 DEF IInv, Rest, TaskOk, ModeOk, Noted
    <2>3. FileOk(x)'
      BY <1>1, <1>2 DEF IInv, Rest, FileOk
    <2> QED
      BY <2>1, <2>2, <2>3 DEF TaskOk
  <1>4. ASSUME NEW d \in Conn PROVE ConnOk(d)'
    <2>1. cTask'[d] = NoTask /\ (New(d)' => cState[d] # "open" /\ cState[d] # "closed")
      BY <1>1 DEF New
    <2>2. New(d)' => New(d)
      <3>1. cTask[d] # NoTask => cTask[d] \in Task
        BY DEF IInv, Types, TaskTypes, Rest, ConnOk
      <3> QED
        BY <2>1, <3>1 DEF IInv, Rest, ConnOk, New
    <2> QED
      BY <1>1, <2>1, <2>2, NullAssumption DEF IInv, Rest, ConnOk, Noted
  <1>5. RelayedAsAsked'
    BY <1>1 DEF IInv, Rest, RelayedAsAsked
  <1> QED
    BY <1>2, <1>3, <1>4, <1>5 DEF Rest

LEMMA RestartRest ==
    ASSUME IInv, Restart \/ \E c \in Conn : CrashAfterHeader(c)
    PROVE  LoseMemory /\ Rest' /\ \A t \in Task : Body(t)' = Body(t)
  <1>1. CASE Restart
    BY <1>1, LoseMemoryRest DEF Restart
  <1>2. ASSUME NEW c \in Conn, CrashAfterHeader(c)
        PROVE  LoseMemory /\ Rest' /\ \A t \in Task : Body(t)' = Body(t)
    <2>1. PICK t \in Task : t = cTask[c]
      BY <1>2 DEF CrashAfterHeader, Joined
    <2>2. /\ task[t].state = "waitingUpload" /\ cEnd[c] = "from"
          /\ disk' = Written(t, <<>>) /\ LoseMemory
      BY <1>2, <2>1 DEF CrashAfterHeader
    <2>3. task[t] \in TaskObject /\ task[t] # NoTask /\ task[t].from = c
      BY <2>1, <2>2, AtItsEnd
    <2>4. Uploading(t) /\ mode[t] = "offline"
      BY <2>2, <2>3, NullAssumption
      DEF TaskObject, IInv, Rest, TaskOk, ModeOk, StageOk, OnlineOk, Downloading
    <2>5. t \notin spoiled /\ Body(t) = <<>>
      <3>1. Body(t) \in Seq(Offset)
        BY DEF IInv, Types, DataTypes, Body
      <3>2. Len(Body(t)) \in Nat /\ (Len(Body(t)) = 0 => Body(t) = <<>>)
        BY <3>1, EmptySeq
      <3>3. task[t].idx = 0
        BY <2>2, <2>4 DEF Uploading
      <3> QED
        BY <2>4, <3>2, <3>3 DEF Uploading
    <2> QED
      BY <2>2, <2>4, <2>5, LoseMemoryRest
  <1> QED
    BY <1>1, <1>2

\* An orderly client takes an end that is free: of an online task, which nobody asked its
\* new sender anything of; of an upload until it is reported; of the whole file after that.
LEMMA LoginRest ==
    ASSUME Orderly = Habit, IInv, NEW c \in Conn, NEW t \in Task, NEW e \in End, HandleLogin(c, t, e)
    PROVE  Rest'
  <1> DEFINE load == mode[t] = "offline" /\ e = "to" /\ Loadable(t)
             found == IF task[t] = NoTask /\ load THEN NewTask("offline", "waitingDownload") ELSE task[t]
             s == PullState(found, e)
             T == [found EXCEPT !.state = s, ![e] = c]
  <1>1. /\ cState[c] = "open" /\ cTask[c] = NoTask /\ New(c)
        /\ \A d \in Conn : cTask[d] = t => cEnd[d] # e
        /\ mode[t] = "offline" => (e = "to" <=> t \in listed)
        /\ UNCHANGED <<mode, disk, spoiled, ask, got, relayed, ahead, knows, listed>>
    BY DEF HandleLogin, MayJoin, Habit, New
  <1>2. CASE found = NoTask
    <2>1. CloseAlone(c) /\ UNCHANGED <<cEnd, notified>>
      BY <1>1, <1>2 DEF HandleLogin, Leave
    <2> QED
      BY <1>1, <2>1, CloseAloneKeeps
  <1>3. CASE found # NoTask
    <2>1. /\ task' = [task EXCEPT ![t] = T] /\ cTask' = [cTask EXCEPT ![c] = t]
          /\ cEnd' = [cEnd EXCEPT ![c] = e] /\ UNCHANGED cState
          /\ notified' = IF T.mode = "online" /\ T.state = "waitingTransfer"
                         THEN notified \cup {<<t, T.to, "ready">>} ELSE notified
      BY <1>3 DEF HandleLogin
    <2>2. /\ ask[c] = <<>> /\ relayed[c] = <<>> /\ got[c] = <<>>
          /\ \A x \in Task, k \in Kind : ~Noted(x, c, k)
      BY <1>1 DEF IInv, Rest, ConnOk
    <2>3. task[t] # NoTask => /\ found = task[t] /\ task[t] \in TaskObject /\ task[t][e] = NoConn
                              /\ EndsThere(task[t])
      <3>1. task[t] # NoTask => /\ found = task[t] /\ task[t] \in TaskObject /\ EndsThere(task[t])
        BY DEF IInv, Types, TaskTypes
      <3>2. task[t] \in TaskObject => task[t][e] \in Conn \cup {NoConn}
        BY DEF TaskObject, End
      <3> HIDE DEF found
      <3> QED
        BY <1>1, <3>1, <3>2 DEF IInv, Rest, TaskOk, EndsOk
    <2>4. task[t] = NoTask => /\ load /\ found \in TaskObject /\ found.mode = "offline"
                              /\ found.state = "waitingDownload" /\ found.idx = 0
                              /\ found.from = NoConn /\ found.to = NoConn
      BY <1>3, SegmentsAssumption DEF NewTask, TaskObject, TaskState, SeqNum, NoSeq
    <2>5. /\ found \in TaskObject /\ found[e] = NoConn /\ found.mode = mode[t] /\ mode[t] # "none"
          /\ task[t] = NoTask => found[Other(e)] = NoConn
      <3>1. CASE task[t] = NoTask
        BY <2>4, <3>1 DEF End, Other
      <3>2. CASE task[t] # NoTask
        BY <2>3, <3>2 DEF IInv, Rest, TaskOk, ModeOk
      <3> QED
        BY <3>1, <3>2
    <2> HIDE DEF found
    <2>6. s \in TaskState
      BY <2>5 DEF PullState, OnlinePullState, OfflinePullState, TaskObject, TaskState
    <2>7. s = IF mode[t] = "online" THEN OnlinePullState(found.state, e) ELSE OfflinePullState(found.state, e)
      BY <2>5 DEF PullState
    <2> HIDE DEF s
    <2>8. /\ T \in TaskObject /\ T[e] = c /\ T[Other(e)] = found[Other(e)] /\ T.state = s
          /\ T.mode = mode[t] /\ T.idx = found.idx /\ T.seq = found.seq
      <3>1. CASE e = "from"
        BY <2>5, <2>6, <3>1 DEF TaskObject, Other
      <3>2. CASE e = "to"
        BY <2>5, <2>6, <3>2 DEF TaskObject, Other
      <3> QED
        BY <3>1, <3>2 DEF End
    <2> HIDE DEF T
    <2>9. /\ e = "from" => T.from = c /\ T.to = found.to /\ found.from = NoConn
          /\ e = "to" => T.to = c /\ T.from = found.from /\ found.to = NoConn
          /\ Other(e) \in End /\ Other(e) # e
      BY <2>5, <2>8, Ends
    <2>10. T # NoTask
      BY <2>8, NoTaskAssumption
    <2>11. /\ task'[t] = T /\ cTask'[c] = t /\ cEnd'[c] = e
           /\ \A x \in Task : x # t => task'[x] = task[x]
           /\ \A d \in Conn : d # c => cTask'[d] = cTask[d] /\ cEnd'[d] = cEnd[d]
      BY <2>1 DEF IInv, Types, TaskTypes, DataTypes
    <2>12. \A x \in Task, d \in Conn, k \in Kind : Noted(x, d, k)' =>
             \/ Noted(x, d, k) /\ d # c
             \/ x = t /\ d = T.to /\ mode[t] = "online"
      BY <2>1, <2>2, <2>8 DEF Noted
    <2>13. ASSUME NEW d \in Conn PROVE ConnOk(d)'
      <3>1. CASE d = c
        BY <1>1, <2>1, <2>2, <2>8, <2>11, <3>1, NullAssumption DEF ConnOk, New
      <3>2. CASE d # c
        <4>1. cTask[d] \in Task => task'[cTask[d]][cEnd[d]] = d
          <5>1. CASE cTask[d] = t
            <6>1. cEnd[d] \in End /\ cEnd[d] # e /\ task[t] # NoTask /\ task[t][cEnd[d]] = d
              BY <1>1, <5>1, AtItsEnd
            <6>2. cEnd[d] = Other(e)
              BY <6>1, Ends
            <6> QED
              BY <2>3, <2>8, <2>11, <5>1, <6>1, <6>2
          <5>2. CASE cTask[d] # t
            BY <2>11, <5>2, AtItsEnd
          <5> QED
            BY <5>1, <5>2
        <4>2. d = T.to => cTask[d] = t
          <5>1. d = T.to => task[t] # NoTask /\ task[t].to = d /\ task[t]["to"] = d
            BY <2>3, <2>4, <2>9, <3>2, NullAssumption DEF End
          <5> QED
            BY <5>1, NullAssumption DEF IInv, Rest, TaskOk, EndsOk, End
        <4>3. \A x \in Task, k \in Kind : New(d) /\ Noted(x, d, k)' => Noted(x, d, k)
          BY <2>12, <4>2, NullAssumption DEF New
        <4> QED
          BY <1>1, <2>1, <2>11, <3>2, <4>1, <4>3, OtherConn
      <3> QED
        BY <3>1, <3>2
    <2>14. ASSUME NEW x \in Task, x # t PROVE TaskOk(x)' /\ FileOk(x)'
      <3>1. \A d \in Conn : cTask[d] = x => cTask'[d] = x /\ cEnd'[d] = cEnd[d]
        BY <1>1, <2>11, NullAssumption
      <3>2. \A d \in Conn, k \in Kind : Noted(x, d, k)' => Noted(x, d, k) /\ cEnd'[d] = cEnd[d]
        BY <2>11, <2>12, <2>14
      <3> QED
        BY <1>1, <2>11, <2>14, <3>1, <3>2, OtherTask
    <2>15. EndsOk(t)'
      <3>1. ASSUME NEW o \in End, T[o] # NoConn PROVE cTask'[T[o]] = t /\ cEnd'[T[o]] = o
        <4>1. CASE o = e
          BY <2>8, <2>11, <4>1
        <4>2. CASE o # e
          <5>1. o = Other(e) /\ T[o] = found[o]
            BY <2>8, <4>2, Ends
          <5>2. task[t] # NoTask /\ T[o] = task[t][o]
            BY <2>3, <2>5, <3>1, <5>1
          <5>3. T[o] \in Conn /\ cTask[T[o]] = t /\ cEnd[T[o]] = o
            BY <2>8, <3>1, <5>2 DEF IInv, Rest, TaskOk, EndsOk, TaskObject, End
          <5> QED
            BY <1>1, <2>11, <5>3, NullAssumption
        <4> QED
          BY <4>1, <4>2
      <3> QED
        BY <2>11, <3>1 DEF EndsOk
    <2>16. ModeOk(t)'
      BY <1>1, <2>5, <2>8, <2>11 DEF ModeOk
    <2>17. FileOk(t)'
      BY <1>1 DEF IInv, Rest, FileOk, Body
    <2>18. mode[t] = "online" => OnlineOk(t)'
      <3>1. SUFFICES ASSUME mode[t] = "online" PROVE OnlineOk(t)'
        OBVIOUS
      <3>2. task[t] # NoTask /\ found = task[t] /\ OnlineOk(t) /\ EndsThere(task[t]) /\ task[t].mode = "online"
        <4>1. task[t] # NoTask
          BY <2>4, <3>1
        <4> QED
          BY <2>3, <2>5, <3>1, <4>1 DEF IInv, Rest, TaskOk, StageOk
      <3>3. /\ s \in {"invalid", "ready", "waitingSender", "waitingReceiver", "waitingTransfer", "transfering"}
            /\ s # "invalid" => found.state # "invalid"
        BY <2>7, <3>1, <3>2 DEF OnlinePullState, OnlineOk
      <3>4. ASSUME s # "invalid", T.from # NoConn PROVE ask[T.from] = <<>>
        <4>1. CASE e = "from"
          BY <2>2, <2>9, <4>1
        <4>2. CASE e = "to"
          <5>1. ~Transferable(task[t])
            BY <2>9, <3>2, <4>2 DEF Transferable, EndsThere
          <5> QED
            BY <2>9, <3>2, <3>3, <3>4, <4>2, <5>1 DEF OnlineOk
        <4> QED
          BY <4>1, <4>2 DEF End
      <3> QED
        BY <1>1, <2>8, <2>11, <3>3, <3>4 DEF OnlineOk
    <2>19. ASSUME mode[t] = "offline", e = "to" PROVE Downloading(t)'
      <3>1. task[t] = NoTask
        BY <1>1, <2>3, <2>9, <2>19 DEF IInv, Rest, TaskOk, StageOk, Uploading, Downloading
      <3>2. s = "waitingDownload"
        BY <2>4, <2>7, <2>19, <3>1 DEF OfflinePullState
      <3>3. t \in DOMAIN disk /\ Len(disk[t]) = Segments
        BY <2>4, <3>1 DEF Loadable
      <3>4. Len(got[c]) = 0 /\ c # NoConn /\ 0 < Segments
        BY <2>2, NullAssumption, SegmentsAssumption
      <3> QED
        BY <1>1, <2>4, <2>8, <2>9, <2>11, <2>19, <3>1, <3>2, <3>3, <3>4 DEF Downloading
    <2>20. ASSUME mode[t] = "offline", e = "from" PROVE Uploading(t)'
      <3>1. task[t] # NoTask /\ found = task[t] /\ Uploading(t)
        <4>1. task[t] # NoTask
          BY <2>4, <2>20
        <4> QED
          BY <1>1, <2>3, <2>20, <4>1 DEF IInv, Rest, TaskOk, StageOk, Downloading
      <3>2. s = IF task[t].state = "ready" THEN "waitingUpload" ELSE task[t].state
        BY <2>7, <2>20, <3>1 DEF OfflinePullState, Uploading
      <3>3. \A d \in Conn : Noted(t, d, "done")' => cEnd'[d] # "from"
        BY <2>11, <2>12, <2>20, <3>1 DEF Uploading, Kind
      <3>4. Body(t)' = Body(t)
        BY <1>1 DEF Body
      <3> QED
        BY <1>1, <2>8, <2>9, <2>11, <2>20, <3>1, <3>2, <3>3, <3>4 DEF Uploading
    <2>21. StageOk(t)'
      BY <1>1, <2>18, <2>19, <2>20 DEF StageOk, End
    <2>22. RelayedAsAsked'
      BY <1>1 DEF IInv, Rest, RelayedAsAsked
    <2> QED
      BY <2>13, <2>14, <2>15, <2>16, <2>17, <2>21, <2>22 DEF Rest, TaskOk
  <1> QED
    BY <1>2, <1>3

LEMMA NextIInv == ASSUME Orderly = Habit, IInv, [Next]_vars PROVE IInv'
  <1>1. Types'
    BY NextTypes DEF IInv
  <1>2. CASE UNCHANGED vars
    <2>1. \A c \in Conn : ConnOk(c)'
      BY <1>2, OtherConn DEF IInv, Rest, ConnOk, New, Noted, vars
    <2>2. \A t \in Task : TaskOk(t)' /\ FileOk(t)'
      BY <1>2, OtherTask DEF Noted, vars
    <2>3. RelayedAsAsked'
      BY <1>2 DEF IInv, Rest, RelayedAsAsked, vars
    <2> QED
      BY <1>1, <2>1, <2>2, <2>3 DEF IInv, Rest
  <1>3. ASSUME NEW c \in Conn, NEW s \in {"done", "cancel"}, HandleStates(c, s) PROVE Rest'
    BY <1>1, <1>3, StatesRest
  <1>4. ASSUME NEW c \in Conn, NEW t \in Task, NEW e \in End, HandleLogin(c, t, e) PROVE Rest'
    BY <1>4, LoginRest
  <1>5. ASSUME NEW c \in Conn, NEW off \in Offset, Upload(c, off) \/ Download(c, off) PROVE Rest'
    BY <1>1, <1>5, UploadRest, DownloadRest
  <1>6. ASSUME NEW t \in Task, NEW m \in {"online", "offline"}, NEW users \in SUBSET End,
               Create(t, m, users)
        PROVE  Rest'
    BY <1>6, CreateRest
  <1>7. ASSUME NEW c \in Conn,
               \/ Connect(c) \/ OnClose(c) \/ OnTimer(c) \/ SendOnline(c)
               \/ \E off \in Offset : PullOnline(c, off)
        PROVE  Rest'
    BY <1>1, <1>7, ConnectRest, OnCloseRest, PullOnlineRest, SendOnlineRest
  <1>8. ASSUME NEW t \in Task, AddOffline(t) PROVE Rest'
    BY <1>8, AddOfflineRest
  <1>9. ASSUME Restart \/ \E c \in Conn : CrashAfterHeader(c) PROVE Rest'
    BY <1>9, RestartRest
  <1>10. ASSUME Next PROVE Rest'
    BY <1>3, <1>4, <1>5, <1>6, <1>7, <1>8, <1>9, <1>10 DEF Next
  <1> QED
    BY <1>1, <1>2, <1>10 DEF IInv

LEMMA SpecIInv == ASSUME Orderly = Habit PROVE Spec => []IInv
  <1>1. Init => IInv
    BY InitTypes, InitRest DEF IInv
  <1>2. IInv /\ [Next]_vars => IInv'
    BY NextIInv
  <1> QED
    BY <1>1, <1>2, PTL DEF Spec

-----------------------------------------------------------------------------
(* What it is for *)

\* When clients are orderly, no connection keeps a task that was deleted, and the
\* connections a task knows are open and at that end of it: every handler that follows
\* transfer_task_, or sends to the other end, finds it there.
THEOREM PointersAlive == ASSUME Orderly = Habit PROVE Spec => []EndsMatch
  <1>1. IInv => EndsMatch
    <2> SUFFICES ASSUME IInv PROVE EndsMatch
      OBVIOUS
    <2>1. \A c \in Conn : cTask[c] # Freed
      BY DEF IInv, Rest, ConnOk
    <2>2. ASSUME NEW t \in Task, NEW e \in End, task[t] # NoTask, task[t][e] # NoConn
          PROVE  LET c == task[t][e] IN cState[c] = "open" /\ cTask[c] = t /\ cEnd[c] = e
      <3>1. task[t][e] \in Conn
        BY <2>2 DEF IInv, Types, TaskTypes, TaskObject, End
      <3>2. cTask[task[t][e]] = t /\ cEnd[task[t][e]] = e
        BY <2>2 DEF IInv, Rest, TaskOk, EndsOk
      <3> QED
        BY <3>1, <3>2, AtItsEnd
    <2> QED
      BY <2>1, <2>2 DEF EndsMatch
  <1> QED
    BY <1>1, SpecIInv, PTL

\* When clients are orderly, a receiver online gets the segments in order, each as the
\* answer to the request it made for it, although the task keeps one request number and
\* either end may close and come back.
THEOREM SegmentsInOrder == ASSUME Orderly = Habit PROVE Spec => []RelayedAsAsked
  <1>1. IInv => RelayedAsAsked
    BY DEF IInv, Rest
  <1> QED
    BY <1>1, SpecIInv, PTL

-----------------------------------------------------------------------------
(* The offline part is a FileStore *)

\* The state of the FileStore.
Stored == [t \in Task |-> IF t \in spoiled THEN <<>> ELSE Body(t)]
Confirmed == {t \in Task : mode[t] = "offline" /\ Told("from", t) # {}}
Finished == UNION {Told("to", t) : t \in {x \in Task : mode[x] = "offline"}}

\* Connection c was told that the offline file t is done.
ToldDone(t, c) == mode[t] = "offline" /\ Noted(t, c, "done")

ToldAre ==
    /\ \A t : t \in Confirmed <=> t \in Task /\ \E c \in Conn : ToldDone(t, c) /\ cEnd[c] = "from"
    /\ \A c : c \in Finished <=> c \in Conn /\ \E t \in Task : ToldDone(t, c) /\ cEnd[c] = "to"

LEMMA ToldIs == ToldAre /\ ToldAre'
  <1>1. \A t : t \in Confirmed <=> t \in Task /\ \E c \in Conn : ToldDone(t, c) /\ cEnd[c] = "from"
    BY DEF Confirmed, Told, ToldDone, Noted
  <1>2. \A c : c \in Finished <=> c \in Conn /\ \E t \in Task : ToldDone(t, c) /\ cEnd[c] = "to"
    <2>1. \A c : c \in Finished <=> \E t \in Task : mode[t] = "offline" /\ c \in Told("to", t)
      BY DEF Finished
    <2>2. \A c, t : c \in Told("to", t) <=> c \in Conn /\ cEnd[c] = "to" /\ Noted(t, c, "done")
      BY DEF Told, Noted
    <2> QED
      BY <2>1, <2>2 DEF ToldDone
  <1>3. ToldAre
    BY <1>1, <1>2 DEF ToldAre
  <1> QED
    BY <1>3, PTL

\* A step that leaves the files alone, and says of none that it is done.
LEMMA StoreStutters ==
    ASSUME \A t \in Task : Body(t)' = Body(t), spoiled' = spoiled, got' = got,
           \A t \in Task, c \in Conn : ToldDone(t, c)' <=> ToldDone(t, c),
           \A t \in Task, c \in Conn : ToldDone(t, c) => cEnd'[c] = cEnd[c]
    PROVE  UNCHANGED Store!vars
  <1>1. Stored' = Stored
    BY DEF Stored
  <1>2. Confirmed' = Confirmed
    <2>1. \A t : t \in Confirmed' <=> t \in Confirmed
      BY ToldIs DEF ToldAre
    <2> QED
      BY <2>1
  <1>3. Finished' = Finished
    <2>1. \A c : c \in Finished' <=> c \in Finished
      BY ToldIs DEF ToldAre
    <2> QED
      BY <2>1
  <1> QED
    BY <1>1, <1>2, <1>3 DEF Store!vars, Stored, Confirmed, Finished

LEMMA UnnotedStutters ==
    ASSUME UNCHANGED <<mode, disk, spoiled, cEnd, got, notified>>
    PROVE  UNCHANGED Store!vars
  BY StoreStutters DEF Body, ToldDone, Noted

LEMMA StatesStutters ==
    ASSUME IInv, NEW c \in Conn, NEW s \in {"done", "cancel"}, HandleStates(c, s)
    PROVE  UNCHANGED Store!vars
  <1>1. PICK t \in Task : t = cTask[c]
    BY DEF HandleStates, Joined
  <1>2. /\ s = "done" => Len(relayed[c]) >= Segments
        /\ \A x, d, k : Noted(x, d, k)' => Noted(x, d, k) \/ (x = t /\ k = s)
        /\ \A x, d, k : Noted(x, d, k) => Noted(x, d, k)'
        /\ UNCHANGED <<mode, disk, spoiled, cEnd, got>>
    BY <1>1 DEF HandleStates, Noted
  <1>3. mode[t] = "offline" => s # "done"
    BY <1>1, <1>2, SegmentsAssumption DEF IInv, Rest, ConnOk
  <1> QED
    BY <1>2, <1>3, StoreStutters DEF Body, ToldDone

LEMMA LoginStutters ==
    ASSUME Orderly = Habit, IInv, NEW c \in Conn, NEW t \in Task, NEW e \in End,
           HandleLogin(c, t, e)
    PROVE  UNCHANGED Store!vars
  <1>1. /\ cState[c] = "open" /\ cTask[c] = NoTask
        /\ cEnd' = cEnd \/ cEnd' = [cEnd EXCEPT ![c] = e]
        /\ \A x, d : Noted(x, d, "done")' <=> Noted(x, d, "done")
        /\ UNCHANGED <<mode, disk, spoiled, got>>
    BY DEF HandleLogin, MayJoin, Habit, Noted
  <1>2. \A x \in Task : ~Noted(x, c, "done")
    BY <1>1 DEF IInv, Rest, ConnOk, New, Kind
  <1>3. \A d \in Conn : d # c => cEnd'[d] = cEnd[d]
    BY <1>1 DEF IInv, Types, DataTypes
  <1> QED
    BY <1>1, <1>2, <1>3, StoreStutters DEF Body, ToldDone

LEMMA CreateStutters ==
    ASSUME IInv, NEW t \in Task, NEW m \in {"online", "offline"}, NEW users \in SUBSET End,
           Create(t, m, users)
    PROVE  UNCHANGED Store!vars
  <1>1. /\ mode[t] = "none" /\ \A x \in Task : x # t => mode'[x] = mode[x]
        /\ UNCHANGED <<disk, spoiled, cEnd, got, notified>>
    BY DEF Create, IInv, Types, DataTypes
  <1>2. \A c \in Conn : ~Noted(t, c, "done")
    BY <1>1 DEF IInv, Rest, TaskOk, ModeOk, Kind
  <1> QED
    BY <1>1, <1>2, StoreStutters DEF Body, ToldDone, Noted

LEMMA RestartStutters ==
    ASSUME IInv, Restart \/ \E c \in Conn : CrashAfterHeader(c)
    PROVE  UNCHANGED Store!vars
  <1>1. LoseMemory /\ \A t \in Task : Body(t)' = Body(t)
    BY RestartRest
  <1> QED
    BY <1>1, StoreStutters DEF LoseMemory, ToldDone, Noted

LEMMA UploadStores ==
    ASSUME IInv, NEW c \in Conn, NEW off \in Offset, Upload(c, off)
    PROVE  UNCHANGED Store!vars \/ \E t \in Task : Store!Write(t) \/ Store!Spoil(t)
  <1>1. PICK t \in Task : t = cTask[c]
    BY DEF Upload, Joined
  <1> DEFINE last == task[t].idx + 1 = Segments
  <1>2. /\ task[t].mode = "offline" /\ cEnd[c] = "from"
        /\ UNCHANGED <<mode, cEnd, got>>
        /\ \/ /\ off = task[t].idx
              /\ \/ disk' = Written(t, Append(Body(t), off)) /\ UNCHANGED spoiled
                 \/ disk' = Written(t, Body(t)) /\ spoiled' = spoiled \cup {t}
              /\ notified' = IF last THEN notified \cup {<<t, c, "done">>} ELSE notified
           \/ UNCHANGED <<disk, spoiled, notified>>
    BY <1>1 DEF Upload, Uploadable
  <1>3. CASE UNCHANGED <<disk, spoiled, notified>>
    BY <1>2, <1>3, UnnotedStutters
  <1>4. CASE /\ off = task[t].idx
             /\ \/ disk' = Written(t, Append(Body(t), off)) /\ UNCHANGED spoiled
                \/ disk' = Written(t, Body(t)) /\ spoiled' = spoiled \cup {t}
             /\ notified' = IF last THEN notified \cup {<<t, c, "done">>} ELSE notified
    <2>1. mode[t] = "offline" /\ Uploading(t)
      BY <1>1, <1>2, OfflineStage
    <2>2. last <=> off + 1 = Segments
      BY <1>4
    <2>3. /\ \A x \in Task, d \in Conn : ToldDone(x, d)' <=> ToldDone(x, d) \/ (x = t /\ d = c /\ last)
          /\ cEnd' = cEnd
      BY <1>2, <1>4, <2>1 DEF ToldDone, Noted
    <2> HIDE DEF last
    <2>4. Confirmed' = IF last THEN Confirmed \cup {t} ELSE Confirmed
      <3>1. \A x : x \in Confirmed' <=> x \in Confirmed \/ (x = t /\ last)
        BY <1>2, <2>3, ToldIs DEF ToldAre
      <3> QED
        BY <3>1
    <2>5. Finished' = Finished
      <3>1. \A d : d \in Finished' <=> d \in Finished
        BY <1>2, <2>3, ToldIs DEF ToldAre
      <3> QED
        BY <3>1
    <2>6. /\ \A x \in Task : x # t => Body(x)' = Body(x) /\ (x \in spoiled' <=> x \in spoiled)
          /\ t \notin spoiled' => Body(t)' = Append(Body(t), off) /\ t \notin spoiled
          /\ spoiled' = IF t \in spoiled' THEN spoiled \cup {t} ELSE spoiled
          /\ t \notin spoiled => Len(Body(t)) = off /\ Len(Body(t)) < Segments
      <3>1. off < Segments
        BY SegmentsAssumption DEF Offset
      <3>2. t \notin spoiled' => ~(disk' = Written(t, Body(t)) /\ spoiled' = spoiled \cup {t})
        OBVIOUS
      <3> QED
        BY <1>4, <2>1, <3>1, <3>2 DEF Body, Written, Uploading
    <2>7. /\ Stored \in [Task -> {Stored[x] : x \in Task}]
          /\ Stored[t] = IF t \in spoiled THEN <<>> ELSE Body(t)
      BY DEF Stored
    <2>8. CASE t \notin spoiled'
      <3>1. Stored' = [Stored EXCEPT ![t] = Append(Stored[t], Len(Stored[t]))]
        BY <2>6, <2>8 DEF Stored
      <3>2. t \notin spoiled /\ Len(Stored[t]) = off /\ Len(Stored[t]) < Segments
        BY <2>6, <2>7, <2>8
      <3>3. spoiled' = spoiled
        BY <2>6, <2>8
      <3>4. Confirmed' = IF Len(Stored[t]) + 1 = Segments THEN Confirmed \cup {t} ELSE Confirmed
        BY <2>2, <2>4, <3>2
      <3>5. Store!Write(t)
        BY <1>2, <2>5, <3>1, <3>2, <3>3, <3>4 DEF Store!Write, Stored, Confirmed, Finished
      <3> QED
        BY <3>5
    <2>9. CASE t \in spoiled'
      <3>1. Stored' = [Stored EXCEPT ![t] = <<>>]
        BY <2>6, <2>9 DEF Stored
      <3>2. t \in spoiled \/ Len(Stored[t]) < Segments
        BY <2>6, <2>7
      <3>3. spoiled' = spoiled \cup {t} /\ Confirmed' \in {Confirmed, Confirmed \cup {t}}
        BY <2>4, <2>6, <2>9
      <3>4. Store!Spoil(t)
        BY <1>2, <2>5, <3>1, <3>2, <3>3 DEF Store!Spoil, Stored, Confirmed, Finished
      <3> QED
        BY <3>4
    <2> QED
      BY <2>8, <2>9
  <1> QED
    BY <1>2, <1>3, <1>4

LEMMA DownloadReads ==
    ASSUME IInv, NEW c \in Conn, NEW off \in Offset, Download(c, off)
    PROVE  UNCHANGED Store!vars \/ \E t \in Task : Store!Read(c, t)
  <1>1. PICK t \in Task : t = cTask[c]
    BY DEF Download, Joined
  <1> DEFINE last == off + 1 = Segments
  <1>2. /\ task[t].mode = "offline" /\ cEnd[c] = "to"
        /\ UNCHANGED <<mode, disk, spoiled, cEnd>>
        /\ \/ /\ Downloadable(task[t], off)
              /\ got' = [got EXCEPT ![c] = Append(@, disk[t][off + 1])]
              /\ notified' = IF last THEN notified \cup {<<t, c, "done">>} ELSE notified
           \/ UNCHANGED <<got, notified>>
    BY <1>1 DEF Download
  <1>3. CASE UNCHANGED <<got, notified>>
    BY <1>2, <1>3, UnnotedStutters
  <1>4. CASE /\ Downloadable(task[t], off)
             /\ got' = [got EXCEPT ![c] = Append(@, disk[t][off + 1])]
             /\ notified' = IF last THEN notified \cup {<<t, c, "done">>} ELSE notified
    <2>1. mode[t] = "offline" /\ Downloading(t) /\ task[t].to = c
      BY <1>1, <1>2, OfflineStage
    <2>2. Len(got[c]) = off
      BY <1>4, <2>1 DEF Downloading, Downloadable
    <2>3. /\ \A x \in Task, d \in Conn : ToldDone(x, d)' <=> ToldDone(x, d) \/ (x = t /\ d = c /\ last)
          /\ cEnd' = cEnd
      BY <1>2, <1>4, <2>1 DEF ToldDone, Noted
    <2>4. Confirmed' = Confirmed
      <3>1. \A x : x \in Confirmed' <=> x \in Confirmed
        BY <1>2, <2>3, ToldIs DEF ToldAre
      <3> QED
        BY <3>1
    <2>5. Finished' = IF last THEN Finished \cup {c} ELSE Finished
      <3>1. \A d : d \in Finished' <=> d \in Finished \/ (d = c /\ last)
        BY <1>2, <2>3, ToldIs DEF ToldAre
      <3> QED
        BY <3>1
    <2>6. /\ Stored' = Stored /\ spoiled' = spoiled
          /\ Stored[t] = disk[t] /\ Len(Stored[t]) = Segments
      <3>1. Body(t) = disk[t] /\ Len(disk[t]) = Segments
        BY <2>1 DEF Downloading, Body
      <3>2. t \notin spoiled
        BY <3>1, SegmentsAssumption DEF IInv, Rest, FileOk
      <3> QED
        BY <1>2, <3>1, <3>2 DEF Stored, Body
    <2>7. off < Segments
      BY SegmentsAssumption DEF Offset
    <2>8. /\ Len(got[c]) < Segments
          /\ got' = [got EXCEPT ![c] = Append(got[c], Stored[t][Len(got[c]) + 1])]
          /\ Finished' = IF Len(got[c]) + 1 = Segments THEN Finished \cup {c} ELSE Finished
      BY <1>4, <2>2, <2>5, <2>6, <2>7
    <2>9. Store!Read(c, t)
      BY <2>4, <2>6, <2>8 DEF Store!Read, Stored, Confirmed, Finished
    <2> QED
      BY <2>9
  <1> QED
    BY <1>2, <1>3, <1>4

LEMMA NextStores == ASSUME Orderly = Habit, IInv, [Next]_vars PROVE [Store!Next]_Store!vars
  <1>1. ASSUME NEW c \in Conn, NEW s \in {"done", "cancel"}, HandleStates(c, s)
        PROVE  UNCHANGED Store!vars
    BY <1>1, StatesStutters
  <1>2. ASSUME NEW c \in Conn, NEW t \in Task, NEW e \in End, HandleLogin(c, t, e)
        PROVE  UNCHANGED Store!vars
    BY <1>2, LoginStutters
  <1>3. ASSUME NEW t \in Task, NEW m \in {"online", "offline"}, NEW users \in SUBSET End,
               Create(t, m, users)
        PROVE  UNCHANGED Store!vars
    BY <1>3, CreateStutters
  <1>4. ASSUME NEW c \in Conn,
               \/ Connect(c) \/ OnClose(c) \/ OnTimer(c) \/ SendOnline(c)
               \/ \E off \in Offset : PullOnline(c, off)
        PROVE  UNCHANGED Store!vars
    BY <1>4, UnnotedStutters DEF Connect, OnClose, OnTimer, PullOnline, SendOnline
  <1>5. ASSUME NEW t \in Task, AddOffline(t) PROVE UNCHANGED Store!vars
    BY <1>5, UnnotedStutters DEF AddOffline
  <1>6. ASSUME Restart \/ \E c \in Conn : CrashAfterHeader(c) PROVE UNCHANGED Store!vars
    BY <1>6, RestartStutters
  <1>7. ASSUME UNCHANGED vars PROVE UNCHANGED Store!vars
    BY <1>7, UnnotedStutters DEF vars
  <1>8. ASSUME NEW c \in Conn, NEW off \in Offset, Upload(c, off) \/ Download(c, off)
        PROVE  Store!Next \/ UNCHANGED Store!vars
    BY <1>8, UploadStores, DownloadReads DEF Store!Next
  <1>9. ASSUME Next PROVE Store!Next \/ UNCHANGED Store!vars
    BY <1>1, <1>2, <1>3, <1>4, <1>5, <1>6, <1>8, <1>9 DEF Next
  <1> QED
    BY <1>7, <1>9

\* When clients are orderly, files sent offline are a FileStore: a sender is told an upload
\* is done when the file is stored or a write failed, readers get whole files in order,
\* whatever restarts in between.
THEOREM OfflineIsStore == ASSUME Orderly = Habit PROVE Spec => FilesDelivered
  <1>1. Init => Store!Init
    <2> SUFFICES ASSUME Init PROVE Store!Init
      OBVIOUS
    <2>1. /\ Stored = [t \in Task |-> <<>>] /\ spoiled = {} /\ got = [c \in Conn |-> <<>>]
      BY DEF Init, Stored, Body
    <2>2. Confirmed = {} /\ Finished = {}
      BY ToldIs DEF ToldAre, Init, ToldDone
    <2> QED
      BY <2>1, <2>2 DEF Store!Init, Stored, Confirmed, Finished
  <1>2. IInv /\ [Next]_vars => [Store!Next]_Store!vars
    BY NextStores
  <1> QED
    BY <1>1, <1>2, SpecIInv, PTL DEF Spec, FilesDelivered, Store!Spec

============================================================================
