------------------------- MODULE GroupMemberProofs -------------------------
(* Members are in the hash, and unread counts are never too small, for any   *)
(* number of workers and users and whatever fails.                          *)
EXTENDS GroupMember, TLAPS

-----------------------------------------------------------------------------
(* The inductive invariant *)

\* At which step a request may be, and where a fill of the hash leads.
StepOk(T) ==
  /\ T.pc \in {"valid", "read", "fill"} => T.op # "clear"
  /\ T.pc \in {"repeat", "look", "write", "hset"} => T.op = "add"
  /\ T.pc \in {"update", "hdel"} => T.op = "del"
  /\ T.pc \in {"check", "recheck", "inc"} => T.op = "send"
  /\ T.pc \in {"read", "fill"} => \/ T.back = First(T.op)
                                  \/ T.op = "send" /\ T.back \in {"recheck", "inc"}

Steps == \A w \in Worker : task[w] # Idle => StepOk(task[w])

\* What a worker has read of the counter is not more than it is, nor than leaves the
\* messages due.
ReadBounded ==
  \A w \in Worker : At(w, "set") => /\ task[w].n <= total
                                    /\ due[Who(w)] <= total - task[w].n

\* A user who is being added and removed at the same time is in apart.
OverlapApart == \A u \in User : Changing("add", u) /\ Changing("del", u) => u \in apart

\* Who is being taken out of the hash is no member any more.
OutBeforeUncached ==
  \A w \in Worker : At(w, "hdel") /\ Who(w) \notin apart => "in" \notin rows[Who(w)]

\* A member is in the hash, or is just being put there.
Caching(u) == \E w \in Worker : At(w, "hset") /\ Who(w) = u
Listing == \A u \in User : "in" \in rows[u] /\ u \notin apart => u \in cache \/ Caching(u)

IInv == /\ TypeOK /\ Steps /\ ReadBounded /\ UnreadCoversDue
        /\ OverlapApart /\ OutBeforeUncached /\ Listing

-----------------------------------------------------------------------------
(* A worker that goes on with its request *)

\* A busy worker's task.
LEMMA TaskOf ==
    ASSUME TypeOK, NEW w \in Worker, task[w] # Idle
    PROVE  task[w] \in Task /\ Who(w) \in User /\ task[w].op \in Op
  BY DEF TypeOK, Task, Who

\* The task of worker w becomes T: of the same request, or none.
Goes(w, T) ==
  /\ task[w] # Idle
  /\ \/ T = Idle
     \/ T \in Task /\ StepOk(T) /\ T.op = task[w].op /\ T.user = task[w].user
  /\ task' = [task EXCEPT ![w] = T]

\* What that leaves: the types, the order of steps, and nobody else is being changed.
LEMMA GoesOn ==
    ASSUME TypeOK, Steps, NEW w \in Worker, NEW T, Goes(w, T)
    PROVE  /\ task' \in [Worker -> Task \cup {Idle}]
           /\ Steps'
           /\ task'[w] = T
           /\ \A v \in Worker \ {w} : task'[v] = task[v]
           /\ \A u, op : Changing(op, u)' => Changing(op, u)
  <1>1. /\ task' \in [Worker -> Task \cup {Idle}]
        /\ task'[w] = T
        /\ \A v \in Worker \ {w} : task'[v] = task[v]
    BY DEF Goes, TypeOK
  <1>2. Steps'
    <2> SUFFICES ASSUME NEW v \in Worker, task'[v] # Idle
                 PROVE  StepOk(task'[v])
      BY DEF Steps
    <2> QED
      BY <1>1 DEF Goes, Steps
  <1>3. \A u, op : Changing(op, u)' => Changing(op, u)
    BY <1>1 DEF Goes, Changing
  <1> QED
    BY <1>1, <1>2, <1>3

\* A step that leaves the counters alone, and read nothing of them, keeps their parts.
LEMMA CountersStay ==
    ASSUME IInv, NEW w \in Worker, NEW T, Goes(w, T), ~At(w, "set")', UNCHANGED counters
    PROVE  ReadBounded' /\ UnreadCoversDue'
  <1> USE DEF IInv
  <1>1. ReadBounded'
    <2> SUFFICES ASSUME NEW v \in Worker, At(v, "set")'
                 PROVE  (task[v].n <= total /\ due[Who(v)] <= total - task[v].n)'
      BY DEF ReadBounded
    <2>1. v # w
      OBVIOUS
    <2> QED
      BY <2>1, GoesOn DEF ReadBounded, At, Who, counters
  <1>2. UnreadCoversDue'
    BY DEF UnreadCoversDue, counters
  <1> QED
    BY <1>1, <1>2

\* A step that leaves table and hash alone, and is not between them, keeps theirs.
LEMMA MembersStay ==
    ASSUME IInv, NEW w \in Worker, NEW T, Goes(w, T),
           ~At(w, "hset"), ~At(w, "hdel")', UNCHANGED <<table, cache, apart>>
    PROVE  OverlapApart' /\ OutBeforeUncached' /\ Listing'
  <1> USE DEF IInv
  <1>1. OverlapApart'
    BY GoesOn DEF OverlapApart
  <1>2. OutBeforeUncached'
    <2> SUFFICES ASSUME NEW v \in Worker, At(v, "hdel")', (Who(v) \notin apart)'
                 PROVE  ("in" \notin rows[Who(v)])'
      BY DEF OutBeforeUncached
    <2>1. v # w
      OBVIOUS
    <2> QED
      BY <2>1, GoesOn DEF OutBeforeUncached, At, Who, table
  <1>3. Listing'
    <2> SUFFICES ASSUME NEW u \in User, "in" \in rows[u], u \notin apart, u \notin cache
                 PROVE  Caching(u)'
      BY DEF Listing, table
    <2>1. PICK v \in Worker : At(v, "hset") /\ Who(v) = u
      BY DEF Listing, Caching
    <2>2. v # w
      BY <2>1
    <2> QED
      BY <2>1, <2>2, GoesOn DEF Caching, At, Who
  <1> QED
    BY <1>1, <1>2, <1>3

\* A step that changes nothing but its task.
LEMMA QuietMove ==
    ASSUME IInv, NEW w \in Worker, NEW T, Goes(w, T),
           ~At(w, "hset"), ~At(w, "set")', ~At(w, "hdel")',
           UNCHANGED <<table, cache, counters, reqs, apart>>
    PROVE  IInv'
  <1>1. TypeOK' /\ Steps'
    BY GoesOn DEF IInv, TypeOK, table, counters
  <1>2. ReadBounded' /\ UnreadCoversDue'
    BY CountersStay
  <1>3. OverlapApart' /\ OutBeforeUncached' /\ Listing'
    BY MembersStay
  <1> QED
    BY <1>1, <1>2, <1>3 DEF IInv

\* The same of a step that ends the request.
LEMMA QuietEnd ==
    ASSUME IInv, NEW w \in Worker, task[w] # Idle, task[w].pc # "hset", Done(w),
           UNCHANGED <<table, cache, counters, reqs, apart>>
    PROVE  IInv'
  <1>1. Goes(w, Idle) /\ task'[w] = Idle
    BY DEF Goes, Done, IInv, TypeOK
  <1> QED
    BY <1>1, QuietMove DEF At

-----------------------------------------------------------------------------
(* Requests begin and test *)

LEMMA BeginIInv ==
    ASSUME IInv, NEW w \in Worker, NEW op \in Op, NEW u \in User, Begin(w, op, u)
    PROVE  IInv'
  <1> USE DEF IInv
  <1> DEFINE T == [op |-> op, user |-> u,
                pc |-> IF op = "clear" THEN "copy" ELSE "valid", back |-> "valid",
                found |-> FALSE, todo |-> {}, fresh |-> FALSE, n |-> 0,
                round |-> IF op = "send" THEN 2 ELSE 1]
  <1>1. /\ T \in Task /\ T # Idle /\ StepOk(T)
        /\ T.pc \notin {"set", "hdel", "hset"}
    BY DEF Task, Op, Pc, Idle, StepOk
  <1>2. task' = [task EXCEPT ![w] = T] /\ task[w] = Idle
    BY DEF Begin
  <1> HIDE DEF T
  <1>3. /\ task' \in [Worker -> Task \cup {Idle}]
        /\ task'[w] = T
        /\ \A v \in Worker \ {w} : task'[v] = task[v]
    BY <1>1, <1>2 DEF TypeOK
  <1>4. \A x, p : Changing(p, x)' => Changing(p, x) \/ (p = op /\ x = u)
    BY <1>3 DEF Changing, T
  <1>5. apart \subseteq apart' /\ apart' \subseteq User
    BY DEF Begin, TypeOK
  <1>6. TypeOK'
    BY <1>3, <1>5, BoundAssumption DEF TypeOK, Begin, table, counters
  <1>7. Steps'
    BY <1>1, <1>3 DEF Steps
  <1>8. ReadBounded'
    <2> SUFFICES ASSUME NEW v \in Worker, At(v, "set")'
                 PROVE  (task[v].n <= total /\ due[Who(v)] <= total - task[v].n)'
      BY DEF ReadBounded
    <2>1. v # w
      BY <1>1, <1>3 DEF At
    <2> QED
      BY <1>3, <2>1 DEF ReadBounded, At, Who, counters, Begin
  <1>9. UnreadCoversDue'
    BY DEF UnreadCoversDue, counters, Begin
  <1>10. OverlapApart'
    <2> SUFFICES ASSUME NEW x \in User, Changing("add", x)', Changing("del", x)'
                 PROVE  x \in apart'
      BY DEF OverlapApart
    <2>1. CASE Changing("add", x) /\ Changing("del", x)
      BY <2>1, <1>5 DEF OverlapApart
    <2>2. CASE ~Changing("add", x)
      BY <2>2, <1>4 DEF Begin
    <2>3. CASE ~Changing("del", x)
      BY <2>3, <1>4 DEF Begin
    <2> QED
      BY <2>1, <2>2, <2>3
  <1>11. OutBeforeUncached'
    <2> SUFFICES ASSUME NEW v \in Worker, At(v, "hdel")', (Who(v) \notin apart)'
                 PROVE  ("in" \notin rows[Who(v)])'
      BY DEF OutBeforeUncached
    <2>1. v # w
      BY <1>1, <1>3 DEF At
    <2> QED
      BY <1>3, <1>5, <2>1 DEF OutBeforeUncached, At, Who, table, Begin
  <1>12. Listing'
    <2> SUFFICES ASSUME NEW x \in User, "in" \in rows[x], x \notin apart, x \notin cache
                 PROVE  Caching(x)'
      BY <1>5 DEF Listing, table, Begin
    <2>1. PICK v \in Worker : At(v, "hset") /\ Who(v) = x
      BY DEF Listing, Caching
    <2>2. v # w
      BY <1>2, <2>1 DEF At
    <2> QED
      BY <1>3, <2>1, <2>2 DEF Caching, At, Who
  <1> QED
    BY <1>6, <1>7, <1>8, <1>9, <1>10, <1>11, <1>12

\* Steps that test, read a row, or move on: isValidateGroupId, isInGroup, ReadRows,
\* Filled, removeRepeatUser, FindMember.
LEMMA TestIInv ==
    ASSUME IInv, NEW w \in Worker,
           \/ isValidateGroupId(w)
           \/ isInGroup(w, "check", "recheck") \/ isInGroup(w, "recheck", "inc")
           \/ ReadRows(w) \/ Filled(w) \/ removeRepeatUser(w) \/ FindMember(w)
    PROVE  IInv'
  <1> USE DEF IInv
  <1>1. task[w] # Idle /\ task[w] \in Task /\ StepOk(task[w])
    <2>1. task[w] # Idle
      BY DEF isValidateGroupId, isInGroup, ReadRows, Filled, removeRepeatUser, FindMember, At
    <2> QED
      BY <2>1, TaskOf DEF Steps
  <1>2. ASSUME NEW T \in Task, T.op = task[w].op, T.user = task[w].user,
               StepOk(T), T.pc \notin {"set", "hdel"}, task[w].pc # "hset",
               task' = [task EXCEPT ![w] = T],
               UNCHANGED <<table, cache, counters, reqs, apart>>
        PROVE  IInv'
    <2>1. Goes(w, T) /\ task'[w] = T
      BY <1>1, <1>2 DEF Goes, IInv, TypeOK
    <2> QED
      BY <1>2, <2>1, QuietMove DEF At
  <1>3. First(task[w].op) \in {"repeat", "update", "check"}
    BY DEF First
  <1>4. CASE isValidateGroupId(w)
    <2>1. CASE cache # {}
      <3> DEFINE T == [task[w] EXCEPT !.pc = First(task[w].op)]
      <3>1. /\ T \in Task /\ T.op = task[w].op /\ T.user = task[w].user
            /\ T.pc \notin {"set", "hdel"} /\ task[w].pc = "valid"
        BY <1>1, <1>3, <1>4 DEF Task, Pc, isValidateGroupId, At
      <3>2. StepOk(T)
        BY <1>1, <3>1 DEF StepOk, First, Task, Op
      <3>3. /\ task' = [task EXCEPT ![w] = T]
            /\ UNCHANGED <<table, cache, counters, reqs, apart>>
        BY <1>4, <2>1 DEF isValidateGroupId, Go, TypeOK
      <3> HIDE DEF T
      <3> QED
        BY <3>1, <3>2, <3>3, <1>2
    <2>2. CASE cache = {}
      <3> DEFINE T == [task[w] EXCEPT !.pc = "read", !.back = First(task[w].op)]
      <3>1. /\ T \in Task /\ T.op = task[w].op /\ T.user = task[w].user
            /\ T.pc \notin {"set", "hdel"} /\ task[w].pc = "valid"
        BY <1>1, <1>3, <1>4 DEF Task, Pc, isValidateGroupId, At
      <3>2. StepOk(T)
        BY <1>1, <3>1 DEF StepOk, Task
      <3>3. /\ task' = [task EXCEPT ![w] = T]
            /\ UNCHANGED <<table, cache, counters, reqs, apart>>
        BY <1>4, <2>2 DEF isValidateGroupId, TypeOK
      <3> HIDE DEF T
      <3> QED
        BY <3>1, <3>2, <3>3, <1>2
    <2> QED
      BY <2>1, <2>2
  <1>5. ASSUME NEW pc, NEW next, isInGroup(w, pc, next),
               <<pc, next>> \in {<<"check", "recheck">>, <<"recheck", "inc">>}
        PROVE  IInv'
    <2>0. task[w].pc = pc /\ pc \in {"check", "recheck"} /\ next \in {"recheck", "inc"}
      BY <1>5 DEF isInGroup, At
    <2>1. CASE Who(w) \in cache
      <3> DEFINE T == [task[w] EXCEPT !.pc = next]
      <3>1. /\ T \in Task /\ T.op = task[w].op /\ T.user = task[w].user
            /\ T.pc \notin {"set", "hdel"} /\ task[w].pc # "hset"
        BY <1>1, <2>0 DEF Task, Pc
      <3>2. StepOk(T)
        BY <1>1, <2>0, <3>1 DEF StepOk, Task
      <3>3. /\ task' = [task EXCEPT ![w] = T]
            /\ UNCHANGED <<table, cache, counters, reqs, apart>>
        BY <1>5, <2>1 DEF isInGroup, Go, TypeOK
      <3> HIDE DEF T
      <3> QED
        BY <3>1, <3>2, <3>3, <1>2
    <2>2. CASE Who(w) \notin cache
      <3> DEFINE T == [task[w] EXCEPT !.pc = "read", !.back = next]
      <3>1. /\ T \in Task /\ T.op = task[w].op /\ T.user = task[w].user
            /\ T.pc \notin {"set", "hdel"} /\ task[w].pc # "hset"
        BY <1>1, <2>0 DEF Task, Pc
      <3>2. StepOk(T)
        BY <1>1, <2>0, <3>1 DEF StepOk, Task
      <3>3. /\ task' = [task EXCEPT ![w] = T]
            /\ UNCHANGED <<table, cache, counters, reqs, apart>>
        BY <1>5, <2>2 DEF isInGroup, TypeOK
      <3> HIDE DEF T
      <3> QED
        BY <3>1, <3>2, <3>3, <1>2
    <2> QED
      BY <2>1, <2>2
  <1>6. CASE ReadRows(w)
    <2> DEFINE T == [task[w] EXCEPT !.pc = "fill", !.todo = Listed, !.fresh = TRUE,
                                    !.found = Who(w) \in Listed]
    <2>0. ASSUME NEW found \in BOOLEAN, NEW todo \in SUBSET User
          PROVE  [task[w] EXCEPT !.pc = "fill", !.todo = todo, !.fresh = TRUE,
                                 !.found = found] \in Task
      BY <1>1 DEF Task, Pc
    <2>a. Listed \in SUBSET User /\ (Who(w) \in Listed) \in BOOLEAN
      BY DEF Listed
    <2>b. T \in Task
      BY <2>0, <2>a
    <2>1. /\ T \in Task /\ T.op = task[w].op /\ T.user = task[w].user
          /\ T.pc \notin {"set", "hdel"} /\ task[w].pc = "read"
      BY <1>1, <1>6, <2>b DEF Task, Pc, ReadRows, At
    <2>2. StepOk(T)
      BY <1>1, <2>1 DEF StepOk, Task
    <2>3. /\ task' = [task EXCEPT ![w] = T]
          /\ UNCHANGED <<table, cache, counters, reqs, apart>>
      BY <1>6 DEF ReadRows, TypeOK
    <2> HIDE DEF T
    <2> QED
      BY <2>1, <2>2, <2>3, <1>2
  <1>7. CASE Filled(w)
    <2>0. task[w].pc = "fill" /\ UNCHANGED <<table, cache, counters, reqs, apart>>
      BY <1>7 DEF Filled, At
    <2>1. CASE Done(w)
      BY <1>1, <2>0, <2>1, QuietEnd
    <2>2. CASE Go(w, task[w].back)
      <3> DEFINE T == [task[w] EXCEPT !.pc = task[w].back]
      <3>1. /\ T \in Task /\ T.op = task[w].op /\ T.user = task[w].user
            /\ T.pc = task[w].back /\ T.back = task[w].back
        BY <1>1 DEF Task
      <3>2. task[w].back \in {"repeat", "update", "check", "recheck", "inc"}
        BY <1>1, <1>3, <2>0 DEF StepOk
      <3>3. StepOk(T)
        BY <1>1, <2>0, <3>1, <3>2 DEF StepOk, First, Task, Op
      <3>4. task' = [task EXCEPT ![w] = T]
        BY <2>2 DEF Go, TypeOK
      <3> HIDE DEF T
      <3> QED
        BY <2>0, <3>1, <3>2, <3>3, <3>4, <1>2
    <2> QED
      BY <1>7, <2>1, <2>2 DEF Filled
  <1>8. CASE removeRepeatUser(w)
    <2>0. task[w].pc = "repeat" /\ UNCHANGED <<table, cache, counters, reqs, apart>>
      BY <1>8 DEF removeRepeatUser, At
    <2>1. CASE Done(w)
      BY <1>1, <2>0, <2>1, QuietEnd
    <2>2. CASE Go(w, "look")
      <3> DEFINE T == [task[w] EXCEPT !.pc = "look"]
      <3>1. /\ T \in Task /\ T.op = task[w].op /\ T.user = task[w].user
            /\ T.pc = "look"
        BY <1>1 DEF Task, Pc
      <3>2. StepOk(T)
        BY <1>1, <2>0, <3>1 DEF StepOk
      <3>3. task' = [task EXCEPT ![w] = T]
        BY <2>2 DEF Go, TypeOK
      <3> HIDE DEF T
      <3> QED
        BY <2>0, <3>1, <3>2, <3>3, <1>2
    <2> QED
      BY <1>8, <2>1, <2>2 DEF removeRepeatUser
  <1>9. CASE FindMember(w)
    <2> DEFINE T == [task[w] EXCEPT !.pc = "write", !.found = slave[Who(w)] # {}]
    <2>1. /\ T \in Task /\ T.op = task[w].op /\ T.user = task[w].user
          /\ T.pc = "write" /\ task[w].pc = "look"
      BY <1>1, <1>9 DEF Task, Pc, FindMember, At
    <2>2. StepOk(T)
      BY <1>1, <2>1 DEF StepOk
    <2>3. /\ task' = [task EXCEPT ![w] = T]
          /\ UNCHANGED <<table, cache, counters, reqs, apart>>
      BY <1>9 DEF FindMember, TypeOK
    <2> HIDE DEF T
    <2> QED
      BY <2>1, <2>2, <2>3, <1>2
  <1> QED
    BY <1>4, <1>5, <1>6, <1>7, <1>8, <1>9

-----------------------------------------------------------------------------
(* Table and hash *)

\* A fill adds a user; it clears him of apart only when nobody is changing him.
LEMMA FillIInv ==
    ASSUME IInv, NEW w \in Worker, NEW u \in User, FillOne(w, u)
    PROVE  IInv'
  <1> USE DEF IInv
  <1> DEFINE T == [task[w] EXCEPT !.todo = @ \ {u}]
  <1>1. task[w] # Idle /\ task[w] \in Task /\ StepOk(task[w]) /\ task[w].pc = "fill"
    BY TaskOf DEF FillOne, At, Steps
  <1>2. /\ T \in Task /\ T.pc = "fill" /\ T.op = task[w].op /\ T.user = task[w].user
        /\ T.back = task[w].back
    BY <1>1 DEF Task
  <1>3. StepOk(T)
    BY <1>1, <1>2 DEF StepOk
  <1>4. task' = [task EXCEPT ![w] = T] /\ cache' = cache \cup {u}
    BY DEF FillOne, TypeOK
  <1> HIDE DEF T
  <1>5. Goes(w, T) /\ task'[w].pc = "fill" /\ ~At(w, "set")' /\ ~At(w, "hdel")'
    BY <1>1, <1>2, <1>3, <1>4 DEF Goes, At, TypeOK
  <1>6. /\ apart' \subseteq apart
        /\ \A x \in User : x \in apart /\ x \notin apart' => x = u /\ ~Busy(u)
    BY DEF FillOne
  <1>7. TypeOK' /\ Steps'
    BY <1>4, <1>5, <1>6, GoesOn DEF TypeOK, FillOne, table, counters
  <1>8. ReadBounded' /\ UnreadCoversDue'
    BY <1>5, CountersStay DEF FillOne
  <1>9. OverlapApart'
    BY <1>5, <1>6, GoesOn DEF OverlapApart, Busy
  <1>10. OutBeforeUncached'
    <2> SUFFICES ASSUME NEW v \in Worker, At(v, "hdel")', (Who(v) \notin apart)'
                 PROVE  ("in" \notin rows[Who(v)])'
      BY DEF OutBeforeUncached
    <2>1. /\ v # w /\ task'[v] = task[v] /\ At(v, "hdel") /\ Who(v)' = Who(v)
      BY <1>5, GoesOn DEF At, Who
    <2>2. Changing("del", Who(v)) /\ Who(v) \in User
      BY <2>1, TaskOf DEF Changing, Who, At, Steps, StepOk
    <2>3. Who(v) \notin apart
      BY <1>6, <2>1, <2>2 DEF Busy
    <2> QED
      BY <2>1, <2>3 DEF OutBeforeUncached, FillOne, table
  <1>11. Listing'
    <2> SUFFICES ASSUME NEW x \in User, "in" \in rows[x], x \notin apart', x \notin cache'
                 PROVE  Caching(x)'
      BY DEF Listing, FillOne, table
    <2>1. x \notin apart /\ x \notin cache
      BY <1>4, <1>6
    <2>2. PICK v \in Worker : At(v, "hset") /\ Who(v) = x
      BY <2>1 DEF Listing, Caching
    <2>3. v # w
      BY <1>1, <2>2 DEF At
    <2> QED
      BY <1>5, <2>2, <2>3, GoesOn DEF Caching, At, Who
  <1> QED
    BY <1>7, <1>8, <1>9, <1>10, <1>11

\* A statement on the table keeps the table's types.
LEMMA WriteType ==
    ASSUME TypeOK, NEW R \in [User -> SUBSET Status], Write(R)
    PROVE  /\ rows' \in [User -> SUBSET Status]
           /\ binlog' \in Seq([User -> SUBSET Status])
           /\ slave' \in [User -> SUBSET Status]
           /\ rows' = R
  BY DEF TypeOK, Write

\* The row is written before the hash; the worker is then at hset. Nobody who is not
\* apart is being removed at the same time.
LEMMA InsertIInv ==
    ASSUME IInv, NEW w \in Worker, InsertMember(w)
    PROVE  IInv'
  <1> USE DEF IInv
  <1> DEFINE T == [task[w] EXCEPT !.pc = "hset"]
             R == [rows EXCEPT ![Who(w)] = IF task[w].found THEN {"in"} ELSE @ \cup {"in"}]
  <1>1. task[w] # Idle /\ task[w] \in Task /\ StepOk(task[w]) /\ task[w].pc = "write"
    BY TaskOf DEF InsertMember, At, Steps
  <1>2. T \in Task /\ T.pc = "hset" /\ T.op = task[w].op /\ T.user = task[w].user
    BY <1>1 DEF Task, Pc
  <1>3. StepOk(T) /\ task[w].op = "add"
    BY <1>1, <1>2 DEF StepOk
  <1>4. task' = [task EXCEPT ![w] = T]
    BY DEF InsertMember, Go, TypeOK
  <1> HIDE DEF T
  <1>5. /\ Goes(w, T) /\ At(w, "hset")' /\ Who(w)' = Who(w)
        /\ ~At(w, "set")' /\ ~At(w, "hdel")'
    BY <1>1, <1>2, <1>3, <1>4 DEF Goes, At, Who, TypeOK, Idle, Task, Op
  <1>6. R \in [User -> SUBSET Status] /\ \A x \in User \ {Who(w)} : R[x] = rows[x]
    BY DEF TypeOK, Status
  <1>7. Write(R) /\ UNCHANGED <<cache, counters, reqs, apart>>
    BY DEF InsertMember
  <1> HIDE DEF R
  <1>8. TypeOK' /\ Steps' /\ rows' = R
    BY <1>5, <1>6, <1>7, GoesOn, WriteType DEF TypeOK, counters
  <1>9. ReadBounded' /\ UnreadCoversDue'
    BY <1>5, <1>7, CountersStay
  <1>10. OverlapApart'
    BY <1>5, <1>7, GoesOn DEF OverlapApart
  <1>11. OutBeforeUncached'
    <2> SUFFICES ASSUME NEW v \in Worker, At(v, "hdel")', (Who(v) \notin apart)'
                 PROVE  ("in" \notin rows[Who(v)])'
      BY DEF OutBeforeUncached
    <2>1. v # w /\ task'[v] = task[v] /\ At(v, "hdel") /\ Who(v)' = Who(v)
      BY <1>5, GoesOn DEF At, Who
    <2>2. Changing("del", Who(v)) /\ Who(v) \in User
      BY <2>1, TaskOf DEF Changing, Who, At, Steps, StepOk
    <2>3. Changing("add", Who(w)) /\ Who(w) \in User
      BY <1>1, <1>3, TaskOf DEF Changing, Who
    <2>4. Who(v) # Who(w)
      BY <1>7, <2>1, <2>2, <2>3 DEF OverlapApart
    <2> QED
      BY <1>6, <1>7, <1>8, <2>1, <2>2, <2>4 DEF OutBeforeUncached
  <1>12. Listing'
    <2> SUFFICES ASSUME NEW x \in User, "in" \in R[x], x \notin apart, x \notin cache
                 PROVE  Caching(x)'
      BY <1>7, <1>8 DEF Listing
    <2>1. CASE x = Who(w)
      BY <1>5, <2>1 DEF Caching
    <2>2. CASE x # Who(w)
      <3>1. PICK v \in Worker : At(v, "hset") /\ Who(v) = x
        BY <1>6, <2>2 DEF Listing, Caching
      <3> QED
        BY <1>5, <2>2, <3>1, GoesOn DEF Caching, At, Who
    <2> QED
      BY <2>1, <2>2
  <1> QED
    BY <1>8, <1>9, <1>10, <1>11, <1>12

\* Who has been put into the hash need not be under way any more.
LEMMA CacheIInv ==
    ASSUME IInv, NEW w \in Worker, CacheMember(w)
    PROVE  IInv'
  <1> USE DEF IInv
  <1> DEFINE T == [task[w] EXCEPT !.pc = "copy"]
  <1>1. task[w] # Idle /\ task[w] \in Task /\ task[w].pc = "hset"
    BY TaskOf DEF CacheMember, At
  <1>2. T \in Task /\ T.pc = "copy" /\ T.op = task[w].op /\ T.user = task[w].user
    BY <1>1 DEF Task, Pc
  <1>3. StepOk(T)
    BY <1>2 DEF StepOk
  <1>4. task' = [task EXCEPT ![w] = T] /\ Who(w) \in User
    BY <1>1, TaskOf DEF CacheMember, Go, TypeOK
  <1> HIDE DEF T
  <1>5. Goes(w, T) /\ ~At(w, "set")' /\ ~At(w, "hdel")'
    BY <1>1, <1>2, <1>3, <1>4 DEF Goes, At, TypeOK
  <1>6. cache' = cache \cup {Who(w)} /\ UNCHANGED <<table, counters, reqs, apart>>
    BY DEF CacheMember
  <1>7. TypeOK' /\ Steps'
    BY <1>4, <1>5, <1>6, GoesOn DEF TypeOK, table, counters
  <1>8. ReadBounded' /\ UnreadCoversDue'
    BY <1>5, <1>6, CountersStay
  <1>9. OverlapApart'
    BY <1>5, <1>6, GoesOn DEF OverlapApart
  <1>10. OutBeforeUncached'
    BY <1>5, <1>6, GoesOn DEF OutBeforeUncached, At, Who, table
  <1>11. Listing'
    <2> SUFFICES ASSUME NEW x \in User, "in" \in rows[x], x \notin apart,
                        x \notin cache, x # Who(w)
                 PROVE  Caching(x)'
      BY <1>6 DEF Listing, table
    <2>1. PICK v \in Worker : At(v, "hset") /\ Who(v) = x
      BY DEF Listing, Caching
    <2> QED
      BY <1>5, <2>1, GoesOn DEF Caching, At, Who
  <1> QED
    BY <1>7, <1>8, <1>9, <1>10, <1>11

\* The row says out before the field goes.
LEMMA RemoveIInv ==
    ASSUME IInv, NEW w \in Worker, RemoveMember(w)
    PROVE  IInv'
  <1> USE DEF IInv
  <1> DEFINE T == [task[w] EXCEPT !.pc = "hdel"]
             R == [rows EXCEPT ![Who(w)] = IF @ = {} THEN {} ELSE {"out"}]
  <1>1. task[w] # Idle /\ task[w] \in Task /\ StepOk(task[w]) /\ task[w].pc = "update"
    BY TaskOf DEF RemoveMember, At, Steps
  <1>2. T \in Task /\ T.pc = "hdel" /\ T.op = task[w].op /\ T.user = task[w].user
    BY <1>1 DEF Task, Pc
  <1>3. StepOk(T)
    BY <1>1, <1>2 DEF StepOk
  <1>4. task' = [task EXCEPT ![w] = T] /\ Who(w) \in User
    BY <1>1, TaskOf DEF RemoveMember, Go, TypeOK
  <1> HIDE DEF T
  <1>5. Goes(w, T) /\ Who(w)' = Who(w) /\ ~At(w, "set")'
    BY <1>1, <1>2, <1>3, <1>4 DEF Goes, At, Who, TypeOK
  <1>6. /\ R \in [User -> SUBSET Status] /\ "in" \notin R[Who(w)]
        /\ \A x \in User \ {Who(w)} : R[x] = rows[x]
    BY <1>4 DEF TypeOK, Status
  <1>7. Write(R) /\ UNCHANGED <<cache, counters, reqs, apart>>
    BY DEF RemoveMember
  <1> HIDE DEF R
  <1>8. TypeOK' /\ Steps' /\ rows' = R
    BY <1>5, <1>6, <1>7, GoesOn, WriteType DEF TypeOK, counters
  <1>9. ReadBounded' /\ UnreadCoversDue'
    BY <1>5, <1>7, CountersStay
  <1>10. OverlapApart'
    BY <1>5, <1>7, GoesOn DEF OverlapApart
  <1>11. OutBeforeUncached'
    <2> SUFFICES ASSUME NEW v \in Worker, At(v, "hdel")', (Who(v) \notin apart)'
                 PROVE  ("in" \notin rows[Who(v)])'
      BY DEF OutBeforeUncached
    <2>1. CASE Who(v)' = Who(w)
      BY <1>6, <1>8, <2>1
    <2>2. CASE Who(v)' # Who(w)
      <3>1. v # w /\ task'[v] = task[v] /\ At(v, "hdel") /\ Who(v)' = Who(v)
        BY <1>5, <2>2, GoesOn DEF At, Who
      <3>2. Who(v) \in User
        BY <3>1, TaskOf DEF At
      <3> QED
        BY <1>6, <1>7, <1>8, <2>2, <3>1, <3>2 DEF OutBeforeUncached
    <2> QED
      BY <2>1, <2>2
  <1>12. Listing'
    <2> SUFFICES ASSUME NEW x \in User, "in" \in R[x], x \notin apart, x \notin cache
                 PROVE  Caching(x)'
      BY <1>7, <1>8 DEF Listing
    <2>1. PICK v \in Worker : At(v, "hset") /\ Who(v) = x
      BY <1>6 DEF Listing, Caching
    <2>2. v # w
      BY <1>1, <2>1 DEF At
    <2> QED
      BY <1>5, <2>1, <2>2, GoesOn DEF Caching, At, Who
  <1> QED
    BY <1>8, <1>9, <1>10, <1>11, <1>12

\* Who is taken out of the hash is apart, or no member.
LEMMA UncacheIInv ==
    ASSUME IInv, NEW w \in Worker, UncacheMember(w)
    PROVE  IInv'
  <1> USE DEF IInv
  <1> DEFINE T == [task[w] EXCEPT !.pc = "copy"]
  <1>1. task[w] # Idle /\ task[w] \in Task /\ task[w].pc = "hdel" /\ At(w, "hdel")
    BY TaskOf DEF UncacheMember, At
  <1>2. T \in Task /\ T.pc = "copy" /\ T.op = task[w].op /\ T.user = task[w].user
    BY <1>1 DEF Task, Pc
  <1>3. StepOk(T)
    BY <1>2 DEF StepOk
  <1>4. task' = [task EXCEPT ![w] = T]
    BY DEF UncacheMember, Go, TypeOK
  <1> HIDE DEF T
  <1>5. Goes(w, T) /\ ~At(w, "set")' /\ ~At(w, "hdel")'
    BY <1>1, <1>2, <1>3, <1>4 DEF Goes, At, TypeOK
  <1>6. cache' = cache \ {Who(w)} /\ UNCHANGED <<table, counters, reqs, apart>>
    BY DEF UncacheMember
  <1>7. TypeOK' /\ Steps'
    BY <1>5, <1>6, GoesOn DEF TypeOK, table, counters
  <1>8. ReadBounded' /\ UnreadCoversDue'
    BY <1>5, <1>6, CountersStay
  <1>9. OverlapApart'
    BY <1>5, <1>6, GoesOn DEF OverlapApart
  <1>10. OutBeforeUncached'
    BY <1>5, <1>6, GoesOn DEF OutBeforeUncached, At, Who, table
  <1>11. Listing'
    <2> SUFFICES ASSUME NEW x \in User, "in" \in rows[x], x \notin apart, x \notin cache'
                 PROVE  Caching(x)'
      BY <1>6 DEF Listing, table
    <2>1. x # Who(w)
      BY <1>1 DEF OutBeforeUncached
    <2>2. PICK v \in Worker : At(v, "hset") /\ Who(v) = x
      BY <1>6, <2>1 DEF Listing, Caching
    <2> QED
      BY <1>5, <2>1, <2>2, GoesOn DEF Caching, At, Who
  <1> QED
    BY <1>7, <1>8, <1>9, <1>10, <1>11

-----------------------------------------------------------------------------
(* Counters *)

\* One more message: what is due to the others grows by no more than the counter.
LEMMA CountIInv ==
    ASSUME IInv, NEW w \in Worker, IncTotal(w)
    PROVE  IInv'
  <1> USE DEF IInv
  <1> DEFINE T == [task[w] EXCEPT !.pc = "copy"]
  <1>1. task[w] # Idle /\ task[w] \in Task /\ task[w].pc = "inc"
    BY TaskOf DEF IncTotal, At
  <1>2. T \in Task /\ T.pc = "copy" /\ T.op = task[w].op /\ T.user = task[w].user
    BY <1>1 DEF Task, Pc
  <1>3. StepOk(T)
    BY <1>2 DEF StepOk
  <1>4. task' = [task EXCEPT ![w] = T]
    BY DEF IncTotal, Go, TypeOK
  <1> HIDE DEF T
  <1>5. Goes(w, T) /\ ~At(w, "set")' /\ ~At(w, "hdel")' /\ ~At(w, "hset")
    BY <1>1, <1>2, <1>3, <1>4 DEF Goes, At, TypeOK
  <1>6. /\ total' = total + 1 /\ UNCHANGED <<table, cache, counted, reqs, apart>>
        /\ due' \in [User -> Nat] /\ \A u \in User : due'[u] <= due[u] + 1
    BY DEF IncTotal, TypeOK
  <1>7. TypeOK' /\ Steps'
    <2>1. total' \in Nat /\ counted' \in [User -> 0..total']
      BY <1>6 DEF TypeOK
    <2> QED
      BY <1>5, <1>6, <2>1, GoesOn DEF TypeOK, table
  <1>8. ReadBounded'
    <2> SUFFICES ASSUME NEW v \in Worker, At(v, "set")'
                 PROVE  (task[v].n <= total /\ due[Who(v)] <= total - task[v].n)'
      BY DEF ReadBounded
    <2>1. v # w /\ task'[v] = task[v] /\ At(v, "set") /\ Who(v)' = Who(v)
      BY <1>5, GoesOn DEF At, Who
    <2>2. Who(v) \in User /\ task[v].n \in Nat
      BY <2>1, TaskOf DEF At, Task
    <2>3. task[v].n <= total /\ due[Who(v)] <= total - task[v].n
      BY <2>1 DEF ReadBounded
    <2>4. total \in Nat /\ due[Who(v)] \in Nat /\ due'[Who(v)] \in Nat
      BY <1>6, <2>2 DEF TypeOK
    <2> QED
      BY <1>6, <2>1, <2>2, <2>3, <2>4
  <1>9. UnreadCoversDue'
    <2> SUFFICES ASSUME NEW u \in User
                 PROVE  due'[u] <= total' - counted'[u]
      BY DEF UnreadCoversDue
    <2>1. /\ due[u] \in Nat /\ due'[u] \in Nat /\ total \in Nat /\ counted[u] \in Nat
          /\ due[u] <= total - counted[u] /\ due'[u] <= due[u] + 1
      BY <1>6 DEF TypeOK, UnreadCoversDue
    <2> QED
      BY <1>6, <2>1
  <1>10. OverlapApart' /\ OutBeforeUncached' /\ Listing'
    BY <1>5, <1>6, MembersStay
  <1> QED
    BY <1>7, <1>8, <1>9, <1>10

\* The counter is read, and nothing is due to the user.
LEMMA ReadIInv ==
    ASSUME IInv, NEW w \in Worker, ReadTotal(w)
    PROVE  IInv'
  <1> USE DEF IInv
  <1> DEFINE T == [task[w] EXCEPT !.pc = "set", !.n = total]
  <1>1. /\ task[w] # Idle /\ task[w] \in Task /\ task[w].pc = "copy"
        /\ total \in Nat /\ Who(w) \in User
    BY TaskOf DEF ReadTotal, At, TypeOK
  <1>2. /\ T \in Task /\ T.pc = "set" /\ T.op = task[w].op /\ T.user = task[w].user
        /\ T.n = total
    BY <1>1 DEF Task, Pc
  <1>3. StepOk(T)
    BY <1>2 DEF StepOk
  <1>4. task' = [task EXCEPT ![w] = T]
    BY DEF ReadTotal, TypeOK
  <1> HIDE DEF T
  <1>5. Goes(w, T) /\ ~At(w, "hdel")' /\ ~At(w, "hset") /\ Who(w)' = Who(w)
    BY <1>1, <1>2, <1>3, <1>4 DEF Goes, At, Who, TypeOK
  <1>6. /\ UNCHANGED <<table, cache, total, counted, reqs, apart>>
        /\ due' \in [User -> Nat] /\ due'[Who(w)] = 0
        /\ \A u \in User : due'[u] <= due[u]
    BY <1>1 DEF ReadTotal, TypeOK
  <1>7. TypeOK' /\ Steps'
    BY <1>5, <1>6, GoesOn DEF TypeOK, table
  <1>8. ReadBounded'
    <2> SUFFICES ASSUME NEW v \in Worker, At(v, "set")'
                 PROVE  (task[v].n <= total /\ due[Who(v)] <= total - task[v].n)'
      BY DEF ReadBounded
    <2>1. CASE v = w
      BY <1>1, <1>2, <1>5, <1>6, <2>1, GoesOn
    <2>2. CASE v # w
      <3>1. task'[v] = task[v] /\ At(v, "set") /\ Who(v)' = Who(v)
        BY <1>5, <2>2, GoesOn DEF At, Who
      <3>2. Who(v) \in User /\ task[v].n \in Nat
        BY <3>1, TaskOf DEF At, Task
      <3>3. task[v].n <= total /\ due[Who(v)] <= total - task[v].n
        BY <3>1 DEF ReadBounded
      <3>4. due[Who(v)] \in Nat /\ due'[Who(v)] \in Nat
        BY <1>6, <3>2 DEF TypeOK
      <3> QED
        BY <1>1, <1>6, <3>1, <3>2, <3>3, <3>4
    <2> QED
      BY <2>1, <2>2
  <1>9. UnreadCoversDue'
    <2> SUFFICES ASSUME NEW u \in User
                 PROVE  due'[u] <= total' - counted'[u]
      BY DEF UnreadCoversDue
    <2>1. /\ due[u] \in Nat /\ due'[u] \in Nat /\ counted[u] \in Nat
          /\ due[u] <= total - counted[u] /\ due'[u] <= due[u]
      BY <1>6 DEF TypeOK, UnreadCoversDue
    <2> QED
      BY <1>1, <1>6, <2>1
  <1>10. OverlapApart' /\ OutBeforeUncached' /\ Listing'
    BY <1>5, <1>6, MembersStay
  <1> QED
    BY <1>7, <1>8, <1>9, <1>10

\* What was read is written, however old it is.
LEMMA SetIInv ==
    ASSUME IInv, NEW w \in Worker, SetCounted(w)
    PROVE  IInv'
  <1> USE DEF IInv
  <1> DEFINE N == [task[w] EXCEPT !.pc = "copy", !.round = 1]
             T == IF task[w].round = 2 THEN N ELSE Idle
  <1>1. /\ At(w, "set") /\ task[w] # Idle /\ task[w] \in Task /\ task[w].pc = "set"
        /\ Who(w) \in User /\ task[w].n \in Nat
    BY TaskOf DEF SetCounted, At, Task
  <1>2. N \in Task /\ N.pc = "copy" /\ N.op = task[w].op /\ N.user = task[w].user
    <2>1. ASSUME NEW round \in 0..2
          PROVE  [task[w] EXCEPT !.pc = "copy", !.round = round] \in Task
      BY <1>1 DEF Task, Pc
    <2>2. N \in Task
      BY <2>1
    <2> QED
      BY <1>1, <2>2 DEF Task
  <1>3. StepOk(N)
    BY <1>2 DEF StepOk
  <1>4. task' = [task EXCEPT ![w] = T]
    BY DEF SetCounted, Done, TypeOK
  <1> HIDE DEF N
  <1>5. Goes(w, T) /\ task'[w] = T /\ (T = Idle \/ T = N)
    BY <1>1, <1>2, <1>3, <1>4 DEF Goes, TypeOK
  <1> HIDE DEF T
  <1>6. ~At(w, "hdel")' /\ ~At(w, "hset") /\ ~At(w, "set")'
    BY <1>1, <1>2, <1>5 DEF At
  <1>7. /\ UNCHANGED <<table, cache, total, due, reqs, apart>>
        /\ counted' = [counted EXCEPT ![Who(w)] = task[w].n]
    BY DEF SetCounted
  <1>8. task[w].n <= total /\ due[Who(w)] <= total - task[w].n /\ total \in Nat
    BY <1>1 DEF ReadBounded, TypeOK
  <1>9. counted' \in [User -> 0..total]
    BY <1>1, <1>7, <1>8 DEF TypeOK
  <1>10. TypeOK' /\ Steps'
    BY <1>5, <1>7, <1>9, GoesOn DEF TypeOK, table
  <1>11. ReadBounded'
    BY <1>5, <1>6, <1>7, GoesOn DEF ReadBounded, At, Who
  <1>12. UnreadCoversDue'
    BY <1>1, <1>7, <1>8 DEF UnreadCoversDue, TypeOK
  <1>13. OverlapApart' /\ OutBeforeUncached' /\ Listing'
    BY <1>5, <1>6, <1>7, MembersStay
  <1> QED
    BY <1>10, <1>11, <1>12, <1>13

-----------------------------------------------------------------------------
(* The slave, and failures *)

LEMMA ReplicateIInv ==
    ASSUME IInv, Replicate
    PROVE  IInv'
  <1> USE DEF IInv
  <1>1. /\ binlog \in Seq([User -> SUBSET Status]) /\ binlog # <<>>
        /\ slave' = Head(binlog) /\ binlog' = Tail(binlog)
        /\ UNCHANGED <<rows, cache, counters, task, reqs, apart>>
    BY DEF Replicate, TypeOK
  <1> HIDE DEF Status
  <1>2. /\ slave' \in [User -> SUBSET Status]
        /\ binlog' \in Seq([User -> SUBSET Status])
    BY <1>1
  <1>3. TypeOK'
    BY <1>1, <1>2 DEF TypeOK, counters
  <1>4. Steps' /\ ReadBounded' /\ UnreadCoversDue' /\ OverlapApart'
    BY <1>1 DEF Steps, ReadBounded, UnreadCoversDue, OverlapApart, Changing, At, Who,
                counters
  <1>5. OutBeforeUncached' /\ Listing'
    BY <1>1 DEF OutBeforeUncached, Listing, Caching, At, Who
  <1> QED
    BY <1>3, <1>4, <1>5

\* Without the hash everybody is apart.
LEMMA LoseIInv ==
    ASSUME IInv, LoseHash
    PROVE  IInv'
  <1> USE DEF IInv
  <1>1. /\ cache' = {} /\ apart' = User
        /\ task' = [w \in Worker |-> IF task[w] = Idle THEN Idle
                                     ELSE [task[w] EXCEPT !.fresh = FALSE]]
        /\ UNCHANGED <<table, counters, reqs>>
    BY DEF LoseHash
  <1>2. ASSUME NEW w \in Worker
        PROVE  \/ task[w] = Idle /\ task'[w] = Idle
               \/ /\ task[w] # Idle /\ task'[w] \in Task /\ StepOk(task'[w])
                  /\ task'[w].pc = task[w].pc /\ task'[w].user = task[w].user
                  /\ task'[w].n = task[w].n
    <2>1. CASE task[w] = Idle
      BY <1>1, <2>1
    <2>2. CASE task[w] # Idle
      <3> DEFINE T == [task[w] EXCEPT !.fresh = FALSE]
      <3>1. task[w] \in Task /\ StepOk(task[w])
        BY <2>2, TaskOf DEF Steps
      <3>2. /\ T \in Task /\ T.pc = task[w].pc /\ T.user = task[w].user
            /\ T.n = task[w].n /\ T.op = task[w].op /\ T.back = task[w].back
        BY <3>1 DEF Task
      <3>3. task'[w] = T
        BY <1>1, <2>2
      <3> HIDE DEF T
      <3> QED
        BY <2>2, <3>1, <3>2, <3>3 DEF StepOk
    <2> QED
      BY <2>1, <2>2
  <1>3. task' \in [Worker -> Task \cup {Idle}]
    BY <1>1, <1>2
  <1>4. TypeOK'
    BY <1>1, <1>3 DEF TypeOK, table, counters
  <1>5. Steps'
    BY <1>2 DEF Steps
  <1>6. ReadBounded' /\ UnreadCoversDue'
    BY <1>1, <1>2 DEF ReadBounded, UnreadCoversDue, At, Who, counters
  <1>7. OverlapApart' /\ Listing'
    BY <1>1 DEF OverlapApart, Listing
  <1>8. OutBeforeUncached'
    BY <1>1, <1>2 DEF OutBeforeUncached, At, Who, Task
  <1> QED
    BY <1>4, <1>5, <1>6, <1>7, <1>8

\* Whoever was being changed is apart.
LEMMA CrashIInv ==
    ASSUME IInv, Crash
    PROVE  IInv'
  <1> USE DEF IInv
  <1>1. /\ task' = [w \in Worker |-> Idle]
        /\ apart' = apart \cup {u \in User : Busy(u)}
        /\ UNCHANGED <<table, cache, counters, reqs>>
    BY DEF Crash
  <1>2. TypeOK'
    BY <1>1 DEF TypeOK, table, counters
  <1>3. Steps' /\ ReadBounded' /\ UnreadCoversDue' /\ OverlapApart' /\ OutBeforeUncached'
    BY <1>1 DEF Steps, ReadBounded, UnreadCoversDue, OverlapApart, OutBeforeUncached,
                Changing, At, counters
  <1>4. Listing'
    <2> SUFFICES ASSUME NEW u \in User, "in" \in rows[u], u \notin apart', u \notin cache
                 PROVE  FALSE
      BY <1>1 DEF Listing, table
    <2>1. u \notin apart /\ ~Busy(u)
      BY <1>1
    <2>2. PICK v \in Worker : At(v, "hset") /\ Who(v) = u
      BY <2>1 DEF Listing, Caching
    <2>3. Changing("add", u)
      BY <2>2 DEF Steps, StepOk, Changing, At, Who
    <2> QED
      BY <2>1, <2>3 DEF Busy
  <1> QED
    BY <1>2, <1>3, <1>4

-----------------------------------------------------------------------------
(* The theorems *)

LEMMA InitIInv == Init => IInv
  <1> SUFFICES ASSUME Init PROVE IInv
    OBVIOUS
  <1>1. TypeOK
    BY FounderAssumption, BoundAssumption DEF Init, TypeOK, Status
  <1>2. Steps /\ ReadBounded /\ UnreadCoversDue /\ OverlapApart /\ OutBeforeUncached
    BY DEF Init, Steps, ReadBounded, UnreadCoversDue, OverlapApart, OutBeforeUncached,
           Changing, At
  <1>3. Listing
    BY DEF Init, Listing
  <1> QED
    BY <1>1, <1>2, <1>3 DEF IInv

LEMMA NextIInv == IInv /\ [Next]_vars => IInv'
  <1> SUFFICES ASSUME IInv, [Next]_vars PROVE IInv'
    OBVIOUS
  <1>1. ASSUME NEW w \in Worker, Step(w) PROVE IInv'
    <2>1. CASE \/ isValidateGroupId(w)
               \/ isInGroup(w, "check", "recheck") \/ isInGroup(w, "recheck", "inc")
               \/ ReadRows(w) \/ Filled(w) \/ removeRepeatUser(w) \/ FindMember(w)
      BY <2>1, TestIInv
    <2>2. CASE \E u \in User : FillOne(w, u)
      BY <2>2, FillIInv
    <2>3. CASE InsertMember(w)
      BY <2>3, InsertIInv
    <2>4. CASE CacheMember(w)
      BY <2>4, CacheIInv
    <2>5. CASE RemoveMember(w)
      BY <2>5, RemoveIInv
    <2>6. CASE UncacheMember(w)
      BY <2>6, UncacheIInv
    <2>7. CASE IncTotal(w)
      BY <2>7, CountIInv
    <2>8. CASE ReadTotal(w)
      BY <2>8, ReadIInv
    <2>9. CASE SetCounted(w)
      BY <2>9, SetIInv
    <2> QED
      BY <1>1, <2>1, <2>2, <2>3, <2>4, <2>5, <2>6, <2>7, <2>8, <2>9 DEF Step
  <1>2. ASSUME NEW w \in Worker, NEW op \in Op, NEW u \in User, Begin(w, op, u)
        PROVE  IInv'
    BY <1>2, BeginIInv
  <1>3. CASE UNCHANGED vars
    BY <1>3 DEF vars, table, counters, IInv, TypeOK, Steps, ReadBounded, UnreadCoversDue,
                OverlapApart, OutBeforeUncached, Listing, Caching, Changing, At, Who
  <1> QED
    BY <1>1, <1>2, <1>3, ReplicateIInv, LoseIInv, CrashIInv DEF Next

\* The inductive invariant holds in every behaviour.
THEOREM IInvHolds == Spec => []IInv
  BY InitIInv, NextIInv, PTL DEF Spec

\* Table, slave, hash, counters and tasks keep their types, and a user's copy of the
\* counter never exceeds it.
THEOREM TypeCorrect == Spec => []TypeOK
  <1>1. IInv => TypeOK
    BY DEF IInv
  <1> QED
    BY <1>1, IInvHolds, PTL

\* A user whose row says he is a member is in the hash GroupModel delivers by, unless he
\* is being changed, was added and removed at once, or a failure came between.
THEOREM MembersAreCached == Spec => []MembersCached
  <1>1. ASSUME IInv PROVE MembersCached
    <2> SUFFICES ASSUME NEW u \in User, "in" \in rows[u], u \notin apart, ~Busy(u),
                        u \notin cache
                 PROVE  FALSE
      BY DEF MembersCached
    <2>1. PICK v \in Worker : At(v, "hset") /\ Who(v) = u
      BY <1>1 DEF IInv, Listing, Caching
    <2>2. Changing("add", u)
      BY <1>1, <2>1 DEF IInv, Steps, StepOk, Changing, At, Who
    <2> QED
      BY <2>2 DEF Busy
  <1> QED
    BY <1>1, IInvHolds, PTL

\* The unread count of a member is no less than the messages of others counted since he
\* last read the counter, in whatever order the workers write their copies.
THEOREM UnreadIsEnough == Spec => []UnreadCoversDue
  <1>1. IInv => UnreadCoversDue
    BY DEF IInv
  <1> QED
    BY <1>1, IInvHolds, PTL

=============================================================================
