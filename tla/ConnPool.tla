------------------------------ MODULE ConnPool ------------------------------
(***************************************************************************)
(* The connection pools of db_proxy_server (CDBPool for MySQL, CachePool   *)
(* for redis: one algorithm) and the worker threads that run tasks on      *)
(* them.  A task is one of the programs of DbTasks.                        *)
(*                                                                         *)
(* A pool is a mutex and condition variable (CThreadNotify), a list of     *)
(* free connections and the number of connections made so far.  GetDBConn  *)
(* keeps the mutex from its first line to its return, except while it      *)
(* waits, so every pass of its loop is one step here.                      *)
(***************************************************************************)
EXTENDS Naturals, Sequences, FiniteSets, SequencesExt

CONSTANTS
    Thread,      \* worker threads
    Pool,        \* names of the pools
    Slot,        \* connection variables of a task
    PoolOf,      \* slot -> pool the variable is filled from
    Program,     \* the programs a task can run, see DbTasks
    MinConn,     \* MIN_DB_CONN_CNT, MIN_CACHE_CONN_CNT: made by Init
    MaxConn,     \* pool -> the configured maxconncnt
    Fallible,    \* pools whose server may refuse a new connection
    MaxTasks     \* bound on the tasks run in a behaviour

Null == 0        \* a connection variable without a connection

ASSUME PoolAssumption ==
    /\ PoolOf \in [Slot -> Pool] /\ IsFiniteSet(Thread)
    /\ MinConn \in Nat \ {0} /\ MaxConn \in [Pool -> Nat \ {0}]
    /\ Fallible \subseteq Pool /\ MaxTasks \in Nat

(* m_db_cur_conn_cnt starts at MinConn whatever maximum is configured. *)
Limit(p) == IF MaxConn[p] > MinConn THEN MaxConn[p] ELSE MinConn

VARIABLES
    free,        \* m_free_list
    cur,         \* m_db_cur_conn_cnt: the connections are numbered 1..cur
    waiting,     \* threads in m_free_notify.Wait()
    rest,        \* what a thread's task has still to do, <<>> between tasks
    local,       \* thread -> slot -> connection (dangling after a release)
    leaked,      \* {<<pool, connection, thread>>}: what tasks ended without releasing
    tasks        \* tasks taken from the queues so far (bounded)

vars == <<free, cur, waiting, rest, local, leaked, tasks>>

Idle(t) == rest[t] = <<>>
At(t, op) == ~Idle(t) /\ Head(rest[t]).op = op
SlotOf(t) == Head(rest[t]).slot
PoolAt(t) == PoolOf[SlotOf(t)]
ConnAt(t) == local[t][SlotOf(t)]
Advance(t) == rest' = [rest EXCEPT ![t] = Tail(@)]

TypeOK ==
    /\ free \in [Pool -> Seq(Nat)] /\ cur \in [Pool -> Nat]
    /\ \A p \in Pool :
        /\ cur[p] \in MinConn..Limit(p)
        /\ ToSet(free[p]) \subseteq 1..cur[p] /\ IsInjective(free[p])
        /\ waiting[p] \subseteq Thread
    /\ local \in [Thread -> [Slot -> Nat]]
    /\ \A t \in Thread, s \in Slot : local[t][s] <= cur[PoolOf[s]]
    /\ leaked \subseteq Pool \X Nat \X Thread
    /\ tasks \in 0..MaxTasks

Init ==
    /\ free = [p \in Pool |-> [i \in 1..MinConn |-> i]]
    /\ cur = [p \in Pool |-> MinConn]
    /\ waiting = [p \in Pool |-> {}]
    /\ rest = [t \in Thread |-> <<>>]
    /\ local = [t \in Thread |-> [s \in Slot |-> Null]]
    /\ leaked = {} /\ tasks = 0

-----------------------------------------------------------------------------

(* CWorkerThread::Execute takes the next task; its variables are fresh. *)
Execute(t) ==
    /\ Idle(t) /\ tasks < MaxTasks
    /\ \E g \in Program : rest' = [rest EXCEPT ![t] = g]
    /\ local' = [local EXCEPT ![t] = [s \in Slot |-> Null]]
    /\ tasks' = tasks + 1
    /\ UNCHANGED <<free, cur, waiting, leaked>>

(* A thread at a "get" that is not inside Wait() passes the loop's test. *)
Getting(t, p) == At(t, "get") /\ PoolAt(t) = p /\ t \notin waiting[p]

(* Mutant of TakeFree: the head of the list is left in it. *)
FrontOnly(t, p) ==
    /\ Getting(t, p) /\ free[p] # <<>>
    /\ local' = [local EXCEPT ![t][SlotOf(t)] = Head(free[p])]
    /\ Advance(t)
    /\ UNCHANGED <<free, cur, waiting, leaked, tasks>>

(* GetDBConn with a free connection: the head of the list. *)
TakeFree(t, p) ==
    /\ Getting(t, p) /\ free[p] # <<>>
    /\ local' = [local EXCEPT ![t][SlotOf(t)] = Head(free[p])]
    /\ free' = [free EXCEPT ![p] = Tail(@)]
    /\ Advance(t)
    /\ UNCHANGED <<cur, waiting, leaked, tasks>>

(* Mutant of Room: the limit is compared with > instead of >=. *)
RoomPastLimit(p) == cur[p] <= MaxConn[p]

Room(p) == cur[p] < MaxConn[p]

(* Mutant of NewConn: the new connection stays on the list it was put on.    *)
NewConnStays(t, p) ==
    /\ Getting(t, p) /\ free[p] = <<>> /\ Room(p)
    /\ cur' = [cur EXCEPT ![p] = @ + 1]
    /\ free' = [free EXCEPT ![p] = <<cur[p] + 1>>]
    /\ local' = [local EXCEPT ![t][SlotOf(t)] = cur[p] + 1]
    /\ Advance(t)
    /\ UNCHANGED <<waiting, leaked, tasks>>

(* GetDBConn without one: a new connection is made, put on the empty list    *)
(* and taken from it.                                                        *)
NewConn(t, p) ==
    /\ Getting(t, p) /\ free[p] = <<>> /\ Room(p)
    /\ cur' = [cur EXCEPT ![p] = @ + 1]
    /\ local' = [local EXCEPT ![t][SlotOf(t)] = cur[p] + 1]
    /\ Advance(t)
    /\ UNCHANGED <<free, waiting, leaked, tasks>>

(* Mutant of InitFailed: the connection is counted before it is made. *)
CountedBeforeInit(t, p) ==
    /\ Getting(t, p) /\ free[p] = <<>> /\ Room(p) /\ p \in Fallible
    /\ cur' = [cur EXCEPT ![p] = @ + 1]
    /\ rest' = [rest EXCEPT ![t] = Head(@).orElse]
    /\ UNCHANGED <<free, waiting, local, leaked, tasks>>

(* The new connection's Init fails: GetDBConn returns NULL. *)
InitFailed(t, p) ==
    /\ Getting(t, p) /\ free[p] = <<>> /\ Room(p) /\ p \in Fallible
    /\ rest' = [rest EXCEPT ![t] = Head(@).orElse]
    /\ UNCHANGED <<free, cur, waiting, local, leaked, tasks>>

Wait(t, p) ==
    /\ Getting(t, p) /\ free[p] = <<>> /\ ~Room(p)
    /\ waiting' = [waiting EXCEPT ![p] = @ \cup {t}]
    /\ UNCHANGED <<free, cur, rest, local, leaked, tasks>>

(* pthread_cond_signal wakes one of the waiting threads. *)
Signal(p) ==
    IF waiting[p] = {} THEN UNCHANGED waiting
    ELSE \E w \in waiting[p] : waiting' = [waiting EXCEPT ![p] = @ \ {w}]

(* Mutant of RelConn: the release does not signal. *)
RelWithoutSignal(t, p) ==
    /\ At(t, "rel") /\ PoolAt(t) = p
    /\ free' = [free EXCEPT ![p] = Append(@, ConnAt(t))]
    /\ Advance(t)
    /\ UNCHANGED <<cur, waiting, local, leaked, tasks>>

(* RelDBConn, RelCacheConn: a connection already in the list is not added    *)
(* again.  The caller's variable keeps pointing to it.                       *)
RelConn(t, p) ==
    /\ At(t, "rel") /\ PoolAt(t) = p
    /\ free' = IF ConnAt(t) \in ToSet(free[p]) THEN free
               ELSE [free EXCEPT ![p] = Append(@, ConnAt(t))]
    /\ Signal(p)
    /\ Advance(t)
    /\ UNCHANGED <<cur, local, leaked, tasks>>

(* A query or a redis command on the connection. *)
UseConn(t) ==
    /\ At(t, "use")
    /\ Advance(t)
    /\ UNCHANGED <<free, cur, waiting, local, leaked, tasks>>

(* A function returns without releasing a connection: its variable is gone. *)
LeaveConn(t, p) ==
    /\ At(t, "leave") /\ PoolAt(t) = p
    /\ leaked' = leaked \cup {<<p, ConnAt(t), t>>}
    /\ Advance(t)
    /\ UNCHANGED <<free, cur, waiting, local, tasks>>

(* pthread_cond_wait may return without a signal. *)
SpuriousWakeup(t, p) ==
    /\ t \in waiting[p]
    /\ waiting' = [waiting EXCEPT ![p] = @ \ {t}]
    /\ UNCHANGED <<free, cur, rest, local, leaked, tasks>>

Run(t) ==
    \/ Execute(t)
    \/ UseConn(t)
    \/ \E p \in Pool :
        \/ TakeFree(t, p) \/ NewConn(t, p) \/ InitFailed(t, p) \/ Wait(t, p)
        \/ RelConn(t, p) \/ LeaveConn(t, p)

Next == \E t \in Thread : Run(t) \/ \E p \in Pool : SpuriousWakeup(t, p)

Spec == Init /\ [][Next]_vars

(* A thread that is not in Wait() is scheduled; nothing orders the threads   *)
(* that compete for a free connection.                                       *)
FairSpec == Spec /\ \A t \in Thread : WF_vars(Run(t))

-----------------------------------------------------------------------------

(* A remainder of a program relies on the connection of slot s when it uses  *)
(* or releases it before it fills the slot again.                            *)
ReliesOn(g, s) ==
    \E i \in DOMAIN g :
        /\ g[i].slot = s /\ g[i].op # "get"
        /\ \A j \in 1..(i - 1) : g[j].slot = s => g[j].op # "get"

Relies(g) == {s \in Slot : ReliesOn(g, s)}

Live(t, s) == local[t][s] # Null /\ ReliesOn(rest[t], s)

LiveSlots == {x \in Thread \X Slot : Live(x[1], x[2])}

(* A connection a task will still use is not on the free list and is no      *)
(* other task's: what GetDBConn's pop_front is for, and what every caller    *)
(* must keep to (release once, after the last use).                          *)
ExclusiveUse ==
    \A x \in LiveSlots :
        LET p == PoolOf[x[2]]
            c == local[x[1]][x[2]]
        IN  /\ c \notin ToSet(free[p])
            /\ \A y \in LiveSlots \ {x} : ~(PoolOf[y[2]] = p /\ local[y[1]][y[2]] = c)

(* A released connection finds a thread: whenever threads wait on a pool,    *)
(* every free connection of it has a woken thread (or a newcomer) that will  *)
(* test the list again.  RelDBConn signals one thread, GetDBConn loops.      *)
NoLostWakeup ==
    \A p \in Pool : waiting[p] # {} =>
        Len(free[p]) <= Cardinality({t \in Thread : Getting(t, p)})

(* Every connection a pool made is on its free list, held by a task that     *)
(* will return it, or one that isValidateGroupId2 left behind: no other      *)
(* function forgets one, and neither does a pool that fails to make one.     *)
NoneForgotten ==
    \A p \in Pool : \A c \in 1..cur[p] :
        \/ c \in ToSet(free[p])
        \/ \E x \in LiveSlots : PoolOf[x[2]] = p /\ local[x[1]][x[2]] = c
        \/ \E t \in Thread : <<p, c, t>> \in leaked

AllDone == tasks = MaxTasks /\ \A t \in Thread : Idle(t)

(* Every task ends: no set of threads waits for connections the same threads *)
(* hold, or for connections that nobody will return.                         *)
TasksEnd == <>AllDone

(* All connections a pool may have are left behind. *)
Drained(p) == \A c \in 1..Limit(p) : \E t \in Thread : <<p, c, t>> \in leaked

(* Every task ends unless a pool has lost its last connection: the functions *)
(* nest the pools in one order, none of them takes two connections of a      *)
(* pool, and a pool that has lost some connections serves with the rest.     *)
TasksEndUnlessDrained == <>(AllDone \/ \E p \in Pool : Drained(p))

(* Pool, connection and thread of every variable a task still relies on, and *)
(* of every connection left behind, which is never given back.               *)
leases == {<<PoolOf[x[2]], local[x[1]][x[2]], x[1]>> : x \in LiveSlots} \cup leaked

(* The pools lease every connection to one thread at a time: one that a      *)
(* function left behind is not leased again.                                 *)
Leased == INSTANCE Leases WITH Conn <- UNION {1..Limit(p) : p \in Pool}

LeasesKept == Leased!Spec

(* The rule the pools expect of their callers, for a set R of remainders of  *)
(* programs closed under what a thread does with them: a task holds nothing  *)
(* at its start, a connection taken is released later, one released is not   *)
(* touched again, and a refused one leaves what the task holds as it is.     *)
(* A connection may be left behind, but not touched after that.              *)
Disciplined(R) ==
    /\ R \subseteq Seq(UNION {ToSet(g) : g \in R}) /\ <<>> \in R
    /\ \A g \in Program : g \in R /\ Relies(g) = {}
    /\ \A g \in R \ {<<>>} :
        LET step == Head(g)
        IN  /\ step.op \in {"get", "use", "rel", "leave"} /\ step.slot \in Slot /\ Tail(g) \in R
            /\ step.op = "get" => Relies(Tail(g)) = Relies(g) \cup {step.slot}
            /\ step.op = "use" => Relies(Tail(g)) = Relies(g)
            /\ step.op \in {"rel", "leave"} => Relies(Tail(g)) = Relies(g) \ {step.slot}
            /\ step.op = "get" /\ PoolOf[step.slot] \in Fallible
                => step.orElse \in R /\ Relies(step.orElse) = Relies(g)
=============================================================================
