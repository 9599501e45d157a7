--------------------------- MODULE ConnPoolProofs ---------------------------
(* The pools keep their promise to any number of threads, whatever programs  *)
(* the threads run, as long as the programs are disciplined.                 *)
EXTENDS ConnPool, SequenceTheorems, FiniteSetTheorems, TLAPS

-----------------------------------------------------------------------------
(* Free lists *)

\* pop_front takes one connection off a list that has each once.
LEMMA TakenFromFront ==
    ASSUME NEW q \in Seq(Nat), q # <<>>, IsInjective(q)
    PROVE  /\ Tail(q) \in Seq(Nat) /\ IsInjective(Tail(q)) /\ Len(Tail(q)) = Len(q) - 1
           /\ Head(q) \in ToSet(q) /\ ToSet(Tail(q)) = ToSet(q) \ {Head(q)}
  <1> DEFINE r == Tail(q)
  <1>1. /\ r \in Seq(Nat) /\ Len(q) \in Nat \ {0} /\ Len(r) = Len(q) - 1
        /\ \A i \in 1..Len(r) : i + 1 \in 1..Len(q) /\ i + 1 # 1 /\ r[i] = q[i + 1]
        /\ Head(q) = q[1] /\ 1 \in 1..Len(q)
    OBVIOUS
  <1>2. DOMAIN r = 1..Len(r) /\ DOMAIN q = 1..Len(q)
    OBVIOUS
  <1> HIDE DEF r
  <1>3. \A i, j \in 1..Len(q) : q[i] = q[j] => i = j
    BY <1>2, Zenon DEF IsInjective
  <1>4. IsInjective(r)
    <2>1. ASSUME NEW i \in 1..Len(r), NEW j \in 1..Len(r), r[i] = r[j] PROVE i = j
      <3>1. q[i + 1] = q[j + 1] /\ i + 1 \in 1..Len(q) /\ j + 1 \in 1..Len(q)
        BY <1>1, <2>1
      <3>2. i + 1 = j + 1
        BY <1>3, <3>1
      <3> QED
        BY <3>2
    <2> QED
      BY <1>2, <2>1, Zenon DEF IsInjective
  <1>5. Head(q) \in ToSet(q)
    BY <1>1, <1>2, Zenon DEF ToSet
  <1>6. ASSUME NEW c \in ToSet(r) PROVE c \in ToSet(q) /\ c # Head(q)
    <2>1. PICK i \in 1..Len(r) : c = q[i + 1]
      BY <1>1, <1>2 DEF ToSet
    <2> QED
      BY <1>1, <1>2, <1>3, <2>1 DEF ToSet
  <1>7. ASSUME NEW c \in ToSet(q), c # Head(q) PROVE c \in ToSet(r)
    <2>1. PICK i \in 1..Len(q) : c = q[i]
      BY <1>2 DEF ToSet
    <2>2. i - 1 \in 1..Len(r) /\ r[i - 1] = q[i]
      BY <1>1, <1>7, <2>1
    <2> QED
      BY <1>2, <2>1, <2>2 DEF ToSet
  <1> QED
    BY <1>1, <1>4, <1>5, <1>6, <1>7 DEF r

\* push_back of a connection that is not on the list.
LEMMA PutAtBack ==
    ASSUME NEW q \in Seq(Nat), NEW c \in Nat, IsInjective(q), c \notin ToSet(q)
    PROVE  /\ Append(q, c) \in Seq(Nat) /\ IsInjective(Append(q, c))
           /\ Len(Append(q, c)) = Len(q) + 1 /\ Len(q) \in Nat
           /\ ToSet(Append(q, c)) = ToSet(q) \cup {c}
  <1> DEFINE r == Append(q, c)
  <1>1. /\ r \in Seq(Nat) /\ Len(q) \in Nat /\ Len(r) = Len(q) + 1
        /\ DOMAIN r = 1..Len(r) /\ DOMAIN q = 1..Len(q)
        /\ \A i \in 1..Len(q) : r[i] = q[i]
        /\ r[Len(q) + 1] = c
    OBVIOUS
  <1> HIDE DEF r
  <1>2. IsInjective(r)
    BY <1>1 DEF IsInjective, ToSet
  <1>3. ToSet(r) = ToSet(q) \cup {c}
    BY <1>1 DEF ToSet
  <1> QED
    BY <1>1, <1>2, <1>3 DEF r

-----------------------------------------------------------------------------
(* Remainders of programs *)

\* What a disciplined set says of the first step of a remainder; what a thread
\* takes is not relied on before, what it uses or releases is.
LEMMA FirstStep ==
    ASSUME NEW R, Disciplined(R), NEW g \in R, g # <<>>
    PROVE  /\ Head(g).slot \in Slot /\ Tail(g) \in R
           /\ Head(g).op \in {"get", "use", "rel", "leave"}
           /\ Head(g).op = "get" => /\ Head(g).slot \notin Relies(g)
                                    /\ Relies(Tail(g)) = Relies(g) \cup {Head(g).slot}
           /\ Head(g).op # "get" => Head(g).slot \in Relies(g)
           /\ Head(g).op = "use" => Relies(Tail(g)) = Relies(g)
           /\ Head(g).op \in {"rel", "leave"} => Relies(Tail(g)) = Relies(g) \ {Head(g).slot}
           /\ Head(g).op = "get" /\ PoolOf[Head(g).slot] \in Fallible
              => Head(g).orElse \in R /\ Relies(Head(g).orElse) = Relies(g)
  <1>1. /\ Head(g).slot \in Slot /\ Tail(g) \in R
        /\ Head(g).op \in {"get", "use", "rel", "leave"}
        /\ Head(g).op = "get" => Relies(Tail(g)) = Relies(g) \cup {Head(g).slot}
        /\ Head(g).op = "use" => Relies(Tail(g)) = Relies(g)
        /\ Head(g).op \in {"rel", "leave"} => Relies(Tail(g)) = Relies(g) \ {Head(g).slot}
        /\ Head(g).op = "get" /\ PoolOf[Head(g).slot] \in Fallible
           => Head(g).orElse \in R /\ Relies(Head(g).orElse) = Relies(g)
    BY DEF Disciplined
  <1>2. /\ Head(g) = g[1] /\ DOMAIN g = 1..Len(g) /\ Len(g) \in Nat \ {0}
    <2>1. g \in Seq(UNION {ToSet(h) : h \in R})
      BY DEF Disciplined
    <2> QED
      BY <2>1
  <1>3. Head(g).op = "get" => Head(g).slot \notin Relies(g)
    BY <1>2 DEF Relies, ReliesOn
  <1>4. Head(g).op # "get" => Head(g).slot \in Relies(g)
    BY <1>1, <1>2 DEF Relies, ReliesOn
  <1> QED
    BY <1>1, <1>3, <1>4

LEMMA NothingLeft == Relies(<<>>) = {}
  BY DEF Relies, ReliesOn

-----------------------------------------------------------------------------
(* The inductive invariant *)

\* A thread waits on the pool of the "get" it is at.
WaitAtGet == \A p \in Pool : \A t \in waiting[p] : At(t, "get") /\ PoolAt(t) = p

\* A connection a task relies on exists and is not free; no two tasks, and no two
\* variables of a task, rely on one connection; one left behind is neither free nor
\* relied on; every connection is free, held or left behind.
HeldAreOut ==
  \A t \in Thread : \A s \in Relies(rest[t]) :
    local[t][s] \in 1..cur[PoolOf[s]] /\ local[t][s] \notin ToSet(free[PoolOf[s]])
HeldOnce ==
  \A t, u \in Thread : \A s \in Relies(rest[t]), r \in Relies(rest[u]) :
    PoolOf[s] = PoolOf[r] /\ local[t][s] = local[u][r] => t = u /\ s = r
Left(p, c) == \E l \in leaked : l[1] = p /\ l[2] = c
LeftAreOut ==
  \A p \in Pool, c \in Nat : Left(p, c) =>
    /\ c \in 1..cur[p] /\ c \notin ToSet(free[p])
    /\ \A t \in Thread : \A s \in Relies(rest[t]) : PoolOf[s] = p => local[t][s] # c
HeldOrFree ==
  \A p \in Pool : \A c \in 1..cur[p] :
    \/ c \in ToSet(free[p])
    \/ \E t \in Thread : \E s \in Relies(rest[t]) : PoolOf[s] = p /\ local[t][s] = c
    \/ Left(p, c)
Holdings == HeldAreOut /\ HeldOnce /\ LeftAreOut /\ HeldOrFree

Types(R) == /\ TypeOK
            /\ waiting \in [Pool -> SUBSET Thread] /\ rest \in [Thread -> R]

IInv(R) == Types(R) /\ WaitAtGet /\ Holdings /\ NoLostWakeup

\* The threads at the loop of GetDBConn, awake.
Getters(p) == {t \in Thread : Getting(t, p)}

LEMMA GettersFinite ==
    ASSUME NEW p PROVE IsFiniteSet(Getters(p)) /\ Cardinality(Getters(p)) \in Nat
  BY PoolAssumption, FS_Subset, FS_CardinalityType DEF Getters

-----------------------------------------------------------------------------
(* Init *)

LEMMA InitIInv == ASSUME NEW R, Disciplined(R), Init PROVE IInv(R)
  <1> USE PoolAssumption
  <1>1. \A p \in Pool : /\ free[p] = [i \in 1..MinConn |-> i]
                        /\ free[p] \in Seq(Nat) /\ DOMAIN free[p] = 1..MinConn
    <2>1. [i \in 1..MinConn |-> i] \in Seq(Nat)
      BY IsASeq
    <2> QED
      BY <2>1 DEF Init
  <1>2. ASSUME NEW p \in Pool PROVE ToSet(free[p]) = 1..MinConn /\ IsInjective(free[p])
    <2>1. DOMAIN free[p] = 1..MinConn /\ \A i \in 1..MinConn : free[p][i] = i
      BY <1>1
    <2>2. IsInjective(free[p])
      BY <2>1, Zenon DEF IsInjective
    <2> QED
      BY <2>1, <2>2 DEF ToSet
  <1>3. \A p \in Pool : cur[p] = MinConn /\ Limit(p) \in Nat /\ MinConn <= Limit(p)
    BY DEF Init, Limit
  <1>4. Types(R)
    <2>1. free \in [Pool -> Seq(Nat)] /\ cur \in [Pool -> Nat] /\ waiting \in [Pool -> SUBSET Thread]
      BY <1>1 DEF Init
    <2>2. rest \in [Thread -> R] /\ local \in [Thread -> [Slot -> Nat]] /\ tasks \in 0..MaxTasks
      BY DEF Init, Disciplined, Null
    <2>3. \A t \in Thread, s \in Slot : local[t][s] <= cur[PoolOf[s]]
      BY <1>3 DEF Init, Null
    <2>4. leaked = {}
      BY DEF Init
    <2> QED
      BY <1>2, <1>3, <2>1, <2>2, <2>3, <2>4 DEF Types, TypeOK
  <1>5. WaitAtGet /\ NoLostWakeup
    BY DEF Init, WaitAtGet, NoLostWakeup
  <1>6. Holdings
    <2>1. \A t \in Thread : Relies(rest[t]) = {}
      BY NothingLeft DEF Init
    <2>2. leaked = {}
      BY DEF Init
    <2> QED
      BY <1>2, <1>3, <2>1, <2>2 DEF Holdings, HeldAreOut, HeldOnce, LeftAreOut, HeldOrFree, Left
  <1> QED
    BY <1>4, <1>5, <1>6 DEF IInv

-----------------------------------------------------------------------------
(* What a step leaves alone *)

\* A step after which every task relies on the connections it relied on.
LEMMA HoldingsStay ==
    ASSUME Holdings, UNCHANGED <<free, cur, leaked>>,
           \A t \in Thread : /\ Relies(rest'[t]) = Relies(rest[t])
                             /\ \A s \in Relies(rest[t]) : local'[t][s] = local[t][s]
    PROVE  Holdings'
  <1>1. HeldAreOut'
    BY DEF Holdings, HeldAreOut
  <1>2. HeldOnce'
    BY DEF Holdings, HeldOnce
  <1>3. \A p, c : Left(p, c)' <=> Left(p, c)
    BY DEF Left
  <1>4. LeftAreOut'
    BY <1>3 DEF Holdings, LeftAreOut
  <1>5. HeldOrFree'
    BY <1>3 DEF Holdings, HeldOrFree
  <1> QED
    BY <1>1, <1>2, <1>4, <1>5 DEF Holdings

\* A thread that changes its remainder leaves the other threads at the loop.
LEMMA OthersStay ==
    ASSUME NEW R, rest \in [Thread -> R], NEW t \in Thread, NEW g,
           rest' = [rest EXCEPT ![t] = g], NEW p \in Pool, waiting'[p] \subseteq waiting[p]
    PROVE  Getters(p) \ {t} \subseteq Getters(p)'
  <1>1. \A u \in Thread : u # t => rest'[u] = rest[u]
    OBVIOUS
  <1> QED
    BY <1>1 DEF Getters, Getting, At, Idle, PoolAt, SlotOf

\* No wake-up is lost where the list stays and no thread leaves the loop.
LEMMA WakeupStays ==
    ASSUME NoLostWakeup, NEW p \in Pool, free[p] \in Seq(Nat), free'[p] = free[p],
           waiting[p] = {} => waiting'[p] = {}, Getters(p) \subseteq Getters(p)',
           waiting'[p] # {}
    PROVE  Len(free'[p]) <= Cardinality(Getters(p)')
  <1>1. Len(free[p]) \in Nat /\ Len(free[p]) <= Cardinality(Getters(p))
    BY DEF NoLostWakeup, Getters
  <1>2. Cardinality(Getters(p)) \in Nat
    BY GettersFinite
  <1>3. IsFiniteSet(Getters(p)') /\ Cardinality(Getters(p)') \in Nat
    <2>1. Getters(p)' \in SUBSET Thread
      BY DEF Getters
    <2> QED
      BY <2>1, PoolAssumption, FS_Subset, FS_CardinalityType
  <1>4. Cardinality(Getters(p)) <= Cardinality(Getters(p)')
    BY <1>3, FS_Subset
  <1> QED
    BY <1>1, <1>2, <1>3, <1>4

\* A waiting thread is at a "get" of that pool; the thread that moves does not wait.
LEMMA WaitersStay ==
    ASSUME NEW R, rest \in [Thread -> R], WaitAtGet, NEW t \in Thread, NEW g,
           rest' = [rest EXCEPT ![t] = g],
           \A p \in Pool : waiting'[p] \subseteq waiting[p] /\ t \notin waiting[p],
           waiting \in [Pool -> SUBSET Thread]
    PROVE  WaitAtGet'
  <1>1. \A u \in Thread : u # t => rest'[u] = rest[u]
    OBVIOUS
  <1> QED
    BY <1>1 DEF WaitAtGet, At, Idle, PoolAt, SlotOf

\* What the types say of the thread and the pool of a step.
LEMMA Typed ==
    ASSUME NEW R, IInv(R)
    PROVE  /\ free \in [Pool -> Seq(Nat)] /\ cur \in [Pool -> Nat]
           /\ local \in [Thread -> [Slot -> Nat]] /\ tasks \in 0..MaxTasks
           /\ leaked \subseteq Pool \X Nat \X Thread
           /\ waiting \in [Pool -> SUBSET Thread] /\ rest \in [Thread -> R]
           /\ \A p \in Pool : /\ cur[p] \in MinConn..Limit(p) /\ Limit(p) \in Nat
                              /\ ToSet(free[p]) \subseteq 1..cur[p] /\ IsInjective(free[p])
           /\ \A t \in Thread, s \in Slot : local[t][s] <= cur[PoolOf[s]]
  BY PoolAssumption DEF IInv, Types, TypeOK, Limit

-----------------------------------------------------------------------------
(* The steps that take nothing and return nothing *)

\* A step of thread t that changes its remainder, which relies on what it did
\* before, and no pool.
LEMMA QuietStep ==
    ASSUME NEW R, IInv(R), NEW t \in Thread, NEW g \in R,
           \A p \in Pool : t \notin waiting[p] /\ (Getting(t, p) => free[p] = <<>>),
           rest' = [rest EXCEPT ![t] = g], Relies(g) = Relies(rest[t]),
           UNCHANGED <<free, cur, waiting, leaked>>,
           local' = local \/ (/\ Relies(rest[t]) = {}
                              /\ local' = [local EXCEPT ![t] = [s \in Slot |-> Null]]),
           tasks' \in 0..MaxTasks
    PROVE  IInv(R)'
  <1>1. /\ free \in [Pool -> Seq(Nat)] /\ cur \in [Pool -> Nat]
        /\ local \in [Thread -> [Slot -> Nat]]
        /\ waiting \in [Pool -> SUBSET Thread] /\ rest \in [Thread -> R]
        /\ \A u \in Thread, s \in Slot : local[u][s] <= cur[PoolOf[s]]
    BY Typed
  <1>2. local' \in [Thread -> [Slot -> Nat]]
    <2>1. [s \in Slot |-> Null] \in [Slot -> Nat]
      BY DEF Null
    <2> QED
      BY <1>1, <2>1
  <1>3. \A u \in Thread, s \in Slot : local'[u][s] = local[u][s] \/ local'[u][s] = 0
    BY <1>1 DEF Null
  <1>4. \A u \in Thread, s \in Slot : local'[u][s] <= cur[PoolOf[s]]
    BY <1>1, <1>3, PoolAssumption
  <1>5. Types(R)'
    BY <1>1, <1>2, <1>4 DEF IInv, Types, TypeOK
  <1>6. Holdings'
    <2>1. \A u \in Thread : Relies(rest'[u]) = Relies(rest[u])
      BY <1>1
    <2>2. \A u \in Thread : \A s \in Relies(rest[u]) : local'[u][s] = local[u][s]
      BY <1>1
    <2> QED
      BY <2>1, <2>2, HoldingsStay DEF IInv
  <1>7. WaitAtGet'
    BY <1>1, WaitersStay DEF IInv
  <1>8. NoLostWakeup'
    <2>1. ASSUME NEW p \in Pool, waiting'[p] # {}
          PROVE  Len(free'[p]) <= Cardinality(Getters(p)')
      <3>1. CASE Getting(t, p)
        <4>1. Getters(p)' \in SUBSET Thread
          BY DEF Getters
        <4>2. Cardinality(Getters(p)') \in Nat
          BY <4>1, PoolAssumption, FS_Subset, FS_CardinalityType
        <4> QED
          BY <3>1, <4>2
      <3>2. CASE ~Getting(t, p)
        <4>1. Getters(p) \subseteq Getters(p)'
          BY <1>1, <3>2, OthersStay DEF Getters
        <4> QED
          BY <1>1, <2>1, <4>1, WakeupStays DEF IInv
      <3> QED
        BY <3>1, <3>2
    <2> QED
      BY <2>1 DEF NoLostWakeup, Getters
  <1> QED
    BY <1>5, <1>6, <1>7, <1>8 DEF IInv

\* A thread that is not at a "get" waits nowhere, one at the loop of a pool neither.
LEMMA NotWaiting ==
    ASSUME NEW R, IInv(R), NEW t \in Thread,
           ~At(t, "get") \/ \E p \in Pool : Getting(t, p)
    PROVE  \A p \in Pool : t \notin waiting[p]
  BY DEF IInv, WaitAtGet, Getting

\* The function starts with fresh variables, and relies on none of them.
LEMMA ExecuteIInv ==
    ASSUME NEW R, Disciplined(R), IInv(R), NEW t \in Thread, Execute(t) PROVE IInv(R)'
  <1>1. PICK g \in Program : rest' = [rest EXCEPT ![t] = g]
    BY DEF Execute
  <1>2. g \in R /\ Relies(g) = {} /\ Relies(rest[t]) = {}
    BY NothingLeft DEF Disciplined, Execute, Idle
  <1>3. ~At(t, "get") /\ \A p \in Pool : ~Getting(t, p)
    BY DEF Execute, At, Getting
  <1>4. \A p \in Pool : t \notin waiting[p]
    BY <1>3, NotWaiting
  <1>5. tasks' \in 0..MaxTasks
    BY Typed, PoolAssumption DEF Execute
  <1> QED
    BY <1>1, <1>2, <1>3, <1>4, <1>5, QuietStep DEF Execute

LEMMA UseConnIInv ==
    ASSUME NEW R, Disciplined(R), IInv(R), NEW t \in Thread, UseConn(t) PROVE IInv(R)'
  <1>1. /\ rest[t] \in R /\ rest[t] # <<>> /\ Head(rest[t]).op = "use"
        /\ rest' = [rest EXCEPT ![t] = Tail(rest[t])]
    BY Typed DEF UseConn, At, Idle, Advance
  <1>2. Tail(rest[t]) \in R /\ Relies(Tail(rest[t])) = Relies(rest[t])
    BY <1>1, FirstStep
  <1>3. ~At(t, "get") /\ \A p \in Pool : ~Getting(t, p)
    BY <1>1 DEF At, Getting
  <1>4. \A p \in Pool : t \notin waiting[p]
    BY <1>3, NotWaiting
  <1> QED
    BY <1>1, <1>2, <1>3, <1>4, Typed, QuietStep DEF UseConn

\* A refused connection leaves the list, which is empty, as it is.
LEMMA InitFailedIInv ==
    ASSUME NEW R, Disciplined(R), IInv(R), NEW t \in Thread, NEW p \in Pool, InitFailed(t, p)
    PROVE  IInv(R)'
  <1>1. /\ rest[t] \in R /\ rest[t] # <<>> /\ Head(rest[t]).op = "get"
        /\ PoolOf[Head(rest[t]).slot] = p /\ p \in Fallible /\ free[p] = <<>>
        /\ rest' = [rest EXCEPT ![t] = Head(rest[t]).orElse]
    BY Typed DEF InitFailed, Getting, At, Idle, PoolAt, SlotOf
  <1>2. Head(rest[t]).orElse \in R /\ Relies(Head(rest[t]).orElse) = Relies(rest[t])
    BY <1>1, FirstStep
  <1>3. \A q \in Pool : t \notin waiting[q]
    BY NotWaiting DEF InitFailed
  <1>4. \A q \in Pool : Getting(t, q) => free[q] = <<>>
    BY <1>1 DEF Getting, PoolAt, SlotOf
  <1> QED
    BY <1>1, <1>2, <1>3, <1>4, Typed, QuietStep DEF InitFailed

-----------------------------------------------------------------------------
(* Waiting and waking *)

\* A step that only moves threads into or out of a pool's wait.
LEMMA WaitStep ==
    ASSUME NEW R, IInv(R), UNCHANGED <<free, cur, rest, local, leaked, tasks>>,
           waiting' \in [Pool -> SUBSET Thread], WaitAtGet', NoLostWakeup'
    PROVE  IInv(R)'
  <1>1. Types(R)'
    BY DEF IInv, Types, TypeOK
  <1>2. Holdings'
    BY HoldingsStay DEF IInv
  <1> QED
    BY <1>1, <1>2 DEF IInv

\* A thread waits only when the list is empty.
LEMMA WaitIInv ==
    ASSUME NEW R, IInv(R), NEW t \in Thread, NEW p \in Pool, Wait(t, p) PROVE IInv(R)'
  <1>1. /\ waiting \in [Pool -> SUBSET Thread] /\ free \in [Pool -> Seq(Nat)]
        /\ waiting' = [waiting EXCEPT ![p] = waiting[p] \cup {t}]
        /\ UNCHANGED <<free, cur, rest, local, leaked, tasks>>
        /\ At(t, "get") /\ PoolAt(t) = p /\ free[p] = <<>>
    BY Typed DEF Wait, Getting
  <1>2. WaitAtGet'
    BY <1>1 DEF IInv, WaitAtGet, At, Idle, PoolAt, SlotOf
  <1>3. ASSUME NEW q \in Pool, waiting'[q] # {}
        PROVE  Len(free'[q]) <= Cardinality(Getters(q)')
    <2>1. CASE q = p
      <3>1. Getters(q)' \in SUBSET Thread
        BY DEF Getters
      <3>2. Cardinality(Getters(q)') \in Nat
        BY <3>1, PoolAssumption, FS_Subset, FS_CardinalityType
      <3> QED
        BY <1>1, <2>1, <3>2
    <2>2. CASE q # p
      <3>1. waiting'[q] = waiting[q]
        BY <1>1, <2>2
      <3>2. Getters(q) \subseteq Getters(q)'
        BY <1>1, <3>1 DEF Getters, Getting, At, Idle, PoolAt, SlotOf
      <3> QED
        BY <1>1, <1>3, <3>1, <3>2, WakeupStays DEF IInv
    <2> QED
      BY <2>1, <2>2
  <1>4. NoLostWakeup'
    BY <1>3 DEF NoLostWakeup, Getters
  <1> QED
    BY <1>1, <1>2, <1>4, WaitStep

LEMMA SpuriousWakeupIInv ==
    ASSUME NEW R, IInv(R), NEW t \in Thread, NEW p \in Pool, SpuriousWakeup(t, p)
    PROVE  IInv(R)'
  <1>1. /\ waiting \in [Pool -> SUBSET Thread] /\ free \in [Pool -> Seq(Nat)]
        /\ waiting' = [waiting EXCEPT ![p] = waiting[p] \ {t}]
        /\ UNCHANGED <<free, cur, rest, local, leaked, tasks>>
    BY Typed DEF SpuriousWakeup
  <1>2. WaitAtGet'
    BY <1>1 DEF IInv, WaitAtGet, At, Idle, PoolAt, SlotOf
  <1>3. ASSUME NEW q \in Pool, waiting'[q] # {}
        PROVE  Len(free'[q]) <= Cardinality(Getters(q)')
    <2>1. Getters(q) \subseteq Getters(q)' /\ (waiting[q] = {} => waiting'[q] = {})
      BY <1>1 DEF Getters, Getting, At, Idle, PoolAt, SlotOf
    <2> QED
      BY <1>1, <1>3, <2>1, WakeupStays DEF IInv
  <1>4. NoLostWakeup'
    BY <1>3 DEF NoLostWakeup, Getters
  <1> QED
    BY <1>1, <1>2, <1>4, WaitStep

-----------------------------------------------------------------------------
(* Taking a connection *)

\* A thread at the loop of pool p fills its variable with a connection c nobody
\* relies on; c was free, or it is new.
Fills(t, p, c) ==
  /\ Getting(t, p) /\ c \in 1..cur'[p]
  /\ local' = [local EXCEPT ![t][SlotOf(t)] = c] /\ Advance(t)
  /\ \A u \in Thread : \A s \in Relies(rest[u]) : PoolOf[s] = p => local[u][s] # c
  /\ ~Left(p, c) /\ leaked' = leaked
Takes(t, p, c) ==
  /\ Fills(t, p, c)
  /\ cur' \in [Pool -> Nat] /\ \A q \in Pool : cur[q] <= cur'[q]
  /\ \A q \in Pool : q # p => cur'[q] = cur[q] /\ free'[q] = free[q]
  /\ ToSet(free'[p]) = ToSet(free[p]) \ {c} /\ 1..cur'[p] = 1..cur[p] \cup {c}

LEMMA Taken ==
    ASSUME NEW R, Disciplined(R), IInv(R), NEW t \in Thread, NEW p \in Pool, NEW c, Takes(t, p, c)
    PROVE  /\ local' \in [Thread -> [Slot -> Nat]] /\ rest' \in [Thread -> R]
           /\ \A u \in Thread, s \in Slot : local'[u][s] <= cur'[PoolOf[s]]
           /\ Holdings'
  <1> USE DEF Takes, Fills
  <1> DEFINE s0 == SlotOf(t)
  <1>1. /\ rest[t] \in R /\ rest[t] # <<>> /\ Head(rest[t]).op = "get"
        /\ Head(rest[t]).slot = s0 /\ PoolOf[s0] = p
        /\ rest' = [rest EXCEPT ![t] = Tail(rest[t])]
    BY Typed DEF Getting, At, Idle, PoolAt, SlotOf, Advance
  <1>2. /\ s0 \in Slot /\ Tail(rest[t]) \in R /\ s0 \notin Relies(rest[t])
        /\ Relies(Tail(rest[t])) = Relies(rest[t]) \cup {s0}
    BY <1>1, FirstStep
  <1>3. /\ local \in [Thread -> [Slot -> Nat]] /\ rest \in [Thread -> R]
        /\ cur \in [Pool -> Nat] /\ local' = [local EXCEPT ![t][s0] = c]
        /\ \A u \in Thread, s \in Slot : local[u][s] <= cur[PoolOf[s]]
    BY Typed
  <1> HIDE DEF s0
  <1>4. local' \in [Thread -> [Slot -> Nat]] /\ rest' \in [Thread -> R]
    <2>0. c \in Nat /\ local[t] \in [Slot -> Nat]
      BY <1>3
    <2>1. [local[t] EXCEPT ![s0] = c] \in [Slot -> Nat]
      BY <2>0
    <2>2. local' = [local EXCEPT ![t] = [local[t] EXCEPT ![s0] = c]]
      BY <1>3
    <2> QED
      BY <1>1, <1>2, <1>3, <2>1, <2>2
  <1>5. \A u \in Thread, s \in Slot :
           local'[u][s] = IF u = t /\ s = s0 THEN c ELSE local[u][s]
    BY <1>2, <1>3
  <1>6. \A u \in Thread : Relies(rest'[u]) = IF u = t THEN Relies(rest[t]) \cup {s0} ELSE Relies(rest[u])
    BY <1>1, <1>2, <1>3
  <1>7. \A u \in Thread : Relies(rest[u]) \subseteq Slot
    BY DEF Relies
  <1>8. \A u \in Thread, s \in Slot : local'[u][s] <= cur'[PoolOf[s]]
    <2>1. ASSUME NEW u \in Thread, NEW s \in Slot PROVE local'[u][s] <= cur'[PoolOf[s]]
      <3>1. PoolOf[s] \in Pool
        BY PoolAssumption
      <3>2. local[u][s] <= cur[PoolOf[s]] /\ cur[PoolOf[s]] <= cur'[PoolOf[s]]
        BY <1>3, <3>1
      <3> QED
        BY <1>1, <1>3, <1>5, <3>1, <3>2
    <2> QED
      BY <2>1
  <1>9. \A q \in Pool : /\ 1..cur[q] \subseteq 1..cur'[q]
                        /\ ToSet(free'[q]) \subseteq ToSet(free[q])
                        /\ \A x \in 1..cur'[q] : x \in 1..cur[q] \/ (q = p /\ x = c)
    <2>1. ASSUME NEW q \in Pool
          PROVE /\ 1..cur[q] \subseteq 1..cur'[q]
                /\ ToSet(free'[q]) \subseteq ToSet(free[q])
                /\ \A x \in 1..cur'[q] : x \in 1..cur[q] \/ (q = p /\ x = c)
      BY <1>3
    <2> QED
      BY <2>1
  <1>10. HeldAreOut'
    <2>1. ASSUME NEW u \in Thread, NEW s \in Relies(rest'[u])
          PROVE  local'[u][s] \in 1..cur'[PoolOf[s]] /\ local'[u][s] \notin ToSet(free'[PoolOf[s]])
      <3>1. CASE u = t /\ s = s0
        <4>1. local'[u][s] = c /\ PoolOf[s] = p
          BY <1>1, <1>2, <1>5, <3>1
        <4>2. c \in 1..cur'[p] /\ c \notin ToSet(free'[p])
          OBVIOUS
        <4> QED
          BY <4>1, <4>2
      <3>2. CASE ~(u = t /\ s = s0)
        <4>1. s \in Relies(rest[u]) /\ s \in Slot /\ local'[u][s] = local[u][s]
          BY <1>2, <1>5, <1>6, <1>7, <3>2
        <4>2. PoolOf[s] \in Pool
          BY <4>1, PoolAssumption
        <4>3. local[u][s] \in 1..cur[PoolOf[s]] /\ local[u][s] \notin ToSet(free[PoolOf[s]])
          BY <4>1 DEF IInv, Holdings, HeldAreOut
        <4> QED
          BY <1>9, <4>1, <4>2, <4>3
      <3> QED
        BY <3>1, <3>2
    <2> QED
      BY <2>1 DEF HeldAreOut
  <1>11. HeldOnce'
    <2>1. ASSUME NEW u \in Thread, NEW v \in Thread, NEW s \in Relies(rest'[u]),
                 NEW r \in Relies(rest'[v]), PoolOf[s] = PoolOf[r], local'[u][s] = local'[v][r]
          PROVE  u = v /\ s = r
      <3>1. \A w \in Thread : \A x \in Relies(rest'[w]) :
               \/ w = t /\ x = s0 /\ local'[w][x] = c
               \/ x \in Relies(rest[w]) /\ local'[w][x] = local[w][x]
        BY <1>2, <1>5, <1>6, <1>7
      <3>2. CASE u = t /\ s = s0 /\ v = t /\ r = s0
        BY <3>2
      <3>3. CASE s \in Relies(rest[u]) /\ r \in Relies(rest[v])
                 /\ local'[u][s] = local[u][s] /\ local'[v][r] = local[v][r]
        BY <2>1, <3>3 DEF IInv, Holdings, HeldOnce
      <3>4. CASE u = t /\ s = s0 /\ local'[u][s] = c /\ r \in Relies(rest[v]) /\ local'[v][r] = local[v][r]
        BY <1>1, <2>1, <3>4
      <3>5. CASE v = t /\ r = s0 /\ local'[v][r] = c /\ s \in Relies(rest[u]) /\ local'[u][s] = local[u][s]
        BY <1>1, <2>1, <3>5
      <3> QED
        BY <3>1, <3>2, <3>3, <3>4, <3>5
    <2> QED
      BY <2>1 DEF HeldOnce
  <1>13. \A q, x : Left(q, x)' <=> Left(q, x)
    BY DEF Left
  <1>14. LeftAreOut'
    <2>1. ASSUME NEW q \in Pool, NEW x \in Nat, Left(q, x)
          PROVE  /\ x \in 1..cur'[q] /\ x \notin ToSet(free'[q])
                 /\ \A u \in Thread : \A s \in Relies(rest'[u]) : PoolOf[s] = q => local'[u][s] # x
      <3>1. /\ x \in 1..cur[q] /\ x \notin ToSet(free[q])
            /\ \A u \in Thread : \A s \in Relies(rest[u]) : PoolOf[s] = q => local[u][s] # x
        BY <2>1 DEF IInv, Holdings, LeftAreOut
      <3>2. q = p => x # c
        BY <2>1
      <3>3. ASSUME NEW u \in Thread, NEW s \in Relies(rest'[u]), PoolOf[s] = q PROVE local'[u][s] # x
        <4>1. CASE u = t /\ s = s0
          BY <1>1, <1>2, <1>5, <3>2, <3>3, <4>1
        <4>2. CASE ~(u = t /\ s = s0)
          <5>1. s \in Relies(rest[u]) /\ local'[u][s] = local[u][s]
            BY <1>2, <1>5, <1>6, <1>7, <4>2
          <5> QED
            BY <3>1, <3>3, <5>1
        <4> QED
          BY <4>1, <4>2
      <3> QED
        BY <1>9, <3>1, <3>3
    <2> QED
      BY <1>13, <2>1 DEF LeftAreOut
  <1>12. HeldOrFree'
    <2>1. ASSUME NEW q \in Pool, NEW x \in 1..cur'[q], x \notin ToSet(free'[q]), ~Left(q, x)
          PROVE  \E u \in Thread : \E s \in Relies(rest'[u]) : PoolOf[s] = q /\ local'[u][s] = x
      <3>1. CASE q = p /\ x = c
        BY <1>1, <1>2, <1>5, <1>6, <3>1
      <3>2. CASE ~(q = p /\ x = c)
        <4>1. x \in 1..cur[q] /\ x \notin ToSet(free[q])
          BY <1>9, <2>1, <3>2
        <4>2. PICK u \in Thread : \E s \in Relies(rest[u]) : PoolOf[s] = q /\ local[u][s] = x
          BY <2>1, <4>1 DEF IInv, Holdings, HeldOrFree
        <4> PICK s \in Relies(rest[u]) : PoolOf[s] = q /\ local[u][s] = x
          BY <4>2
        <4>3. s \in Relies(rest'[u]) /\ local'[u][s] = local[u][s]
          BY <1>2, <1>5, <1>6, <1>7
        <4> QED
          BY <4>3
      <3> QED
        BY <3>1, <3>2
    <2> QED
      BY <1>13, <2>1 DEF HeldOrFree
  <1> QED
    BY <1>4, <1>8, <1>10, <1>11, <1>12, <1>14 DEF Holdings

LEMMA TakeFreeIInv ==
    ASSUME NEW R, Disciplined(R), IInv(R), NEW t \in Thread, NEW p \in Pool, TakeFree(t, p)
    PROVE  IInv(R)'
  <1> DEFINE c == Head(free[p])
  <1>1. /\ free \in [Pool -> Seq(Nat)] /\ cur \in [Pool -> Nat]
        /\ waiting \in [Pool -> SUBSET Thread] /\ rest \in [Thread -> R]
        /\ ToSet(free[p]) \subseteq 1..cur[p] /\ IsInjective(free[p])
    BY Typed
  <1>2. /\ Getting(t, p) /\ free[p] # <<>>
        /\ local' = [local EXCEPT ![t][SlotOf(t)] = c]
        /\ free' = [free EXCEPT ![p] = Tail(free[p])]
        /\ Advance(t) /\ rest' = [rest EXCEPT ![t] = Tail(rest[t])]
        /\ UNCHANGED <<cur, waiting, tasks>>
    BY DEF TakeFree, Advance
  <1>3. /\ Tail(free[p]) \in Seq(Nat) /\ IsInjective(Tail(free[p]))
        /\ Len(Tail(free[p])) = Len(free[p]) - 1 /\ Len(free[p]) \in Nat
        /\ c \in ToSet(free[p]) /\ ToSet(Tail(free[p])) = ToSet(free[p]) \ {c}
    BY <1>1, <1>2, TakenFromFront
  <1> HIDE DEF c
  <1>4. /\ free' \in [Pool -> Seq(Nat)] /\ free'[p] = Tail(free[p])
        /\ \A q \in Pool : q # p => free'[q] = free[q]
    BY <1>1, <1>2, <1>3
  <1>5. c \in 1..cur[p] /\ 1..cur[p] = 1..cur[p] \cup {c}
    BY <1>1, <1>3
  <1>6. /\ \A u \in Thread : \A s \in Relies(rest[u]) : PoolOf[s] = p => local[u][s] # c
        /\ ~Left(p, c) /\ leaked' = leaked
    BY <1>3, <1>5 DEF IInv, Holdings, HeldAreOut, LeftAreOut, TakeFree
  <1>7. /\ local' \in [Thread -> [Slot -> Nat]] /\ rest' \in [Thread -> R]
        /\ \A u \in Thread, s \in Slot : local'[u][s] <= cur'[PoolOf[s]]
        /\ Holdings'
    <2>1. /\ cur' \in [Pool -> Nat] /\ c \in 1..cur'[p]
          /\ \A q \in Pool : cur[q] <= cur'[q]
      BY <1>1, <1>2, <1>5
    <2>2. \A q \in Pool : q # p => cur'[q] = cur[q] /\ free'[q] = free[q]
      BY <1>2, <1>4
    <2>3. ToSet(free'[p]) = ToSet(free[p]) \ {c} /\ 1..cur'[p] = 1..cur[p] \cup {c}
      BY <1>2, <1>3, <1>4, <1>5
    <2>4. Takes(t, p, c)
      BY <1>2, <1>5, <1>6, <2>1, <2>2, <2>3 DEF Takes, Fills
    <2> QED
      BY <2>4, Taken
  <1>8. Types(R)'
    <2>1. ToSet(free'[p]) \subseteq 1..cur[p] /\ IsInjective(free'[p])
      BY <1>1, <1>3, <1>4
    <2> QED
      BY <1>2, <1>4, <1>6, <1>7, <2>1 DEF IInv, Types, TypeOK
  <1>9. WaitAtGet'
    BY <1>1, <1>2, NotWaiting, WaitersStay DEF IInv
  <1>10. ASSUME NEW q \in Pool, waiting'[q] # {}
         PROVE  Len(free'[q]) <= Cardinality(Getters(q)')
    <2>1. Getters(q) \ {t} \subseteq Getters(q)'
      BY <1>1, <1>2, OthersStay
    <2>2. CASE q = p
      <3>1. Len(free[p]) <= Cardinality(Getters(p)) /\ t \in Getters(p)
        BY <1>2, <1>10, <2>2 DEF IInv, NoLostWakeup, Getters
      <3>2. IsFiniteSet(Getters(p)) /\ Cardinality(Getters(p)) \in Nat
        BY GettersFinite
      <3>3. /\ IsFiniteSet(Getters(p) \ {t})
            /\ Cardinality(Getters(p) \ {t}) = Cardinality(Getters(p)) - 1
        BY <3>1, <3>2, FS_RemoveElement
      <3>4. IsFiniteSet(Getters(q)') /\ Cardinality(Getters(q)') \in Nat
        <4>1. Getters(q)' \in SUBSET Thread
          BY DEF Getters
        <4> QED
          BY <4>1, PoolAssumption, FS_Subset, FS_CardinalityType
      <3>5. Cardinality(Getters(p) \ {t}) <= Cardinality(Getters(q)')
        BY <2>1, <2>2, <3>4, FS_Subset
      <3> QED
        BY <1>3, <1>4, <2>2, <3>1, <3>2, <3>3, <3>4, <3>5
    <2>3. CASE q # p
      <3>1. t \notin Getters(q)
        BY <1>2, <2>3 DEF Getters, Getting
      <3>2. Getters(q) \subseteq Getters(q)'
        BY <2>1, <3>1
      <3> QED
        BY <1>1, <1>2, <1>4, <1>10, <2>3, <3>2, WakeupStays DEF IInv
    <2> QED
      BY <2>2, <2>3
  <1>11. NoLostWakeup'
    BY <1>10 DEF NoLostWakeup, Getters
  <1> QED
    BY <1>7, <1>8, <1>9, <1>11 DEF IInv

\* The list stays empty and the connection made is the thread's.
LEMMA NewConnIInv ==
    ASSUME NEW R, Disciplined(R), IInv(R), NEW t \in Thread, NEW p \in Pool, NewConn(t, p)
    PROVE  IInv(R)'
  <1> DEFINE c == cur[p] + 1
  <1>1. /\ free \in [Pool -> Seq(Nat)] /\ cur \in [Pool -> Nat]
        /\ waiting \in [Pool -> SUBSET Thread] /\ rest \in [Thread -> R]
        /\ cur[p] \in MinConn..Limit(p) /\ cur[p] \in Nat
    BY Typed
  <1>2. /\ Getting(t, p) /\ free[p] = <<>> /\ Room(p)
        /\ local' = [local EXCEPT ![t][SlotOf(t)] = c]
        /\ cur' = [cur EXCEPT ![p] = c]
        /\ Advance(t) /\ rest' = [rest EXCEPT ![t] = Tail(rest[t])]
        /\ UNCHANGED <<free, waiting, tasks>>
    BY DEF NewConn, Advance
  <1>3. c \in Nat \ {0} /\ c \in MinConn..Limit(p) /\ 1..c = 1..cur[p] \cup {c} /\ cur[p] <= c
    <2>0. MaxConn[p] \in Nat /\ MinConn \in Nat /\ cur[p] < MaxConn[p]
      BY <1>2, PoolAssumption DEF Room
    <2>1. MaxConn[p] \in Nat /\ MinConn \in Nat /\ c <= MaxConn[p]
      BY <1>1, <2>0
    <2>2. c \in Nat \ {0} /\ c \in MinConn..Limit(p) /\ cur[p] <= c
      BY <1>1, <2>1 DEF Limit
    <2>3. 1..c = 1..cur[p] \cup {c}
      BY <1>1
    <2> QED
      BY <2>2, <2>3
  <1>4. /\ \A u \in Thread : \A s \in Relies(rest[u]) : PoolOf[s] = p => local[u][s] # c
        /\ ~Left(p, c) /\ leaked' = leaked
    <2>1. c \in Nat /\ c \notin 1..cur[p]
      BY <1>1
    <2> QED
      BY <1>1, <2>1 DEF IInv, Holdings, HeldAreOut, LeftAreOut, NewConn
  <1> HIDE DEF c
  <1>5. /\ cur' \in [Pool -> Nat] /\ cur'[p] = c
        /\ \A q \in Pool : q # p => cur'[q] = cur[q]
        /\ \A q \in Pool : cur[q] <= cur'[q]
    BY <1>1, <1>2, <1>3
  <1>6. ToSet(free[p]) = {}
    BY <1>2 DEF ToSet
  <1>7. /\ local' \in [Thread -> [Slot -> Nat]] /\ rest' \in [Thread -> R]
        /\ \A u \in Thread, s \in Slot : local'[u][s] <= cur'[PoolOf[s]]
        /\ Holdings'
    <2>1. cur' \in [Pool -> Nat] /\ c \in 1..cur'[p]
      BY <1>1, <1>3, <1>5
    <2>2. \A q \in Pool : q # p => cur'[q] = cur[q] /\ free'[q] = free[q]
      BY <1>2, <1>5
    <2>3. ToSet(free'[p]) = ToSet(free[p]) \ {c} /\ 1..cur'[p] = 1..cur[p] \cup {c}
      BY <1>2, <1>3, <1>5, <1>6
    <2>4. Takes(t, p, c)
      BY <1>2, <1>3, <1>4, <1>5, <2>1, <2>2, <2>3 DEF Takes, Fills
    <2> QED
      BY <2>4, Taken
  <1>8. Types(R)'
    <2>1. \A q \in Pool : /\ cur'[q] \in MinConn..Limit(q)
                          /\ ToSet(free'[q]) \subseteq 1..cur'[q] /\ IsInjective(free'[q])
      BY <1>2, <1>3, <1>5, <1>6, Typed
    <2> QED
      BY <1>1, <1>2, <1>4, <1>5, <1>7, <2>1 DEF IInv, Types, TypeOK
  <1>9. WaitAtGet'
    BY <1>1, <1>2, NotWaiting, WaitersStay DEF IInv
  <1>10. ASSUME NEW q \in Pool, waiting'[q] # {}
         PROVE  Len(free'[q]) <= Cardinality(Getters(q)')
    <2>1. CASE q = p
      <3>1. Getters(q)' \in SUBSET Thread
        BY DEF Getters
      <3>2. Cardinality(Getters(q)') \in Nat
        BY <3>1, PoolAssumption, FS_Subset, FS_CardinalityType
      <3> QED
        BY <1>2, <2>1, <3>2
    <2>2. CASE q # p
      <3>1. t \notin Getters(q)
        BY <1>2, <2>2 DEF Getters, Getting
      <3>2. Getters(q) \subseteq Getters(q)'
        BY <1>1, <1>2, <3>1, OthersStay
      <3> QED
        BY <1>1, <1>2, <1>10, <3>2, WakeupStays DEF IInv
    <2> QED
      BY <2>1, <2>2
  <1>11. NoLostWakeup'
    BY <1>10 DEF NoLostWakeup, Getters
  <1> QED
    BY <1>7, <1>8, <1>9, <1>11 DEF IInv

-----------------------------------------------------------------------------
(* Returning a connection *)

\* What the thread knows of the connection it returns.
LEMMA ReturnsHeld ==
    ASSUME NEW R, Disciplined(R), IInv(R), NEW t \in Thread, NEW p \in Pool, RelConn(t, p)
    PROVE  /\ rest[t] \in R /\ rest[t] # <<>> /\ Tail(rest[t]) \in R
           /\ SlotOf(t) \in Slot /\ PoolOf[SlotOf(t)] = p /\ SlotOf(t) \in Relies(rest[t])
           /\ Relies(Tail(rest[t])) = Relies(rest[t]) \ {SlotOf(t)}
           /\ ConnAt(t) \in 1..cur[p] /\ ConnAt(t) \notin ToSet(free[p])
           /\ rest' = [rest EXCEPT ![t] = Tail(rest[t])]
           /\ free' = [free EXCEPT ![p] = Append(free[p], ConnAt(t))]
           /\ ~At(t, "get")
  <1>1. /\ rest[t] \in R /\ rest[t] # <<>> /\ Head(rest[t]).op = "rel"
        /\ SlotOf(t) = Head(rest[t]).slot /\ PoolOf[SlotOf(t)] = p
        /\ rest' = [rest EXCEPT ![t] = Tail(rest[t])]
    BY Typed DEF RelConn, At, Idle, PoolAt, SlotOf, Advance
  <1>2. /\ SlotOf(t) \in Slot /\ Tail(rest[t]) \in R /\ SlotOf(t) \in Relies(rest[t])
        /\ Relies(Tail(rest[t])) = Relies(rest[t]) \ {SlotOf(t)}
    BY <1>1, FirstStep
  <1>3. ConnAt(t) \in 1..cur[p] /\ ConnAt(t) \notin ToSet(free[p])
    BY <1>1, <1>2 DEF IInv, Holdings, HeldAreOut, ConnAt
  <1>4. free' = [free EXCEPT ![p] = Append(free[p], ConnAt(t))]
    BY <1>3 DEF RelConn
  <1>5. ~At(t, "get")
    BY <1>1 DEF At
  <1> QED
    BY <1>1, <1>2, <1>3, <1>4, <1>5

LEMMA RelConnIInv ==
    ASSUME NEW R, Disciplined(R), IInv(R), NEW t \in Thread, NEW p \in Pool, RelConn(t, p)
    PROVE  IInv(R)'
  <1> DEFINE s0 == SlotOf(t)
             c == ConnAt(t)
  <1>1. /\ rest[t] \in R /\ rest[t] # <<>> /\ Tail(rest[t]) \in R
        /\ s0 \in Slot /\ PoolOf[s0] = p /\ s0 \in Relies(rest[t])
        /\ Relies(Tail(rest[t])) = Relies(rest[t]) \ {s0}
        /\ c \in 1..cur[p] /\ c \notin ToSet(free[p]) /\ c = local[t][s0]
        /\ rest' = [rest EXCEPT ![t] = Tail(rest[t])]
        /\ free' = [free EXCEPT ![p] = Append(free[p], c)]
        /\ ~At(t, "get")
    BY ReturnsHeld DEF ConnAt
  <1>2. /\ free \in [Pool -> Seq(Nat)] /\ cur \in [Pool -> Nat]
        /\ local \in [Thread -> [Slot -> Nat]] /\ tasks \in 0..MaxTasks
        /\ waiting \in [Pool -> SUBSET Thread] /\ rest \in [Thread -> R]
        /\ ToSet(free[p]) \subseteq 1..cur[p] /\ IsInjective(free[p])
        /\ UNCHANGED <<cur, local, leaked, tasks>> /\ Signal(p)
    BY Typed DEF RelConn
  <1> HIDE DEF s0, c
  <1>3. /\ Append(free[p], c) \in Seq(Nat) /\ IsInjective(Append(free[p], c))
        /\ Len(Append(free[p], c)) = Len(free[p]) + 1 /\ Len(free[p]) \in Nat
        /\ ToSet(Append(free[p], c)) = ToSet(free[p]) \cup {c}
    BY <1>1, <1>2, PutAtBack
  <1>4. /\ free' \in [Pool -> Seq(Nat)] /\ rest' \in [Thread -> R]
        /\ free'[p] = Append(free[p], c)
        /\ \A q \in Pool : q # p => free'[q] = free[q]
    BY <1>1, <1>2, <1>3
  <1>5. /\ waiting' \in [Pool -> SUBSET Thread]
        /\ \A q \in Pool : waiting'[q] \subseteq waiting[q]
        /\ waiting[p] # {} => \E w \in waiting[p] : w \notin waiting'[p]
    BY <1>2 DEF Signal
  <1>6. Types(R)'
    <2>1. \A q \in Pool : ToSet(free'[q]) \subseteq 1..cur[q] /\ IsInjective(free'[q])
      BY <1>1, <1>2, <1>3, <1>4, Typed
    <2> QED
      BY <1>2, <1>4, <1>5, <2>1 DEF IInv, Types, TypeOK
  <1>7. \A u \in Thread : Relies(rest'[u]) = IF u = t THEN Relies(rest[t]) \ {s0} ELSE Relies(rest[u])
    BY <1>1, <1>2
  <1>8. HeldAreOut'
    <2>1. ASSUME NEW u \in Thread, NEW s \in Relies(rest'[u])
          PROVE  local'[u][s] \in 1..cur'[PoolOf[s]] /\ local'[u][s] \notin ToSet(free'[PoolOf[s]])
      <3>1. s \in Relies(rest[u]) /\ ~(u = t /\ s = s0) /\ s \in Slot
        BY <1>7 DEF Relies
      <3>2. PoolOf[s] \in Pool
        BY <3>1, PoolAssumption
      <3>3. local[u][s] \in 1..cur[PoolOf[s]] /\ local[u][s] \notin ToSet(free[PoolOf[s]])
        BY <3>1 DEF IInv, Holdings, HeldAreOut
      <3>4. PoolOf[s] = p => local[u][s] # c
        BY <1>1, <3>1 DEF IInv, Holdings, HeldOnce
      <3> QED
        BY <1>2, <1>3, <1>4, <3>2, <3>3, <3>4
    <2> QED
      BY <2>1 DEF HeldAreOut
  <1>9. HeldOnce'
    <2>1. \A u \in Thread : Relies(rest'[u]) \subseteq Relies(rest[u])
      BY <1>7
    <2>2. \A u, v \in Thread : \A s \in Relies(rest[u]), r \in Relies(rest[v]) :
            PoolOf[s] = PoolOf[r] /\ local[u][s] = local[v][r] => u = v /\ s = r
      BY DEF IInv, Holdings, HeldOnce
    <2>3. local' = local
      BY <1>2
    <2> QED
      BY <2>1, <2>2, <2>3 DEF HeldOnce
  <1>14. \A q, x : Left(q, x)' <=> Left(q, x)
    BY <1>2 DEF Left
  <1>15. LeftAreOut'
    <2>1. ASSUME NEW q \in Pool, NEW x \in Nat, Left(q, x)
          PROVE  /\ x \in 1..cur[q] /\ x \notin ToSet(free'[q])
                 /\ \A u \in Thread : \A s \in Relies(rest'[u]) : PoolOf[s] = q => local[u][s] # x
      <3>1. /\ x \in 1..cur[q] /\ x \notin ToSet(free[q])
            /\ \A u \in Thread : \A s \in Relies(rest[u]) : PoolOf[s] = q => local[u][s] # x
        BY <2>1 DEF IInv, Holdings, LeftAreOut
      <3>2. q = p => x # c
        BY <1>1, <3>1
      <3> QED
        BY <1>3, <1>4, <1>7, <3>1, <3>2
    <2> QED
      BY <1>2, <1>14, <2>1 DEF LeftAreOut
  <1>10. HeldOrFree'
    <2>1. ASSUME NEW q \in Pool, NEW x \in 1..cur'[q], x \notin ToSet(free'[q]), ~Left(q, x)
          PROVE  \E u \in Thread : \E s \in Relies(rest'[u]) : PoolOf[s] = q /\ local'[u][s] = x
      <3>1. x \in 1..cur[q] /\ x \notin ToSet(free[q]) /\ ~(q = p /\ x = c)
        BY <1>2, <1>3, <1>4, <2>1
      <3>2. PICK u \in Thread : \E s \in Relies(rest[u]) : PoolOf[s] = q /\ local[u][s] = x
        BY <2>1, <3>1 DEF IInv, Holdings, HeldOrFree
      <3> PICK s \in Relies(rest[u]) : PoolOf[s] = q /\ local[u][s] = x
        BY <3>2
      <3>3. s \in Relies(rest'[u])
        BY <1>1, <1>7, <3>1
      <3> QED
        BY <1>2, <3>3
    <2> QED
      BY <1>14, <2>1 DEF HeldOrFree
  <1>11. WaitAtGet'
    <2>1. \A q \in Pool : t \notin waiting[q]
      BY <1>1, NotWaiting
    <2> QED
      BY <1>1, <1>2, <1>5, <2>1, WaitersStay DEF IInv
  <1>12. ASSUME NEW q \in Pool, waiting'[q] # {}
         PROVE  Len(free'[q]) <= Cardinality(Getters(q)')
    <2>1. t \notin Getters(q)
      BY <1>1 DEF Getters, Getting
    <2>2. Getters(q) \subseteq Getters(q)'
      BY <1>1, <1>2, <1>5, <2>1, OthersStay
    <2>3. CASE q # p
      BY <1>2, <1>4, <1>5, <1>12, <2>2, <2>3, WakeupStays DEF IInv
    <2>4. CASE q = p
      <3>1. PICK w \in waiting[p] : w \notin waiting'[p]
        BY <1>5, <1>12, <2>4
      <3>2. w \notin Getters(p)
        BY DEF Getters, Getting
      <3>3. At(w, "get") /\ PoolAt(w) = p /\ w \in Thread /\ w # t
        BY <1>1, <1>2 DEF IInv, WaitAtGet
      <3>4. rest'[w] = rest[w]
        BY <1>1, <1>2, <3>3
      <3>5. w \in Getters(p)'
        BY <3>1, <3>3, <3>4 DEF Getters, Getting, At, Idle, PoolAt, SlotOf
      <3>6. Len(free[p]) <= Cardinality(Getters(p))
        BY <1>5, <1>12, <2>4 DEF IInv, NoLostWakeup, Getters
      <3>7. IsFiniteSet(Getters(p)) /\ Cardinality(Getters(p)) \in Nat
        BY GettersFinite
      <3>8. /\ Cardinality(Getters(p) \cup {w}) = Cardinality(Getters(p)) + 1
            /\ Getters(p) \cup {w} \in SUBSET (Getters(p)')
        BY <2>2, <2>4, <3>2, <3>5, <3>7, FS_AddElement
      <3>9. IsFiniteSet(Getters(p)') /\ Cardinality(Getters(p)') \in Nat
        <4>1. Getters(p)' \in SUBSET Thread
          BY DEF Getters
        <4> QED
          BY <4>1, PoolAssumption, FS_Subset, FS_CardinalityType
      <3>10. Cardinality(Getters(p) \cup {w}) <= Cardinality(Getters(p)')
        BY <3>8, <3>9, FS_Subset
      <3> QED
        BY <1>3, <1>4, <2>4, <3>6, <3>7, <3>8, <3>9, <3>10
    <2> QED
      BY <2>3, <2>4
  <1>13. NoLostWakeup'
    BY <1>12 DEF NoLostWakeup, Getters
  <1> QED
    BY <1>6, <1>8, <1>9, <1>10, <1>11, <1>13, <1>15 DEF IInv, Holdings

\* A connection left behind stays with nobody.
LEMMA LeaveConnIInv ==
    ASSUME NEW R, Disciplined(R), IInv(R), NEW t \in Thread, NEW p \in Pool, LeaveConn(t, p)
    PROVE  IInv(R)'
  <1> DEFINE s0 == SlotOf(t)
             c == ConnAt(t)
  <1>1. /\ rest[t] \in R /\ rest[t] # <<>> /\ Head(rest[t]).op = "leave"
        /\ s0 = Head(rest[t]).slot /\ PoolOf[s0] = p /\ c = local[t][s0]
        /\ rest' = [rest EXCEPT ![t] = Tail(rest[t])]
        /\ leaked' = leaked \cup {<<p, c, t>>}
        /\ UNCHANGED <<free, cur, waiting, local, tasks>> /\ ~At(t, "get")
    BY Typed DEF LeaveConn, At, Idle, PoolAt, SlotOf, ConnAt, Advance
  <1> HIDE DEF s0, c
  <1>2. /\ s0 \in Slot /\ Tail(rest[t]) \in R /\ s0 \in Relies(rest[t])
        /\ Relies(Tail(rest[t])) = Relies(rest[t]) \ {s0}
    BY <1>1, FirstStep
  <1>3. c \in 1..cur[p] /\ c \in Nat /\ c \notin ToSet(free[p])
    BY <1>1, <1>2 DEF IInv, Holdings, HeldAreOut
  <1>4. /\ waiting \in [Pool -> SUBSET Thread] /\ rest \in [Thread -> R]
        /\ free \in [Pool -> Seq(Nat)]
    BY Typed
  <1>5. Types(R)'
    <2>1. leaked' \subseteq Pool \X Nat \X Thread /\ rest' \in [Thread -> R]
      BY <1>1, <1>2, <1>3, <1>4, Typed
    <2> QED
      BY <1>1, <2>1 DEF IInv, Types, TypeOK
  <1>6. \A u \in Thread : Relies(rest'[u]) = IF u = t THEN Relies(rest[t]) \ {s0} ELSE Relies(rest[u])
    BY <1>1, <1>2, <1>4
  <1>7. \A q, x : Left(q, x)' <=> Left(q, x) \/ (q = p /\ x = c)
    <2>1. \A q, x : Left(q, x)' <=> \E l \in leaked' : l[1] = q /\ l[2] = x
      BY DEF Left
    <2>2. <<p, c, t>>[1] = p /\ <<p, c, t>>[2] = c
      OBVIOUS
    <2> QED
      BY <1>1, <2>1, <2>2 DEF Left
  <1>8. HeldAreOut' /\ HeldOnce'
    <2>1. \A u \in Thread : Relies(rest'[u]) \subseteq Relies(rest[u])
      BY <1>6
    <2>2. HeldAreOut'
      BY <1>1, <2>1 DEF IInv, Holdings, HeldAreOut
    <2>3. \A u, v \in Thread : \A s \in Relies(rest[u]), r \in Relies(rest[v]) :
            PoolOf[s] = PoolOf[r] /\ local[u][s] = local[v][r] => u = v /\ s = r
      BY DEF IInv, Holdings, HeldOnce
    <2>4. local' = local
      BY <1>1
    <2>5. HeldOnce'
      BY <2>1, <2>3, <2>4 DEF HeldOnce
    <2> QED
      BY <2>2, <2>5
  <1>9. LeftAreOut'
    <2>1. ASSUME NEW q \in Pool, NEW x \in Nat, Left(q, x) \/ (q = p /\ x = c)
          PROVE  /\ x \in 1..cur[q] /\ x \notin ToSet(free[q])
                 /\ \A u \in Thread : \A s \in Relies(rest'[u]) : PoolOf[s] = q => local[u][s] # x
      <3>1. CASE Left(q, x)
        BY <1>6, <3>1 DEF IInv, Holdings, LeftAreOut
      <3>2. CASE q = p /\ x = c
        BY <1>1, <1>2, <1>3, <1>6, <3>2 DEF IInv, Holdings, HeldOnce
      <3> QED
        BY <2>1, <3>1, <3>2
    <2> QED
      BY <1>1, <1>7, <2>1 DEF LeftAreOut
  <1>10. HeldOrFree'
    <2>1. ASSUME NEW q \in Pool, NEW x \in 1..cur[q], x \notin ToSet(free[q]),
                 ~Left(q, x), ~(q = p /\ x = c)
          PROVE  \E u \in Thread : \E s \in Relies(rest'[u]) : PoolOf[s] = q /\ local[u][s] = x
      <3>1. PICK u \in Thread : \E s \in Relies(rest[u]) : PoolOf[s] = q /\ local[u][s] = x
        BY <2>1 DEF IInv, Holdings, HeldOrFree
      <3> PICK s \in Relies(rest[u]) : PoolOf[s] = q /\ local[u][s] = x
        BY <3>1
      <3>2. s \in Relies(rest'[u])
        BY <1>1, <1>6, <2>1
      <3> QED
        BY <3>2
    <2> QED
      BY <1>1, <1>7, <2>1 DEF HeldOrFree
  <1>11. WaitAtGet'
    <2>1. \A q \in Pool : t \notin waiting[q]
      BY <1>1, NotWaiting
    <2> QED
      BY <1>1, <1>4, <2>1, WaitersStay DEF IInv
  <1>12. ASSUME NEW q \in Pool, waiting'[q] # {}
         PROVE  Len(free'[q]) <= Cardinality(Getters(q)')
    <2>1. t \notin Getters(q)
      BY <1>1 DEF Getters, Getting
    <2>2. Getters(q) \subseteq Getters(q)'
      BY <1>1, <1>4, <2>1, OthersStay
    <2> QED
      BY <1>1, <1>4, <1>12, <2>2, WakeupStays DEF IInv
  <1>13. NoLostWakeup'
    BY <1>12 DEF NoLostWakeup, Getters
  <1> QED
    BY <1>5, <1>8, <1>9, <1>10, <1>11, <1>13 DEF IInv, Holdings

-----------------------------------------------------------------------------
(* The theorems *)

LEMMA NextIInv == ASSUME NEW R, Disciplined(R), IInv(R), [Next]_vars PROVE IInv(R)'
  <1>1. ASSUME NEW t \in Thread, Run(t) PROVE IInv(R)'
    BY <1>1, ExecuteIInv, UseConnIInv, TakeFreeIInv, NewConnIInv, InitFailedIInv, WaitIInv,
       RelConnIInv, LeaveConnIInv DEF Run
  <1>2. ASSUME NEW t \in Thread, NEW p \in Pool, SpuriousWakeup(t, p) PROVE IInv(R)'
    BY <1>2, SpuriousWakeupIInv
  <1>3. CASE UNCHANGED vars
    <2>1. UNCHANGED <<free, cur, waiting, rest, local, leaked, tasks>>
      BY <1>3 DEF vars
    <2>2. waiting' \in [Pool -> SUBSET Thread]
      BY <2>1, Typed
    <2>3. WaitAtGet'
      BY <2>1 DEF IInv, WaitAtGet, At, Idle, PoolAt, SlotOf
    <2>4. \A p \in Pool : Getters(p)' = Getters(p)
      BY <2>1 DEF Getters, Getting, At, Idle, PoolAt, SlotOf
    <2>5. NoLostWakeup'
      BY <2>1, <2>4 DEF IInv, NoLostWakeup, Getters
    <2>6. leaked' = leaked
      BY <1>3 DEF vars
    <2> QED
      BY <2>1, <2>2, <2>3, <2>5, <2>6, WaitStep
  <1> QED
    BY <1>1, <1>2, <1>3 DEF Next

\* The inductive invariant, for any threads, pools and disciplined programs.
THEOREM IInvHolds == ASSUME NEW R, Disciplined(R) PROVE Spec => []IInv(R)
  <1>1. Init => IInv(R)
    BY InitIInv
  <1>2. IInv(R) /\ [Next]_vars => IInv(R)'
    BY NextIInv
  <1> QED
    BY <1>1, <1>2, PTL DEF Spec

\* The free lists hold each connection of their pool at most once, and a pool
\* never has more connections than its limit.
THEOREM TypeCorrect == ASSUME NEW R, Disciplined(R) PROVE Spec => []TypeOK
  <1>1. IInv(R) => TypeOK
    BY DEF IInv, Types
  <1> QED
    BY <1>1, IInvHolds, PTL

\* A connection a task will still use is neither free nor another task's.
THEOREM TasksExclude == ASSUME NEW R, Disciplined(R) PROVE Spec => []ExclusiveUse
  <1>1. ASSUME IInv(R) PROVE ExclusiveUse
    <2>1. \A x \in LiveSlots : x = <<x[1], x[2]>> /\ x[1] \in Thread /\ x[2] \in Relies(rest[x[1]])
      BY DEF LiveSlots, Live, Relies
    <2>2. \A x \in LiveSlots : local[x[1]][x[2]] \notin ToSet(free[PoolOf[x[2]]])
      BY <1>1, <2>1 DEF IInv, Holdings, HeldAreOut
    <2>3. \A x, y \in LiveSlots :
            PoolOf[y[2]] = PoolOf[x[2]] /\ local[y[1]][y[2]] = local[x[1]][x[2]] => x = y
      BY <1>1, <2>1 DEF IInv, Holdings, HeldOnce
    <2> QED
      BY <2>2, <2>3 DEF ExclusiveUse
  <1> QED
    BY <1>1, IInvHolds, PTL

\* While threads wait on a pool, each of its free connections has a thread that is
\* awake and will look at the list.
THEOREM WakeupsKept == ASSUME NEW R, Disciplined(R) PROVE Spec => []NoLostWakeup
  <1>1. IInv(R) => NoLostWakeup
    BY DEF IInv
  <1> QED
    BY <1>1, IInvHolds, PTL

\* A connection is free, or a task will return it, or a task has left it behind.
THEOREM ConnectionsAccounted == ASSUME NEW R, Disciplined(R) PROVE Spec => []NoneForgotten
  <1>1. ASSUME IInv(R) PROVE NoneForgotten
    <2>1. ASSUME NEW p \in Pool, NEW c \in 1..cur[p], c \notin ToSet(free[p]), ~Left(p, c)
          PROVE  \E x \in LiveSlots : PoolOf[x[2]] = p /\ local[x[1]][x[2]] = c
      <3>1. PICK t \in Thread : \E s \in Relies(rest[t]) : PoolOf[s] = p /\ local[t][s] = c
        BY <1>1, <2>1 DEF IInv, Holdings, HeldOrFree
      <3> PICK s \in Relies(rest[t]) : PoolOf[s] = p /\ local[t][s] = c
        BY <3>1
      <3>2. c # 0
        BY <1>1, <2>1, Typed
      <3>3. <<t, s>> \in LiveSlots
        BY <3>2 DEF LiveSlots, Live, Relies, Null
      <3> QED
        BY <3>3
    <2>2. ASSUME NEW p \in Pool, NEW c, Left(p, c) PROVE \E t \in Thread : <<p, c, t>> \in leaked
      <3>1. PICK l \in leaked : l[1] = p /\ l[2] = c
        BY <2>2 DEF Left
      <3>2. l[3] \in Thread /\ l = <<p, c, l[3]>>
        BY <1>1, <3>1, Typed
      <3> QED
        BY <3>1, <3>2
    <2> QED
      BY <2>1, <2>2 DEF NoneForgotten
  <1> QED
    BY <1>1, IInvHolds, PTL
-----------------------------------------------------------------------------
(* The pools implement the leases *)

\* A lease is a variable somebody relies on, or a connection left behind.
LEMMA LeaseIsHolding ==
    ASSUME NEW R, IInv(R)
    PROVE  /\ \A p, c, t : <<p, c, t>> \in leases <=>
                \/ t \in Thread /\ \E s \in Relies(rest[t]) : PoolOf[s] = p /\ local[t][s] = c
                \/ <<p, c, t>> \in leaked
           /\ \A l \in leases : l = <<l[1], l[2], l[3]>>
  <1>1. \A x \in LiveSlots : x = <<x[1], x[2]>> /\ x[1] \in Thread /\ x[2] \in Relies(rest[x[1]])
    BY DEF LiveSlots, Live, Relies
  <1>2. ASSUME NEW t \in Thread, NEW s \in Relies(rest[t]) PROVE <<t, s>> \in LiveSlots
    <2>1. s \in Slot /\ PoolOf[s] \in Pool
      BY PoolAssumption DEF Relies
    <2>2. local[t][s] \in 1..cur[PoolOf[s]] /\ cur[PoolOf[s]] \in Nat
      BY <2>1, Typed DEF IInv, Holdings, HeldAreOut
    <2> QED
      BY <2>1, <2>2 DEF LiveSlots, Live, Relies, Null
  <1>3. ASSUME NEW p, NEW c, NEW t, <<p, c, t>> \in leases, <<p, c, t>> \notin leaked
        PROVE  t \in Thread /\ \E s \in Relies(rest[t]) : PoolOf[s] = p /\ local[t][s] = c
    <2>1. PICK x \in LiveSlots : <<p, c, t>> = <<PoolOf[x[2]], local[x[1]][x[2]], x[1]>>
      BY <1>3 DEF leases
    <2> QED
      BY <1>1, <2>1
  <1>4. ASSUME NEW p, NEW c, NEW t \in Thread, NEW s \in Relies(rest[t]), PoolOf[s] = p, local[t][s] = c
        PROVE  <<p, c, t>> \in leases
    <2>1. <<t, s>> \in LiveSlots /\ <<t, s>>[1] = t /\ <<t, s>>[2] = s
      BY <1>2
    <2> QED
      BY <1>4, <2>1 DEF leases
  <1>5. leaked \subseteq leases /\ \A l \in leases : l = <<l[1], l[2], l[3]>>
    <2>1. leaked \subseteq Pool \X Nat \X Thread
      BY DEF IInv, Types, TypeOK
    <2> QED
      BY <2>1 DEF leases
  <1> QED
    BY <1>3, <1>4, <1>5

\* ... and so is a lease after the step.
LEMMA LeaseIsHoldingNext ==
    ASSUME NEW R, IInv(R)'
    PROVE  /\ \A p, c, t : <<p, c, t>> \in leases' <=>
                \/ t \in Thread /\ \E s \in Relies(rest'[t]) : PoolOf[s] = p /\ local'[t][s] = c
                \/ <<p, c, t>> \in leaked'
           /\ \A l \in leases' : l = <<l[1], l[2], l[3]>>
  <1>1. \A x \in LiveSlots' : x = <<x[1], x[2]>> /\ x[1] \in Thread /\ x[2] \in Relies(rest'[x[1]])
    BY DEF LiveSlots, Live, Relies
  <1>2. ASSUME NEW t \in Thread, NEW s \in Relies(rest'[t]) PROVE <<t, s>> \in LiveSlots'
    <2>1. s \in Slot /\ PoolOf[s] \in Pool
      BY PoolAssumption DEF Relies
    <2>2. local'[t][s] \in 1..cur'[PoolOf[s]] /\ cur'[PoolOf[s]] \in Nat
      BY <2>1 DEF IInv, Types, TypeOK, Holdings, HeldAreOut
    <2> QED
      BY <2>1, <2>2 DEF LiveSlots, Live, Relies, Null
  <1>3. ASSUME NEW p, NEW c, NEW t, <<p, c, t>> \in leases', <<p, c, t>> \notin leaked'
        PROVE  t \in Thread /\ \E s \in Relies(rest'[t]) : PoolOf[s] = p /\ local'[t][s] = c
    <2>1. PICK x \in LiveSlots' : <<p, c, t>> = <<PoolOf[x[2]], local'[x[1]][x[2]], x[1]>>
      BY <1>3 DEF leases
    <2> QED
      BY <1>1, <2>1
  <1>4. ASSUME NEW p, NEW c, NEW t \in Thread, NEW s \in Relies(rest'[t]), PoolOf[s] = p, local'[t][s] = c
        PROVE  <<p, c, t>> \in leases'
    <2>1. <<t, s>> \in LiveSlots' /\ <<t, s>>[1] = t /\ <<t, s>>[2] = s
      BY <1>2
    <2> QED
      BY <1>4, <2>1 DEF leases
  <1>5. leaked' \subseteq leases' /\ \A l \in leases' : l = <<l[1], l[2], l[3]>>
    <2>1. leaked' \subseteq Pool \X Nat \X Thread
      BY DEF IInv, Types, TypeOK
    <2> QED
      BY <2>1 DEF leases
  <1> QED
    BY <1>3, <1>4, <1>5

\* A step after which every task relies on what it relied on leaves the leases.
LEMMA LeasesStay ==
    ASSUME NEW R, IInv(R), IInv(R)', leaked' = leaked,
           \A t \in Thread : /\ Relies(rest'[t]) = Relies(rest[t])
                             /\ \A s \in Relies(rest[t]) : local'[t][s] = local[t][s]
    PROVE  leases' = leases
  <1>1. ASSUME NEW p, NEW c, NEW t PROVE <<p, c, t>> \in leases' <=> <<p, c, t>> \in leases
    <2>1. <<p, c, t>> \in leases <=>
            \/ t \in Thread /\ \E s \in Relies(rest[t]) : PoolOf[s] = p /\ local[t][s] = c
            \/ <<p, c, t>> \in leaked
      BY LeaseIsHolding
    <2>2. <<p, c, t>> \in leases' <=>
            \/ t \in Thread /\ \E s \in Relies(rest'[t]) : PoolOf[s] = p /\ local'[t][s] = c
            \/ <<p, c, t>> \in leaked'
      BY LeaseIsHoldingNext
    <2> QED
      BY <2>1, <2>2
  <1>2. \A l \in leases \cup leases' : l = <<l[1], l[2], l[3]>>
    BY LeaseIsHolding, LeaseIsHoldingNext
  <1>3. \A l : l \in leases' <=> l \in leases
    BY <1>1, <1>2
  <1> QED
    BY <1>3

\* Taking a connection is one lease.
LEMMA TakingLeases ==
    ASSUME NEW R, Disciplined(R), IInv(R), IInv(R)', NEW t \in Thread, NEW p \in Pool,
           NEW c, Fills(t, p, c)
    PROVE  Leased!Next
  <1> DEFINE s0 == SlotOf(t)
  <1>1. /\ rest[t] \in R /\ rest[t] # <<>> /\ Head(rest[t]).op = "get"
        /\ Head(rest[t]).slot = s0 /\ PoolOf[s0] = p
        /\ rest' = [rest EXCEPT ![t] = Tail(rest[t])]
        /\ rest \in [Thread -> R] /\ local \in [Thread -> [Slot -> Nat]]
        /\ local' = [local EXCEPT ![t][s0] = c]
    BY Typed DEF Fills, Getting, At, Idle, PoolAt, SlotOf, Advance
  <1>2. /\ s0 \in Slot /\ s0 \notin Relies(rest[t])
        /\ Relies(Tail(rest[t])) = Relies(rest[t]) \cup {s0}
    BY <1>1, FirstStep
  <1> HIDE DEF s0
  <1>3. /\ \A u \in Thread : Relies(rest'[u]) = IF u = t THEN Relies(rest[t]) \cup {s0} ELSE Relies(rest[u])
        /\ \A u \in Thread : Relies(rest[u]) \subseteq Slot
    BY <1>1, <1>2 DEF Relies
  <1>4. \A u \in Thread, s \in Slot :
           local'[u][s] = IF u = t /\ s = s0 THEN c ELSE local[u][s]
    BY <1>1, <1>2
  <1>5. c \in UNION {1..Limit(q) : q \in Pool}
    <2>1. cur'[p] \in MinConn..Limit(p) /\ Limit(p) \in Nat
      BY PoolAssumption DEF IInv, Types, TypeOK, Limit
    <2>2. c \in 1..Limit(p)
      BY <2>1, PoolAssumption DEF Fills
    <2> QED
      BY <2>2
  <1>6. \A u \in Thread : <<p, c, u>> \notin leases
    <2>1. \A u : <<p, c, u>> \notin leaked
      BY DEF Fills, Left
    <2> QED
      BY <2>1, LeaseIsHolding DEF Fills
  <1>7. \A q, d, u : <<q, d, u>> \in leases' <=> <<q, d, u>> \in leases \cup {<<p, c, t>>}
    <2>0. \A q, d, u : <<q, d, u>> \in leaked =>
            <<q, d, u>> \in leases /\ <<q, d, u>> \in leases' /\ <<q, d, u>> \in leaked'
      BY LeaseIsHolding, LeaseIsHoldingNext DEF Fills
    <2>1. ASSUME NEW q, NEW d, NEW u, <<q, d, u>> \in leases', <<q, d, u>> \notin leaked
          PROVE  <<q, d, u>> \in leases \cup {<<p, c, t>>}
      <3>1. u \in Thread /\ \E s \in Relies(rest'[u]) : PoolOf[s] = q /\ local'[u][s] = d
        BY <2>1, LeaseIsHoldingNext DEF Fills
      <3>2. PICK s \in Relies(rest'[u]) : PoolOf[s] = q /\ local'[u][s] = d
        BY <3>1
      <3>3. CASE u = t /\ s = s0
        BY <1>1, <1>2, <1>4, <3>2, <3>3
      <3>4. CASE ~(u = t /\ s = s0)
        <4>1. s \in Relies(rest[u]) /\ local[u][s] = d
          BY <1>3, <1>4, <3>1, <3>2, <3>4
        <4> QED
          BY <3>1, <3>2, <4>1, LeaseIsHolding
      <3> QED
        BY <3>3, <3>4
    <2>2. ASSUME NEW q, NEW d, NEW u, <<q, d, u>> \in leases, <<q, d, u>> \notin leaked
          PROVE  <<q, d, u>> \in leases'
      <3>1. u \in Thread /\ \E s \in Relies(rest[u]) : PoolOf[s] = q /\ local[u][s] = d
        BY <2>2, LeaseIsHolding
      <3>2. PICK s \in Relies(rest[u]) : PoolOf[s] = q /\ local[u][s] = d
        BY <3>1
      <3>3. s \in Relies(rest'[u]) /\ local'[u][s] = d
        BY <1>2, <1>3, <1>4, <3>1, <3>2
      <3> QED
        BY <3>1, <3>2, <3>3, LeaseIsHoldingNext
    <2>3. <<p, c, t>> \in leases'
      <3>1. s0 \in Relies(rest'[t]) /\ local'[t][s0] = c
        BY <1>2, <1>3, <1>4
      <3> QED
        BY <1>1, <3>1, LeaseIsHoldingNext
    <2> QED
      BY <2>0, <2>1, <2>2, <2>3
  <1>8. \A l \in leases \cup leases' : l = <<l[1], l[2], l[3]>>
    BY LeaseIsHolding, LeaseIsHoldingNext
  <1>9. leases' = leases \cup {<<p, c, t>>}
    <2>1. \A l : l \in leases' <=> l \in leases \cup {<<p, c, t>>}
      BY <1>7, <1>8
    <2> QED
      BY <2>1
  <1> QED
    BY <1>5, <1>6, <1>9 DEF Leased!Next, Leased!Lease

\* Returning it is the return of that lease, and of no other.
LEMMA ReturningReturns ==
    ASSUME NEW R, Disciplined(R), IInv(R), IInv(R)', NEW t \in Thread, NEW p \in Pool, RelConn(t, p)
    PROVE  Leased!Next
  <1> DEFINE s0 == SlotOf(t)
             c == ConnAt(t)
  <1>1. /\ s0 \in Slot /\ PoolOf[s0] = p /\ s0 \in Relies(rest[t])
        /\ Relies(Tail(rest[t])) = Relies(rest[t]) \ {s0}
        /\ c \in 1..cur[p] /\ c = local[t][s0]
        /\ rest' = [rest EXCEPT ![t] = Tail(rest[t])]
        /\ rest \in [Thread -> R] /\ local' = local
        /\ leaked' = leaked /\ \A u : <<p, c, u>> \notin leaked
    <2>1. /\ s0 \in Slot /\ PoolOf[s0] = p /\ s0 \in Relies(rest[t])
          /\ Relies(Tail(rest[t])) = Relies(rest[t]) \ {s0}
          /\ c \in 1..cur[p] /\ c \in Nat /\ c = local[t][s0]
          /\ rest' = [rest EXCEPT ![t] = Tail(rest[t])]
          /\ rest \in [Thread -> R] /\ local' = local /\ leaked' = leaked
      <3>1. /\ s0 \in Slot /\ PoolOf[s0] = p /\ s0 \in Relies(rest[t])
            /\ Relies(Tail(rest[t])) = Relies(rest[t]) \ {s0}
            /\ c \in 1..cur[p] /\ rest' = [rest EXCEPT ![t] = Tail(rest[t])]
        BY ReturnsHeld
      <3>2. c = local[t][s0] /\ local' = local /\ leaked' = leaked
        BY DEF ConnAt, RelConn
      <3>3. rest \in [Thread -> R] /\ cur[p] \in Nat
        BY Typed
      <3> HIDE DEF s0, c
      <3>4. c \in Nat
        BY <3>1, <3>3
      <3> QED
        BY <3>1, <3>2, <3>3, <3>4
    <2>2. ~Left(p, c)
      BY <2>1 DEF IInv, Holdings, LeftAreOut
    <2>3. \A u : <<p, c, u>> \notin leaked
      BY <2>2 DEF Left
    <2> QED
      BY <2>1, <2>3
  <1> HIDE DEF s0, c
  <1>2. \A u \in Thread : Relies(rest'[u]) = IF u = t THEN Relies(rest[t]) \ {s0} ELSE Relies(rest[u])
    BY <1>1
  <1>3. c \in UNION {1..Limit(q) : q \in Pool}
    <2>1. cur[p] \in MinConn..Limit(p) /\ Limit(p) \in Nat
      BY Typed
    <2>2. c \in 1..Limit(p)
      BY <1>1, <2>1, PoolAssumption
    <2> QED
      BY <2>2
  <1>4. <<p, c, t>> \in leases
    BY <1>1, LeaseIsHolding
  <1>5. \A q, d, u : <<q, d, u>> \in leases' <=> <<q, d, u>> \in leases \ {<<p, c, t>>}
    <2>0. \A q, d, u : <<q, d, u>> \in leaked =>
            /\ <<q, d, u>> \in leases /\ <<q, d, u>> \in leases'
            /\ <<q, d, u>> # <<p, c, t>>
      BY <1>1, LeaseIsHolding, LeaseIsHoldingNext
    <2>1. ASSUME NEW q, NEW d, NEW u, <<q, d, u>> \in leases', <<q, d, u>> \notin leaked
          PROVE  <<q, d, u>> \in leases \ {<<p, c, t>>}
      <3>1. u \in Thread /\ \E s \in Relies(rest'[u]) : PoolOf[s] = q /\ local'[u][s] = d
        BY <1>1, <2>1, LeaseIsHoldingNext
      <3>2. PICK s \in Relies(rest'[u]) : PoolOf[s] = q /\ local'[u][s] = d
        BY <3>1
      <3>3. s \in Relies(rest[u]) /\ local[u][s] = d /\ ~(u = t /\ s = s0)
        BY <1>1, <1>2, <3>1, <3>2
      <3>4. q = p /\ d = c => u # t
        BY <1>1, <3>1, <3>2, <3>3 DEF IInv, Holdings, HeldOnce
      <3>5. <<q, d, u>> \in leases
        BY <3>1, <3>2, <3>3, LeaseIsHolding
      <3> QED
        BY <3>4, <3>5
    <2>2. ASSUME NEW q, NEW d, NEW u, <<q, d, u>> \in leases, <<q, d, u>> # <<p, c, t>>,
                 <<q, d, u>> \notin leaked
          PROVE  <<q, d, u>> \in leases'
      <3>1. u \in Thread /\ \E s \in Relies(rest[u]) : PoolOf[s] = q /\ local[u][s] = d
        BY <2>2, LeaseIsHolding
      <3>2. PICK s \in Relies(rest[u]) : PoolOf[s] = q /\ local[u][s] = d
        BY <3>1
      <3>3. s \in Relies(rest'[u]) /\ local'[u][s] = d
        BY <1>1, <1>2, <2>2, <3>1, <3>2
      <3> QED
        BY <3>1, <3>2, <3>3, LeaseIsHoldingNext
    <2> QED
      BY <2>0, <2>1, <2>2
  <1>6. \A l \in leases \cup leases' : l = <<l[1], l[2], l[3]>>
    BY LeaseIsHolding, LeaseIsHoldingNext
  <1>7. leases' = leases \ {<<p, c, t>>}
    <2>1. \A l : l \in leases' <=> l \in leases \ {<<p, c, t>>}
      BY <1>5, <1>6
    <2> QED
      BY <2>1
  <1> QED
    BY <1>3, <1>4, <1>7 DEF Leased!Next, Leased!Return

\* A connection left behind stays leased to the thread that left it.
LEMMA LeavingKeepsLease ==
    ASSUME NEW R, Disciplined(R), IInv(R), IInv(R)', NEW t \in Thread, NEW p \in Pool, LeaveConn(t, p)
    PROVE  leases' = leases
  <1> DEFINE s0 == SlotOf(t)
             c == ConnAt(t)
  <1>1. /\ rest[t] \in R /\ rest[t] # <<>> /\ Head(rest[t]).op = "leave"
        /\ s0 = Head(rest[t]).slot /\ PoolOf[s0] = p /\ c = local[t][s0]
        /\ rest' = [rest EXCEPT ![t] = Tail(rest[t])] /\ rest \in [Thread -> R]
        /\ leaked' = leaked \cup {<<p, c, t>>} /\ local' = local
    BY Typed DEF LeaveConn, At, Idle, PoolAt, SlotOf, ConnAt, Advance
  <1> HIDE DEF s0, c
  <1>2. s0 \in Relies(rest[t]) /\ Relies(Tail(rest[t])) = Relies(rest[t]) \ {s0}
    BY <1>1, FirstStep
  <1>3. \A u \in Thread : Relies(rest'[u]) = IF u = t THEN Relies(rest[t]) \ {s0} ELSE Relies(rest[u])
    BY <1>1, <1>2
  <1>4. ASSUME NEW q, NEW d, NEW u PROVE <<q, d, u>> \in leases' <=> <<q, d, u>> \in leases
    <2>1. <<q, d, u>> \in leases' <=>
            \/ u \in Thread /\ \E s \in Relies(rest'[u]) : PoolOf[s] = q /\ local[u][s] = d
            \/ <<q, d, u>> \in leaked \/ <<q, d, u>> = <<p, c, t>>
      BY <1>1, LeaseIsHoldingNext
    <2>2. <<q, d, u>> \in leases <=>
            \/ u \in Thread /\ \E s \in Relies(rest[u]) : PoolOf[s] = q /\ local[u][s] = d
            \/ <<q, d, u>> \in leaked
      BY LeaseIsHolding
    <2>3. <<q, d, u>> = <<p, c, t>> => <<q, d, u>> \in leases
      BY <1>1, <1>2, <2>2
    <2>4. ASSUME u \in Thread, NEW s \in Relies(rest[u]), PoolOf[s] = q, local[u][s] = d
          PROVE  s \in Relies(rest'[u]) \/ <<q, d, u>> = <<p, c, t>>
      BY <1>1, <1>3, <2>4
    <2>5. ASSUME u \in Thread, NEW s \in Relies(rest'[u]) PROVE s \in Relies(rest[u])
      BY <1>3, <2>5
    <2> QED
      BY <2>1, <2>2, <2>3, <2>4, <2>5
  <1>5. \A l \in leases \cup leases' : l = <<l[1], l[2], l[3]>>
    BY LeaseIsHolding, LeaseIsHoldingNext
  <1>6. \A l : l \in leases' <=> l \in leases
    BY <1>4, <1>5
  <1> QED
    BY <1>6

LEMMA StepLeases ==
    ASSUME NEW R, Disciplined(R), IInv(R), [Next]_vars PROVE [Leased!Next]_leases
  <1> IInv(R)'
    BY NextIInv
  <1> USE Typed
  <1>1. ASSUME NEW t \in Thread, Execute(t) PROVE leases' = leases
    <2>1. PICK g \in Program : rest' = [rest EXCEPT ![t] = g]
      BY <1>1 DEF Execute
    <2>2. Relies(g) = {} /\ Relies(rest[t]) = {}
      BY <1>1, NothingLeft DEF Disciplined, Execute, Idle
    <2>3. local' = [local EXCEPT ![t] = [s \in Slot |-> Null]]
      BY <1>1 DEF Execute
    <2> QED
      BY <1>1, <2>1, <2>2, <2>3, LeasesStay DEF Execute
  <1>2. ASSUME NEW t \in Thread, UseConn(t) PROVE leases' = leases
    <2>1. /\ rest[t] \in R /\ rest[t] # <<>> /\ Head(rest[t]).op = "use"
          /\ rest' = [rest EXCEPT ![t] = Tail(rest[t])] /\ local' = local
      BY <1>2 DEF UseConn, At, Idle, Advance
    <2>2. Relies(Tail(rest[t])) = Relies(rest[t])
      BY <2>1, FirstStep
    <2> QED
      BY <1>2, <2>1, <2>2, LeasesStay DEF UseConn
  <1>3. ASSUME NEW t \in Thread, NEW p \in Pool, InitFailed(t, p) PROVE leases' = leases
    <2>1. /\ rest[t] \in R /\ rest[t] # <<>> /\ Head(rest[t]).op = "get"
          /\ PoolOf[Head(rest[t]).slot] \in Fallible
          /\ rest' = [rest EXCEPT ![t] = Head(rest[t]).orElse] /\ local' = local
      BY <1>3 DEF InitFailed, Getting, At, Idle, PoolAt, SlotOf
    <2>2. Relies(Head(rest[t]).orElse) = Relies(rest[t])
      BY <2>1, FirstStep
    <2> QED
      BY <1>3, <2>1, <2>2, LeasesStay DEF InitFailed
  <1>4. ASSUME NEW t \in Thread, NEW p \in Pool, TakeFree(t, p) PROVE Leased!Next
    <2> DEFINE c == Head(free[p])
    <2>1. free[p] \in Seq(Nat) /\ free[p] # <<>> /\ IsInjective(free[p]) /\ ToSet(free[p]) \subseteq 1..cur[p]
      BY <1>4 DEF TakeFree
    <2>2. c \in ToSet(free[p]) /\ c \in 1..cur[p]
      BY <2>1, TakenFromFront
    <2>3. /\ \A u \in Thread : \A s \in Relies(rest[u]) : PoolOf[s] = p => local[u][s] # c
          /\ ~Left(p, c) /\ leaked' = leaked
      BY <1>4, <2>2 DEF IInv, Holdings, HeldAreOut, LeftAreOut, TakeFree
    <2>4. /\ Getting(t, p) /\ Advance(t) /\ cur' = cur
          /\ local' = [local EXCEPT ![t][SlotOf(t)] = c]
      BY <1>4 DEF TakeFree
    <2> HIDE DEF c
    <2>5. Fills(t, p, c)
      BY <2>2, <2>3, <2>4 DEF Fills
    <2> QED
      BY <2>5, TakingLeases
  <1>5. ASSUME NEW t \in Thread, NEW p \in Pool, NewConn(t, p) PROVE Leased!Next
    <2> DEFINE c == cur[p] + 1
    <2>1. c \in 1..cur'[p]
      BY <1>5 DEF NewConn
    <2>0. cur[p] \in Nat /\ c \in Nat /\ c \notin 1..cur[p]
      OBVIOUS
    <2>2. /\ \A u \in Thread : \A s \in Relies(rest[u]) : PoolOf[s] = p => local[u][s] # c
          /\ ~Left(p, c) /\ leaked' = leaked
      BY <1>5, <2>0 DEF IInv, Holdings, HeldAreOut, LeftAreOut, NewConn
    <2>3. /\ Getting(t, p) /\ Advance(t)
          /\ local' = [local EXCEPT ![t][SlotOf(t)] = c]
      BY <1>5 DEF NewConn
    <2> HIDE DEF c
    <2>4. Fills(t, p, c)
      BY <2>1, <2>2, <2>3 DEF Fills
    <2> QED
      BY <2>4, TakingLeases
  <1>6. ASSUME NEW t \in Thread, NEW p \in Pool, RelConn(t, p) PROVE Leased!Next
    BY <1>6, ReturningReturns
  <1>7. ASSUME NEW t \in Thread, NEW p \in Pool, LeaveConn(t, p) PROVE leases' = leases
    BY <1>7, LeavingKeepsLease
  <1>8. CASE UNCHANGED <<rest, local, leaked>>
    BY <1>8, LeasesStay
  <1> QED
    BY <1>1, <1>2, <1>3, <1>4, <1>5, <1>6, <1>7, <1>8 DEF Next, Run, Wait, SpuriousWakeup, vars

\* The pools lease every connection to one thread at a time: each step of them is
\* a lease, a return or no step of the abstract specification.
THEOREM PoolsLease == ASSUME NEW R, Disciplined(R) PROVE Spec => LeasesKept
  <1>1. Init => Leased!Init
    BY NothingLeft DEF Init, Leased!Init, leases, LiveSlots, Live, Null
  <1>2. IInv(R) /\ [Next]_vars => [Leased!Next]_leases
    BY StepLeases
  <1> QED
    BY <1>1, <1>2, IInvHolds, PTL DEF Spec, LeasesKept, Leased!Spec
=============================================================================
