-------------------------- MODULE FacetCacheProofs --------------------------
(***************************************************************************)
(* Mutual exclusion of copyable_mutex, for any set of threads and any      *)
(* number of forks.  A child begins with a mutex of an earlier generation; *)
(* as long as it is that, nobody of the child has got past the generations,*)
(* so that building the mutex anew takes it from nobody.                   *)
(*                                                                         *)
(* The facet cache uses its mutex as copyable_mutex allows, so that this   *)
(* holds in it; then what its caches hold and hand out, for any number of  *)
(* threads, names and calls and any capacity.  The operations of lru_cache *)
(* are treated first, node by node of the list:                            *)
(* InStep says of places what ListAndMapAgree says of sets and their sizes.*)
(* CacheInv then adds what the caches take for granted: a facet that a     *)
(* call is about to insert is one that has been built in full.             *)
(***************************************************************************)
EXTENDS FacetCache, TLAPS, FiniteSetTheorems, SequenceFacts

MutexTypeOK ==
    /\ alive \subseteq Threads
    /\ generation \in Nat /\ mutexGeneration \in Nat
    /\ mutexGeneration <= generation
    /\ refresh \in Threads \cup {Nobody}
    /\ owner \in Threads \cup {Nobody, Gone}
    /\ locking \in [Threads -> Labels]

(* refresh is held by the one thread that may build the mutex anew.        *)
OneRebuilds ==
    \A t \in Threads :
        /\ locking[t] \in {"check", "store"} => refresh = t
        /\ locking[t] = "store" => mutexGeneration # generation

(* Past the generations only once they agree. *)
PastWhenFresh ==
    \A t \in Threads : locking[t] \in {"wait", "in"} => mutexGeneration = generation

InsideOwns == \A t \in Threads : locking[t] = "in" => owner = t

MutexInv == MutexTypeOK /\ OneRebuilds /\ PastWhenFresh /\ InsideOwns

LEMMA InitMutexInv == MutexInit => MutexInv
  BY MutexAssumption
  DEF MutexInit, MutexInv, MutexTypeOK, OneRebuilds, PastWhenFresh, InsideOwns, Labels

(* Moving one thread leaves the others where they were. *)
LEMMA MovesOne ==
  ASSUME MutexTypeOK, NEW t \in Threads, NEW from \in Labels, NEW to \in Labels,
         Moves(t, from, to)
  PROVE  /\ locking[t] = from /\ locking'[t] = to
         /\ locking' \in [Threads -> Labels]
         /\ \A u \in Threads : u # t => locking'[u] = locking[u]
  BY DEF Moves, MutexTypeOK

LEMMA LockKeeps ==
  ASSUME MutexInv, NEW t \in Threads, Lock(t)
  PROVE  MutexInv'
<1>1. Moves(t, "out", "in")  BY DEF Lock
<1>2. /\ locking'[t] = "in" /\ locking' \in [Threads -> Labels]
      /\ \A u \in Threads : u # t => locking'[u] = locking[u]
  BY <1>1, MovesOne DEF MutexInv, Labels
<1>3. MutexTypeOK'  BY <1>2 DEF Lock, MutexInv, MutexTypeOK
<1>4. OneRebuilds'  BY <1>2 DEF Lock, MutexInv, OneRebuilds
<1>5. PastWhenFresh'  BY <1>2 DEF Lock, MutexInv, PastWhenFresh
<1>6. InsideOwns'
  BY <1>2, MutexAssumption DEF Lock, MutexInv, InsideOwns
<1>7. QED  BY <1>3, <1>4, <1>5, <1>6 DEF MutexInv

LEMMA FindsStaleKeeps ==
  ASSUME MutexInv, NEW t \in Threads, FindsStale(t)
  PROVE  MutexInv'
<1>1. Moves(t, "out", "stale")  BY DEF FindsStale
<1>2. /\ locking'[t] = "stale" /\ locking' \in [Threads -> Labels]
      /\ \A u \in Threads : u # t => locking'[u] = locking[u]
  BY <1>1, MovesOne DEF MutexInv, Labels
<1>3. QED
  BY <1>2 DEF FindsStale, MutexInv, MutexTypeOK, OneRebuilds, PastWhenFresh, InsideOwns

LEMMA TakeRefreshKeeps ==
  ASSUME MutexInv, NEW t \in Threads, TakeRefresh(t)
  PROVE  MutexInv'
<1>1. Moves(t, "stale", "check")  BY DEF TakeRefresh
<1>2. /\ locking'[t] = "check" /\ locking' \in [Threads -> Labels]
      /\ \A u \in Threads : u # t => locking'[u] = locking[u]
  BY <1>1, MovesOne DEF MutexInv, Labels
<1>3. MutexTypeOK'  BY <1>2 DEF TakeRefresh, MutexInv, MutexTypeOK
<1>4. OneRebuilds'
  BY <1>2, MutexAssumption DEF TakeRefresh, MutexInv, OneRebuilds
<1>5. PastWhenFresh' /\ InsideOwns'
  BY <1>2 DEF TakeRefresh, MutexInv, PastWhenFresh, InsideOwns
<1>6. QED  BY <1>3, <1>4, <1>5 DEF MutexInv

LEMMA LeaveRefreshKeeps ==
  ASSUME MutexInv, NEW t \in Threads, LeaveRefresh(t)
  PROVE  MutexInv'
<1>1. Moves(t, "check", "wait")  BY DEF LeaveRefresh
<1>2. /\ locking[t] = "check" /\ locking'[t] = "wait"
      /\ locking' \in [Threads -> Labels]
      /\ \A u \in Threads : u # t => locking'[u] = locking[u]
  BY <1>1, MovesOne DEF MutexInv, Labels
<1>3. MutexTypeOK'  BY <1>2 DEF LeaveRefresh, MutexInv, MutexTypeOK
<1>4. OneRebuilds'  BY <1>2 DEF LeaveRefresh, MutexInv, OneRebuilds
<1>5. PastWhenFresh'
  BY <1>2 DEF LeaveRefresh, AlreadyRebuilt, MutexInv, PastWhenFresh
<1>6. InsideOwns'  BY <1>2 DEF LeaveRefresh, MutexInv, InsideOwns
<1>7. QED  BY <1>3, <1>4, <1>5, <1>6 DEF MutexInv

(* What is built anew is nobody's: all of the child are short of it. *)
LEMMA ConstructKeeps ==
  ASSUME MutexInv, NEW t \in Threads, Construct(t)
  PROVE  MutexInv'
<1>1. Moves(t, "check", "store")  BY DEF Construct
<1>2. /\ locking[t] = "check" /\ locking'[t] = "store"
      /\ locking' \in [Threads -> Labels]
      /\ \A u \in Threads : u # t => locking'[u] = locking[u]
  BY <1>1, MovesOne DEF MutexInv, Labels
<1>3. \A u \in Threads : locking[u] \notin {"wait", "in"}
  BY DEF Construct, AlreadyRebuilt, MutexInv, PastWhenFresh
<1>4. MutexTypeOK'  BY <1>2 DEF Construct, MutexInv, MutexTypeOK
<1>5. OneRebuilds'
  BY <1>2 DEF Construct, AlreadyRebuilt, MutexInv, OneRebuilds
<1>6. PastWhenFresh' /\ InsideOwns'
  BY <1>2, <1>3 DEF Construct, PastWhenFresh, InsideOwns
<1>7. QED  BY <1>4, <1>5, <1>6 DEF MutexInv

LEMMA StoreKeeps ==
  ASSUME MutexInv, NEW t \in Threads, Store(t)
  PROVE  MutexInv'
<1>1. Moves(t, "store", "wait")  BY DEF Store
<1>2. /\ locking[t] = "store" /\ locking'[t] = "wait"
      /\ locking' \in [Threads -> Labels]
      /\ \A u \in Threads : u # t => locking'[u] = locking[u]
  BY <1>1, MovesOne DEF MutexInv, Labels
<1>3. \A u \in Threads : u # t => locking[u] \notin {"check", "store"}
  BY <1>2 DEF MutexInv, OneRebuilds
<1>4. MutexTypeOK'  BY <1>2 DEF Store, MutexInv, MutexTypeOK
<1>5. OneRebuilds'  BY <1>2, <1>3 DEF OneRebuilds
<1>6. PastWhenFresh'  BY DEF Store, PastWhenFresh
<1>7. InsideOwns'  BY <1>2 DEF Store, MutexInv, InsideOwns
<1>8. QED  BY <1>4, <1>5, <1>6, <1>7 DEF MutexInv

LEMMA AcquireKeeps ==
  ASSUME MutexInv, NEW t \in Threads, Acquire(t)
  PROVE  MutexInv'
<1>1. Moves(t, "wait", "in")  BY DEF Acquire
<1>2. /\ locking[t] = "wait" /\ locking'[t] = "in"
      /\ locking' \in [Threads -> Labels]
      /\ \A u \in Threads : u # t => locking'[u] = locking[u]
  BY <1>1, MovesOne DEF MutexInv, Labels
<1>3. MutexTypeOK'  BY <1>2 DEF Acquire, MutexInv, MutexTypeOK
<1>4. OneRebuilds' /\ PastWhenFresh'
  BY <1>2 DEF Acquire, MutexInv, OneRebuilds, PastWhenFresh
<1>5. InsideOwns'  BY <1>2, MutexAssumption DEF Acquire, MutexInv, InsideOwns
<1>6. QED  BY <1>3, <1>4, <1>5 DEF MutexInv

LEMMA UnlockKeeps ==
  ASSUME MutexInv, NEW t \in Threads, Unlock(t)
  PROVE  MutexInv'
<1>1. Moves(t, "in", "out")  BY DEF Unlock
<1>2. /\ locking[t] = "in" /\ locking'[t] = "out"
      /\ locking' \in [Threads -> Labels]
      /\ \A u \in Threads : u # t => locking'[u] = locking[u]
  BY <1>1, MovesOne DEF MutexInv, Labels
<1>3. MutexTypeOK'  BY <1>2 DEF Unlock, MutexInv, MutexTypeOK
<1>4. OneRebuilds' /\ PastWhenFresh'
  BY <1>2 DEF Unlock, MutexInv, OneRebuilds, PastWhenFresh
<1>5. InsideOwns'  BY <1>2 DEF Unlock, MutexInv, InsideOwns
<1>6. QED  BY <1>3, <1>4, <1>5 DEF MutexInv

(* The child begins with no thread in lock(), and a mutex of the past. *)
LEMMA ForkKeeps ==
  ASSUME MutexInv, NEW t \in Threads, Fork(t)
  PROVE  MutexInv'
<1>1. \A u \in Threads : locking'[u] = "out"  BY DEF Fork
<1>2. MutexTypeOK'
  <2>1. generation' \in Nat /\ mutexGeneration' \in Nat /\ mutexGeneration' <= generation'
    BY DEF Fork, NextGeneration, MutexInv, MutexTypeOK
  <2>2. locking' \in [Threads -> Labels]  BY DEF Fork, Labels
  <2>3. owner' \in Threads \cup {Nobody, Gone}  BY DEF Fork
  <2>4. QED  BY <2>1, <2>2, <2>3 DEF Fork, MutexTypeOK
<1>3. OneRebuilds' /\ PastWhenFresh' /\ InsideOwns'
  BY <1>1 DEF OneRebuilds, PastWhenFresh, InsideOwns
<1>4. QED  BY <1>2, <1>3 DEF MutexInv

LEMMA BeginsKeeps ==
  ASSUME MutexInv, NEW t \in Threads, Begins(t)
  PROVE  MutexInv'
  BY DEF Begins, MutexInv, MutexTypeOK, OneRebuilds, PastWhenFresh, InsideOwns

LEMMA NextMutexInv == MutexInv /\ [MutexNext]_mutexVars => MutexInv'
<1> SUFFICES ASSUME MutexInv, [MutexNext]_mutexVars PROVE MutexInv'
  OBVIOUS
<1>1. ASSUME NEW t \in Threads, Begins(t) PROVE MutexInv'  BY <1>1, BeginsKeeps
<1>2. ASSUME NEW t \in Threads, LockStep(t) PROVE MutexInv'
  BY <1>2, LockKeeps, FindsStaleKeeps, TakeRefreshKeeps, LeaveRefreshKeeps,
     ConstructKeeps, StoreKeeps, AcquireKeeps
  DEF LockStep
<1>3. ASSUME NEW t \in Threads, Unlock(t) \/ Fork(t) PROVE MutexInv'
  BY <1>3, UnlockKeeps, ForkKeeps
<1>4. CASE UNCHANGED mutexVars
  BY <1>4 DEF mutexVars, MutexInv, MutexTypeOK, OneRebuilds, PastWhenFresh, InsideOwns
<1>5. QED  BY <1>1, <1>2, <1>3, <1>4 DEF MutexNext

(* lock() of copyable_mutex, with the rebuild after fork(): two threads of *)
(* a process are never both between lock() and unlock(), whichever thread  *)
(* forked, however often, and whoever held the mutex then.                 *)
THEOREM MutexExcludes == MutexSpec => []MutualExclusion
<1>1. MutexInv => MutualExclusion
  BY DEF MutexInv, InsideOwns, MutualExclusion
<1>2. QED  BY <1>1, InitMutexInv, NextMutexInv, PTL DEF MutexSpec

-----------------------------------------------------------------------------

LEMMA StepsUseMutex == [Next]_vars => [MutexNext]_mutexVars
<1> SUFFICES ASSUME Next PROVE MutexNext \/ UNCHANGED mutexVars
  BY DEF vars
<1>1. PICK t \in Threads :
        \/ BeginThread(t)
        \/ /\ t \in alive
           /\ \/ Step(t) \/ ForkProcess(t)
              \/ \E n \in Names : Reenter(t, n) \/ \E strict \in BOOLEAN : Call(t, n, strict)
  BY DEF Next
<1>2. CASE BeginThread(t)  BY <1>2 DEF BeginThread, MutexNext
<1>3. ASSUME t \in alive, Step(t) PROVE MutexNext \/ UNCHANGED mutexVars
  <2>1. CASE Locks(t)  BY <1>3, <2>1 DEF Locks, MutexNext
  <2>2. CASE Look(t) \/ Insert(t) \/ InsertThrows(t)
    BY <1>3, <2>2 DEF Look, Insert, InsertThrows, MutexNext
  <2>3. CASE Build(t) \/ BuildThrows(t) \/ BuildDegraded(t)
    BY <2>3 DEF Build, BuildThrows, BuildDegraded
  <2>4. QED  BY <1>3, <2>1, <2>2, <2>3 DEF Step
<1>4. ASSUME t \in alive, ForkProcess(t) PROVE MutexNext
  BY <1>4 DEF ForkProcess, MutexNext
<1>5. ASSUME NEW n \in Names, Reenter(t, n) \/ \E strict \in BOOLEAN : Call(t, n, strict)
      PROVE  UNCHANGED mutexVars
  BY <1>5 DEF Reenter, Call, Calls
<1>6. QED  BY <1>1, <1>2, <1>3, <1>4, <1>5

(* ori_facet_buf over copyable_mutex: however threads, constructors that   *)
(* come back and forks interleave, one thread at a time is in a section    *)
(* that looks into the caches or changes them.                             *)
THEOREM CachesExclusive == Spec => []MutualExclusion
<1>1. Init => MutexInit  BY DEF Init
<1>2. Spec => MutexSpec  BY <1>1, StepsUseMutex, PTL DEF Spec, MutexSpec
<1>3. QED  BY <1>2, MutexExcludes
-----------------------------------------------------------------------------
(* A list none of whose elements is in it twice has as many as it is long. *)
LEMMA DistinctElements ==
  ASSUME NEW S, NEW q \in Seq(S), \A i, j \in 1..Len(q) : q[i] = q[j] => i = j
  PROVE  Cardinality(ToSet(q)) = Len(q)
<1>1. Len(q) \in Nat /\ DOMAIN q = 1..Len(q)
  OBVIOUS
<1>2. q \in Bijection(1..Len(q), ToSet(q))
  BY <1>1 DEF Bijection, Injection, Surjection, IsInjective, ToSet
<1>3. QED  BY <1>1, <1>2, FS_CountingElements DEF ExistsBijection
-----------------------------------------------------------------------------
Node == Names \X Nat
Cache == [list : Seq(Node), map : UNION {[K -> Nat] : K \in SUBSET Names}]

(* A cache in step, place by place: no key in two nodes, every node one    *)
(* the map knows, and every entry of the map in a node.                    *)
InStep(c) ==
    /\ \A i, j \in 1..Len(c.list) : c.list[i][1] = c.list[j][1] => i = j
    /\ \A i \in 1..Len(c.list) :
          c.list[i][1] \in Keys(c) /\ c.map[c.list[i][1]] = c.list[i][2]
    /\ \A k \in Keys(c) : \E i \in 1..Len(c.list) : c.list[i] = <<k, c.map[k]>>

Sound(c) == c \in Cache /\ InStep(c) /\ Len(c.list) <= Capacity

LEMMA CacheTypes ==
  ASSUME NEW c \in Cache
  PROVE  /\ c.list \in Seq(Node) /\ Len(c.list) \in Nat
         /\ Keys(c) \in SUBSET Names /\ c.map \in [Keys(c) -> Nat]
         /\ c = [list |-> c.list, map |-> c.map]
  BY DEF Cache, Keys

LEMMA EmptySound == Sound(Empty)
<1>1. <<>> \in Seq(Node) /\ Len(<<>>) = 0 /\ <<>> \in [{} -> Nat] /\ DOMAIN <<>> = {}
  OBVIOUS
<1>2. Empty \in Cache /\ Keys(Empty) = {}
  BY <1>1 DEF Empty, Cache, Keys
<1>3. QED  BY <1>1, <1>2, LruAssumption DEF Sound, Empty, InStep

LEMMA SoundAgrees ==
  ASSUME NEW c, Sound(c)
  PROVE  ListAndMapAgree(c)
<1>1. c.list \in Seq(Node) /\ DOMAIN c.list = 1..Len(c.list)
  BY CacheTypes DEF Sound
<1>2. Cardinality(ToSet(c.list)) = Len(c.list)
  <2>1. \A i, j \in 1..Len(c.list) : c.list[i] = c.list[j] => i = j
    BY DEF Sound, InStep
  <2>2. QED  BY <1>1, <2>1, DistinctElements
<1>3. Nodes(c) = {<<k, c.map[k]>> : k \in Keys(c)}
  <2>1. \A i \in 1..Len(c.list) : c.list[i] = <<c.list[i][1], c.list[i][2]>>
    BY <1>1 DEF Node
  <2>2. ASSUME NEW i \in 1..Len(c.list) PROVE c.list[i] \in {<<k, c.map[k]>> : k \in Keys(c)}
    <3>1. c.list[i][1] \in Keys(c) /\ c.list[i] = <<c.list[i][1], c.map[c.list[i][1]]>>
      BY <2>1 DEF Sound, InStep
    <3>2. QED  BY <3>1
  <2>3. ASSUME NEW k \in Keys(c) PROVE \E i \in 1..Len(c.list) : c.list[i] = <<k, c.map[k]>>
    BY DEF Sound, InStep
  <2>4. QED  BY <1>1, <2>2, <2>3 DEF Nodes, ToSet
<1>4. QED  BY <1>2, <1>3 DEF ListAndMapAgree, Nodes, Sound

(* Marking a facet as used changes nothing but the order. *)
LEMMA TouchedSound ==
  ASSUME NEW c, Sound(c), NEW key \in Keys(c)
  PROVE  /\ Sound(Touched(c, key)) /\ Touched(c, key).map = c.map
         /\ Nodes(Touched(c, key)) = Nodes(c)
<1> DEFINE i == NodeOf(c, key)
           d == Touched(c, key)
           L == Len(c.list)
           q == RemoveAt(c.list, i)
<1>1. /\ c.list \in Seq(Node) /\ L \in Nat /\ DOMAIN c.list = 1..L
      /\ c = [list |-> c.list, map |-> c.map]
  BY CacheTypes DEF Sound
<1>2. i \in 1..L /\ c.list[i] = <<key, c.map[key]>>
  BY <1>1 DEF NodeOf, Sound, InStep
<1> HIDE DEF i
<1>3. /\ q \in Seq(Node) /\ Len(q) = L - 1
      /\ \A j \in 1..(L - 1) : q[j] = IF j < i THEN c.list[j] ELSE c.list[j + 1]
  BY <1>1, <1>2, RemoveElements
<1> DEFINE from == [j \in 1..L |-> IF j = 1 THEN i ELSE IF j - 1 < i THEN j - 1 ELSE j]
<1>4. d = [list |-> <<c.list[i]>> \o q, map |-> c.map]
  BY <1>1 DEF Touched, i
<1> HIDE DEF q
<1>5. c.list[i] \in Node
  BY <1>1, <1>2
<1>6. /\ d.list \in Seq(Node) /\ Len(d.list) = L
      /\ \A j \in 1..L : d.list[j] = c.list[from[j]]
  <2>1. /\ d.list \in Seq(Node) /\ Len(d.list) = L /\ d.list[1] = c.list[i]
        /\ \A j \in 1..(L - 1) : d.list[j + 1] = q[j]
    BY <1>1, <1>3, <1>4, <1>5, ConsElements
  <2>2. ASSUME NEW j \in 1..L, j # 1 PROVE d.list[j] = c.list[from[j]]
    <3>1. j - 1 \in 1..(L - 1) /\ j = (j - 1) + 1
      BY <1>1, <2>2
    <3>2. d.list[j] = q[j - 1]
      BY <2>1, <3>1
    <3>3. QED  BY <1>3, <2>2, <3>1, <3>2
  <2>3. QED  BY <2>1, <2>2
<1>7. /\ \A j \in 1..L : from[j] \in 1..L
      /\ \A j, k \in 1..L : from[j] = from[k] => j = k
      /\ \A k \in 1..L : \E j \in 1..L : from[j] = k
  <2>1. /\ \A j \in 1..L : from[j] \in 1..L
        /\ \A j, k \in 1..L : from[j] = from[k] => j = k
    BY <1>1, <1>2
  <2>2. ASSUME NEW k \in 1..L PROVE \E j \in 1..L : from[j] = k
    <3>1. CASE k = i
      <4>1. 1 \in 1..L /\ from[1] = k
        BY <1>1, <1>2, <3>1
      <4>2. QED  BY <4>1
    <3>2. CASE k < i
      <4>1. k + 1 \in 1..L /\ from[k + 1] = k
        BY <1>1, <1>2, <3>2
      <4>2. QED  BY <4>1
    <3>3. CASE k > i
      BY <1>1, <1>2, <3>3
    <3>4. QED  BY <1>2, <3>1, <3>2, <3>3
  <2>3. QED  BY <2>1, <2>2
<1> HIDE DEF d, from, L
<1>8. d \in Cache /\ Keys(d) = Keys(c) /\ d.map = c.map
  BY <1>4, <1>6 DEF Cache, Keys, Sound
<1>9. InStep(d)
  <2>1. /\ \A m, n \in 1..L : c.list[m][1] = c.list[n][1] => m = n
        /\ \A m \in 1..L : c.list[m][1] \in Keys(c) /\ c.map[c.list[m][1]] = c.list[m][2]
        /\ \A k \in Keys(c) : \E m \in 1..L : c.list[m] = <<k, c.map[k]>>
    BY DEF Sound, InStep, L
  <2>2. ASSUME NEW m \in 1..L, NEW n \in 1..L, d.list[m][1] = d.list[n][1] PROVE m = n
    <3>1. from[m] \in 1..L /\ from[n] \in 1..L
      BY <1>7
    <3>2. c.list[from[m]][1] = c.list[from[n]][1]
      BY <1>6, <2>2
    <3>3. from[m] = from[n]
      BY <2>1, <3>1, <3>2
    <3>4. QED  BY <1>7, <3>3
  <2>3. ASSUME NEW m \in 1..L
        PROVE  d.list[m][1] \in Keys(d) /\ d.map[d.list[m][1]] = d.list[m][2]
    <3>1. from[m] \in 1..L /\ d.list[m] = c.list[from[m]]
      BY <1>6, <1>7
    <3>2. QED  BY <1>8, <2>1, <3>1
  <2>4. ASSUME NEW k \in Keys(d) PROVE \E m \in 1..L : d.list[m] = <<k, d.map[k]>>
    <3>1. PICK m \in 1..L : c.list[m] = <<k, c.map[k]>>
      BY <1>8, <2>1, <2>4
    <3>2. PICK j \in 1..L : from[j] = m
      BY <1>7
    <3>3. QED  BY <1>6, <1>8, <3>1, <3>2
  <2>5. QED  BY <1>6, <2>2, <2>3, <2>4 DEF InStep
<1>10. Nodes(d) = Nodes(c)
  <2>1. DOMAIN d.list = 1..L
    BY <1>6
  <2>2. Nodes(d) = {d.list[j] : j \in 1..L} /\ Nodes(c) = {c.list[j] : j \in 1..L}
    BY <1>1, <2>1 DEF Nodes, ToSet
  <2>3. ASSUME NEW j \in 1..L PROVE \E m \in 1..L : d.list[j] = c.list[m]
    <3>1. from[j] \in 1..L /\ d.list[j] = c.list[from[j]]
      BY <1>6, <1>7
    <3>2. QED  BY ONLY <3>1
  <2>4. ASSUME NEW m \in 1..L PROVE \E j \in 1..L : d.list[j] = c.list[m]
    <3>1. PICK j \in 1..L : from[j] = m
      BY <1>7
    <3>2. d.list[j] = c.list[m]
      BY <1>6, <3>1
    <3>3. QED  BY ONLY <3>2, j \in 1..L
  <2>5. QED  BY <2>2, <2>3, <2>4, SMTT(20)
<1>11. QED  BY <1>6, <1>8, <1>9, <1>10 DEF Sound, d, L

LEMMA AddedInStep ==
  ASSUME NEW c, Sound(c), NEW key \in Names, key \notin Keys(c), NEW value \in Nat
  PROVE  LET w == Linked(Pushed(c, key, value), key, value)
         IN /\ w \in Cache /\ InStep(w) /\ Len(w.list) = Len(c.list) + 1
            /\ Keys(w) = Keys(c) \cup {key}
            /\ w.map[key] = value /\ \A k \in Keys(c) : w.map[k] = c.map[k]
            /\ w.list[1] = <<key, value>>
            /\ \A i \in 1..Len(c.list) : w.list[i + 1] = c.list[i]
<1> DEFINE w == Linked(Pushed(c, key, value), key, value)
           L == Len(c.list)
<1>1. c.list \in Seq(Node) /\ L \in Nat /\ Keys(c) \in SUBSET Names /\ c.map \in [Keys(c) -> Nat]
  BY CacheTypes DEF Sound
<1>2. <<key, value>> \in Node
  BY DEF Node
<1>3. /\ w.list = <<<<key, value>>>> \o c.list
      /\ w.map = [k \in Keys(c) \cup {key} |-> IF k = key THEN value ELSE c.map[k]]
      /\ w = [list |-> w.list, map |-> w.map]
  BY DEF Linked, Pushed, Keys
<1> HIDE DEF w
<1>4. /\ w.list \in Seq(Node) /\ Len(w.list) = L + 1 /\ w.list[1] = <<key, value>>
      /\ \A i \in 1..L : w.list[i + 1] = c.list[i]
  BY <1>1, <1>2, <1>3, ConsElements
<1>5. /\ Keys(w) = Keys(c) \cup {key} /\ w.map \in [Keys(w) -> Nat]
      /\ w.map[key] = value /\ \A k \in Keys(c) : w.map[k] = c.map[k]
  BY <1>1, <1>3 DEF Keys
<1>6. w \in Cache
  <2>1. Keys(w) \in SUBSET Names
    BY <1>1, <1>5
  <2>2. QED  BY <1>3, <1>4, <1>5, <2>1 DEF Cache
<1>7. InStep(w)
  <2>1. /\ \A m, n \in 1..L : c.list[m][1] = c.list[n][1] => m = n
        /\ \A m \in 1..L : c.list[m][1] \in Keys(c) /\ c.map[c.list[m][1]] = c.list[m][2]
        /\ \A k \in Keys(c) : \E m \in 1..L : c.list[m] = <<k, c.map[k]>>
    BY DEF Sound, InStep
  <2>2. ASSUME NEW m \in 1..(L + 1), m # 1
        PROVE  m - 1 \in 1..L /\ w.list[m] = c.list[m - 1]
    <3>1. m - 1 \in 1..L /\ (m - 1) + 1 = m
      BY <1>1, <2>2
    <3>2. QED  BY <1>4, <3>1
  <2>3. ASSUME NEW m \in 1..(L + 1)
        PROVE  w.list[m][1] \in Keys(w) /\ w.map[w.list[m][1]] = w.list[m][2]
    <3>1. CASE m = 1
      BY <1>4, <1>5, <3>1
    <3>2. CASE m # 1
      <4>1. c.list[m - 1][1] \in Keys(c) /\ c.map[c.list[m - 1][1]] = c.list[m - 1][2]
        BY <2>1, <2>2, <3>2
      <4>2. QED  BY <1>5, <2>2, <3>2, <4>1
    <3>3. QED  BY <3>1, <3>2
  <2>4. ASSUME NEW m \in 1..(L + 1), NEW n \in 1..(L + 1), w.list[m][1] = w.list[n][1]
        PROVE  m = n
    <3> DEFINE IsOld(i) == w.list[i][1] \in Keys(c)
    <3>1. \A i \in 1..(L + 1) : i # 1 => IsOld(i)
      BY <2>1, <2>2
    <3>2. ~IsOld(1)
      BY <1>4
    <3>3. CASE m = 1 \/ n = 1
      BY <2>4, <3>1, <3>2, <3>3
    <3>4. CASE m # 1 /\ n # 1
      <4>1. /\ m - 1 \in 1..L /\ n - 1 \in 1..L
            /\ c.list[m - 1][1] = c.list[n - 1][1]
        BY <2>2, <2>4, <3>4
      <4>2. m - 1 = n - 1
        BY <2>1, <4>1
      <4>3. QED  BY <1>1, <4>2
    <3>5. QED  BY <3>3, <3>4
  <2>5. ASSUME NEW k \in Keys(w) PROVE \E m \in 1..(L + 1) : w.list[m] = <<k, w.map[k]>>
    <3>1. CASE k = key
      <4>1. 1 \in 1..(L + 1)
        BY <1>1
      <4>2. QED  BY <1>4, <1>5, <3>1, <4>1
    <3>2. CASE k # key
      <4>1. PICK m \in 1..L : c.list[m] = <<k, c.map[k]>>
        BY <1>5, <2>1, <2>5, <3>2
      <4>2. m + 1 \in 1..(L + 1)
        BY <1>1
      <4>3. QED  BY <1>4, <1>5, <2>5, <3>2, <4>1, <4>2
    <3>3. QED  BY <3>1, <3>2
  <2>6. QED  BY <1>4, <2>3, <2>4, <2>5 DEF InStep
<1>8. QED  BY <1>4, <1>5, <1>6, <1>7 DEF w

(* Evicting takes the last node and the entry of its key, and no more. *)
LEMMA TrimmedSound ==
  ASSUME NEW w \in Cache, InStep(w), Len(w.list) <= Capacity + 1
  PROVE  LET d == Trimmed(w)
         IN /\ Sound(d) /\ Nodes(d) \subseteq Nodes(w) /\ Keys(d) \subseteq Keys(w)
            /\ \A k \in Keys(d) : d.map[k] = w.map[k]
            /\ Len(w.list) > 1 => w.list[1][1] \in Keys(d)
            /\ Len(w.list) = 1 => d = w
<1> DEFINE d == Trimmed(w)
           L == Len(w.list)
<1>1. /\ w.list \in Seq(Node) /\ L \in Nat /\ DOMAIN w.list = 1..L
      /\ Keys(w) \in SUBSET Names /\ w.map \in [Keys(w) -> Nat]
  BY CacheTypes
<1>2. /\ \A m, n \in 1..L : w.list[m][1] = w.list[n][1] => m = n
      /\ \A m \in 1..L : w.list[m][1] \in Keys(w) /\ w.map[w.list[m][1]] = w.list[m][2]
      /\ \A k \in Keys(w) : \E m \in 1..L : w.list[m] = <<k, w.map[k]>>
  BY DEF InStep
<1>3. CASE L <= Capacity
  <2>1. d = w
    BY <1>3 DEF Trimmed
  <2>2. L > 1 => w.list[1][1] \in Keys(w)
    BY <1>1, <1>2
  <2>3. QED  BY <1>3, <2>1, <2>2 DEF Sound
<1>4. CASE ~(L <= Capacity)
  <2> DEFINE last == Last(w.list)[1]
  <2>1. L = Capacity + 1 /\ L > 1
    BY <1>1, <1>4, LruAssumption
  <2>2. /\ d.list = Front(w.list) /\ d.map = Restrict(w.map, Keys(w) \ {last})
        /\ d = [list |-> d.list, map |-> d.map]
    BY <1>4 DEF Trimmed
  <2>3. last = w.list[L][1] /\ L \in 1..L /\ 1 \in 1..L
    BY <1>1, <2>1 DEF Last
  <2> HIDE DEF d, last
  <2>4. /\ d.list \in Seq(Node) /\ Len(d.list) = L - 1
        /\ \A m \in 1..(L - 1) : m \in 1..L /\ d.list[m] = w.list[m]
    <3>1. Len(w.list) > 0 /\ \A m \in 1..(L - 1) : m \in 1..L
      BY <1>1, <2>1
    <3>2. QED  BY <1>1, <2>2, <3>1, FrontElements
  <2>5. /\ Keys(d) = Keys(w) \ {last} /\ d.map \in [Keys(d) -> Nat]
        /\ \A k \in Keys(d) : d.map[k] = w.map[k]
    BY <1>1, <2>2 DEF Keys, Restrict
  <2>6. d \in Cache
    <3>1. Keys(d) \in SUBSET Names
      BY <1>1, <2>5
    <3>2. QED  BY <2>2, <2>4, <2>5, <3>1 DEF Cache
  <2>7. ASSUME NEW m \in 1..(L - 1) PROVE w.list[m][1] \in Keys(d)
    <3>1. m \in 1..L /\ m # L
      BY <1>1, <2>7
    <3>2. QED  BY <1>2, <2>3, <2>5, <3>1
  <2>8. InStep(d)
    <3>1. ASSUME NEW m \in 1..(L - 1), NEW n \in 1..(L - 1), d.list[m][1] = d.list[n][1]
          PROVE  m = n
      <4>1. m \in 1..L /\ n \in 1..L /\ d.list[m] = w.list[m] /\ d.list[n] = w.list[n]
        BY <2>4
      <4>2. QED  BY <1>2, <3>1, <4>1
    <3>2. ASSUME NEW m \in 1..(L - 1)
          PROVE  d.list[m][1] \in Keys(d) /\ d.map[d.list[m][1]] = d.list[m][2]
      <4>1. m \in 1..L /\ d.list[m] = w.list[m] /\ w.list[m][1] \in Keys(d)
        BY <2>4, <2>7
      <4>2. QED  BY <1>2, <2>5, <4>1, SMTT(20)
    <3>3. ASSUME NEW k \in Keys(d) PROVE \E m \in 1..(L - 1) : d.list[m] = <<k, d.map[k]>>
      <4>1. PICK m \in 1..L : w.list[m] = <<k, w.map[k]>>
        BY <1>2, <2>5, <3>3
      <4>2. m # L
        BY <2>3, <2>5, <3>3, <4>1
      <4>3. m \in 1..(L - 1)
        BY <1>1, <4>2
      <4>4. QED  BY <2>4, <2>5, <3>3, <4>1, <4>3
    <3>4. QED  BY <2>4, <3>1, <3>2, <3>3 DEF InStep
  <2>9. Nodes(d) \subseteq Nodes(w)
    <3>1. DOMAIN d.list = 1..(L - 1)
      BY <2>4
    <3>2. QED  BY <1>1, <2>4, <3>1 DEF Nodes, ToSet
  <2>10. w.list[1][1] \in Keys(d)
    BY <1>1, <2>1, <2>7
  <2>11. Len(d.list) <= Capacity
    BY <1>1, <2>1, <2>4, LruAssumption
  <2>12. QED  BY <2>1, <2>5, <2>6, <2>8, <2>9, <2>10, <2>11 DEF Sound, d
<1>5. QED  BY <1>3, <1>4

(* A new key is put with its value, whatever goes to make room for it.     *)
LEMMA PutSound ==
  ASSUME NEW c, Sound(c), NEW key \in Names, key \notin Keys(c), NEW value \in Nat
  PROVE  LET d == Put(c, key, value)
         IN /\ Sound(d) /\ Nodes(d) \subseteq Nodes(c) \cup {<<key, value>>}
            /\ key \in Keys(d) /\ d.map[key] = value
            /\ \A k \in Keys(d) \ {key} : k \in Keys(c) /\ d.map[k] = c.map[k]
<1> DEFINE w == Linked(Pushed(c, key, value), key, value)
           d == Trimmed(w)
           L == Len(c.list)
<1>1. /\ w \in Cache /\ InStep(w) /\ Len(w.list) = L + 1
      /\ Keys(w) = Keys(c) \cup {key}
      /\ w.map[key] = value /\ \A k \in Keys(c) : w.map[k] = c.map[k]
      /\ w.list[1] = <<key, value>>
      /\ \A i \in 1..L : w.list[i + 1] = c.list[i]
  BY AddedInStep
<1>2. L \in Nat /\ L <= Capacity /\ DOMAIN c.list = 1..L
  BY CacheTypes DEF Sound
<1>3. Put(c, key, value) = d
  BY DEF Put
<1> HIDE DEF w
<1>4. /\ Sound(d) /\ Nodes(d) \subseteq Nodes(w) /\ Keys(d) \subseteq Keys(w)
      /\ \A k \in Keys(d) : d.map[k] = w.map[k]
      /\ L + 1 > 1 => w.list[1][1] \in Keys(d)
      /\ L + 1 = 1 => d = w
  <2>1. Len(w.list) <= Capacity + 1
    BY <1>1, <1>2, LruAssumption
  <2>2. QED  BY <1>1, <2>1, TrimmedSound
<1>5. key \in Keys(d)
  BY <1>1, <1>2, <1>4
<1>6. Nodes(w) \subseteq Nodes(c) \cup {<<key, value>>}
  <2>1. Nodes(w) = {w.list[i] : i \in 1..(L + 1)} /\ Nodes(c) = {c.list[i] : i \in 1..L}
    <3>1. DOMAIN w.list = 1..(L + 1)
      BY <1>1, CacheTypes
    <3>2. QED  BY <1>2, <3>1 DEF Nodes, ToSet
  <2>2. ASSUME NEW i \in 1..(L + 1), i # 1 PROVE w.list[i] \in Nodes(c)
    <3>1. i - 1 \in 1..L /\ (i - 1) + 1 = i
      BY <1>2, <2>2
    <3>2. w.list[i] = c.list[i - 1]
      BY <1>1, <3>1
    <3>3. QED  BY <2>1, <3>1, <3>2
  <2>3. \A i \in 1..(L + 1) : w.list[i] \in Nodes(c) \cup {<<key, value>>}
    BY <1>1, <2>2
  <2>4. QED  BY <2>1, <2>3
<1> HIDE DEF d
<1>7. QED  BY <1>1, <1>3, <1>4, <1>5, <1>6

LEMMA PutFailsIsNothing ==
  ASSUME NEW c, Sound(c), NEW key \in Names, NEW value \in Nat
  PROVE  PutFails(c, key, value) = c
<1>1. c.list \in Seq(Node) /\ <<key, value>> \in Node /\ c = [list |-> c.list, map |-> c.map]
  BY CacheTypes DEF Sound, Node
<1>2. Tail(<<<<key, value>>>> \o c.list) = c.list
  BY <1>1, ConsElements
<1>3. PutFails(c, key, value) = [list |-> c.list, map |-> c.map]
  BY <1>2 DEF PutFails, Pushed
<1>4. QED  BY <1>1, <1>3
-----------------------------------------------------------------------------
Frame == [name : Names, at : {"look", "build", "insert"}, facet : Nat, strict : BOOLEAN]

(* The facets that have been built, and in full. *)
Loaded == (0..built) \ degraded

(* A call that is about to insert a facet has one that is loaded. *)
FramesOK(q) ==
    /\ q \in Seq(Frame)
    /\ \A i \in 1..Len(q) : q[i].at = "insert" => q[i].facet \in Loaded

StacksOK == DOMAIN stack = Threads /\ \A t \in Threads : FramesOK(stack[t])

CachesOK ==
    /\ lru \in [BOOLEAN -> Cache]
    /\ \A id \in BOOLEAN : Sound(lru[id]) /\ \A node \in Nodes(lru[id]) : node[2] \in Loaded

FacetsOK == built \in Nat /\ degraded \subseteq 0..built

SharedOK == shared \subseteq Names \X Nat /\ SharedWhileCached

CacheInv == FacetsOK /\ StacksOK /\ CachesOK /\ SharedOK

LEMMA CacheOfIsId == \A n : CacheOf(n) \in BOOLEAN
  BY DEF CacheOf

LEMMA InitCacheInv == Init => CacheInv
<1> SUFFICES ASSUME Init PROVE CacheInv
  OBVIOUS
<1>1. FacetsOK /\ SharedOK
  BY DEF Init, FacetsOK, SharedOK, SharedWhileCached
<1>2. StacksOK
  <2>1. <<>> \in Seq(Frame) /\ Len(<<>>) = 0
    OBVIOUS
  <2>2. QED  BY <2>1 DEF Init, StacksOK, FramesOK
<1>3. CachesOK
  <2>1. Nodes(Empty) = {}
    BY DEF Nodes, ToSet, Empty
  <2>2. lru \in [BOOLEAN -> Cache] /\ \A id \in BOOLEAN : lru[id] = Empty
    BY EmptySound DEF Init, Sound
  <2>3. QED  BY <2>1, <2>2, EmptySound DEF CachesOK
<1>4. QED  BY <1>1, <1>2, <1>3 DEF CacheInv

(* Stacks of calls: one more, one fewer, and the innermost a step on.      *)
LEMMA CallFrames ==
  ASSUME NEW q, FramesOK(q), NEW f \in Frame, f.at # "insert"
  PROVE  FramesOK(<<f>> \o q)
<1>1. /\ q \in Seq(Frame) /\ Len(q) \in Nat /\ <<f>> \o q \in Seq(Frame)
      /\ Len(<<f>> \o q) = Len(q) + 1 /\ (<<f>> \o q)[1] = f
      /\ \A i \in 1..Len(q) : (<<f>> \o q)[i + 1] = q[i]
  BY ConsElements DEF FramesOK
<1>2. ASSUME NEW i \in 1..(Len(q) + 1), i # 1 PROVE i - 1 \in 1..Len(q) /\ (i - 1) + 1 = i
  BY <1>1, <1>2
<1>3. ASSUME NEW i \in 1..(Len(q) + 1), (<<f>> \o q)[i].at = "insert"
      PROVE  (<<f>> \o q)[i].facet \in Loaded
  <2>1. i # 1
    BY <1>1, <1>3
  <2>2. (<<f>> \o q)[i] = q[i - 1] /\ i - 1 \in 1..Len(q)
    BY <1>1, <1>2, <2>1
  <2>3. QED  BY <1>3, <2>2 DEF FramesOK
<1>4. QED  BY <1>1, <1>3 DEF FramesOK

LEMMA TailFrames ==
  ASSUME NEW q, FramesOK(q), q # <<>>
  PROVE  FramesOK(Tail(q)) /\ Head(q) \in Frame /\ (Head(q).at = "insert" => Head(q).facet \in Loaded)
<1>1. /\ q \in Seq(Frame) /\ Len(q) \in Nat \ {0} /\ Tail(q) \in Seq(Frame)
      /\ Len(Tail(q)) = Len(q) - 1 /\ \A i \in 1..Len(Tail(q)) : Tail(q)[i] = q[i + 1]
      /\ Head(q) = q[1] /\ Head(q) \in Frame
  BY HeadTailProperties, EmptySeq DEF FramesOK
<1>2. 1 \in 1..Len(q) /\ \A i \in 1..Len(Tail(q)) : i + 1 \in 1..Len(q)
  BY <1>1
<1>3. QED  BY <1>1, <1>2 DEF FramesOK

LEMMA GotoFrames ==
  ASSUME StacksOK, NEW t \in Threads, stack[t] # <<>>,
         NEW label \in {"look", "build", "insert"}, NEW facet \in Nat, Goto(t, label, facet)
  PROVE  /\ DOMAIN stack' = Threads
         /\ \A u \in Threads : u # t => stack'[u] = stack[u]
         /\ stack'[t] \in Seq(Frame) /\ Len(stack'[t]) = Len(stack[t])
         /\ stack'[t][1].at = label /\ stack'[t][1].facet = facet
         /\ \A i \in 1..Len(stack[t]) : i # 1 => stack'[t][i] = stack[t][i]
<1> DEFINE q == stack[t]
           f == [q[1] EXCEPT !.at = label, !.facet = facet]
<1>1. q \in Seq(Frame) /\ Len(q) \in Nat \ {0} /\ 1 \in 1..Len(q) /\ DOMAIN q = 1..Len(q)
  BY EmptySeq DEF StacksOK, FramesOK
<1>2. q[1] \in Frame
  BY <1>1
<1>3. f \in Frame /\ f.at = label /\ f.facet = facet
  BY <1>2 DEF Frame
<1>4. /\ DOMAIN stack' = Threads /\ stack'[t] = [q EXCEPT ![1] = f]
      /\ \A u \in Threads : u # t => stack'[u] = stack[u]
  BY DEF Goto, StacksOK
<1> HIDE DEF q, f
<1>5. /\ [q EXCEPT ![1] = f] \in Seq(Frame) /\ Len([q EXCEPT ![1] = f]) = Len(q)
      /\ [q EXCEPT ![1] = f][1] = f
      /\ \A i \in 1..Len(q) : i # 1 => [q EXCEPT ![1] = f][i] = q[i]
  BY <1>1, <1>3, ExceptSeq
<1>6. QED  BY <1>3, <1>4, <1>5 DEF q

(* A call that goes on has a facet that is loaded if it goes to insert.    *)
LEMMA GoesOn ==
  ASSUME StacksOK, NEW t \in Threads, stack[t] # <<>>,
         NEW label \in {"look", "build", "insert"}, NEW facet \in Nat, Goto(t, label, facet),
         Loaded \subseteq Loaded', label = "insert" => facet \in Loaded'
  PROVE  StacksOK'
<1>1. /\ DOMAIN stack' = Threads
      /\ \A u \in Threads : u # t => stack'[u] = stack[u]
      /\ stack'[t] \in Seq(Frame) /\ Len(stack'[t]) = Len(stack[t])
      /\ stack'[t][1].at = label /\ stack'[t][1].facet = facet
      /\ \A i \in 1..Len(stack[t]) : i # 1 => stack'[t][i] = stack[t][i]
  BY GotoFrames
<1>2. \A u \in Threads : \A i \in 1..Len(stack[u]) :
         stack[u][i].at = "insert" => stack[u][i].facet \in Loaded'
  BY DEF StacksOK, FramesOK
<1>3. \A u \in Threads : stack[u] \in Seq(Frame)
  BY DEF StacksOK, FramesOK
<1>4. \A u \in Threads : FramesOK(stack[u])'
  BY <1>1, <1>2, <1>3 DEF FramesOK
<1>5. QED  BY <1>1, <1>4 DEF StacksOK

LEMMA CallBegins ==
  ASSUME StacksOK, NEW t \in Threads, NEW n \in Names, NEW strict \in BOOLEAN,
         Calls(t, n, strict), UNCHANGED Loaded
  PROVE  StacksOK'
<1> DEFINE f == [name |-> n, at |-> "look", facet |-> 0, strict |-> strict]
<1>1. f \in Frame /\ f.at # "insert"
  BY DEF Frame
<1>2. /\ DOMAIN stack' = Threads /\ stack'[t] = <<f>> \o stack[t]
      /\ \A u \in Threads : u # t => stack'[u] = stack[u]
  BY DEF Calls, StacksOK
<1> HIDE DEF f
<1>3. \A u \in Threads : FramesOK(stack'[u])
  BY <1>1, <1>2, CallFrames DEF StacksOK
<1>4. QED  BY <1>2, <1>3 DEF StacksOK, FramesOK

(* A call that returns leaves the one that waited for it, and one that     *)
(* throws none.                                                            *)
LEMMA CallEnds ==
  ASSUME StacksOK, NEW t \in Threads, stack[t] # <<>>, Returns(t) \/ Throws(t),
         Loaded \subseteq Loaded'
  PROVE  StacksOK'
<1>1. DOMAIN stack' = Threads /\ \A u \in Threads : u # t => stack'[u] = stack[u]
  BY DEF Returns, Throws, StacksOK
<1>2. stack'[t] \in {Tail(stack[t]), <<>>}
  BY DEF Returns, Throws, StacksOK
<1>3. FramesOK(<<>>)
  BY DEF FramesOK
<1>4. \A u \in Threads : FramesOK(stack'[u])
  BY <1>1, <1>2, <1>3, TailFrames DEF StacksOK
<1>5. QED  BY <1>1, <1>4 DEF StacksOK, FramesOK

LEMMA SameCaches ==
  ASSUME CachesOK, UNCHANGED lru, Loaded \subseteq Loaded'
  PROVE  CachesOK'
<1>1. \A id \in BOOLEAN : \A node \in Nodes(lru[id]) : node[2] \in Loaded'
  BY DEF CachesOK
<1>2. QED  BY <1>1 DEF CachesOK

LEMMA SameShared ==
  ASSUME SharedOK, UNCHANGED <<lru, shared>>
  PROVE  SharedOK'
  BY DEF SharedOK, SharedWhileCached

(* What a cache gives is what it holds, and what went to make room for it  *)
(* is shared no longer.                                                    *)
LEMMA GivesKeeps ==
  ASSUME CachesOK, SharedOK, NEW n \in Names, NEW facet \in Nat, NEW cache,
         Sound(cache), \A node \in Nodes(cache) : node[2] \in Loaded,
         n \in Keys(cache), cache.map[n] = facet,
         n \in Keys(lru[CacheOf(n)]) => lru[CacheOf(n)].map[n] = facet,
         \A k \in Keys(cache) \ {n} :
            k \in Keys(lru[CacheOf(n)]) /\ cache.map[k] = lru[CacheOf(n)].map[k],
         Gives(n, facet, cache), UNCHANGED Loaded
  PROVE  CachesOK' /\ SharedOK'
<1> DEFINE id == CacheOf(n)
<1>1. id \in BOOLEAN
  BY CacheOfIsId
<1>2. /\ lru' = [lru EXCEPT ![id] = cache]
      /\ shared' = {s \in shared \cup {<<n, facet>>} :
                       CacheOf(s[1]) = id => s[1] \in Keys(cache)}
  BY DEF Gives
<1> HIDE DEF id
<1>3. lru' \in [BOOLEAN -> Cache] /\ lru'[id] = cache /\ \A b \in BOOLEAN : b # id => lru'[b] = lru[b]
  BY <1>1, <1>2 DEF CachesOK, Sound
<1>4. CachesOK'
  <2>1. \A b \in BOOLEAN : Sound(lru'[b]) /\ \A node \in Nodes(lru'[b]) : node[2] \in Loaded
    BY <1>1, <1>3 DEF CachesOK
  <2>2. QED  BY <1>3, <2>1 DEF CachesOK
<1>5. shared' \subseteq Names \X Nat
  BY <1>2 DEF SharedOK
<1>6. ASSUME NEW s \in shared'
      PROVE  s[1] \in Keys(lru'[CacheOf(s[1])]) /\ lru'[CacheOf(s[1])].map[s[1]] = s[2]
  <2>1. s \in shared \cup {<<n, facet>>} /\ CacheOf(s[1]) \in BOOLEAN
    BY <1>2, CacheOfIsId
  <2>2. CASE CacheOf(s[1]) # id
    <3>1. s \in shared
      BY <2>1, <2>2 DEF id
    <3>2. QED  BY <1>3, <2>1, <2>2, <3>1 DEF SharedOK, SharedWhileCached
  <2>3. CASE CacheOf(s[1]) = id
    <3>1. s[1] \in Keys(cache)
      BY <1>2, <2>3
    <3>2. s \in shared => s[1] \in Keys(lru[id]) /\ lru[id].map[s[1]] = s[2]
      BY <2>3 DEF SharedOK, SharedWhileCached
    <3>3. CASE s[1] = n
      BY <1>3, <2>1, <2>3, <3>1, <3>2, <3>3 DEF id
    <3>4. CASE s[1] # n
      BY <1>3, <2>1, <2>3, <3>1, <3>2, <3>4 DEF id
    <3>5. QED  BY <3>3, <3>4
  <2>4. QED  BY <2>2, <2>3
<1>7. QED  BY <1>4, <1>5, <1>6 DEF SharedOK, SharedWhileCached
-----------------------------------------------------------------------------
(* The call a thread is in, and the cache it is about. *)
LEMMA InCall ==
  ASSUME CacheInv, NEW t \in Threads, stack[t] # <<>>
  PROVE  /\ Top(t) \in Frame /\ Top(t).name \in Names /\ Top(t).facet \in Nat
         /\ Top(t).at = "insert" => Top(t).facet \in Loaded
         /\ Sound(lru[CacheOf(Top(t).name)])
         /\ \A node \in Nodes(lru[CacheOf(Top(t).name)]) : node[2] \in Loaded
<1>1. Top(t) \in Frame /\ (Top(t).at = "insert" => Top(t).facet \in Loaded)
  BY TailFrames DEF CacheInv, StacksOK, Top
<1>2. Top(t).name \in Names /\ Top(t).facet \in Nat
  BY <1>1 DEF Frame
<1>3. QED  BY <1>1, <1>2, CacheOfIsId DEF CacheInv, CachesOK

(* A facet that is in the cache is given, and marked as used. *)
LEMMA GivesCached ==
  ASSUME CacheInv, NEW n \in Names, n \in Keys(lru[CacheOf(n)]), UNCHANGED Loaded,
         Gives(n, lru[CacheOf(n)].map[n], Touched(lru[CacheOf(n)], n))
  PROVE  CachesOK' /\ SharedOK'
<1> DEFINE c == lru[CacheOf(n)]
           d == Touched(c, n)
<1>1. Sound(c) /\ \A node \in Nodes(c) : node[2] \in Loaded
  BY CacheOfIsId DEF CacheInv, CachesOK
<1>2. Sound(d) /\ d.map = c.map /\ Nodes(d) = Nodes(c)
  BY <1>1, TouchedSound
<1>3. c.map[n] \in Nat
  BY <1>1, CacheTypes DEF Sound
<1>4. Keys(d) = Keys(c)
  BY <1>2 DEF Keys
<1> HIDE DEF d
<1>5. Gives(n, c.map[n], d)
  BY DEF d
<1>6. QED  BY <1>1, <1>2, <1>3, <1>4, <1>5, GivesKeeps DEF CacheInv

LEMMA LookKeeps ==
  ASSUME CacheInv, NEW t \in Threads, Look(t)
  PROVE  CacheInv'
<1> DEFINE n == Top(t).name
           c == lru[CacheOf(n)]
<1>1. stack[t] # <<>> /\ UNCHANGED <<built, degraded, Loaded>>
  BY DEF Look, At, Loaded
<1>2. FacetsOK'
  BY <1>1 DEF CacheInv, FacetsOK
<1>3. CASE n \in Keys(c) /\ Gives(n, c.map[n], Touched(c, n)) /\ Returns(t)
  <2>1. StacksOK'
    BY <1>1, <1>3, CallEnds DEF CacheInv
  <2>2. n \in Names
    BY <1>1, InCall
  <2>3. CachesOK' /\ SharedOK'
    BY <1>1, <1>3, <2>2, GivesCached
  <2>4. QED  BY <1>2, <2>1, <2>3 DEF CacheInv
<1>4. CASE Goto(t, "build", 0) /\ UNCHANGED <<lru, shared>>
  <2>1. StacksOK'
    BY <1>1, <1>4, GoesOn DEF CacheInv
  <2>2. CachesOK' /\ SharedOK'
    BY <1>1, <1>4, SameCaches, SameShared DEF CacheInv
  <2>3. QED  BY <1>2, <2>1, <2>2 DEF CacheInv
<1>5. QED  BY <1>3, <1>4 DEF Look

(* What is built now is neither in a cache nor on its way into one. *)
LEMMA BuiltAnew ==
  ASSUME FacetsOK, built' = built + 1, degraded' \in {degraded, degraded \cup {built'}}
  PROVE  /\ FacetsOK' /\ Loaded \subseteq Loaded' /\ built' \in Nat
         /\ degraded' = degraded => built' \in Loaded'
  BY DEF FacetsOK, Loaded

LEMMA BuildKeeps ==
  ASSUME CacheInv, NEW t \in Threads, Build(t)
  PROVE  CacheInv'
<1>1. stack[t] # <<>> /\ Goto(t, "insert", built') /\ UNCHANGED <<lru, shared>>
  BY DEF Build, At
<1>2. FacetsOK' /\ Loaded \subseteq Loaded' /\ built' \in Nat /\ built' \in Loaded'
  BY BuiltAnew DEF Build, CacheInv
<1>3. PICK facet \in Nat : facet = built'
  BY <1>2
<1>4. StacksOK'
  BY <1>1, <1>2, <1>3, GoesOn DEF CacheInv
<1>5. CachesOK' /\ SharedOK'
  BY <1>1, <1>2, SameCaches, SameShared DEF CacheInv
<1>6. QED  BY <1>2, <1>4, <1>5 DEF CacheInv

LEMMA BuildThrowsKeeps ==
  ASSUME CacheInv, NEW t \in Threads, BuildThrows(t)
  PROVE  CacheInv'
<1>1. stack[t] # <<>> /\ Throws(t) /\ UNCHANGED <<lru, shared, built, degraded, Loaded>>
  BY DEF BuildThrows, At, Loaded
<1>2. StacksOK' /\ CachesOK' /\ SharedOK'
  BY <1>1, CallEnds, SameCaches, SameShared DEF CacheInv
<1>3. FacetsOK'
  BY <1>1 DEF CacheInv, FacetsOK
<1>4. QED  BY <1>2, <1>3 DEF CacheInv

LEMMA BuildDegradedKeeps ==
  ASSUME CacheInv, NEW t \in Threads, BuildDegraded(t)
  PROVE  CacheInv'
<1>1. stack[t] # <<>> /\ (Returns(t) \/ Throws(t)) /\ UNCHANGED <<lru, shared>>
  BY DEF BuildDegraded, HandsDegraded, At
<1>2. FacetsOK' /\ Loaded \subseteq Loaded'
  <2>1. CASE built' = built + 1 /\ degraded' = degraded \cup {built'}
    BY <2>1, BuiltAnew DEF CacheInv
  <2>2. CASE UNCHANGED <<built, degraded>>
    BY <2>2 DEF CacheInv, FacetsOK, Loaded
  <2> QED BY <2>1, <2>2 DEF BuildDegraded
<1>3. StacksOK' /\ CachesOK' /\ SharedOK'
  BY <1>1, <1>2, CallEnds, SameCaches, SameShared DEF CacheInv
<1>4. QED  BY <1>2, <1>3 DEF CacheInv

LEMMA InsertKeeps ==
  ASSUME CacheInv, NEW t \in Threads, Insert(t)
  PROVE  CacheInv'
<1> DEFINE n == Top(t).name
           c == lru[CacheOf(n)]
           facet == Top(t).facet
           d == Put(c, n, facet)
<1>1. stack[t] # <<>> /\ Top(t).at = "insert" /\ UNCHANGED <<built, degraded, Loaded>>
  BY DEF Insert, At, Loaded
<1>2. FacetsOK'
  BY <1>1 DEF CacheInv, FacetsOK
<1>3. StacksOK'
  BY <1>1, CallEnds DEF Insert, CacheInv
<1>4. /\ n \in Names /\ facet \in Nat /\ facet \in Loaded
      /\ Sound(c) /\ \A node \in Nodes(c) : node[2] \in Loaded
  BY <1>1, InCall
<1>5. CASE n \in Keys(c)
  <2>1. Gives(n, c.map[n], Touched(c, n))
    BY <1>5 DEF Insert, Finds
  <2>2. CachesOK' /\ SharedOK'
    BY <1>1, <1>4, <1>5, <2>1, GivesCached
  <2>3. QED  BY <1>2, <1>3, <2>2 DEF CacheInv
<1>6. CASE n \notin Keys(c)
  <2>1. Gives(n, facet, d)
    BY <1>6 DEF Insert, Finds
  <2>2. /\ Sound(d) /\ Nodes(d) \subseteq Nodes(c) \cup {<<n, facet>>}
        /\ n \in Keys(d) /\ d.map[n] = facet
        /\ \A k \in Keys(d) \ {n} : k \in Keys(c) /\ d.map[k] = c.map[k]
    BY <1>4, <1>6, PutSound
  <2>3. \A node \in Nodes(d) : node[2] \in Loaded
    BY <1>4, <2>2
  <2> HIDE DEF d, n, facet
  <2>4. CachesOK' /\ SharedOK'
    BY <1>1, <1>4, <1>6, <2>1, <2>2, <2>3, GivesKeeps DEF CacheInv
  <2>5. QED  BY <1>2, <1>3, <2>4 DEF CacheInv
<1>7. QED  BY <1>5, <1>6

(* An insertion that runs out of memory leaves the cache as it was. *)
LEMMA InsertThrowsKeeps ==
  ASSUME CacheInv, NEW t \in Threads, InsertThrows(t)
  PROVE  CacheInv'
<1> DEFINE n == Top(t).name
           id == CacheOf(n)
<1>1. /\ stack[t] # <<>> /\ UNCHANGED <<built, degraded, shared, Loaded>>
      /\ Returns(t) \/ Throws(t)
  BY DEF InsertThrows, At, Loaded
<1>2. n \in Names /\ Top(t).facet \in Nat /\ Sound(lru[id])
  BY <1>1, InCall
<1>3. PutFails(lru[id], n, Top(t).facet) = lru[id]
  BY <1>2, PutFailsIsNothing
<1>4. lru' = lru
  <2>1. lru' = [lru EXCEPT ![id] = lru[id]]
    BY <1>3 DEF InsertThrows
  <2>2. lru \in [BOOLEAN -> Cache] /\ id \in BOOLEAN
    BY CacheOfIsId DEF CacheInv, CachesOK
  <2>3. QED  BY <2>1, <2>2
<1>5. StacksOK' /\ CachesOK' /\ SharedOK'
  BY <1>1, <1>4, CallEnds, SameCaches, SameShared DEF CacheInv
<1>6. FacetsOK'
  BY <1>1 DEF CacheInv, FacetsOK
<1>7. QED  BY <1>5, <1>6 DEF CacheInv

LEMMA ForkProcessKeeps ==
  ASSUME CacheInv, NEW t \in Threads, ForkProcess(t)
  PROVE  CacheInv'
<1>1. /\ UNCHANGED <<lru, built, degraded, shared, Loaded>>
      /\ stack' = [u \in Threads |-> IF u = t THEN stack[t] ELSE <<>>]
  BY DEF ForkProcess, Loaded
<1>2. FramesOK(<<>>)
  BY DEF FramesOK
<1>3. \A u \in Threads : FramesOK(stack'[u])
  BY <1>1, <1>2 DEF CacheInv, StacksOK
<1>4. StacksOK'
  BY <1>1, <1>3 DEF StacksOK, FramesOK
<1>5. FacetsOK' /\ CachesOK' /\ SharedOK'
  BY <1>1, SameCaches, SameShared DEF CacheInv, FacetsOK
<1>6. QED  BY <1>4, <1>5 DEF CacheInv

LEMMA CallsKeep ==
  ASSUME CacheInv, NEW t \in Threads, NEW n \in Names, NEW strict \in BOOLEAN,
         Calls(t, n, strict)
  PROVE  CacheInv'
<1>1. UNCHANGED <<lru, built, degraded, shared, Loaded>>
  BY DEF Calls, Loaded
<1>2. StacksOK'
  BY <1>1, CallBegins DEF CacheInv
<1>3. FacetsOK' /\ CachesOK' /\ SharedOK'
  BY <1>1, SameCaches, SameShared DEF CacheInv, FacetsOK
<1>4. QED  BY <1>2, <1>3 DEF CacheInv

LEMMA CacheUntouched ==
  ASSUME CacheInv, UNCHANGED cacheVars
  PROVE  CacheInv'
<1>1. UNCHANGED <<lru, stack, built, degraded, shared, Loaded>>
  BY DEF cacheVars, Loaded
<1>2. FacetsOK' /\ CachesOK' /\ SharedOK'
  BY <1>1, SameCaches, SameShared DEF CacheInv, FacetsOK
<1>3. StacksOK'
  BY <1>1 DEF CacheInv, StacksOK, FramesOK
<1>4. QED  BY <1>2, <1>3 DEF CacheInv

LEMMA NextCacheInv == CacheInv /\ [Next]_vars => CacheInv'
<1> SUFFICES ASSUME CacheInv, [Next]_vars PROVE CacheInv'
  OBVIOUS
<1>1. CASE UNCHANGED vars
  BY <1>1, CacheUntouched DEF vars
<1>2. CASE Next
  <2>1. PICK t \in Threads :
          \/ BeginThread(t) \/ Step(t) \/ ForkProcess(t)
          \/ \E n \in Names : Reenter(t, n) \/ \E strict \in BOOLEAN : Call(t, n, strict)
    BY <1>2 DEF Next
  <2>2. CASE BeginThread(t) \/ Locks(t)
    BY <2>2, CacheUntouched DEF BeginThread, Locks
  <2>3. CASE Look(t) \/ Insert(t) \/ InsertThrows(t)
    BY <2>3, LookKeeps, InsertKeeps, InsertThrowsKeeps
  <2>4. CASE Build(t) \/ BuildThrows(t) \/ BuildDegraded(t)
    BY <2>4, BuildKeeps, BuildThrowsKeeps, BuildDegradedKeeps
  <2>5. CASE ForkProcess(t)
    BY <2>5, ForkProcessKeeps
  <2>6. ASSUME NEW n \in Names, Reenter(t, n) \/ \E strict \in BOOLEAN : Call(t, n, strict)
        PROVE  CacheInv'
    <3>1. PICK strict \in BOOLEAN : Calls(t, n, strict)
      BY <2>6 DEF Reenter, Call
    <3>2. QED  BY <3>1, CallsKeep
  <2>7. QED  BY <2>1, <2>2, <2>3, <2>4, <2>5, <2>6 DEF Step
<1>3. QED  BY <1>1, <1>2

LEMMA CacheInvKept == Spec => []CacheInv
  BY InitCacheInv, NextCacheInv, PTL DEF Spec

(* lru_cache as ori_facet_buf uses it: list and map stay in step and       *)
(* within the capacity, through evictions and insertions that run out of   *)
(* memory, and a facet that failed to load is never in a cache.            *)
THEOREM CachesStaySound == Spec => []CachesSound
<1>1. CacheInv => CachesSound
  <2> SUFFICES ASSUME CacheInv, NEW id \in BOOLEAN
               PROVE  /\ ListAndMapAgree(lru[id])
                      /\ \A node \in Nodes(lru[id]) : node[2] \notin degraded
    BY DEF CachesSound
  <2>1. Sound(lru[id]) /\ \A node \in Nodes(lru[id]) : node[2] \in Loaded
    BY DEF CacheInv, CachesOK
  <2>2. QED  BY <2>1, SoundAgrees DEF Loaded
<1>2. QED  BY <1>1, CacheInvKept, PTL

(* try_get() and put_msg(): whoever races or comes back for a name gets    *)
(* the facet that is in its cache, until it is evicted.                    *)
THEOREM CachedIsShared == Spec => []SharedWhileCached
<1>1. CacheInv => SharedWhileCached
  BY DEF CacheInv, SharedOK
<1>2. QED  BY <1>1, CacheInvKept, PTL
=============================================================================
