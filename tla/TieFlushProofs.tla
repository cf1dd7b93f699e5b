--------------------------- MODULE TieFlushProofs ---------------------------
(***************************************************************************)
(* The locks of a tie flush, the chain it reaches and the stream it leaves *)
(* alone, for any number of threads, streams and operations, however often *)
(* streams are re-tied.                                                    *)
(*                                                                         *)
(* A hold on a lock comes and goes with the place its thread is at, so     *)
(* LocksAccounted carries itself once it is known that each place has its  *)
(* stream.  ChainFlushed needs what a flush on its way has behind it: the  *)
(* activations follow the edges (Follows), and what lies below the         *)
(* innermost is settled once the walk has turned back (Settled).           *)
(*                                                                         *)
(* And the promises of a standard output stream, for any number of threads,*)
(* calls and bytes, in every interleaving with the exit of the process.    *)
(* OneWaits carries them: while the stream may keep nothing back, only one *)
(* thread's bytes wait in it, and that thread is at the end of its         *)
(* insertion with the mutex in its hands.                                  *)
(***************************************************************************)
EXTENDS MCTieFlush, SequenceFacts

Labels == {"idle", "acquire", "sentry", "walk", "try", "flush", "body"}
InChain == {"walk", "try", "flush"}

TypeOK ==
    /\ tied \in [Streams -> Targets]
    /\ owner \in [Locks -> Threads \cup {NoThread}]
    /\ depth \in [Locks -> Nat]
    /\ pending \subseteq Streams /\ failed \subseteq Streams
    /\ pc \in [Threads -> Labels]
    /\ on \in [Threads -> Streams \cup {NoStream}]
    /\ chain \in [Threads -> Seq(Outs)]
    /\ held \in [Threads -> Streams \cup {NoStream}]
    /\ calm \in [Threads -> BOOLEAN]

(* A thread in an operation has a stream, one in a flush a chain. *)
Places ==
    \A t \in Threads :
        /\ pc[t] # "idle" => on[t] \in Streams
        /\ pc[t] \in InChain <=> chain[t] # <<>>

LockInv == TypeOK /\ Places /\ LocksAccounted
-----------------------------------------------------------------------------
LEMMA LocksOfStreams == \A s \in Streams : LockOf[s] \in Locks
  BY DEF Locks

(* The innermost activation, and what its return leaves. *)
LEMMA LastOfChain ==
  ASSUME NEW q \in Seq(Outs), q # <<>>
  PROVE  /\ Len(q) \in Nat \ {0} /\ Last(q) = q[Len(q)] /\ Last(q) \in Outs
         /\ Front(q) \in Seq(Outs) /\ Len(Front(q)) = Len(q) - 1
         /\ \A i \in 1..Len(Front(q)) : Front(q)[i] = q[i]
         /\ Front(q) = <<>> <=> Len(q) = 1
<1>1. Len(q) \in Nat \ {0} /\ q[Len(q)] \in Outs
  BY EmptySeq, LenProperties
<1>2. Front(q) = SubSeq(q, 1, Len(q) - 1) /\ Last(q) = q[Len(q)]
  BY DEF Front, Last
<1>3. Len(q) - 1 \in Nat /\ Len(q) - 1 <= Len(q)
  BY <1>1
<1>4. /\ Front(q) \in Seq(Outs) /\ Len(Front(q)) = Len(q) - 1
      /\ \A i \in 1..(Len(q) - 1) : Front(q)[i] = q[i]
  <2>1. PICK n \in Nat : n = Len(q) - 1 /\ n <= Len(q)
    BY <1>3
  <2>2. SubSeq(q, 1, n) \in Seq(Outs) /\ Len(SubSeq(q, 1, n)) = n
    BY ONLY q \in Seq(Outs), n \in Nat, <2>1, PrefixElements
  <2>3. \A i \in 1..n : SubSeq(q, 1, n)[i] = q[i]
    BY ONLY q \in Seq(Outs), n \in Nat, <2>1, PrefixElements
  <2>4. QED  BY ONLY <1>2, <2>1, <2>2, <2>3
<1>5. Front(q) = <<>> <=> Len(q) = 1
  BY <1>1, <1>4, EmptySeq
<1>6. QED  BY <1>1, <1>2, <1>4, <1>5

(* A thread that takes a lock, and one that gives it back, has one hold    *)
(* more, or one less, and nobody else's change.                            *)
OneMore(t, s) ==
    \A u \in Threads, k \in Locks :
        Holds(u, k)' = Holds(u, k) + (IF u = t /\ k = LockOf[s] THEN 1 ELSE 0)

OneLess(t, s) ==
    \A u \in Threads, k \in Locks :
        Holds(u, k) = Holds(u, k)' + (IF u = t /\ k = LockOf[s] THEN 1 ELSE 0)

LEMMA HoldsIsNat == \A t \in Threads, k \in Locks : Holds(t, k) \in Nat /\ Holds(t, k)' \in Nat
  BY DEF Holds

LEMMA LockAccounts ==
  ASSUME TypeOK, LocksAccounted, NEW t \in Threads, NEW s \in Streams,
         Free(t, s), Lock(t, s), OneMore(t, s)
  PROVE  LocksAccounted'
<1> DEFINE l == LockOf[s]
<1>1. l \in Locks /\ owner[l] \in {NoThread, t}
  BY LocksOfStreams DEF Free
<1>2. /\ owner'[l] = t /\ depth'[l] = depth[l] + 1
      /\ \A k \in Locks : k # l => owner'[k] = owner[k] /\ depth'[k] = depth[k]
  BY <1>1 DEF Lock, TypeOK
<1>3. \A u \in Threads : u # t => Holds(u, l) = 0
  BY <1>1, FlushAssumption DEF LocksAccounted
<1>4. depth[l] = Holds(t, l)
  BY <1>1 DEF LocksAccounted
<1>5. ASSUME NEW k \in Locks, k # l
      PROVE  /\ owner'[k] = NoThread => depth'[k] = 0 /\ \A u \in Threads : Holds(u, k)' = 0
             /\ \A u \in Threads :
                   owner'[k] = u => /\ depth'[k] = Holds(u, k)' /\ depth'[k] > 0
                                    /\ \A v \in Threads \ {u} : Holds(v, k)' = 0
  <2>1. \A u \in Threads : Holds(u, k)' = Holds(u, k)
    BY <1>5, HoldsIsNat DEF OneMore
  <2>2. QED  BY <1>2, <1>5, <2>1 DEF LocksAccounted
<1>6. \A u \in Threads : u # t => Holds(u, l)' = 0
  BY <1>1, <1>3 DEF OneMore
<1>7. Holds(t, l)' = Holds(t, l) + 1
  BY <1>1 DEF OneMore
<1>8. depth'[l] = Holds(t, l)' /\ depth'[l] > 0
  BY <1>1, <1>2, <1>4, <1>7, HoldsIsNat
<1>9. QED
  BY <1>1, <1>2, <1>5, <1>6, <1>8, FlushAssumption DEF LocksAccounted

LEMMA UnlockAccounts ==
  ASSUME TypeOK, LocksAccounted, NEW t \in Threads, NEW s \in Streams,
         Unlock(s), OneLess(t, s)
  PROVE  LocksAccounted'
<1> DEFINE l == LockOf[s]
<1>1. l \in Locks /\ Holds(t, l) = Holds(t, l)' + 1 /\ Holds(t, l) > 0
  BY LocksOfStreams, HoldsIsNat DEF OneLess
<1>2. owner[l] \in Threads \cup {NoThread}
  BY <1>1 DEF TypeOK
<1>3. owner[l] = t
  BY <1>1, <1>2 DEF LocksAccounted
<1>4. depth[l] = Holds(t, l) /\ \A u \in Threads : u # t => Holds(u, l) = 0
  BY <1>1, <1>3 DEF LocksAccounted
<1>5. /\ owner'[l] = (IF depth[l] = 1 THEN NoThread ELSE t) /\ depth'[l] = depth[l] - 1
      /\ \A k \in Locks : k # l => owner'[k] = owner[k] /\ depth'[k] = depth[k]
  BY <1>1, <1>3 DEF Unlock, TypeOK
<1>6. ASSUME NEW k \in Locks, k # l
      PROVE  /\ owner'[k] = NoThread => depth'[k] = 0 /\ \A u \in Threads : Holds(u, k)' = 0
             /\ \A u \in Threads :
                   owner'[k] = u => /\ depth'[k] = Holds(u, k)' /\ depth'[k] > 0
                                    /\ \A v \in Threads \ {u} : Holds(v, k)' = 0
  <2>1. \A u \in Threads : Holds(u, k)' = Holds(u, k)
    BY <1>6, HoldsIsNat DEF OneLess
  <2>2. QED  BY <1>5, <1>6, <2>1 DEF LocksAccounted
<1>7. \A u \in Threads : u # t => Holds(u, l)' = 0
  <2>1. \A u \in Threads : u # t => Holds(u, l) = Holds(u, l)' + 0
    BY <1>1 DEF OneLess
  <2>2. QED  BY <1>1, <1>4, <2>1, HoldsIsNat
<1>8. depth'[l] = Holds(t, l)' /\ depth'[l] \in Nat
  BY <1>1, <1>4, <1>5, HoldsIsNat
<1>9. owner'[l] = NoThread <=> depth'[l] = 0
  BY <1>1, <1>4, <1>5, <1>8, HoldsIsNat, FlushAssumption
<1>10. owner'[l] \in {t, NoThread}
  BY <1>5
<1>11. QED
  BY <1>1, <1>6, <1>7, <1>8, <1>9, <1>10, FlushAssumption DEF LocksAccounted

LEMMA UnlockTypes ==
  ASSUME TypeOK, LocksAccounted, NEW t \in Threads, NEW s \in Streams,
         Unlock(s), OneLess(t, s)
  PROVE  owner' \in [Locks -> Threads \cup {NoThread}] /\ depth' \in [Locks -> Nat]
<1>1. LockOf[s] \in Locks /\ Holds(t, LockOf[s]) > 0
  BY LocksOfStreams, HoldsIsNat DEF OneLess
<1>2. owner[LockOf[s]] = t /\ depth[LockOf[s]] \in Nat \ {0}
  <2>1. owner[LockOf[s]] \in Threads \cup {NoThread} /\ depth[LockOf[s]] \in Nat
    BY <1>1 DEF TypeOK
  <2>2. QED  BY <1>1, <2>1, HoldsIsNat DEF LocksAccounted
<1>3. depth[LockOf[s]] - 1 \in Nat
  BY <1>2
<1>4. QED  BY <1>3 DEF Unlock, TypeOK

LEMMA SameAccounts ==
  ASSUME LocksAccounted, UNCHANGED locks,
         \A u \in Threads, k \in Locks : Holds(u, k)' = Holds(u, k)
  PROVE  LocksAccounted'
  BY DEF LocksAccounted, locks
-----------------------------------------------------------------------------
LEMMA InitLockInv == Init => LockInv
<1> SUFFICES ASSUME Init PROVE LockInv
  OBVIOUS
<1>1. TypeOK
  BY FlushAssumption DEF Init, TypeOK, Labels
<1>2. Places
  BY DEF Init, Places, InChain
<1>3. LocksAccounted
  BY FlushAssumption DEF Init, LocksAccounted, Holds
<1>4. QED  BY <1>1, <1>2, <1>3 DEF LockInv

LEMMA UserLockKeeps ==
  ASSUME LockInv, NEW t \in Threads, NEW s \in Streams, UserLock(t, s)
  PROVE  LockInv'
<1> USE DEF LockInv
<1>1. TypeOK'
  BY LocksOfStreams DEF UserLock, Lock, TypeOK, graph, streams
<1>2. Places'
  BY DEF UserLock, Places
<1>3. OneMore(t, s)
  BY FlushAssumption DEF UserLock, TypeOK, Holds, OneMore
<1>4. LocksAccounted'
  BY <1>3, LockAccounts DEF UserLock
<1>5. QED  BY <1>1, <1>2, <1>4

LEMMA UserUnlockKeeps ==
  ASSUME LockInv, NEW t \in Threads, UserUnlock(t)
  PROVE  LockInv'
<1> USE DEF LockInv
<1>1. held[t] \in Streams
  BY DEF UserUnlock, TypeOK
<1>2. OneLess(t, held[t])
  BY <1>1, FlushAssumption DEF UserUnlock, TypeOK, Holds, OneLess
<1>3. LocksAccounted'
  BY <1>1, <1>2, UnlockAccounts DEF UserUnlock
<1>4. TypeOK'
  BY <1>1, <1>2, UnlockTypes DEF UserUnlock, TypeOK, graph, streams
<1>5. Places'
  BY DEF UserUnlock, Places
<1>6. QED  BY <1>3, <1>4, <1>5

LEMMA TieKeeps ==
  ASSUME LockInv, NEW t \in Threads, NEW s \in Streams, NEW x \in Targets, Tie(t, s, x)
  PROVE  LockInv'
<1> USE DEF LockInv, Tie, Disturb, locks, streams
<1>1. TypeOK'  BY DEF TypeOK
<1>2. Places'  BY DEF Places
<1>3. \A u \in Threads, k \in Locks : Holds(u, k)' = Holds(u, k)
  BY DEF Holds
<1>4. QED  BY <1>1, <1>2, <1>3, SameAccounts

LEMMA BeginKeeps ==
  ASSUME LockInv, NEW t \in Threads, NEW s \in Streams, Begin(t, s)
  PROVE  LockInv'
<1> USE DEF LockInv
<1>1. TypeOK'
  <2>1. pc' \in [Threads -> Labels] /\ on' \in [Threads -> Streams \cup {NoStream}]
    BY DEF Begin, Goto, TypeOK, Labels
  <2>2. UNCHANGED <<tied, owner, depth, pending, failed, chain, held, calm>>
    BY DEF Begin, graph, locks, streams
  <2>3. QED  BY <2>1, <2>2 DEF TypeOK
<1>2. Places'
  BY DEF Begin, Goto, Places, TypeOK, InChain
<1>3. \A u \in Threads, k \in Locks : Holds(u, k)' = Holds(u, k)
  BY DEF Begin, Goto, Holds, TypeOK
<1>4. QED  BY <1>1, <1>2, <1>3, SameAccounts DEF Begin

LEMMA AcquireKeeps ==
  ASSUME LockInv, NEW t \in Threads, Acquire(t)
  PROVE  LockInv'
<1> USE DEF LockInv
<1>1. on[t] \in Streams
  BY DEF Acquire, Places
<1>2. TypeOK'
  BY <1>1, LocksOfStreams DEF Acquire, Lock, Goto, TypeOK, Labels, graph, streams
<1>3. Places'
  BY <1>1 DEF Acquire, Goto, Places, TypeOK, InChain
<1>4. OneMore(t, on[t])
  BY <1>1, FlushAssumption DEF Acquire, Goto, TypeOK, Holds, OneMore
<1>5. LocksAccounted'
  BY <1>1, <1>4, LockAccounts DEF Acquire
<1>6. QED  BY <1>2, <1>3, <1>5

LEMMA SentryKeeps ==
  ASSUME LockInv, NEW t \in Threads, Sentry(t)
  PROVE  LockInv'
<1> USE DEF LockInv
<1>1. on[t] \in Streams /\ tied[on[t]] \in Targets
  BY DEF Sentry, Places, TypeOK
<1>2. on[t] \notin failed /\ tied[on[t]] # NoStream => <<tied[on[t]]>> \in Seq(Outs) \ {<<>>}
  BY <1>1 DEF Targets
<1>3. TypeOK'
  BY <1>1, <1>2 DEF Sentry, Goto, TypeOK, Labels, graph, locks, streams
<1>4. Places'
  BY <1>1, <1>2 DEF Sentry, Goto, Places, TypeOK, InChain
<1>5. \A u \in Threads, k \in Locks : Holds(u, k)' = Holds(u, k)
  BY <1>1 DEF Sentry, Goto, Holds, TypeOK
<1>6. QED  BY <1>3, <1>4, <1>5, SameAccounts DEF Sentry

LEMMA WalkKeeps ==
  ASSUME LockInv, NEW t \in Threads, Walk(t)
  PROVE  LockInv'
<1> USE DEF LockInv
<1>1. chain[t] \in Seq(Outs) /\ chain[t] # <<>> /\ on[t] \in Streams
  BY DEF Walk, Places, TypeOK, InChain
<1>2. Last(chain[t]) \in Streams
  BY <1>1, LastOfChain DEF Streams
<1> DEFINE x == tied[Last(chain[t])]
<1>3. x # NoStream => Append(chain[t], x) \in Seq(Outs) /\ Append(chain[t], x) # <<>>
  <2>1. x # NoStream => x \in Outs
    BY <1>2 DEF TypeOK, Targets
  <2>2. QED  BY <1>1, <2>1, AppendProperties
<1> HIDE DEF x
<1>4. TypeOK'
  BY <1>1, <1>3 DEF Walk, Goto, TypeOK, Labels, graph, locks, streams, x
<1>5. Places'
  BY <1>1, <1>3 DEF Walk, Goto, Places, TypeOK, InChain, x
<1>6. \A u \in Threads, k \in Locks : Holds(u, k)' = Holds(u, k)
  BY <1>1 DEF Walk, Goto, Holds, TypeOK
<1>7. QED  BY <1>4, <1>5, <1>6, SameAccounts DEF Walk

(* Inside try_flush(), which returns to the activation before or to the    *)
(* sentry.                                                                 *)
LEMMA Inside ==
  ASSUME TypeOK, Places, NEW t \in Threads, pc[t] \in InChain
  PROVE  /\ on[t] \in Streams /\ chain[t] \in Seq(Outs) /\ chain[t] # <<>>
         /\ Last(chain[t]) \in Outs /\ Last(chain[t]) \in Streams
  BY LastOfChain DEF TypeOK, Places, InChain, Streams

LEMMA Returned ==
  ASSUME TypeOK, Places, NEW t \in Threads, pc[t] \in InChain, Return(t)
  PROVE  /\ chain' \in [Threads -> Seq(Outs)] /\ chain'[t] = Front(chain[t])
         /\ pc' \in [Threads -> Labels]
         /\ IF chain'[t] = <<>> THEN pc'[t] = "body" ELSE pc'[t] = "try"
         /\ \A u \in Threads : u # t => chain'[u] = chain[u] /\ pc'[u] = pc[u]
<1>1. chain[t] \in Seq(Outs) /\ chain[t] # <<>>
  BY Inside
<1>2. Front(chain[t]) \in Seq(Outs) /\ (Front(chain[t]) = <<>> <=> Len(chain[t]) = 1)
  BY <1>1, LastOfChain
<1>3. /\ chain' \in [Threads -> Seq(Outs)] /\ chain'[t] = Front(chain[t])
      /\ \A u \in Threads : u # t => chain'[u] = chain[u]
  BY <1>2 DEF Return, TypeOK
<1>4. /\ pc' \in [Threads -> Labels]
      /\ pc'[t] = (IF Len(chain[t]) = 1 THEN "body" ELSE "try")
      /\ \A u \in Threads : u # t => pc'[u] = pc[u]
  BY DEF Return, Goto, TypeOK, Labels
<1>5. QED  BY <1>2, <1>3, <1>4

LEMMA TryTakesKeeps ==
  ASSUME LockInv, NEW t \in Threads, TryTakes(t)
  PROVE  LockInv'
<1> USE DEF LockInv
<1> DEFINE x == Last(chain[t])
<1>1. x \in Streams /\ on[t] \in Streams
  BY Inside DEF TryTakes, InChain
<1>2. TypeOK'
  BY <1>1, LocksOfStreams DEF TryTakes, Lock, Goto, TypeOK, Labels, graph, streams
<1>3. Places'
  BY DEF TryTakes, Goto, Places, TypeOK, InChain
<1>4. OneMore(t, x)
  BY <1>1, FlushAssumption DEF TryTakes, Goto, TypeOK, Holds, OneMore
<1>5. LocksAccounted'
  BY <1>1, <1>4, LockAccounts DEF TryTakes
<1>6. QED  BY <1>2, <1>3, <1>5

LEMMA TryMissesKeeps ==
  ASSUME LockInv, NEW t \in Threads, TryMisses(t)
  PROVE  LockInv'
<1> USE DEF LockInv
<1>1. UNCHANGED <<tied, owner, depth, pending, failed, pc, on, chain, held, calm>>
  BY DEF TryMisses, graph, locks, streams
<1>2. TypeOK' /\ Places'
  BY <1>1 DEF TypeOK, Places
<1>3. \A u \in Threads, k \in Locks : Holds(u, k)' = Holds(u, k)
  BY <1>1 DEF Holds
<1>4. QED  BY <1>1, <1>2, <1>3, SameAccounts DEF locks

LEMMA TryGivesUpKeeps ==
  ASSUME LockInv, NEW t \in Threads, TryGivesUp(t)
  PROVE  LockInv'
<1> USE DEF LockInv
<1>1. pc[t] = "try" /\ Return(t)
  BY DEF TryGivesUp
<1>2. on[t] \in Streams
  BY <1>1, Inside DEF InChain
<1>3. TypeOK'
  BY <1>1, Returned DEF TryGivesUp, Disturb, TypeOK, InChain, graph, locks, streams
<1>4. Places'
  BY <1>1, <1>2, Returned DEF TryGivesUp, Places, InChain
<1>5. \A u \in Threads, k \in Locks : Holds(u, k)' = Holds(u, k)
  BY <1>1, Returned DEF TryGivesUp, Holds, InChain
<1>6. QED  BY <1>3, <1>4, <1>5, SameAccounts DEF TryGivesUp

LEMMA FlushKeeps ==
  ASSUME LockInv, NEW t \in Threads, Flush(t)
  PROVE  LockInv'
<1> USE DEF LockInv
<1> DEFINE x == Last(chain[t])
<1>1. pc[t] = "flush" /\ Return(t) /\ Unlock(x)
  BY DEF Flush
<1>2. on[t] \in Streams /\ x \in Streams
  BY <1>1, Inside DEF InChain
<1>3. OneLess(t, x)
  BY <1>1, Returned DEF Flush, Holds, OneLess, InChain
<1>4. LocksAccounted'
  BY <1>1, <1>2, <1>3, UnlockAccounts
<1>5. TypeOK'
  <2>1. owner' \in [Locks -> Threads \cup {NoThread}] /\ depth' \in [Locks -> Nat]
    BY <1>1, <1>2, <1>3, UnlockTypes
  <2>2. pc' \in [Threads -> Labels] /\ chain' \in [Threads -> Seq(Outs)]
    BY <1>1, Returned DEF InChain
  <2>3. pending' \subseteq Streams /\ failed' \subseteq Streams
    BY <1>2 DEF Flush, TypeOK, streams
  <2>4. UNCHANGED <<tied, on, held, calm>>
    BY DEF Flush, graph
  <2>5. QED  BY <2>1, <2>2, <2>3, <2>4 DEF TypeOK
<1>6. Places'
  BY <1>1, <1>2, Returned DEF Flush, Places, InChain
<1>7. QED  BY <1>4, <1>5, <1>6

LEMMA BodyKeeps ==
  ASSUME LockInv, NEW t \in Threads, Body(t)
  PROVE  LockInv'
<1> USE DEF LockInv
<1> DEFINE s == on[t]
<1>1. s \in Streams /\ Unlock(s)
  BY DEF Body, Places
<1>2. OneLess(t, s)
  BY <1>1, FlushAssumption DEF Body, Goto, Holds, OneLess, TypeOK
<1>3. LocksAccounted'
  BY <1>1, <1>2, UnlockAccounts
<1>4. TypeOK'
  <2>1. owner' \in [Locks -> Threads \cup {NoThread}] /\ depth' \in [Locks -> Nat]
    BY <1>1, <1>2, UnlockTypes
  <2>2. pc' \in [Threads -> Labels] /\ on' \in [Threads -> Streams \cup {NoStream}]
    BY DEF Body, Goto, TypeOK, Labels
  <2>3. pending' \subseteq Streams /\ failed' \subseteq Streams
    BY <1>1 DEF Body, TypeOK, streams
  <2>4. calm' \in [Threads -> BOOLEAN]
    BY DEF Body, Disturb, TypeOK
  <2>5. UNCHANGED <<tied, chain, held>>
    BY DEF Body, graph
  <2>6. QED  BY <2>1, <2>2, <2>3, <2>4, <2>5 DEF TypeOK
<1>5. Places'
  BY DEF Body, Goto, Places, TypeOK, InChain
<1>6. QED  BY <1>3, <1>4, <1>5

LEMMA NextLockInv == LockInv /\ [Next]_vars => LockInv'
<1> SUFFICES ASSUME LockInv, [Next]_vars PROVE LockInv'
  OBVIOUS
<1>1. ASSUME NEW t \in Threads, Choice(t) PROVE LockInv'
  BY <1>1, UserLockKeeps, BeginKeeps, TieKeeps DEF Choice
<1>2. ASSUME NEW t \in Threads, Step(t) PROVE LockInv'
  BY <1>2, UserUnlockKeeps, AcquireKeeps, SentryKeeps, WalkKeeps, TryTakesKeeps,
     TryMissesKeeps, TryGivesUpKeeps, FlushKeeps, BodyKeeps
  DEF Step
<1>3. CASE UNCHANGED vars
  <2>1. TypeOK' /\ Places'
    BY <1>3 DEF vars, LockInv, TypeOK, Places
  <2>2. \A u \in Threads, k \in Locks : Holds(u, k)' = Holds(u, k)
    BY <1>3 DEF vars, Holds
  <2>3. QED  BY <1>3, <2>1, <2>2, SameAccounts DEF vars, locks, LockInv
<1>4. QED  BY <1>1, <1>2, <1>3 DEF Next

LEMMA LockInvKept == Spec => []LockInv
  BY InitLockInv, NextLockInv, PTL DEF Spec

(* Every hold of the io_mutex() of a stream, by its user, by an operation  *)
(* or by a tie flush, is given back exactly once, whatever fails and       *)
(* whatever shares a lock; and no two threads ever have a hold on one.     *)
THEOREM LocksStayAccounted == Spec => []LocksAccounted
<1>1. LockInv => LocksAccounted
  BY DEF LockInv
<1>2. QED  BY <1>1, LockInvKept, PTL
-----------------------------------------------------------------------------
(* Every stream down the chain from s has been flushed, or has failed. *)
Settled(s) == Below(s) \cap pending \subseteq failed

Follows(t) ==
    /\ tied[on[t]] = chain[t][1]
    /\ \A i \in 1..(Len(chain[t]) - 1) : tied[chain[t][i]] = chain[t][i + 1]

(* What a tie flush that nothing disturbed has behind it. *)
Flushing(t) ==
    calm[t] =>
        /\ pc[t] \in InChain => Follows(t)
        /\ pc[t] \in {"try", "flush"} => Settled(Last(chain[t]))
        /\ pc[t] = "body" /\ on[t] \notin failed => Settled(on[t])

FlushInv == LockInv /\ \A t \in Threads : Flushing(t)

LEMMA NothingBelow ==
  ASSUME TypeOK, NEW s \in Streams, tied[s] = NoStream
  PROVE  Below(s) = {}
<1>1. ASSUME NEW x \in Below(s) PROVE FALSE
  <2>1. {} \in SUBSET Outs /\ ClosedUnderTies({})
    BY DEF ClosedUnderTies
  <2>2. x \in {}
    BY <1>1, <2>1 DEF Below
  <2>3. QED  BY <2>2
<1>2. QED  BY <1>1

LEMMA BelowIsNext ==
  ASSUME TypeOK, NEW s \in Streams, NEW x \in Outs, tied[s] = x
  PROVE  Below(s) \subseteq {x} \cup Below(x)
<1> DEFINE C == {x} \cup Below(x)
<1>1. C \in SUBSET Outs
  BY DEF Below
<1>2. ASSUME NEW y \in C, tied[y] # NoStream PROVE tied[y] \in Below(x)
  <2>1. tied[y] \in Outs
    BY <1>1, <1>2 DEF TypeOK, Targets, Streams
  <2>2. ASSUME NEW S \in SUBSET Outs, ClosedUnderTies(S), tied[x] \in S \cup {NoStream}
        PROVE  tied[y] \in S
    <3>1. CASE y = x
      BY <1>2, <2>2, <3>1
    <3>2. CASE y \in Below(x)
      BY <1>2, <2>2, <3>2 DEF Below, ClosedUnderTies
    <3>3. QED  BY <3>1, <3>2
  <2>3. QED  BY <2>1, <2>2 DEF Below
<1>3. ClosedUnderTies(C)
  BY <1>2 DEF ClosedUnderTies
<1>4. QED  BY <1>1, <1>3 DEF Below

(* What others do meanwhile leaves a flush what it has behind it, unless   *)
(* it is no longer calm.                                                   *)
LEMMA StaysSettled ==
  ASSUME NEW t \in Threads, Flushing(t),
         UNCHANGED tied, pc'[t] = pc[t], on'[t] = on[t], chain'[t] = chain[t],
         pending' \subseteq pending, failed \subseteq failed', calm'[t] => calm[t]
  PROVE  Flushing(t)'
<1>1. \A s : Below(s)' = Below(s)
  BY DEF Below, ClosedUnderTies
<1>2. \A s : Settled(s) => Settled(s)'
  BY <1>1 DEF Settled
<1>3. Follows(t)' <=> Follows(t)
  BY DEF Follows
<1>4. QED  BY <1>2, <1>3 DEF Flushing

LEMMA InitFlushInv == Init => FlushInv
  BY InitLockInv DEF FlushInv, Flushing, Init

LEMMA SentryFlushes ==
  ASSUME LockInv, NEW t \in Threads, Sentry(t)
  PROVE  Flushing(t)'
<1>1. on[t] \in Streams /\ tied[on[t]] \in Targets /\ UNCHANGED <<tied, on, pending, failed>>
  BY DEF Sentry, Places, LockInv, TypeOK, graph, streams
<1>2. CASE on[t] \in failed \/ tied[on[t]] = NoStream
  <2>1. pc'[t] = "body"
    BY <1>2 DEF Sentry, Goto, LockInv, TypeOK
  <2>2. on[t] \notin failed => Below(on[t])' = {}
    <3>1. TypeOK'
      BY SentryKeeps DEF LockInv
    <3>2. on[t] \notin failed => Below(on[t]) = {}
      BY <1>1, <1>2, NothingBelow DEF LockInv
    <3>3. QED  BY <1>1, <3>2 DEF Below, ClosedUnderTies
  <2>3. QED  BY <1>1, <2>1, <2>2 DEF Flushing, Settled, InChain
<1>3. CASE on[t] \notin failed /\ tied[on[t]] # NoStream
  <2>1. pc'[t] = "walk" /\ chain'[t] = <<tied[on[t]]>>
    BY <1>3 DEF Sentry, Goto, LockInv, TypeOK
  <2>2. chain'[t][1] = tied[on[t]] /\ Len(chain'[t]) = 1
    BY <2>1
  <2>3. QED  BY <1>1, <2>1, <2>2 DEF Flushing, Follows
<1>4. QED  BY <1>2, <1>3

LEMMA WalkFlushes ==
  ASSUME LockInv, NEW t \in Threads, Flushing(t), Walk(t)
  PROVE  Flushing(t)'
<1> SUFFICES ASSUME calm'[t] PROVE Flushing(t)'
  BY DEF Flushing
<1>1. pc[t] = "walk" /\ UNCHANGED <<tied, on, pending, failed, calm>>
  BY DEF Walk, graph, streams
<1>2. Follows(t)
  BY <1>1 DEF Flushing, InChain
<1> DEFINE q == chain[t]
           x == tied[Last(q)]
<1>3. q \in Seq(Outs) /\ q # <<>> /\ Last(q) \in Streams /\ x \in Targets
  BY <1>1, Inside DEF LockInv, InChain, TypeOK
<1>4. CASE x # NoStream
  <2>1. pc'[t] = "walk" /\ chain'[t] = Append(q, x)
    BY <1>1, <1>4 DEF Walk, LockInv, TypeOK
  <2>2. x \in Outs
    BY <1>3, <1>4 DEF Targets
  <2>3. /\ Len(Append(q, x)) = Len(q) + 1 /\ Append(q, x)[Len(q) + 1] = x
        /\ \A i \in 1..Len(q) : Append(q, x)[i] = q[i]
        /\ Len(q) \in Nat \ {0} /\ Last(q) = q[Len(q)]
    BY <1>3, <2>2, AppendProperties, LastOfChain
  <2>4. Follows(t)'
    <3> HIDE DEF q
    <3>1. chain'[t][1] = q[1]
      BY <2>1, <2>3
    <3>2. ASSUME NEW i \in 1..Len(q) PROVE tied[chain'[t][i]] = chain'[t][i + 1]
      <4>1. CASE i = Len(q)
        BY <2>1, <2>3, <4>1
      <4>2. CASE i # Len(q)
        <5>1. i \in 1..(Len(q) - 1) /\ i + 1 \in 1..Len(q)
          BY <2>3, <4>2
        <5>2. tied[q[i]] = q[i + 1]
          BY <1>2, <5>1 DEF Follows, q
        <5>3. QED  BY <2>1, <2>3, <5>1, <5>2
      <4>3. QED  BY <4>1, <4>2
    <3>3. Len(chain'[t]) - 1 = Len(q)
      BY <2>1, <2>3
    <3>4. QED  BY <1>1, <1>2, <3>1, <3>2, <3>3 DEF Follows, q
  <2>5. QED  BY <2>1, <2>4 DEF Flushing
<1>5. CASE x = NoStream
  <2>1. pc'[t] = "try" /\ chain'[t] = q
    BY <1>1, <1>5 DEF Walk, Goto, LockInv, TypeOK
  <2>2. Below(Last(q)) = {}
    BY <1>3, <1>5, NothingBelow DEF LockInv
  <2>3. Settled(Last(chain[t]))'
    BY <1>1, <2>1, <2>2 DEF Settled, Below, ClosedUnderTies
  <2>4. Follows(t)'
    BY <1>1, <1>2, <2>1 DEF Follows
  <2>5. QED  BY <2>1, <2>3, <2>4 DEF Flushing
<1>6. QED  BY <1>4, <1>5

(* A flush that returns has settled what the one before it waits for. *)
LEMMA FlushFlushes ==
  ASSUME LockInv, NEW t \in Threads, Flushing(t), Flush(t)
  PROVE  Flushing(t)'
<1> SUFFICES ASSUME calm'[t] PROVE Flushing(t)'
  BY DEF Flushing
<1> DEFINE q == chain[t]
           x == Last(q)
<1>1. pc[t] = "flush" /\ Return(t) /\ UNCHANGED <<tied, on, calm>>
  BY DEF Flush, graph
<1>2. Follows(t) /\ Settled(x)
  BY <1>1 DEF Flushing, InChain
<1>3. pending' \subseteq pending /\ failed \subseteq failed' /\ (x \in pending' => x \in failed')
  BY DEF Flush, streams
<1>4. /\ on[t] \in Streams /\ q \in Seq(Outs) /\ q # <<>> /\ x \in Outs
      /\ Len(q) \in Nat \ {0} /\ x = q[Len(q)]
  BY <1>1, Inside, LastOfChain DEF LockInv, InChain
<1>5. \A s : Below(s)' = Below(s)
  BY <1>1 DEF Below, ClosedUnderTies
<1>6. ASSUME NEW s \in Streams, tied[s] = x PROVE Settled(s)'
  <2>1. Below(s) \subseteq {x} \cup Below(x)
    BY <1>4, <1>6, BelowIsNext DEF LockInv
  <2>2. QED  BY <1>2, <1>3, <1>5, <2>1 DEF Settled
<1>7. CASE Len(q) = 1
  <2>1. chain'[t] = <<>> /\ pc'[t] = "body"
    BY <1>1, <1>4, <1>7, Returned, LastOfChain DEF LockInv, InChain
  <2>2. Settled(on[t])'
    BY <1>1, <1>2, <1>4, <1>6, <1>7 DEF Follows
  <2>3. QED  BY <2>1, <2>2 DEF Flushing, InChain
<1>8. CASE Len(q) # 1
  <2>1. chain'[t] = Front(q) /\ Front(q) # <<>> /\ pc'[t] = "try" /\ Front(q) \in Seq(Outs)
    BY <1>1, <1>4, <1>8, Returned, LastOfChain DEF LockInv, InChain
  <2>2. /\ Len(Front(q)) = Len(q) - 1 /\ \A i \in 1..(Len(q) - 1) : Front(q)[i] = q[i]
        /\ Last(Front(q)) = Front(q)[Len(q) - 1] /\ Last(Front(q)) \in Streams
    BY <1>4, <2>1, LastOfChain DEF Streams
  <2>3. Len(q) - 1 \in 1..(Len(q) - 1)
    <3>1. \A n \in Nat \ {0} : n # 1 => n - 1 \in 1..(n - 1)
      OBVIOUS
    <3>2. QED  BY <1>4, <1>8, <3>1
  <2>4. tied[q[Len(q) - 1]] = q[Len(q)]
    BY <1>2, <1>4, <2>3 DEF Follows
  <2>5. Settled(Last(chain[t]))'
    BY <1>4, <1>6, <2>1, <2>2, <2>3, <2>4
  <2>6. Follows(t)'
    <3> HIDE DEF q
    <3>1. chain'[t][1] = q[1]
      BY <2>1, <2>2, <2>3
    <3>2. ASSUME NEW i \in 1..(Len(q) - 2) PROVE tied[chain'[t][i]] = chain'[t][i + 1]
      <4>1. i \in 1..(Len(q) - 1) /\ i + 1 \in 1..(Len(q) - 1)
        BY <1>4
      <4>2. chain'[t][i] = q[i] /\ chain'[t][i + 1] = q[i + 1]
        BY <2>1, <2>2, <4>1
      <4>3. tied[q[i]] = q[i + 1]
        BY <1>2, <4>1 DEF Follows, q
      <4>4. QED  BY <4>2, <4>3
    <3>3. Len(chain'[t]) - 1 = Len(q) - 2
      BY <1>4, <2>1, <2>2
    <3>4. QED  BY <1>1, <1>2, <3>1, <3>2, <3>3 DEF Follows, q
  <2>7. QED  BY <2>1, <2>5, <2>6 DEF Flushing
<1>9. QED  BY <1>7, <1>8

(* A step that moves none but t, and spoils nobody's flush. *)
MovesOnly(t) ==
    /\ tied' = tied /\ pending' \subseteq pending /\ failed \subseteq failed'
    /\ \A u \in Threads :
          u # t => /\ pc'[u] = pc[u] /\ on'[u] = on[u] /\ chain'[u] = chain[u]
                   /\ calm'[u] => calm[u]

LEMMA NextFlushInv == FlushInv /\ [Next]_vars => FlushInv'
<1> SUFFICES ASSUME FlushInv, [Next]_vars PROVE \A u \in Threads : Flushing(u)'
  BY NextLockInv DEF FlushInv
<1>0. LockInv /\ TypeOK /\ \A u \in Threads : Flushing(u)
  BY DEF FlushInv, LockInv
<1>1. ASSUME NEW t \in Threads, MovesOnly(t), Flushing(t)'
      PROVE  \A u \in Threads : Flushing(u)'
  BY <1>0, <1>1, StaysSettled DEF MovesOnly
<1>2. ASSUME \A u \in Threads : calm'[u] = FALSE
      PROVE  \A u \in Threads : Flushing(u)'
  BY <1>2 DEF Flushing
<1>3. ASSUME NEW t \in Threads, Choice(t) PROVE \A u \in Threads : Flushing(u)'
  <2>1. ASSUME NEW s \in Streams, UserLock(t, s) PROVE \A u \in Threads : Flushing(u)'
    BY <1>0, <2>1, StaysSettled DEF UserLock, graph, streams
  <2>2. ASSUME NEW s \in Streams, Begin(t, s) PROVE \A u \in Threads : Flushing(u)'
    <3>1. MovesOnly(t) /\ pc'[t] = "acquire"
      BY <1>0, <2>2 DEF Begin, Goto, MovesOnly, TypeOK, graph, streams
    <3>2. Flushing(t)'
      BY <3>1 DEF Flushing, InChain
    <3>3. QED  BY <1>1, <3>1, <3>2
  <2>3. ASSUME NEW s \in Streams, NEW x \in Targets, Tie(t, s, x)
        PROVE  \A u \in Threads : Flushing(u)'
    BY <1>2, <2>3 DEF Tie, Disturb
  <2>4. QED  BY <1>3, <2>1, <2>2, <2>3 DEF Choice
<1>4. ASSUME NEW t \in Threads, Step(t) PROVE \A u \in Threads : Flushing(u)'
  <2>1. CASE UserUnlock(t)
    BY <1>0, <2>1, StaysSettled DEF UserUnlock, graph, streams
  <2>2. CASE Acquire(t)
    <3>1. MovesOnly(t) /\ pc'[t] = "sentry"
      BY <1>0, <2>2 DEF Acquire, Goto, MovesOnly, TypeOK, graph, streams
    <3>2. Flushing(t)'
      BY <3>1 DEF Flushing, InChain
    <3>3. QED  BY <1>1, <3>1, <3>2
  <2>3. CASE Sentry(t)
    <3>1. MovesOnly(t)
      BY <1>0, <2>3 DEF Sentry, Goto, MovesOnly, TypeOK, graph, streams
    <3>2. QED  BY <1>0, <1>1, <2>3, <3>1, SentryFlushes
  <2>4. CASE Walk(t)
    <3>1. MovesOnly(t)
      BY <1>0, <2>4 DEF Walk, Goto, MovesOnly, TypeOK, graph, streams
    <3>2. QED  BY <1>0, <1>1, <2>4, <3>1, WalkFlushes
  <2>5. CASE TryTakes(t)
    <3>1. MovesOnly(t) /\ pc[t] = "try" /\ pc'[t] = "flush"
      BY <1>0, <2>5 DEF TryTakes, Goto, MovesOnly, TypeOK, graph, streams
    <3>2. UNCHANGED <<tied, on, chain, pending, failed, calm>>
      BY <2>5 DEF TryTakes, graph, streams
    <3>3. Flushing(t)'
      BY <1>0, <3>1, <3>2 DEF Flushing, Follows, Settled, Below, ClosedUnderTies, InChain
    <3>4. QED  BY <1>1, <3>1, <3>3
  <2>6. CASE TryMisses(t)
    BY <1>0, <2>6, StaysSettled DEF TryMisses, graph, streams
  <2>7. CASE TryGivesUp(t)
    <3>1. calm'[t] = FALSE /\ \A u \in Threads : u # t => calm'[u] = calm[u]
      BY <1>0, <2>7 DEF TryGivesUp, Disturb, TypeOK
    <3>2. MovesOnly(t)
      BY <1>0, <2>7, <3>1, Returned
      DEF TryGivesUp, MovesOnly, LockInv, InChain, graph, streams
    <3>3. Flushing(t)'
      BY <3>1 DEF Flushing
    <3>4. QED  BY <1>1, <3>2, <3>3
  <2>8. CASE Flush(t)
    <3>1. MovesOnly(t)
      BY <1>0, <2>8, Returned DEF Flush, MovesOnly, LockInv, InChain, graph, streams
    <3>2. QED  BY <1>0, <1>1, <2>8, <3>1, FlushFlushes
  <2>9. CASE Body(t)
    <3>1. pc'[t] = "idle" /\ \A u \in Threads : u # t => pc'[u] = pc[u] /\ on'[u] = on[u]
      BY <1>0, <2>9 DEF Body, Goto, TypeOK
    <3>2. CASE Disturb(Threads)
      BY <1>2, <3>2 DEF Disturb
    <3>3. CASE Disturb({t}) /\ UNCHANGED pending /\ failed \subseteq failed'
      <4>1. MovesOnly(t)
        BY <1>0, <2>9, <3>1, <3>3 DEF Body, Disturb, MovesOnly, graph
      <4>2. Flushing(t)'
        BY <3>1 DEF Flushing, InChain
      <4>3. QED  BY <1>1, <4>1, <4>2
    <3>4. QED  BY <2>9, <3>2, <3>3 DEF Body, streams
  <2>10. QED
    BY <1>4, <2>1, <2>2, <2>3, <2>4, <2>5, <2>6, <2>7, <2>8, <2>9 DEF Step
<1>5. CASE UNCHANGED vars
  BY <1>0, <1>5, StaysSettled DEF vars
<1>6. QED  BY <1>3, <1>4, <1>5 DEF Next

LEMMA FlushInvKept == Spec => []FlushInv
  BY InitFlushInv, NextFlushInv, PTL DEF Spec

(* "A tie is chained": an operation that goes ahead has had every stream   *)
(* down the chain flushed or found failed, however long the chain, unless  *)
(* a lock was given up on or somebody wrote or re-tied meanwhile.          *)
THEOREM WholeChainFlushed == Spec => []ChainFlushed
<1>1. FlushInv => ChainFlushed
  BY DEF FlushInv, Flushing, Settled, ChainFlushed
<1>2. QED  BY <1>1, FlushInvKept, PTL

(* What InitiatorUntouched asks of one step. *)
OthersFailNone ==
    \A t \in Threads :
       pc[t] \in {"walk", "try", "flush"} /\ on[t] \notin failed /\ on[t] \in failed' =>
          pc[t] = "flush" /\ Last(chain[t]) = on[t]

LEMMA OneHolder ==
  ASSUME TypeOK, LocksAccounted, NEW t \in Threads, NEW u \in Threads, NEW k \in Locks,
         Holds(t, k) > 0, Holds(u, k) > 0
  PROVE  u = t
<1>1. owner[k] \in Threads
  <2>1. owner[k] \in Threads \cup {NoThread}
    BY DEF TypeOK
  <2>2. QED  BY <2>1, HoldsIsNat DEF LocksAccounted
<1>2. QED  BY <1>1, HoldsIsNat DEF LocksAccounted

(* A tie flush that fails fails its target: until its body, an operation   *)
(* is failed by its own flush only when the chain leads back to it.        *)
THEOREM InitiatorStaysUntouched == Spec => InitiatorUntouched
<1>1. LockInv /\ [Next]_vars => [OthersFailNone]_vars
  <2> SUFFICES ASSUME LockInv, Next, NEW t \in Threads,
                      pc[t] \in InChain, on[t] \notin failed, on[t] \in failed'
               PROVE  pc[t] = "flush" /\ Last(chain[t]) = on[t]
    BY DEF OthersFailNone, InChain
  <2>1. on[t] \in Streams /\ LockOf[on[t]] \in Locks
    BY Inside, LocksOfStreams DEF LockInv
  <2>2. Holds(t, LockOf[on[t]]) > 0
    BY DEF Holds, InChain
  <2>3. PICK u \in Threads : Choice(u) \/ Step(u)
    BY DEF Next
  <2>4. CASE Choice(u)
    BY <2>4 DEF Choice, UserLock, Begin, Tie, streams
  <2>5. CASE Flush(u)
    <3>1. Last(chain[u]) = on[t] /\ pc[u] = "flush"
      BY <2>5 DEF Flush, streams
    <3>2. Holds(u, LockOf[on[t]]) > 0
      BY <3>1 DEF Holds
    <3>3. u = t
      BY <2>1, <2>2, <3>2, OneHolder DEF LockInv
    <3>4. QED  BY <3>1, <3>3
  <2>6. CASE Body(u)
    <3>1. on[u] = on[t] /\ pc[u] = "body"
      BY <2>6 DEF Body, streams
    <3>2. Holds(u, LockOf[on[t]]) > 0
      BY <3>1 DEF Holds
    <3>3. u = t
      BY <2>1, <2>2, <3>2, OneHolder DEF LockInv
    <3>4. QED  BY <3>1, <3>3 DEF InChain
  <2>7. CASE Step(u) /\ ~Flush(u) /\ ~Body(u)
    BY <2>7 DEF Step, UserUnlock, Acquire, Sentry, Walk, TryTakes, TryMisses, TryGivesUp, streams
  <2>8. QED  BY <2>3, <2>4, <2>5, <2>6, <2>7
<1>2. QED  BY <1>1, LockInvKept, PTL DEF Spec, InitiatorUntouched, OthersFailNone
-----------------------------------------------------------------------------
(* The standard output stream.                                             *)

OutLabels == {"idle", "sentry", "body", "end", "land", "leave",
              "move", "flip", "fail"}
OutPhases == {"running", "trying", "hooked", "flushed", "dead"}
Tagged == Threads \X Nat

OutTypes ==
    /\ buf \in Seq(Tagged) /\ calls \in Nat
    /\ outOwner \in Threads \cup {NoThread}
    /\ outPc \in [Threads -> OutLabels] /\ phase \in OutPhases

OutFlags ==
    /\ synced \in BOOLEAN /\ exited \in BOOLEAN /\ bad \in BOOLEAN
    /\ threw \in BOOLEAN /\ outFailed \in BOOLEAN /\ gaveUp \in BOOLEAN
    /\ sentry \in [Threads -> BOOLEAN] /\ late \in [Threads -> BOOLEAN]

(* Who is in a call but sync_with_stdio(false) and printf() has the mutex. *)
Owned == \A t \in Threads : outPc[t] # "idle" => outOwner = t

(* What was handed over is out of the buffer until the flag is set, or     *)
(* until stdio has been flushed.                                           *)
Emptied ==
    \A t \in Threads :
        outPc[t] = "flip" \/ (outPc[t] = "land" /\ late[t] = TRUE) => Len(buf) = 0

(* What the flags know of each other. *)
FlagsAgree ==
    /\ bad = TRUE \/ threw = TRUE => outFailed = TRUE
    /\ exited = TRUE <=> phase # "running"
    /\ \A t \in Threads :
          /\ late[t] = TRUE => exited = TRUE
          /\ synced = TRUE /\ outPc[t] \in {"body", "end"} => sentry[t] = TRUE

(* The stream may keep nothing back, as long as no write has failed. *)
NothingKept ==
    /\ outFailed = FALSE
    /\ synced = TRUE \/ (phase \in {"hooked", "flushed", "dead"} /\ gaveUp = FALSE)

(* Then only one thread's bytes wait in it, until the end of its insertion.*)
OneWaits ==
    NothingKept /\ Len(buf) > 0 =>
        \E t \in Threads :
            /\ outPc[t] = "end"
            /\ \A i \in 1..Len(buf) : buf[i][1] = t

OutInv == OutTypes /\ OutFlags /\ Owned /\ Emptied /\ FlagsAgree /\ OneWaits

LEMMA OutInit == Out!Init => OutInv
<1> SUFFICES ASSUME Out!Init PROVE OutInv
  OBVIOUS
<1>1. buf \in Seq(Tagged) /\ Len(buf) = 0 /\ calls \in Nat
  BY DEF Out!Init
<1>2. OutTypes
  BY <1>1 DEF Out!Init, OutTypes, OutLabels, OutPhases
<1>3. OutFlags
  BY DEF Out!Init, OutFlags
<1>4. Owned
  BY DEF Out!Init, Owned
<1>5. Emptied
  BY <1>1 DEF Emptied
<1>6. FlagsAgree
  BY DEF Out!Init, FlagsAgree
<1>7. OneWaits
  BY <1>1 DEF OneWaits
<1> QED BY <1>2, <1>3, <1>4, <1>5, <1>6, <1>7 DEF OutInv

(* What channel.flush() leaves in the buffer. *)
LEMMA HandsOver ==
    ASSUME buf \in Seq(Tagged), NEW fails \in BOOLEAN, Out!HandOver(fails)
    PROVE  /\ buf' \in Seq(Tagged)
           /\ fails = FALSE => Len(buf') = 0
           /\ fails = TRUE => Len(buf) > 0
<1>1. PICK k \in 0..Len(buf) :
        /\ fails = FALSE => k = Len(buf)
        /\ fails = TRUE => k < Len(buf)
        /\ buf' = SubSeq(buf, k + 1, Len(buf))
  BY DEF Out!HandOver
<1>2. k \in Nat /\ k <= Len(buf)
  BY <1>1
<1>3. SubSeq(buf, k + 1, Len(buf)) \in Seq(Tagged) /\ Len(SubSeq(buf, k + 1, Len(buf))) = Len(buf) - k
  BY <1>2, SuffixElements
<1> QED BY <1>1, <1>2, <1>3

(* What an insertion leaves in it: its own byte, behind what was there or  *)
(* alone.                                                                  *)
LEMMA Inserts ==
    ASSUME buf \in Seq(Tagged), calls \in Nat, NEW t \in Threads,
           Out!Body(t) \/ Out!BodyFails(t)
    PROVE  /\ buf' \in Seq(Tagged)
           /\ Out!Body(t) /\ Len(buf) = 0 => \A i \in 1..Len(buf') : buf'[i][1] = t
<1>1. PICK e : e = <<t, calls>>
  OBVIOUS
<1>2. e \in Tagged /\ e[1] = t
  BY <1>1 DEF Tagged
<1>3. /\ Append(buf, e) \in Seq(Tagged) /\ Len(Append(buf, e)) = Len(buf) + 1
      /\ Append(buf, e)[Len(buf) + 1] = e
  BY <1>2
<1>4. <<e>> \in Seq(Tagged) /\ Len(<<e>>) = 1 /\ <<e>>[1] = e
  BY <1>2
<1>5. CASE Out!Body(t)
  <2>1. buf' = Append(buf, e) \/ buf' = <<e>>
    BY <1>1, <1>5 DEF Out!Body
  <2>2. CASE buf' = Append(buf, e)
    <3>1. Len(buf) = 0 => Len(buf') = 1 /\ buf'[1] = e
      BY <1>3, <2>2
    <3> QED BY <1>2, <1>3, <2>2, <3>1
  <2>3. CASE buf' = <<e>>
    BY <1>2, <1>4, <2>3
  <2> QED BY <2>1, <2>2, <2>3
<1>6. CASE Out!BodyFails(t)
  <2>1. buf' = Append(buf, e) \/ buf' = buf
    BY <1>1, <1>6 DEF Out!BodyFails
  <2> QED BY <1>3, <1>5, <2>1
<1> QED BY <1>5, <1>6

(* And the exit hook. *)
LEMMA HookHandsOver ==
    ASSUME OutInv, Out!HookFlushes
    PROVE  buf' \in Seq(Tagged) /\ (Len(buf') = 0 \/ outFailed' = TRUE)
<1>1. buf \in Seq(Tagged) /\ (bad => outFailed = TRUE)
  BY DEF OutInv, OutTypes, OutFlags, FlagsAgree
<1>2. CASE Out!HandOver(TRUE) /\ Out!Fails(TRUE)
  <2>1. buf' \in Seq(Tagged)
    BY <1>1, <1>2, HandsOver
  <2>2. outFailed' = TRUE
    BY <1>2 DEF Out!Fails
  <2> QED BY <2>1, <2>2
<1>3. CASE bad /\ buf' = buf /\ outFailed' = outFailed
  BY <1>1, <1>3
<1>4. CASE buf' = <<>>
  BY <1>4
<1> QED BY <1>2, <1>3, <1>4 DEF Out!HookFlushes, Out!bytes

LEMMA OutTypesKept == OutInv /\ Out!Next => OutTypes'
<1> SUFFICES ASSUME OutInv, Out!Next PROVE OutTypes'
  OBVIOUS
<1> USE DEF OutInv, OutTypes, Out!Goto, Out!Returns, Out!Calls, Out!Continues,
            Out!bytes
<1>1. ASSUME NEW t \in Threads, Out!Insert(t) PROVE OutTypes'
  BY <1>1 DEF Out!Insert, OutLabels
<1>2. ASSUME NEW t \in Threads, Out!Sentry(t) PROVE OutTypes'
  BY <1>2 DEF Out!Sentry, OutLabels
<1>3. ASSUME NEW t \in Threads, Out!Body(t) PROVE OutTypes'
  BY <1>3, Inserts DEF Out!Body, OutLabels
<1>4. ASSUME NEW t \in Threads, Out!BodyFails(t) PROVE OutTypes'
  BY <1>4, Inserts DEF Out!BodyFails, OutLabels
<1>5. ASSUME NEW t \in Threads, Out!EndFlush(t) PROVE OutTypes'
  BY <1>5, HandsOver DEF Out!EndFlush, OutLabels
<1>6. ASSUME NEW t \in Threads, Out!EndLand(t) PROVE OutTypes'
  BY <1>6 DEF Out!EndLand, OutLabels
<1>7. ASSUME NEW t \in Threads, Out!Leave(t) PROVE OutTypes'
  BY <1>7 DEF Out!Leave, OutLabels
<1>8. ASSUME NEW t \in Threads, Out!SyncOn(t) PROVE OutTypes'
  BY <1>8 DEF Out!SyncOn, OutLabels
<1>9. ASSUME NEW t \in Threads, Out!SyncMoves(t) PROVE OutTypes'
  BY <1>9, HandsOver DEF Out!SyncMoves, OutLabels
<1>10. ASSUME NEW t \in Threads, Out!SyncFlips(t) PROVE OutTypes'
  BY <1>10 DEF Out!SyncFlips, OutLabels
<1>11. ASSUME NEW t \in Threads, Out!SyncOff(t) PROVE OutTypes'
  BY <1>11 DEF Out!SyncOff
<1>12. ASSUME NEW t \in Threads, Out!Printf(t) PROVE OutTypes'
  BY <1>12 DEF Out!Printf
<1>13. ASSUME NEW t \in Threads, Out!Clear(t) PROVE OutTypes'
  BY <1>13 DEF Out!Clear
<1>14. CASE Out!HookMarks
  BY <1>14 DEF Out!HookMarks, Out!AtExit, OutPhases
<1>15. CASE Out!HookFlushes
  BY <1>15, HookHandsOver DEF Out!HookFlushes, Out!AtExit, OutPhases
<1>16. CASE Out!HookMisses
  BY <1>16 DEF Out!HookMisses, Out!AtExit, OutPhases, Out!GivesUp
<1>17. CASE Out!StdioExit
  BY <1>17 DEF Out!StdioExit, Out!AtExit, OutPhases
<1>18. CASE Out!End
  BY <1>18 DEF Out!End, Out!AtExit, OutPhases
<1> QED
  BY <1>1, <1>2, <1>3, <1>4, <1>5, <1>6, <1>7, <1>8, <1>9, <1>10, <1>11, <1>12, <1>13, <1>14, <1>15, <1>16, <1>17, <1>18
  DEF Out!Next, Out!Exit

LEMMA OutFlagsKept == OutInv /\ Out!Next => OutFlags'
<1> SUFFICES ASSUME OutInv, Out!Next PROVE OutFlags'
  OBVIOUS
<1> USE DEF OutInv, OutFlags, Out!Fails, Out!flags, Out!history
<1>1. ASSUME NEW t \in Threads, Out!Insert(t) PROVE OutFlags'
  BY <1>1 DEF Out!Insert
<1>2. ASSUME NEW t \in Threads, Out!Sentry(t) PROVE OutFlags'
  BY <1>2 DEF Out!Sentry
<1>3. ASSUME NEW t \in Threads, Out!Body(t) PROVE OutFlags'
  BY <1>3 DEF Out!Body
<1>4. ASSUME NEW t \in Threads, Out!BodyFails(t) PROVE OutFlags'
  BY <1>4 DEF Out!BodyFails
<1>5. ASSUME NEW t \in Threads, Out!EndFlush(t) PROVE OutFlags'
  BY <1>5 DEF Out!EndFlush
<1>6. ASSUME NEW t \in Threads, Out!EndLand(t) PROVE OutFlags'
  BY <1>6 DEF Out!EndLand
<1>7. ASSUME NEW t \in Threads, Out!Leave(t) PROVE OutFlags'
  BY <1>7 DEF Out!Leave
<1>8. ASSUME NEW t \in Threads, Out!SyncOn(t) PROVE OutFlags'
  BY <1>8 DEF Out!SyncOn
<1>9. ASSUME NEW t \in Threads, Out!SyncMoves(t) PROVE OutFlags'
  BY <1>9 DEF Out!SyncMoves
<1>10. ASSUME NEW t \in Threads, Out!SyncFlips(t) PROVE OutFlags'
  BY <1>10 DEF Out!SyncFlips
<1>11. ASSUME NEW t \in Threads, Out!SyncOff(t) PROVE OutFlags'
  BY <1>11 DEF Out!SyncOff
<1>12. ASSUME NEW t \in Threads, Out!Printf(t) PROVE OutFlags'
  BY <1>12 DEF Out!Printf
<1>13. ASSUME NEW t \in Threads, Out!Clear(t) PROVE OutFlags'
  BY <1>13 DEF Out!Clear
<1>14. CASE Out!HookMarks
  BY <1>14 DEF Out!HookMarks, Out!AtExit
<1>15. CASE Out!HookFlushes
  BY <1>15 DEF Out!HookFlushes, Out!AtExit
<1>16. CASE Out!HookMisses
  BY <1>16 DEF Out!HookMisses, Out!AtExit, Out!GivesUp
<1>17. CASE Out!StdioExit
  BY <1>17 DEF Out!StdioExit, Out!AtExit
<1>18. CASE Out!End
  BY <1>18 DEF Out!End, Out!AtExit
<1> QED
  BY <1>1, <1>2, <1>3, <1>4, <1>5, <1>6, <1>7, <1>8, <1>9, <1>10, <1>11, <1>12, <1>13, <1>14, <1>15, <1>16, <1>17, <1>18
  DEF Out!Next, Out!Exit

LEMMA OwnedKept == OutInv /\ Out!Next => Owned'
<1> SUFFICES ASSUME OutInv, Out!Next PROVE Owned'
  OBVIOUS
<1>0. NoThread \notin Threads
  BY MCStdOutAssumption DEF Out!StdOutAssumption
<1> USE DEF OutInv, OutTypes, Owned, Out!Goto, Out!Returns, Out!Calls, Out!Continues
<1>1. ASSUME NEW t \in Threads, Out!Insert(t) PROVE Owned'
  BY <1>1, <1>0 DEF Out!Insert
<1>2. ASSUME NEW t \in Threads, Out!Sentry(t) PROVE Owned'
  BY <1>2 DEF Out!Sentry
<1>3. ASSUME NEW t \in Threads, Out!Body(t) PROVE Owned'
  BY <1>3 DEF Out!Body
<1>4. ASSUME NEW t \in Threads, Out!BodyFails(t) PROVE Owned'
  BY <1>4 DEF Out!BodyFails
<1>5. ASSUME NEW t \in Threads, Out!EndFlush(t) PROVE Owned'
  BY <1>5 DEF Out!EndFlush
<1>6. ASSUME NEW t \in Threads, Out!EndLand(t) PROVE Owned'
  BY <1>6 DEF Out!EndLand
<1>7. ASSUME NEW t \in Threads, Out!Leave(t) PROVE Owned'
  BY <1>7 DEF Out!Leave
<1>8. ASSUME NEW t \in Threads, Out!SyncOn(t) PROVE Owned'
  BY <1>8, <1>0 DEF Out!SyncOn
<1>9. ASSUME NEW t \in Threads, Out!SyncMoves(t) PROVE Owned'
  BY <1>9 DEF Out!SyncMoves
<1>10. ASSUME NEW t \in Threads, Out!SyncFlips(t) PROVE Owned'
  BY <1>10 DEF Out!SyncFlips
<1>11. ASSUME NEW t \in Threads, Out!SyncOff(t) PROVE Owned'
  BY <1>11 DEF Out!SyncOff
<1>12. ASSUME NEW t \in Threads, Out!Printf(t) PROVE Owned'
  BY <1>12 DEF Out!Printf
<1>13. ASSUME NEW t \in Threads, Out!Clear(t) PROVE Owned'
  BY <1>13 DEF Out!Clear
<1>14. CASE Out!HookMarks
  BY <1>14 DEF Out!HookMarks, Out!AtExit
<1>15. CASE Out!HookFlushes
  BY <1>15 DEF Out!HookFlushes, Out!AtExit
<1>16. CASE Out!HookMisses
  BY <1>16 DEF Out!HookMisses, Out!AtExit
<1>17. CASE Out!StdioExit
  BY <1>17 DEF Out!StdioExit, Out!AtExit
<1>18. CASE Out!End
  BY <1>18 DEF Out!End, Out!AtExit
<1> QED
  BY <1>1, <1>2, <1>3, <1>4, <1>5, <1>6, <1>7, <1>8, <1>9, <1>10, <1>11, <1>12, <1>13, <1>14, <1>15, <1>16, <1>17, <1>18
  DEF Out!Next, Out!Exit

LEMMA EmptiedKept == OutInv /\ Out!Next => Emptied'
<1> SUFFICES ASSUME OutInv, Out!Next PROVE Emptied'
  OBVIOUS
<1>0. NoThread \notin Threads
  BY MCStdOutAssumption DEF Out!StdOutAssumption
<1> USE DEF OutInv, OutTypes, OutFlags, Owned, Emptied, FlagsAgree, Out!Goto, Out!Returns, Out!Calls,
            Out!Continues, Out!bytes, Out!history
<1>1. ASSUME NEW t \in Threads, Out!Insert(t) PROVE Emptied'
  BY <1>1 DEF Out!Insert
<1>2. ASSUME NEW t \in Threads, Out!Sentry(t) PROVE Emptied'
  BY <1>2 DEF Out!Sentry
<1>3. ASSUME NEW t \in Threads, Out!Body(t) PROVE Emptied'
  BY <1>3, Inserts DEF Out!Body
<1>4. ASSUME NEW t \in Threads, Out!BodyFails(t) PROVE Emptied'
  BY <1>4, Inserts DEF Out!BodyFails
<1>5. ASSUME NEW t \in Threads, Out!EndFlush(t) PROVE Emptied'
  BY <1>5, HandsOver DEF Out!EndFlush, Out!MustHandOver
<1>6. ASSUME NEW t \in Threads, Out!EndLand(t) PROVE Emptied'
  BY <1>6 DEF Out!EndLand
<1>7. ASSUME NEW t \in Threads, Out!Leave(t) PROVE Emptied'
  BY <1>7 DEF Out!Leave
<1>8. ASSUME NEW t \in Threads, Out!SyncOn(t) PROVE Emptied'
  BY <1>8 DEF Out!SyncOn
<1>9. ASSUME NEW t \in Threads, Out!SyncMoves(t) PROVE Emptied'
  BY <1>9, HandsOver DEF Out!SyncMoves
<1>10. ASSUME NEW t \in Threads, Out!SyncFlips(t) PROVE Emptied'
  BY <1>10 DEF Out!SyncFlips
<1>11. ASSUME NEW t \in Threads, Out!SyncOff(t) PROVE Emptied'
  BY <1>11 DEF Out!SyncOff
<1>12. ASSUME NEW t \in Threads, Out!Printf(t) PROVE Emptied'
  BY <1>12 DEF Out!Printf
<1>13. ASSUME NEW t \in Threads, Out!Clear(t) PROVE Emptied'
  BY <1>13 DEF Out!Clear
<1>14. CASE Out!HookMarks
  BY <1>14 DEF Out!HookMarks, Out!AtExit
<1>15. CASE Out!HookFlushes
  BY <1>15, <1>0, HookHandsOver DEF Out!HookFlushes, Out!AtExit
<1>16. CASE Out!HookMisses
  BY <1>16 DEF Out!HookMisses, Out!AtExit
<1>17. CASE Out!StdioExit
  BY <1>17 DEF Out!StdioExit, Out!AtExit
<1>18. CASE Out!End
  BY <1>18 DEF Out!End, Out!AtExit
<1> QED
  BY <1>1, <1>2, <1>3, <1>4, <1>5, <1>6, <1>7, <1>8, <1>9, <1>10, <1>11, <1>12, <1>13, <1>14, <1>15, <1>16, <1>17, <1>18
  DEF Out!Next, Out!Exit

LEMMA FlagsAgreeKept == OutInv /\ Out!Next => FlagsAgree'
<1> SUFFICES ASSUME OutInv, Out!Next PROVE FlagsAgree'
  OBVIOUS
<1> USE DEF OutInv, OutTypes, OutFlags, Owned, FlagsAgree, Out!Goto, Out!Returns, Out!Calls,
            Out!Continues, Out!Fails, Out!flags, Out!history, OutPhases
<1>1. ASSUME NEW t \in Threads, Out!Insert(t) PROVE FlagsAgree'
  BY <1>1 DEF Out!Insert
<1>2. ASSUME NEW t \in Threads, Out!Sentry(t) PROVE FlagsAgree'
  BY <1>2 DEF Out!Sentry
<1>3. ASSUME NEW t \in Threads, Out!Body(t) PROVE FlagsAgree'
  BY <1>3 DEF Out!Body
<1>4. ASSUME NEW t \in Threads, Out!BodyFails(t) PROVE FlagsAgree'
  BY <1>4 DEF Out!BodyFails
<1>5. ASSUME NEW t \in Threads, Out!EndFlush(t) PROVE FlagsAgree'
  BY <1>5 DEF Out!EndFlush
<1>6. ASSUME NEW t \in Threads, Out!EndLand(t) PROVE FlagsAgree'
  BY <1>6 DEF Out!EndLand
<1>7. ASSUME NEW t \in Threads, Out!Leave(t) PROVE FlagsAgree'
  BY <1>7 DEF Out!Leave
<1>8. ASSUME NEW t \in Threads, Out!SyncOn(t) PROVE FlagsAgree'
  BY <1>8 DEF Out!SyncOn
<1>9. ASSUME NEW t \in Threads, Out!SyncMoves(t) PROVE FlagsAgree'
  BY <1>9 DEF Out!SyncMoves
<1>10. ASSUME NEW t \in Threads, Out!SyncFlips(t) PROVE FlagsAgree'
  BY <1>10 DEF Out!SyncFlips
<1>11. ASSUME NEW t \in Threads, Out!SyncOff(t) PROVE FlagsAgree'
  BY <1>11 DEF Out!SyncOff
<1>12. ASSUME NEW t \in Threads, Out!Printf(t) PROVE FlagsAgree'
  BY <1>12 DEF Out!Printf
<1>13. ASSUME NEW t \in Threads, Out!Clear(t) PROVE FlagsAgree'
  BY <1>13 DEF Out!Clear
<1>14. CASE Out!HookMarks
  BY <1>14 DEF Out!HookMarks, Out!AtExit
<1>15. CASE Out!HookFlushes
  BY <1>15 DEF Out!HookFlushes, Out!AtExit
<1>16. CASE Out!HookMisses
  BY <1>16 DEF Out!HookMisses, Out!AtExit, Out!GivesUp
<1>17. CASE Out!StdioExit
  BY <1>17 DEF Out!StdioExit, Out!AtExit
<1>18. CASE Out!End
  BY <1>18 DEF Out!End, Out!AtExit
<1> QED
  BY <1>1, <1>2, <1>3, <1>4, <1>5, <1>6, <1>7, <1>8, <1>9, <1>10, <1>11, <1>12, <1>13, <1>14, <1>15, <1>16, <1>17, <1>18
  DEF Out!Next, Out!Exit

(* What leaves the buffer and whoever is at its end alone. *)
LEMMA StillWaits ==
    ASSUME OneWaits, buf' = buf, NothingKept' => NothingKept,
           \A t \in Threads : outPc[t] = "end" => outPc'[t] = "end"
    PROVE  OneWaits'
BY DEF OneWaits

(* Whoever is elsewhere in its call meets an empty buffer. *)
LEMMA NoneWaits ==
    ASSUME OutInv, NothingKept, NEW t \in Threads, outPc[t] # "idle", outPc[t] # "end"
    PROVE  Len(buf) = 0
<1> SUFFICES ASSUME Len(buf) # 0 PROVE FALSE
  OBVIOUS
<1>1. buf \in Seq(Tagged) /\ Len(buf) > 0
  BY DEF OutInv, OutTypes
<1>2. PICK u \in Threads : outPc[u] = "end"
  BY <1>1 DEF OutInv, OneWaits
<1>3. outOwner = t /\ outOwner = u
  BY <1>2 DEF OutInv, Owned
<1> QED BY <1>2, <1>3

LEMMA OneWaitsKept == OutInv /\ Out!Next => OneWaits'
<1> SUFFICES ASSUME OutInv, Out!Next PROVE OneWaits'
  OBVIOUS
<1> USE DEF Out!Goto, Out!Returns, Out!Calls, Out!Continues, Out!bytes, Out!flags, Out!history
<1>0. /\ OneWaits /\ Emptied /\ FlagsAgree /\ OutFlags
      /\ outPc \in [Threads -> OutLabels] /\ buf \in Seq(Tagged) /\ calls \in Nat
  BY DEF OutInv, OutTypes
<1>1. ASSUME NEW t \in Threads, Out!Insert(t) PROVE OneWaits'
  BY <1>0, <1>1, StillWaits DEF Out!Insert, NothingKept
<1>2. ASSUME NEW t \in Threads, Out!Sentry(t) PROVE OneWaits'
  BY <1>0, <1>2, StillWaits DEF Out!Sentry, NothingKept
<1>3. ASSUME NEW t \in Threads, Out!Body(t) PROVE OneWaits'
  <2>1. NothingKept' => NothingKept
    BY <1>3 DEF Out!Body, NothingKept
  <2>2. NothingKept => Len(buf) = 0
    BY <1>3, NoneWaits DEF Out!Body
  <2>3. Len(buf) = 0 => \A i \in 1..Len(buf') : buf'[i][1] = t
    BY <1>0, <1>3, Inserts
  <2>4. outPc'[t] = "end"
    BY <1>0, <1>3 DEF Out!Body
  <2> QED BY <2>1, <2>2, <2>3, <2>4 DEF OneWaits
<1>4. ASSUME NEW t \in Threads, Out!BodyFails(t) PROVE OneWaits'
  BY <1>4 DEF Out!BodyFails, Out!Fails, OneWaits, NothingKept
<1>5. ASSUME NEW t \in Threads, Out!EndFlush(t) PROVE OneWaits'
  <2>1. CASE Out!HandOver(FALSE)
    <3>1. Len(buf') = 0
      BY <1>0, <2>1, HandsOver
    <3> QED BY <3>1 DEF OneWaits
  <2>2. CASE Out!Fails(TRUE)
    BY <2>2 DEF Out!Fails, OneWaits, NothingKept
  <2>3. CASE bad /\ outFailed' = outFailed
    BY <1>0, <2>3 DEF OutFlags, FlagsAgree, OneWaits, NothingKept
  <2>4. CASE ~Out!MustHandOver(t)
    <3>1. sentry[t] = FALSE /\ exited = FALSE /\ outPc[t] = "end"
      BY <1>0, <1>5, <2>4 DEF Out!MustHandOver, Out!EndFlush, OutFlags
    <3>2. synced = FALSE /\ phase = "running"
      BY <1>0, <3>1 DEF FlagsAgree, OutFlags
    <3>3. synced' = synced /\ phase' = phase
      BY <1>5 DEF Out!EndFlush
    <3> QED BY <3>2, <3>3 DEF OneWaits, NothingKept
  <2> QED BY <1>5, <2>1, <2>2, <2>3, <2>4 DEF Out!EndFlush
<1>6. ASSUME NEW t \in Threads, Out!EndLand(t) PROVE OneWaits'
  <2>1. NothingKept' => NothingKept
    BY <1>0, <1>6 DEF Out!EndLand, Out!Fails, NothingKept, OutFlags
  <2> QED BY <1>0, <1>6, <2>1, StillWaits DEF Out!EndLand
<1>7. ASSUME NEW t \in Threads, Out!Leave(t) PROVE OneWaits'
  BY <1>0, <1>7, StillWaits DEF Out!Leave, NothingKept
<1>8. ASSUME NEW t \in Threads, Out!SyncOn(t) PROVE OneWaits'
  BY <1>0, <1>8, StillWaits DEF Out!SyncOn, NothingKept
<1>9. ASSUME NEW t \in Threads, Out!SyncMoves(t) PROVE OneWaits'
  <2>1. NothingKept' => NothingKept
    BY <1>9 DEF Out!SyncMoves, NothingKept
  <2>2. NothingKept => Len(buf) = 0
    BY <1>9, NoneWaits DEF Out!SyncMoves
  <2>3. PICK fails \in BOOLEAN : Out!HandOver(fails)
    BY <1>9 DEF Out!SyncMoves
  <2>4. fails = TRUE \/ Len(buf') = 0
    BY <1>0, <2>3, HandsOver
  <2>5. fails = TRUE => Len(buf) > 0
    BY <1>0, <2>3, HandsOver
  <2> QED BY <2>1, <2>2, <2>4, <2>5 DEF OneWaits
<1>10. ASSUME NEW t \in Threads, Out!SyncFlips(t) PROVE OneWaits'
  <2>1. outPc[t] = "flip" \/ outFailed' = TRUE
    BY <1>10 DEF Out!SyncFlips, Out!Fails
  <2>2. outPc[t] = "flip" => Len(buf') = 0
    BY <1>0, <1>10 DEF Out!SyncFlips, Emptied
  <2> QED BY <2>1, <2>2 DEF OneWaits, NothingKept
<1>11. ASSUME NEW t \in Threads, Out!SyncOff(t) PROVE OneWaits'
  BY <1>0, <1>11, StillWaits DEF Out!SyncOff, NothingKept
<1>12. ASSUME NEW t \in Threads, Out!Printf(t) PROVE OneWaits'
  BY <1>0, <1>12, StillWaits DEF Out!Printf, NothingKept
<1>13. ASSUME NEW t \in Threads, Out!Clear(t) PROVE OneWaits'
  BY <1>0, <1>13, StillWaits DEF Out!Clear, NothingKept
<1>14. CASE Out!HookMarks
  BY <1>0, <1>14, StillWaits DEF Out!HookMarks, Out!AtExit, NothingKept
<1>15. CASE Out!HookFlushes
  <2>1. Len(buf') = 0 \/ outFailed' = TRUE
    BY <1>15, HookHandsOver
  <2> QED BY <2>1 DEF OneWaits, NothingKept
<1>16. CASE Out!HookMisses
  BY <1>0, <1>16, StillWaits DEF Out!HookMisses, Out!AtExit, NothingKept
<1>17. CASE Out!StdioExit
  BY <1>0, <1>17, StillWaits DEF Out!StdioExit, Out!AtExit, NothingKept
<1>18. CASE Out!End
  BY <1>0, <1>18, StillWaits DEF Out!End, Out!AtExit, NothingKept
<1> QED
  BY <1>1, <1>2, <1>3, <1>4, <1>5, <1>6, <1>7, <1>8, <1>9, <1>10, <1>11, <1>12, <1>13, <1>14,
     <1>15, <1>16, <1>17, <1>18
  DEF Out!Next, Out!Exit

LEMMA OutInvKept == MCSpec => []OutInv
<1>1. MCInit => OutInv
  BY OutInit DEF MCInit
<1>2. OutInv /\ [MCNext]_<<part, vars, output>> => OutInv'
  <2> SUFFICES ASSUME OutInv, [MCNext]_<<part, vars, output>> PROVE OutInv'
    OBVIOUS
  <2>1. CASE Out!Next
    BY <2>1, OutTypesKept, OutFlagsKept, OwnedKept, EmptiedKept, FlagsAgreeKept, OneWaitsKept
    DEF OutInv
  <2>2. CASE UNCHANGED output
    BY <2>2 DEF output, OutInv, OutTypes, OutFlags, Owned, Emptied, FlagsAgree, OneWaits,
       NothingKept
  <2> QED BY <2>1, <2>2 DEF MCNext
<1> QED BY <1>1, <1>2, PTL DEF MCSpec

(* What waits in the stream while it may keep nothing back. *)
LEMMA WaitingIsOnes ==
    ASSUME OutInv, NothingKept
    PROVE  \/ Out!ToSet(buf) = {}
           \/ \E t \in Threads :
                 /\ outPc[t] = "end" /\ outOwner = t
                 /\ \A x \in Out!ToSet(buf) : x[1] = t
<1>1. buf \in Seq(Tagged) /\ DOMAIN buf = 1..Len(buf) /\ Len(buf) \in Nat
  BY DEF OutInv, OutTypes
<1>2. CASE Len(buf) = 0
  BY <1>1, <1>2 DEF Out!ToSet
<1>3. CASE Len(buf) > 0
  <2>1. PICK t \in Threads : outPc[t] = "end" /\ \A i \in 1..Len(buf) : buf[i][1] = t
    BY <1>3 DEF OutInv, OneWaits
  <2>2. outOwner = t
    BY <2>1 DEF OutInv, Owned
  <2>3. \A x \in Out!ToSet(buf) : x[1] = t
    BY <1>1, <2>1 DEF Out!ToSet
  <2> QED BY <2>1, <2>2, <2>3
<1> QED BY <1>1, <1>2, <1>3

(* What an insertion wrote is not lost with the process (the exit hook, and *)
(* the destructors that run after it), for any number of threads and calls, *)
(* unless a write failed or the hook had to give up.                        *)
THEOREM NothingLostAtExit == MCSpec => []ExitDelivers
<1>1. OutInv => ExitDelivers
  <2> SUFFICES ASSUME OutInv, phase = "dead", ~gaveUp, ~outFailed,
                      NEW t \in Threads, ~Out!Inserting(t)
               PROVE  Out!Mine(t) = {}
    BY DEF ExitDelivers, Out!DeliversAtExit
  <2>1. NothingKept
    BY DEF NothingKept, OutInv, OutFlags
  <2>2. CASE Out!ToSet(buf) = {}
    BY <2>2 DEF Out!Mine
  <2>3. ASSUME NEW u \in Threads, outPc[u] = "end", \A x \in Out!ToSet(buf) : x[1] = u
        PROVE  Out!Mine(t) = {}
    <3>1. u # t
      BY <2>3 DEF Out!Inserting
    <3> QED BY <2>3, <3>1 DEF Out!Mine
  <2> QED BY <2>1, <2>2, <2>3, WaitingIsOnes
<1> QED BY <1>1, OutInvKept, PTL

LEMMA SeenSyncedHolds == OutInv => Out!SeenSyncedIsHandedOver
<1> SUFFICES ASSUME OutInv, synced, ~outFailed, NEW x \in Out!ToSet(buf)
             PROVE  outOwner = x[1] /\ Out!Inserting(outOwner) /\ sentry[outOwner]
  BY DEF Out!SeenSyncedIsHandedOver
<1>1. NothingKept
  BY DEF NothingKept, OutInv, OutFlags
<1>2. PICK t \in Threads :
        outPc[t] = "end" /\ outOwner = t /\ \A y \in Out!ToSet(buf) : y[1] = t
  BY <1>1, WaitingIsOnes
<1>3. sentry[t]
  BY <1>2 DEF OutInv, OutFlags, FlagsAgree
<1> QED BY <1>2, <1>3 DEF Out!Inserting

(* Only an insertion's own destructor gets past the flush of stdio. *)
LEMMA LandIsOnes ==
    ASSUME OutInv, Out!Next, NEW t \in Threads, outPc[t] = "land", outPc'[t] = "leave"
    PROVE  Out!EndLand(t)
<1> USE DEF Out!Goto, Out!Returns, Out!Calls, Out!Continues
<1>1. outPc \in [Threads -> OutLabels] /\ outOwner = t /\ outPc[t] # "idle"
  BY DEF OutInv, OutTypes, Owned
<1>2. ASSUME NEW u \in Threads, u # t
      PROVE  outPc[u] = "idle"
  BY <1>1, <1>2 DEF OutInv, Owned
<1>3. NoThread # t
  BY MCStdOutAssumption DEF Out!StdOutAssumption
<1>4. ~Out!Exit
  BY DEF Out!Exit, Out!AtExit, Out!HookMarks, Out!HookFlushes, Out!HookMisses, Out!StdioExit, Out!End
<1>5. PICK u \in Threads :
        \/ Out!Insert(u) \/ Out!Sentry(u) \/ Out!Body(u) \/ Out!BodyFails(u)
        \/ Out!EndFlush(u) \/ Out!EndLand(u) \/ Out!Leave(u)
        \/ Out!SyncOn(u) \/ Out!SyncMoves(u) \/ Out!SyncFlips(u) \/ Out!SyncOff(u)
        \/ Out!Printf(u) \/ Out!Clear(u)
  BY <1>4 DEF Out!Next
<1>6. outPc' # outPc
  OBVIOUS
<1>7. ~Out!Insert(u) /\ ~Out!SyncOn(u)
  BY <1>1, <1>3 DEF Out!Insert, Out!SyncOn
<1>8. ~Out!SyncOff(u) /\ ~Out!Printf(u) /\ ~Out!Clear(u)
  BY <1>6 DEF Out!SyncOff, Out!Printf, Out!Clear
<1>9. u = t
  BY <1>2, <1>5, <1>7, <1>8
  DEF Out!Sentry, Out!Body, Out!BodyFails, Out!EndFlush, Out!EndLand, Out!Leave, Out!SyncMoves,
      Out!SyncFlips
<1> QED
  BY <1>5, <1>7, <1>8, <1>9
  DEF Out!Sentry, Out!Body, Out!BodyFails, Out!EndFlush, Out!Leave, Out!SyncMoves, Out!SyncFlips

LEMMA PromiseKept == OutInv /\ Out!Next => Out!KeepsPromise
<1> SUFFICES ASSUME OutInv, Out!Next, NEW t \in Threads
             PROVE  /\ Out!SyncFlips(t) => bad' \/ Out!ToSet(before[t]) \cap Out!ToSet(buf') = {}
                    /\ late[t] /\ outPc[t] = "land" /\ outPc'[t] = "leave" =>
                          bad' \/ (Out!Mine(t) = {} /\ \A x \in stdio' : x[1] # t)
  BY DEF Out!KeepsPromise
<1>0. Len(buf) = 0 => Out!ToSet(buf) = {}
  BY DEF OutInv, OutTypes, Out!ToSet
<1>1. ASSUME Out!SyncFlips(t)
      PROVE  bad' \/ Out!ToSet(before[t]) \cap Out!ToSet(buf') = {}
  <2>1. outPc[t] = "flip" \/ bad'
    BY <1>1 DEF Out!SyncFlips, Out!Continues, Out!Fails
  <2>2. outPc[t] = "flip" => Out!ToSet(buf) = {}
    BY <1>0 DEF OutInv, Emptied
  <2>3. buf' = buf
    BY <1>1 DEF Out!SyncFlips, Out!bytes
  <2> QED BY <2>1, <2>2, <2>3
<1>2. ASSUME late[t], outPc[t] = "land", outPc'[t] = "leave"
      PROVE  bad' \/ (Out!Mine(t) = {} /\ \A x \in stdio' : x[1] # t)
  <2>1. Out!EndLand(t)
    BY <1>2, LandIsOnes
  <2>2. late[t] = TRUE
    BY <1>2 DEF OutInv, OutFlags
  <2>3. Out!Mine(t) = {}
    BY <1>0, <1>2, <2>2 DEF OutInv, Emptied, Out!Mine
  <2>4. exited
    BY <2>2 DEF OutInv, FlagsAgree
  <2>5. bad' \/ stdio' = {}
    BY <2>1, <2>4 DEF Out!EndLand, Out!Lands, Out!Fails
  <2> QED BY <2>3, <2>5
<1> QED BY <1>1, <1>2

(* sync_with_stdio(true) returns with everything handed over, or a bit set, *)
(* and an insertion after the exit hook has flushed stdio too; a thread     *)
(* that sees the stream synchronized may printf() at once: for any number   *)
(* of threads, calls and bytes, in every interleaving with the exit.        *)
THEOREM PromisesAreKept == MCSpec => PromisedIsHandedOver
<1>1. OutInv /\ [MCNext]_<<part, vars, output>> => [Out!KeepsPromise]_output
  BY PromiseKept DEF MCNext, output
<1> QED BY <1>1, SeenSyncedHolds, OutInvKept, PTL DEF MCSpec, PromisedIsHandedOver

=============================================================================
