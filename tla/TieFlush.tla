------------------------------ MODULE TieFlush ------------------------------
(***************************************************************************)
(* Flushing along a tie chain: the sentry of an I/O operation, which locks *)
(* the stream's io_mutex(), has the tie target try_flush(), and goes on to *)
(* its body; and try_flush() itself, which recurses down the chain before  *)
(* it tries its own lock, three times at most.  io_mutex() is recursive,   *)
(* several streams may share one, and a user may hold one over several     *)
(* operations.  The edges are those of TieGraph: tie() is atomic here and  *)
(* keeps the graph acyclic.                                                *)
(***************************************************************************)
EXTENDS Naturals, Sequences, FiniteSets, SequencesExt

CONSTANTS Threads,   (* threads doing I/O                                   *)
          Outs,      (* output streams, which may be tied to                *)
          Ins,       (* input streams                                       *)
          NoStream,  (* nullptr                                             *)
          NoThread,  (* a lock is free                                      *)
          LockOf,    (* the io_mutex() of each stream                       *)
          LockRank,  (* the order in which users take several of them       *)
          Attempts,  (* how often try_flush() tries the lock                *)
          FirstTies, (* the edges there may be when the threads start        *)
          MaxOps,    (* bound: operations of a thread, its own locking included *)
          MaxTies    (* bound: tie() calls                                  *)

Streams == Outs \cup Ins
Targets == Outs \cup {NoStream}
Locks == {LockOf[s] : s \in Streams}

ASSUME FlushAssumption ==
    /\ Outs \cap Ins = {} /\ NoStream \notin Streams /\ NoThread \notin Threads
    /\ IsFiniteSet(Streams)
    /\ LockRank \in [Locks -> Nat]
    /\ \A k, l \in Locks : LockRank[k] = LockRank[l] => k = l
    /\ FirstTies \subseteq [Streams -> Targets]
    /\ Attempts \in Nat \ {0}
    /\ MaxOps \in Nat /\ MaxTies \in Nat

VARIABLES
    tied,     (* m_tie_stream of every stream                               *)
    owner,    (* the thread that holds each lock                            *)
    depth,    (* and how many times                                         *)
    pending,  (* streams with bytes not flushed yet                         *)
    failed,   (* streams whose operator bool is false                       *)
    pc,       (* where each thread is                                       *)
    on,       (* the stream it operates on                                  *)
    chain,    (* the activations of try_flush() it is in, innermost last    *)
    left,     (* the attempts left to the innermost                         *)
    held,     (* the stream whose io_mutex() its user holds                 *)
    ops,      (* how many each thread has begun                             *)
    ties,     (* tie() calls made                                           *)
    calm      (* nothing has come between the sentry and its tie flush: no  *)
              (* re-tie, no write of another thread, no lock given up on    *)

graph == <<tied, ties>>
locks == <<owner, depth>>
streams == <<pending, failed>>
vars == <<tied, owner, depth, pending, failed, pc, on, chain, left, held, ops, ties, calm>>

(* A set that the chain does not leave, and the streams down the chain     *)
(* from s: what is in each that holds the target of s.                     *)
ClosedUnderTies(S) == \A y \in S : tied[y] \in S \cup {NoStream}

Below(s) ==
    {x \in Outs : \A S \in SUBSET Outs :
        ClosedUnderTies(S) /\ tied[s] \in S \cup {NoStream} => x \in S}

Init ==
    /\ tied \in FirstTies
    /\ owner = [k \in Locks |-> NoThread]
    /\ depth = [k \in Locks |-> 0]
    /\ pending = {}
    /\ failed = {}
    /\ pc = [t \in Threads |-> "idle"]
    /\ on = [t \in Threads |-> NoStream]
    /\ chain = [t \in Threads |-> <<>>]
    /\ left = [t \in Threads |-> 0]
    /\ held = [t \in Threads |-> NoStream]
    /\ ops = [t \in Threads |-> 0]
    /\ ties = 0
    /\ calm = [t \in Threads |-> FALSE]

Goto(t, label) == pc' = [pc EXCEPT ![t] = label]

(* io_mutex() of s: whether t gets it at once, taking it, giving it back. *)
Free(t, s) == owner[LockOf[s]] \in {NoThread, t}

Lock(t, s) ==
    /\ owner' = [owner EXCEPT ![LockOf[s]] = t]
    /\ depth' = [depth EXCEPT ![LockOf[s]] = @ + 1]

Unlock(s) ==
    /\ owner' = [owner EXCEPT ![LockOf[s]] = IF depth[LockOf[s]] = 1 THEN NoThread ELSE @]
    /\ depth' = [depth EXCEPT ![LockOf[s]] = @ - 1]

Disturb(others) == calm' = [t \in Threads |-> calm[t] /\ t \notin others]
-----------------------------------------------------------------------------
(* The user locks a stream over several operations, in a fixed order of    *)
(* locks, ...                                                              *)
UserLock(t, s) ==
    /\ pc[t] = "idle"
    /\ held[t] = NoStream
    /\ ops[t] < MaxOps
    /\ Free(t, s)
    /\ Lock(t, s)
    /\ held' = [held EXCEPT ![t] = s]
    /\ ops' = [ops EXCEPT ![t] = @ + 1]
    /\ UNCHANGED <<graph, streams, pc, on, chain, left, calm>>

(* ... and lets go of it. *)
UserUnlock(t) ==
    /\ pc[t] = "idle"
    /\ held[t] # NoStream
    /\ Unlock(held[t])
    /\ held' = [held EXCEPT ![t] = NoStream]
    /\ UNCHANGED <<graph, streams, pc, on, chain, left, ops, calm>>

(* tie(): the edge is stored unless it would close a cycle. *)
Tie(t, s, x) ==
    /\ pc[t] = "idle"
    /\ ties < MaxTies
    /\ x # NoStream => s \notin {x} \cup Below(x)
    /\ tied' = [tied EXCEPT ![s] = x]
    /\ ties' = ties + 1
    /\ Disturb(Threads)
    /\ UNCHANGED <<locks, streams, pc, on, chain, left, held, ops>>

(* An operation begins: it will wait for the stream's lock. *)
Begin(t, s) ==
    /\ pc[t] = "idle"
    /\ ops[t] < MaxOps
    /\ held[t] # NoStream => LockRank[LockOf[held[t]]] <= LockRank[LockOf[s]]
    /\ ops' = [ops EXCEPT ![t] = @ + 1]
    /\ on' = [on EXCEPT ![t] = s]
    /\ Goto(t, "acquire")
    /\ UNCHANGED <<graph, locks, streams, chain, left, held, calm>>

Acquire(t) ==
    /\ pc[t] = "acquire"
    /\ Free(t, on[t])
    /\ Lock(t, on[t])
    /\ Goto(t, "sentry")
    /\ UNCHANGED <<graph, streams, on, chain, left, held, ops, calm>>

(* The sentry: a failed stream does nothing, another one's tie is flushed. *)
Sentry(t) ==
    /\ pc[t] = "sentry"
    /\ LET x == tied[on[t]]
       IN IF on[t] \in failed \/ x = NoStream
          THEN Goto(t, "body") /\ UNCHANGED chain
          ELSE Goto(t, "walk") /\ chain' = [chain EXCEPT ![t] = <<x>>]
    /\ calm' = [calm EXCEPT ![t] = TRUE]
    /\ UNCHANGED <<graph, locks, streams, on, left, held, ops>>

WalkOne(t) ==  (* faulty: the flush goes no further than the tie target *)
    /\ pc[t] = "walk"
    /\ Goto(t, "try")
    /\ left' = [left EXCEPT ![t] = Attempts]
    /\ UNCHANGED <<graph, locks, streams, on, chain, held, ops, calm>>

(* try_flush(): downstream first. *)
Walk(t) ==
    /\ pc[t] = "walk"
    /\ LET x == tied[Last(chain[t])]
       IN IF x # NoStream
          THEN chain' = [chain EXCEPT ![t] = Append(@, x)] /\ UNCHANGED <<pc, left>>
          ELSE /\ Goto(t, "try")
               /\ left' = [left EXCEPT ![t] = Attempts]
               /\ UNCHANGED chain
    /\ UNCHANGED <<graph, locks, streams, on, held, ops, calm>>

(* The innermost try_flush() returns. *)
Return(t) ==
    /\ chain' = [chain EXCEPT ![t] = Front(@)]
    /\ Goto(t, IF Len(chain[t]) = 1 THEN "body" ELSE "try")
    /\ left' = [left EXCEPT ![t] = IF Len(chain[t]) = 1 THEN 0 ELSE Attempts]

(* The lock is there; flush() is next. *)
TryTakes(t) ==
    /\ pc[t] = "try"
    /\ Free(t, Last(chain[t]))
    /\ Lock(t, Last(chain[t]))
    /\ Goto(t, "flush")
    /\ UNCHANGED <<graph, streams, on, chain, left, held, ops, calm>>

TryForEver(t) ==  (* faulty: the attempts are not counted *)
    /\ pc[t] = "try"
    /\ ~Free(t, Last(chain[t]))
    /\ left[t] > 1
    /\ UNCHANGED vars

(* Another thread has it: again, ... *)
TryMisses(t) ==
    /\ pc[t] = "try"
    /\ ~Free(t, Last(chain[t]))
    /\ left[t] > 1
    /\ left' = [left EXCEPT ![t] = @ - 1]
    /\ UNCHANGED <<graph, locks, streams, pc, on, chain, held, ops, calm>>

(* ... or the flush is given up. *)
TryGivesUp(t) ==
    /\ pc[t] = "try"
    /\ ~Free(t, Last(chain[t]))
    /\ left[t] = 1
    /\ Return(t)
    /\ Disturb({t})
    /\ UNCHANGED <<graph, locks, streams, on, held, ops>>

FlushLeaks(t) ==  (* faulty: a failed target keeps its lock *)
    /\ pc[t] = "flush"
    /\ LET x == Last(chain[t])
       IN IF x \in failed THEN UNCHANGED <<locks, streams>>
          ELSE /\ Unlock(x)
               /\ \/ pending' = pending \ {x} /\ UNCHANGED failed
                  \/ failed' = failed \cup {x} /\ UNCHANGED pending
    /\ Return(t)
    /\ UNCHANGED <<graph, on, held, ops, calm>>

FlushBlamesInitiator(t) ==  (* faulty: the failure lands on the initiator *)
    /\ pc[t] = "flush"
    /\ LET x == Last(chain[t])
       IN /\ Unlock(x)
          /\ \/ x \in failed /\ UNCHANGED streams
             \/ x \notin failed /\ pending' = pending \ {x} /\ UNCHANGED failed
             \/ x \notin failed /\ failed' = failed \cup {on[t]} /\ UNCHANGED pending
    /\ Return(t)
    /\ UNCHANGED <<graph, on, held, ops, calm>>

(* flush() of the target: refused on a failed stream, otherwise the bytes   *)
(* go out or the failure lands on the target; the lock goes either way.     *)
Flush(t) ==
    /\ pc[t] = "flush"
    /\ LET x == Last(chain[t])
       IN /\ Unlock(x)
          /\ \/ x \in failed /\ UNCHANGED streams
             \/ x \notin failed /\ pending' = pending \ {x} /\ UNCHANGED failed
             \/ x \notin failed /\ failed' = failed \cup {x} /\ UNCHANGED pending
    /\ Return(t)
    /\ UNCHANGED <<graph, on, held, ops, calm>>

(* The body: refused on a failed stream; a read, a write that stays         *)
(* buffered or goes out at once (unitbuf), or a failure.  The lock goes.    *)
Body(t) ==
    /\ pc[t] = "body"
    /\ LET s == on[t]
       IN /\ Unlock(s)
          /\ \/ s \in failed /\ Disturb({t}) /\ UNCHANGED streams
             \/ /\ s \notin failed
                /\ failed' = failed \cup {s}
                /\ Disturb({t})
                /\ UNCHANGED pending
             \/ /\ s \notin failed /\ s \in Ins
                /\ Disturb({t})
                /\ UNCHANGED streams
             \/ /\ s \notin failed /\ s \in Outs
                /\ pending' \in {pending \cup {s}, pending \ {s}}
                /\ Disturb(Threads)
                /\ UNCHANGED failed
    /\ on' = [on EXCEPT ![t] = NoStream]
    /\ Goto(t, "idle")
    /\ UNCHANGED <<graph, chain, left, held, ops>>
-----------------------------------------------------------------------------
(* What a thread does of its own accord, and what it is bound to do next. *)
Choice(t) ==
    \/ \E s \in Streams : UserLock(t, s) \/ Begin(t, s)
    \/ \E s \in Streams, x \in Targets : Tie(t, s, x)

Step(t) ==
    \/ UserUnlock(t) \/ Acquire(t) \/ Sentry(t) \/ Walk(t)
    \/ TryTakes(t) \/ TryMisses(t) \/ TryGivesUp(t) \/ Flush(t) \/ Body(t)

Next == \E t \in Threads : Choice(t) \/ Step(t)

(* A thread that can go on does, and a user lets go of a lock in the end.  *)
(* No lock is assumed to be handed out fairly.                             *)
Spec == Init /\ [][Next]_vars /\ \A t \in Threads : WF_vars(Step(t))
-----------------------------------------------------------------------------
(* The holds thread t has on lock k: its user's, its operation's, and that *)
(* of at most one link of the chain.                                       *)
Holds(t, k) ==
    (IF held[t] # NoStream /\ LockOf[held[t]] = k THEN 1 ELSE 0) +
    (IF pc[t] \notin {"idle", "acquire"} /\ LockOf[on[t]] = k THEN 1 ELSE 0) +
    (IF pc[t] = "flush" /\ LockOf[Last(chain[t])] = k THEN 1 ELSE 0)

(* "At any moment at most one stream lock besides the initiator's is held": *)
(* every hold on a lock is accounted for by where its owner stands, and no  *)
(* two threads have a hold on one.                                          *)
LocksAccounted ==
    \A k \in Locks :
        /\ owner[k] = NoThread => depth[k] = 0 /\ \A t \in Threads : Holds(t, k) = 0
        /\ \A t \in Threads :
              owner[k] = t => /\ depth[k] = Holds(t, k) /\ depth[k] > 0
                              /\ \A u \in Threads \ {t} : Holds(u, k) = 0

(* "A tie is chained": when the operation goes ahead, every stream down the *)
(* chain has been flushed or has failed, unless a lock was given up on or   *)
(* somebody wrote or re-tied meanwhile.                                     *)
ChainFlushed ==
    \A t \in Threads :
        pc[t] = "body" /\ calm[t] /\ on[t] \notin failed =>
           Below(on[t]) \cap pending \subseteq failed

(* The initiator is left untouched: between its sentry and its body only a  *)
(* chain that came back to it, through a re-tie, can fail it.               *)
InitiatorUntouched ==
    [][\A t \in Threads :
          pc[t] \in {"walk", "try", "flush"} /\ on[t] \notin failed /\ on[t] \in failed' =>
             pc[t] = "flush" /\ Last(chain[t]) = on[t]]_vars

(* No operation waits for ever: whoever takes locks in order gets through,  *)
(* whatever is tied to whatever, because a tie flush never waits.           *)
OperationsEnd == \A t \in Threads : pc[t] # "idle" ~> pc[t] = "idle"
=============================================================================
