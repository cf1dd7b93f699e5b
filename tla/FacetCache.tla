----------------------------- MODULE FacetCache -----------------------------
(***************************************************************************)
(* ori_facet_buf: threads get facets of a name from a bounded cache under  *)
(* a mutex, and build the missing ones outside it, where a constructor may *)
(* come back for another facet.  Messages have a cache of their own; they  *)
(* may fail to load, and then be degraded instead (locale::involve_msg()). *)
(*                                                                         *)
(* The process may fork meanwhile: the child has its caches as they are at *)
(* that moment, and one thread.  What the holder of the mutex changes is   *)
(* changed at once: a change cut in two by the fork is left out, as the    *)
(* mutex promises the lock and not the data.                               *)
(*                                                                         *)
(* Facets are numbered as they are built.                                  *)
(***************************************************************************)
EXTENDS LruCache, CopyableMutex

CONSTANTS Names,    (* the keys of both caches                              *)
          Messages, (* those of the messages' cache                         *)
          MaxCalls, (* bound: calls, nested ones included                   *)
          MaxDepth  (* bound: constructors under way in a thread            *)

ASSUME FacetCacheAssumption ==
    /\ Messages \subseteq Names
    /\ MaxCalls \in Nat /\ MaxDepth \in Nat \ {0}

VARIABLES
    lru,      (* m_cache (FALSE) and m_msg_cache (TRUE)                     *)
    stack,    (* each thread's calls under way, the innermost first         *)
    built,    (* how many facets have been built                            *)
    degraded, (* those that failed to load                                  *)
    shared,   (* handed out since their name was last put in its cache      *)
    calls     (* how many calls were made                                   *)

cacheVars == <<lru, stack, built, degraded, shared, calls>>
vars == <<mutexVars, cacheVars>>

CacheOf(n) == n \in Messages

Init ==
    /\ lru = [id \in BOOLEAN |-> Empty]
    /\ MutexInit
    /\ stack = [t \in Threads |-> <<>>]
    /\ built = 0 /\ degraded = {} /\ shared = {} /\ calls = 0

Top(t) == Head(stack[t])
At(t, label) == stack[t] # <<>> /\ Top(t).at = label
Goto(t, label, facet) ==
    stack' = [stack EXCEPT ![t][1].at = label, ![t][1].facet = facet]

Returns(t) == stack' = [stack EXCEPT ![t] = Tail(@)]
(* An exception also leaves the constructors that were waiting. *)
Throws(t) == stack' = [stack EXCEPT ![t] = <<>>]

(* The cache hands out a facet, and may have dropped another name. *)
Gives(n, facet, cache) ==
    /\ lru' = [lru EXCEPT ![CacheOf(n)] = cache]
    /\ shared' = {s \in shared \cup {<<n, facet>>} :
                     CacheOf(s[1]) = CacheOf(n) => s[1] \in Keys(cache)}
-----------------------------------------------------------------------------
Calls(t, n, strict) ==
    /\ calls < MaxCalls /\ calls' = calls + 1
    /\ stack' = [stack EXCEPT ![t] =
          <<[name |-> n, at |-> "look", facet |-> 0, strict |-> strict]>> \o @]
    /\ UNCHANGED <<mutexVars, lru, built, degraded, shared>>

(* Only messages may be asked for without insisting that they load. *)
Call(t, n, strict) ==
    /\ stack[t] = <<>>
    /\ strict \/ n \in Messages
    /\ Calls(t, n, strict)

Reenter(t, n) ==
    /\ At(t, "build") /\ Top(t).name \notin Messages /\ n \notin Messages
    /\ Len(stack[t]) < MaxDepth
    /\ \A i \in DOMAIN stack[t] : stack[t][i].name # n
    /\ Calls(t, n, TRUE)

Locks(t) ==
    /\ At(t, "look") \/ At(t, "insert")
    /\ LockStep(t)
    /\ UNCHANGED cacheVars

(* The threads left behind have no calls in the child. *)
ForkProcess(t) ==
    /\ Fork(t)
    /\ stack' = [u \in Threads |-> IF u = t THEN stack[t] ELSE <<>>]
    /\ UNCHANGED <<lru, built, degraded, shared, calls>>

BeginThread(t) == Begins(t) /\ UNCHANGED cacheVars

(* The first look: a facet that is there is marked as used and returned.   *)
Look(t) ==
    /\ At(t, "look") /\ Unlock(t)
    /\ LET n == Top(t).name
           c == lru[CacheOf(n)]
       IN \/ n \in Keys(c) /\ Gives(n, c.map[n], Touched(c, n)) /\ Returns(t)
          \/ n \notin Keys(c) /\ Goto(t, "build", 0) /\ UNCHANGED <<lru, shared>>
    /\ UNCHANGED <<built, degraded, calls>>

(* The constructor, without the mutex. *)
Build(t) ==
    /\ At(t, "build")
    /\ built' = built + 1
    /\ Goto(t, "insert", built')
    /\ UNCHANGED <<mutexVars, lru, degraded, shared, calls>>

BuildThrows(t) ==
    /\ At(t, "build")
    /\ Top(t).strict
    /\ Throws(t)
    /\ UNCHANGED <<mutexVars, lru, built, degraded, shared, calls>>

(* Messages that need not load are built again, degraded, for this caller, *)
(* unless there is no memory for that either.                              *)
HandsDegraded(t) == Returns(t)

BuildDegraded(t) ==
    /\ At(t, "build")
    /\ ~Top(t).strict
    /\ \/ /\ built' = built + 1 /\ degraded' = degraded \cup {built'}
          /\ HandsDegraded(t)
       \/ Throws(t) /\ UNCHANGED <<built, degraded>>
    /\ UNCHANGED <<mutexVars, lru, shared, calls>>

(* The second look, under the same lock as the insertion. *)
ChecksNot(n, c) == FALSE  (* faulty: what was found missing is put *)
Finds(n, c) == n \in Keys(c)

Insert(t) ==
    /\ At(t, "insert") /\ Unlock(t)
    /\ LET n == Top(t).name
           c == lru[CacheOf(n)]
       IN IF Finds(n, c) THEN Gives(n, c.map[n], Touched(c, n))
          ELSE Gives(n, Top(t).facet, Put(c, n, Top(t).facet))
    /\ Returns(t)
    /\ UNCHANGED <<built, degraded, calls>>

(* The insertion runs out of memory: only messages are returned all the    *)
(* same.                                                                   *)
InsertThrows(t) ==
    /\ At(t, "insert") /\ Unlock(t)
    /\ LET n == Top(t).name
           c == lru[CacheOf(n)]
       IN /\ n \notin Keys(c)
          /\ lru' = [lru EXCEPT ![CacheOf(n)] = PutFails(c, n, Top(t).facet)]
          /\ IF n \in Messages THEN Returns(t) ELSE Throws(t)
    /\ UNCHANGED <<built, degraded, shared, calls>>

Step(t) ==
    \/ Locks(t) \/ Look(t) \/ Insert(t) \/ InsertThrows(t)
    \/ Build(t) \/ BuildThrows(t) \/ BuildDegraded(t)

Next ==
    \E t \in Threads :
        \/ BeginThread(t)
        \/ /\ t \in alive
           /\ \/ Step(t) \/ ForkProcess(t)
              \/ \E n \in Names : Reenter(t, n) \/ \E strict \in BOOLEAN : Call(t, n, strict)

Spec == Init /\ [][Next]_vars

(* Threads that have begun a call go on with it. *)
FairSpec == Spec /\ \A t \in Threads : WF_vars(Step(t))
-----------------------------------------------------------------------------
(* Running out of memory in the middle of put(), and evicting, leave the   *)
(* list and the map of a cache in step and within its capacity, and a      *)
(* facet that failed to load is never in it: a later, strict caller tries  *)
(* again.                                                                  *)
CachesSound ==
    \A id \in BOOLEAN :
        /\ ListAndMapAgree(lru[id])
        /\ \A node \in Nodes(lru[id]) : node[2] \notin degraded

(* Threads that race for a name, and constructors that come back for it,   *)
(* all get the facet that is in the cache, until it is evicted.            *)
SharedWhileCached ==
    \A s \in shared :
        /\ s[1] \in Keys(lru[CacheOf(s[1])])
        /\ lru[CacheOf(s[1])].map[s[1]] = s[2]

(* Every call returns or throws: no constructor that comes back waits for  *)
(* a mutex its own thread holds, and no thread of a child for one that     *)
(* only a thread left behind could unlock.                                 *)
CallsEnd == \A t \in Threads : stack[t] # <<>> ~> stack[t] = <<>>
=============================================================================
