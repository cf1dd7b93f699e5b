--------------------------- MODULE CopyableMutex ----------------------------
(***************************************************************************)
(* copyable_mutex and the processes it is copied into by fork(): a child   *)
(* has only the thread that forked, and a mutex another thread held there  *)
(* is built anew by the first thread of the child that locks it.           *)
(*                                                                         *)
(* The state is that of the process last forked.  Generations are numbers: *)
(* an unsigned one comes round after 2^32 forks, each in the child of the  *)
(* one before.  A thread forks outside of the mutex, as the code requires. *)
(***************************************************************************)
EXTENDS Naturals

CONSTANTS Threads,
          Nobody,  (* the owner of a free mutex                             *)
          Gone,    (* the owner of one that a thread left behind held       *)
          MaxForks (* bound: forks                                          *)

ASSUME MutexAssumption ==
    Nobody \notin Threads /\ Gone \notin Threads /\ Nobody # Gone /\ MaxForks \in Nat

VARIABLES
    alive,           (* the threads of this process                         *)
    generation,      (* fork_state: in this process                         *)
    refresh,         (* fork_state: who holds it                            *)
    mutexGeneration, (* m_generation: that in which m_mutex was built       *)
    owner,           (* who holds m_mutex                                   *)
    locking          (* how far each thread is with lock()                  *)

mutexVars == <<alive, generation, refresh, mutexGeneration, owner, locking>>

Labels == {"out", "stale", "check", "store", "wait", "in"}

MutexInit ==
    /\ alive = Threads
    /\ generation = 0 /\ mutexGeneration = 0
    /\ refresh = Nobody /\ owner = Nobody
    /\ locking = [t \in Threads |-> "out"]

Moves(t, from, to) == locking[t] = from /\ locking' = [locking EXCEPT ![t] = to]
-----------------------------------------------------------------------------
(* lock() of a mutex of this generation: nothing but a fork makes it stale *)
(* again, so that refresh_after_fork() and m_mutex.lock() are one step.    *)
Lock(t) ==
    /\ mutexGeneration = generation
    /\ Moves(t, "out", "in")
    /\ owner = Nobody /\ owner' = t
    /\ UNCHANGED <<alive, generation, refresh, mutexGeneration>>

(* refresh_after_fork() finds the mutex of an earlier generation.          *)
FindsStale(t) ==
    /\ mutexGeneration # generation
    /\ Moves(t, "out", "stale")
    /\ UNCHANGED <<alive, generation, refresh, mutexGeneration, owner>>

(* rebuild(): refresh is taken, and the generations compared again.        *)
TakeRefresh(t) ==
    /\ refresh = Nobody /\ refresh' = t
    /\ Moves(t, "stale", "check")
    /\ UNCHANGED <<alive, generation, mutexGeneration, owner>>

ChecksOnce == FALSE  (* faulty: what was seen before refresh is relied on *)
AlreadyRebuilt == mutexGeneration = generation

LeaveRefresh(t) ==
    /\ AlreadyRebuilt
    /\ Moves(t, "check", "wait")
    /\ refresh' = Nobody
    /\ UNCHANGED <<alive, generation, mutexGeneration, owner>>

(* construct_at() leaves m_mutex unlocked, whoever holds it. *)
Construct(t) ==
    /\ ~AlreadyRebuilt
    /\ Moves(t, "check", "store")
    /\ owner' = Nobody
    /\ UNCHANGED <<alive, generation, refresh, mutexGeneration>>

Store(t) ==
    /\ Moves(t, "store", "wait")
    /\ mutexGeneration' = generation
    /\ refresh' = Nobody
    /\ UNCHANGED <<alive, generation, owner>>

Acquire(t) ==
    /\ Moves(t, "wait", "in")
    /\ owner = Nobody /\ owner' = t
    /\ UNCHANGED <<alive, generation, refresh, mutexGeneration>>

Unlock(t) ==
    /\ Moves(t, "in", "out")
    /\ owner' = Nobody
    /\ UNCHANGED <<alive, generation, refresh, mutexGeneration>>

LockStep(t) ==
    \/ Lock(t) \/ FindsStale(t)
    \/ TakeRefresh(t) \/ LeaveRefresh(t) \/ Construct(t) \/ Store(t) \/ Acquire(t)

(* fork(), and copyable_mutex_on_fork_child() in the child.                *)
SameGeneration == generation  (* faulty: the child knows nothing of it *)
NextGeneration == generation + 1

Fork(t) ==
    /\ generation < MaxForks
    /\ locking[t] = "out"
    /\ alive' = {t}
    /\ generation' = NextGeneration
    /\ refresh' = Nobody
    /\ owner' = IF owner = Nobody THEN Nobody ELSE Gone
    /\ locking' = [u \in Threads |-> "out"]
    /\ UNCHANGED mutexGeneration

(* A thread begins in the child. *)
Begins(t) ==
    /\ t \notin alive /\ alive' = alive \cup {t}
    /\ UNCHANGED <<generation, refresh, mutexGeneration, owner, locking>>

MutexNext ==
    \E t \in Threads :
        \/ Begins(t)
        \/ /\ t \in alive
           /\ LockStep(t) \/ Unlock(t) \/ Fork(t)

MutexSpec == MutexInit /\ [][MutexNext]_mutexVars
-----------------------------------------------------------------------------
(* Of the threads that meet over a mutex no one of this process can        *)
(* unlock, and of those that come later, one at a time is between lock()   *)
(* and unlock(): rebuilding takes the mutex from nobody who has it.        *)
MutualExclusion ==
    \A t, u \in Threads : locking[t] = "in" /\ locking[u] = "in" => t = u
=============================================================================
