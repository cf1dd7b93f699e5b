---------------------------- MODULE MCTieFlush ----------------------------
(* Streams of several threads and their locks.  Three streams, c tied to b *)
(* and b tied to a, where a and b share a lock; or a standard output       *)
(* stream, which shares stdout with C stdio, in a process that exits.      *)
(* They share nothing and one of them runs, so that each is checked as it  *)
(* is.                                                                     *)
EXTENDS TieFlush

CONSTANTS a, b, c, HookAttempts, BufLen, MaxCalls
VARIABLES part, buf, stdio, fd, synced, exited, bad, outOwner, outPc, sentry, threw, calls, phase,
          tries, before, late, outFailed, gaveUp

Out == INSTANCE StdOut WITH
    Nobody <- NoThread, Attempts <- HookAttempts, MaxOps <- MaxCalls,
    owner <- outOwner, pc <- outPc, ops <- calls, failed <- outFailed

ASSUME MCStdOutAssumption == Out!StdOutAssumption

MCChain == {[s \in {a, b, c} |-> IF s = c THEN b ELSE IF s = b THEN a ELSE NoStream]}

MCSharedLock == [s \in {a, b, c} |-> IF s = b THEN a ELSE s]
MCSharedRank == [k \in {a, c} |-> IF k = a THEN 1 ELSE 2]

output == <<buf, stdio, fd, synced, exited, bad, outOwner, outPc, sentry, threw, calls, phase,
            tries, before, late, outFailed, gaveUp>>

MCInit == part \in {"ties", "output"} /\ Init /\ Out!Init

MCNext ==
    \/ part = "ties" /\ Next /\ UNCHANGED <<part, output>>
    \/ part = "output" /\ Out!Next /\ UNCHANGED <<part, vars>>

(* The fairness of TieFlush and StdOut, each when it runs. *)
MCFairness ==
    /\ \A t \in Threads : WF_vars(part = "ties" /\ Step(t))
    /\ WF_output(part = "output" /\ phase # "running" /\ Out!Exit)

MCSpec == MCInit /\ [][MCNext]_<<part, vars, output>> /\ MCFairness

(* What an insertion wrote is not lost with the process, unless the exit   *)
(* hook had to give up.                                                    *)
ExitDelivers == Out!DeliversAtExit

(* Whoever is promised a hand-over, by sync_with_stdio(true) or because    *)
(* the exit hook has run, gets it, or a state bit; and a thread that sees  *)
(* the stream synchronized may printf() at once.                           *)
PromisedIsHandedOver == [][Out!KeepsPromise /\ Out!SeenSyncedIsHandedOver']_output

(* exit() ends, even when another thread never lets go of the mutex.       *)
ExitEnds == Out!EndsItsExit

(* What m_exited is documented to cover: an insertion that ends after the  *)
(* exit hook has run has handed its bytes over.                            *)
EndsAfterHookHandsOver == [][Out!HandsOverAfterHook]_output
=============================================================================
