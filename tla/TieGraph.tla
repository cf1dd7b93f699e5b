------------------------------ MODULE TieGraph ------------------------------
(***************************************************************************)
(* The tie graph of io/utilities/stream_common_operators.h.  Every stream  *)
(* has at most one outgoing edge, m_tie_stream, to an output stream.       *)
(* tie(str) walks the chain that starts at str with two pointers, under    *)
(* the process-wide tie_graph_mutex(), and stores the edge only when the   *)
(* walk found no cycle.  Copying and moving a stream clears edges WITHOUT  *)
(* that mutex, so edges may disappear in the middle of a walk.  Each       *)
(* atomic load or store of an edge is a step of its own.                   *)
(***************************************************************************)
EXTENDS Naturals

CONSTANTS Threads,  (* threads that call tie(), copy and move streams       *)
          Outs,     (* streams that are tie targets: ostream, iostream, cout*)
          Ins,      (* pure input streams: never a target                   *)
          NoStream, (* nullptr                                              *)
          NoThread  (* tie_graph_mutex() is free                            *)

ASSUME TieAssumption ==
    /\ Outs \cap Ins = {}
    /\ NoStream \notin Outs \cup Ins
    /\ NoThread \notin Threads

Streams == Outs \cup Ins
Targets == Outs \cup {NoStream}

VARIABLES
    tieStream, (* m_tie_stream of every stream                              *)
    graphLock, (* the holder of tie_graph_mutex()                           *)
    pc,        (* where each thread is in tie() or in a move                *)
    self,      (* the stream each thread's call is about                    *)
    str,       (* the requested target, or the source of a move             *)
    slow,      (* the tortoise of check_tie                                 *)
    fast,      (* the hare of check_tie                                     *)
    strfail   (* the streams whose strfailbit a refusal has set             *)

locals == <<self, str, slow, fast>>
vars == <<tieStream, graphLock, pc, self, str, slow, fast, strfail>>

Init ==
    /\ tieStream = [s \in Streams |-> NoStream]
    /\ graphLock = NoThread
    /\ pc = [t \in Threads |-> "idle"]
    /\ self = [t \in Threads |-> NoStream]
    /\ str = [t \in Threads |-> NoStream]
    /\ slow = [t \in Threads |-> NoStream]
    /\ fast = [t \in Threads |-> NoStream]
    /\ strfail = {}

Goto(t, label) == pc' = [pc EXCEPT ![t] = label]

(* The end of a call: its local variables go out of scope. *)
Return(t) ==
    /\ Goto(t, "idle")
    /\ self' = [self EXCEPT ![t] = NoStream]
    /\ str' = [str EXCEPT ![t] = NoStream]
    /\ slow' = [slow EXCEPT ![t] = NoStream]
    /\ fast' = [fast EXCEPT ![t] = NoStream]

(* The edge out of a node; a null pointer stays null. *)
TiedTo(x) == IF x = NoStream THEN NoStream ELSE tieStream[x]
-----------------------------------------------------------------------------
(* self.tie(x): the call, up to the wait for the graph lock. *)
CallTie(t, s, x) ==
    /\ pc[t] = "idle"
    /\ self' = [self EXCEPT ![t] = s]
    /\ str' = [str EXCEPT ![t] = x]
    /\ Goto(t, "acquire")
    /\ UNCHANGED <<tieStream, graphLock, slow, fast, strfail>>

(* Lock the graph; a stream that is no tie target skips the walk. *)
AcquireGraph(t) ==
    /\ pc[t] = "acquire"
    /\ graphLock = NoThread
    /\ graphLock' = t
    /\ slow' = [slow EXCEPT ![t] = str[t]]
    /\ fast' = [fast EXCEPT ![t] = str[t]]
    /\ Goto(t, IF self[t] \in Outs THEN "test" ELSE "commit")
    /\ UNCHANGED <<tieStream, self, str, strfail>>

(* Faulty: the walk only looks for the end of the chain, not for self. *)
TestSlowEndOnly(t) ==
    /\ pc[t] = "test"
    /\ Goto(t, IF slow[t] = NoStream THEN "commit" ELSE "slow")
    /\ UNCHANGED <<tieStream, graphLock, locals, strfail>>

(* Head of the loop of check_tie: the chain ended, or came back to self. *)
TestSlow(t) ==
    /\ pc[t] = "test"
    /\ Goto(t, IF slow[t] = NoStream THEN "commit"
               ELSE IF slow[t] = self[t] THEN "reject" ELSE "slow")
    /\ UNCHANGED <<tieStream, graphLock, locals, strfail>>

(* slow = slow->tied_to() *)
StepSlow(t) ==
    /\ pc[t] = "slow"
    /\ slow' = [slow EXCEPT ![t] = TiedTo(@)]
    /\ Goto(t, "fast1")
    /\ UNCHANGED <<tieStream, graphLock, self, str, fast, strfail>>

(* The first of the two steps of the hare. *)
StepFast(t) ==
    /\ pc[t] = "fast1"
    /\ fast' = [fast EXCEPT ![t] = TiedTo(@)]
    /\ Goto(t, "fast2")
    /\ UNCHANGED <<tieStream, graphLock, self, str, slow, strfail>>

(* Faulty: two null pointers are taken for a meeting of the pointers. *)
StepFastNullMeets(t) ==
    /\ pc[t] = "fast2"
    /\ LET hare == TiedTo(fast[t])
       IN /\ fast' = [fast EXCEPT ![t] = hare]
          /\ Goto(t, IF hare = slow[t] THEN "reject" ELSE "test")
    /\ UNCHANGED <<tieStream, graphLock, self, str, slow, strfail>>

(* The second step, and the comparison that detects a foreign cycle. *)
StepFastAgain(t) ==
    /\ pc[t] = "fast2"
    /\ LET hare == TiedTo(fast[t])
       IN /\ fast' = [fast EXCEPT ![t] = hare]
          /\ Goto(t, IF hare # NoStream /\ hare = slow[t] THEN "reject" ELSE "test")
    /\ UNCHANGED <<tieStream, graphLock, self, str, slow, strfail>>

(* The walk found no cycle: store the edge and leave the critical section. *)
Commit(t) ==
    /\ pc[t] = "commit"
    /\ tieStream' = [tieStream EXCEPT ![self[t]] = str[t]]
    /\ graphLock' = NoThread
    /\ Return(t)
    /\ UNCHANGED strfail

(* Faulty: a hand-written unlock is forgotten on the failure path. *)
RejectKeepsLock(t) ==
    /\ pc[t] = "reject"
    /\ Goto(t, "report")
    /\ UNCHANGED <<tieStream, graphLock, locals, strfail>>

(* check_tie returned false: nothing is stored, the graph is unlocked. *)
Reject(t) ==
    /\ pc[t] = "reject"
    /\ graphLock' = NoThread
    /\ Goto(t, "report")
    /\ UNCHANGED <<tieStream, locals, strfail>>

(* handle_exception(stream_error) on the caller's stream, graph unlocked. *)
Report(t) ==
    /\ pc[t] = "report"
    /\ strfail' = strfail \cup {self[t]}
    /\ Return(t)
    /\ UNCHANGED <<tieStream, graphLock>>

(* Copy assignment: the copy starts untied; no graph lock is taken. *)
CopyAssign(t, s) ==
    /\ pc[t] = "idle"
    /\ tieStream' = [tieStream EXCEPT ![s] = NoStream]
    /\ UNCHANGED <<graphLock, pc, locals, strfail>>

(* Move assignment from another stream: its first store, on the destination. *)
MoveAssign(t, s, other) ==
    /\ pc[t] = "idle"
    /\ s # other
    /\ tieStream' = [tieStream EXCEPT ![s] = NoStream]
    /\ self' = [self EXCEPT ![t] = other]
    /\ Goto(t, "moved")
    /\ UNCHANGED <<graphLock, str, slow, fast, strfail>>

(* The second store of a move, on the source. *)
MoveSource(t) ==
    /\ pc[t] = "moved"
    /\ tieStream' = [tieStream EXCEPT ![self[t]] = NoStream]
    /\ Return(t)
    /\ UNCHANGED <<graphLock, strfail>>

Step(t) ==
    \/ AcquireGraph(t) \/ TestSlow(t) \/ StepSlow(t) \/ StepFast(t)
    \/ StepFastAgain(t) \/ Commit(t) \/ Reject(t) \/ Report(t) \/ MoveSource(t)

Next ==
    \E t \in Threads :
        \/ \E s \in Streams, x \in Targets : CallTie(t, s, x)
        \/ \E s \in Streams : CopyAssign(t, s)
        \/ \E s, other \in Streams : MoveAssign(t, s, other)
        \/ Step(t)

Spec == Init /\ [][Next]_vars

(* A thread that is inside tie() or a move keeps being scheduled.  Nothing *)
(* is assumed of who wins a contended mutex.                               *)
FairSpec == Spec /\ \A t \in Threads : WF_vars(Step(t))
-----------------------------------------------------------------------------
TypeOK ==
    /\ tieStream \in [Streams -> Targets]
    /\ graphLock \in Threads \cup {NoThread}
    /\ pc \in [Threads -> {"idle", "acquire", "test", "slow", "fast1", "fast2",
                           "commit", "reject", "report", "moved"}]
    /\ self \in [Threads -> Streams \cup {NoStream}]
    /\ \A t \in Threads : pc[t] # "idle" => self[t] \in Streams
    /\ str \in [Threads -> Targets]
    /\ slow \in [Threads -> Targets]
    /\ fast \in [Threads -> Targets]
    /\ strfail \subseteq Streams

(* A set of streams that no tie edge leaves: a flush that enters it never  *)
(* comes out.  In a finite graph there is one exactly when there is a      *)
(* cycle.                                                                  *)
Trap(S, edges) == S # {} /\ \A s \in S : edges[s] \in S

AcyclicEdges(edges) == \A S \in SUBSET Streams : ~Trap(S, edges)

(* The promise of tie(): "no cycle can form even under concurrent tie()",  *)
(* with copies and moves clearing edges at any point of a walk.            *)
Acyclic == AcyclicEdges(tieStream)

(* The edges once the pending call of t has stored its own. *)
Tied(t) == [tieStream EXCEPT ![self[t]] = str[t]]

(* "the second failure cannot happen": while the graph is acyclic the hare *)
(* never catches the tortoise, so every refusal is one where the chain     *)
(* really came back to the caller's stream, racing clears included.        *)
RefusedOnlyForSelf ==
    \A t \in Threads : pc[t] = "reject" => slow[t] = self[t]

(* No tie() call wedges the process: whoever holds the graph lock lets go  *)
(* of it, however the chain changes under the walk.                        *)
GraphLockReleased ==
    \A t \in Threads : graphLock = t ~> graphLock # t
=============================================================================
