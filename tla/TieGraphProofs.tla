--------------------------- MODULE TieGraphProofs ---------------------------
(***************************************************************************)
(* The tie graph stays acyclic for any number of streams and threads.      *)
(*                                                                         *)
(* The argument.  Say that a set of streams would be a trap once t's edge  *)
(* is stored.  Such a set holds self[t], hence str[t], hence (following    *)
(* the edges) every node the tortoise visits: while the walk goes on, the  *)
(* tortoise is inside every such set.  Edges other threads clear during    *)
(* the walk can only make such sets fewer.  When the tortoise runs off the *)
(* chain it is at NoStream, which is in no set of streams, so there is no  *)
(* such set and the edge may be stored.                                    *)
(*                                                                         *)
(* The hare matters to refusals only.  While a walk goes on there is a     *)
(* graph G, the one in which the edges cleared under the walk still stand, *)
(* where the hare is ahead of the tortoise on a chain that does not come   *)
(* back (HareAhead); so it never meets it.                                 *)
(***************************************************************************)
EXTENDS TieGraph, TLAPS

Walking == {"test", "slow", "fast1", "fast2"}

(* Whoever is inside the critical section holds the graph lock. *)
LockInv ==
    \A t \in Threads :
        pc[t] \in Walking \cup {"commit", "reject"} => graphLock = t

(* The tortoise is in every set that t's edge would turn into a trap. *)
WalkInv ==
    \A t \in Threads : pc[t] \in Walking =>
        \A S \in SUBSET Streams : self[t] \in S /\ Trap(S, Tied(t)) => slow[t] \in S

(* It is past the test that it is not at self. *)
AdvanceInv == \A t \in Threads : pc[t] = "slow" => slow[t] # self[t]

(* A walk that accepted leaves no set that t's edge would turn into one. *)
CommitInv ==
    \A t \in Threads : pc[t] = "commit" =>
        \A S \in SUBSET Streams : self[t] \in S => ~Trap(S, Tied(t))

IInv == TypeOK /\ Acyclic /\ LockInv /\ WalkInv /\ AdvanceInv /\ CommitInv
-----------------------------------------------------------------------------
(* Clearing edges creates no trap. *)
LEMMA ClearingIsSafe ==
    ASSUME NEW S \in SUBSET Streams, NEW before, NEW after,
           \A s \in Streams : after[s] = before[s] \/ after[s] = NoStream,
           Trap(S, after)
    PROVE  Trap(S, before)
BY TieAssumption DEF Trap, Streams

(* A pure input stream is nobody's target, so its edge closes no cycle. *)
LEMMA InputEdgeIsSafe ==
    ASSUME TypeOK, Acyclic, NEW t \in Threads,
           self[t] \in Streams \ Outs,
           NEW S \in SUBSET Streams, self[t] \in S
    PROVE  ~Trap(S, Tied(t))
<1> SUFFICES ASSUME Trap(S, Tied(t)) PROVE FALSE
  OBVIOUS
<1> DEFINE R == S \ {self[t]}
<1>1. str[t] \in R
  BY TieAssumption DEF Trap, Tied, TypeOK, Targets, Streams
<1>2. ASSUME NEW s \in R PROVE tieStream[s] \in R
  <2>1. Tied(t)[s] = tieStream[s]
    BY <1>2 DEF Tied, TypeOK
  <2>2. tieStream[s] \in S /\ tieStream[s] \in Targets
    BY <1>2, <2>1 DEF Trap, TypeOK
  <2>3. tieStream[s] # self[t]
    BY <2>2, TieAssumption DEF Targets, Streams
  <2> QED BY <2>2, <2>3
<1>3. Trap(R, tieStream)
  BY <1>1, <1>2 DEF Trap
<1>4. R \in SUBSET Streams
  OBVIOUS
<1> QED BY <1>3, <1>4 DEF Acyclic, AcyclicEdges

(* A trap that avoids self was one before t's edge was stored. *)
LEMMA TrapWithoutSelf ==
    ASSUME TypeOK, NEW t \in Threads, NEW S \in SUBSET Streams,
           self[t] \notin S, Trap(S, Tied(t))
    PROVE  Trap(S, tieStream)
BY DEF Trap, Tied, TypeOK
-----------------------------------------------------------------------------
LEMMA InitInv == Init => IInv
BY TieAssumption DEF Init, IInv, TypeOK, Acyclic, AcyclicEdges, Trap, LockInv,
   WalkInv, AdvanceInv, CommitInv, Walking, Targets, Streams

(* A step that only clears edges, outside the critical section, keeps what *)
(* the walks of the other threads rely on.                                 *)
LEMMA ClearStep ==
    ASSUME IInv, TypeOK', NEW t \in Threads,
           \A s \in Streams : tieStream'[s] = tieStream[s] \/ tieStream'[s] = NoStream,
           graphLock' = graphLock,
           pc[t] \notin Walking \cup {"commit", "reject"},
           pc'[t] \notin Walking \cup {"commit", "reject"},
           \A u \in Threads \ {t} :
              /\ pc'[u] = pc[u] /\ self'[u] = self[u]
              /\ str'[u] = str[u] /\ slow'[u] = slow[u]
    PROVE  IInv'
<1>1. Acyclic'
  BY ClearingIsSafe DEF IInv, Acyclic, AcyclicEdges
<1>2. LockInv'
  BY DEF IInv, LockInv
<1>3. ASSUME NEW u \in Threads \ {t}, NEW S \in SUBSET Streams, pc[u] # "idle",
             Trap(S, Tied(u)')
      PROVE  Trap(S, Tied(u))
  <2>1. \A s \in Streams : Tied(u)'[s] = Tied(u)[s] \/ Tied(u)'[s] = NoStream
    BY <1>3 DEF IInv, TypeOK, Tied
  <2> QED BY <1>3, <2>1, ClearingIsSafe
<1>4. WalkInv'
  BY <1>3 DEF IInv, WalkInv, Walking
<1>5. AdvanceInv'
  BY DEF IInv, AdvanceInv, Walking
<1>6. CommitInv'
  BY <1>3 DEF IInv, CommitInv
<1> QED BY <1>1, <1>2, <1>4, <1>5, <1>6 DEF IInv
-----------------------------------------------------------------------------
(* A step of t inside tie() that leaves the graph alone concerns t only.   *)
LEMMA WalkStep ==
    ASSUME IInv, TypeOK', NEW t \in Threads,
           tieStream' = tieStream,
           graphLock' \in {graphLock, t} \/ graphLock = t,
           graphLock # graphLock' => graphLock \in {t, NoThread},
           \A u \in Threads \ {t} :
              /\ pc'[u] = pc[u] /\ self'[u] = self[u]
              /\ str'[u] = str[u] /\ slow'[u] = slow[u],
           pc'[t] \in Walking \cup {"commit", "reject"} => graphLock' = t,
           pc'[t] \in Walking =>
              \A S \in SUBSET Streams :
                 self'[t] \in S /\ Trap(S, Tied(t)') => slow'[t] \in S,
           pc'[t] = "slow" => slow'[t] # self'[t],
           pc'[t] = "commit" =>
              \A S \in SUBSET Streams : self'[t] \in S => ~Trap(S, Tied(t)')
    PROVE  IInv'
<1>1. Acyclic'
  BY DEF IInv, Acyclic
<1>2. LockInv'
  BY TieAssumption DEF IInv, LockInv
<1>3. ASSUME NEW u \in Threads \ {t} PROVE Tied(u)' = Tied(u)
  BY DEF Tied
<1>4. WalkInv'
  BY <1>3 DEF IInv, WalkInv
<1>5. AdvanceInv'
  BY DEF IInv, AdvanceInv
<1>6. CommitInv'
  BY <1>3 DEF IInv, CommitInv
<1> QED BY <1>1, <1>2, <1>4, <1>5, <1>6 DEF IInv

LEMMA TypeStep == TypeOK /\ [Next]_vars => TypeOK'
<1> SUFFICES ASSUME TypeOK, [Next]_vars PROVE TypeOK'
  OBVIOUS
<1> USE TieAssumption DEF TypeOK, Targets, Streams, Goto, Return, locals
<1>1. ASSUME NEW t \in Threads, NEW s \in Streams, NEW x \in Targets, CallTie(t, s, x)
      PROVE  TypeOK'
  BY <1>1 DEF CallTie
<1>2. ASSUME NEW t \in Threads, NEW s \in Streams, CopyAssign(t, s)
      PROVE  TypeOK'
  BY <1>2 DEF CopyAssign
<1>3. ASSUME NEW t \in Threads, NEW s \in Streams, NEW other \in Streams,
             MoveAssign(t, s, other)
      PROVE  TypeOK'
  BY <1>3 DEF MoveAssign
<1>4. ASSUME NEW t \in Threads, Step(t) PROVE TypeOK'
  <2>1. CASE AcquireGraph(t)  BY <2>1 DEF AcquireGraph
  <2>2. CASE TestSlow(t)      BY <2>2 DEF TestSlow
  <2>3. CASE StepSlow(t)      BY <2>3 DEF StepSlow, TiedTo
  <2>4. CASE StepFast(t)      BY <2>4 DEF StepFast, TiedTo
  <2>5. CASE StepFastAgain(t) BY <2>5 DEF StepFastAgain, TiedTo
  <2>6. CASE Commit(t)        BY <2>6 DEF Commit
  <2>7. CASE Reject(t)        BY <2>7 DEF Reject
  <2>8. CASE Report(t)        BY <2>8 DEF Report
  <2>9. CASE MoveSource(t)    BY <2>9 DEF MoveSource
  <2> QED BY <1>4, <2>1, <2>2, <2>3, <2>4, <2>5, <2>6, <2>7, <2>8, <2>9 DEF Step
<1>5. CASE UNCHANGED vars
  BY <1>5 DEF vars
<1> QED BY <1>1, <1>2, <1>3, <1>4, <1>5 DEF Next

LEMMA InvStep == IInv /\ [Next]_vars => IInv'
<1> SUFFICES ASSUME IInv, [Next]_vars PROVE IInv'
  OBVIOUS
<1>0. TypeOK /\ TypeOK'
  BY TypeStep DEF IInv
<1>1. ASSUME NEW t \in Threads, NEW s \in Streams, NEW x \in Targets, CallTie(t, s, x)
      PROVE  IInv'
  BY <1>0, <1>1, WalkStep DEF CallTie, Goto, TypeOK, Walking
<1>2. ASSUME NEW t \in Threads, NEW s \in Streams, CopyAssign(t, s)
      PROVE  IInv'
  BY <1>0, <1>2, ClearStep DEF CopyAssign, locals, TypeOK, Walking
<1>3. ASSUME NEW t \in Threads, NEW s \in Streams, NEW other \in Streams,
             MoveAssign(t, s, other)
      PROVE  IInv'
  BY <1>0, <1>3, ClearStep DEF MoveAssign, Goto, TypeOK, Walking
<1>4. ASSUME NEW t \in Threads, Step(t) PROVE IInv'
  <2>1. CASE AcquireGraph(t)
    <3>1. CASE self[t] \in Outs
      <4>1. \A S \in SUBSET Streams : self[t] \in S /\ Trap(S, Tied(t)) => str[t] \in S
        BY <1>0, <2>1 DEF Trap, Tied, TypeOK, AcquireGraph
      <4>2. Tied(t)' = Tied(t) /\ self'[t] = self[t] /\ slow'[t] = str[t]
        BY <1>0, <2>1 DEF Tied, TypeOK, AcquireGraph
      <4> QED
        BY <1>0, <2>1, <3>1, <4>1, <4>2, WalkStep DEF AcquireGraph, Goto, TypeOK, Walking
    <3>2. CASE self[t] \notin Outs
      <4>1. \A S \in SUBSET Streams : self[t] \in S => ~Trap(S, Tied(t))
        BY <1>0, <2>1, <3>2, InputEdgeIsSafe DEF IInv, TypeOK, AcquireGraph
      <4>2. Tied(t)' = Tied(t) /\ self'[t] = self[t]
        BY <1>0, <2>1 DEF Tied, TypeOK, AcquireGraph
      <4> QED
        BY <1>0, <2>1, <3>2, <4>1, <4>2, WalkStep DEF AcquireGraph, Goto, TypeOK, Walking
    <3> QED BY <3>1, <3>2
  <2>2. CASE TestSlow(t)
    <3>1. Tied(t)' = Tied(t) /\ self'[t] = self[t] /\ slow'[t] = slow[t] /\ graphLock = t
      BY <2>2 DEF Tied, TestSlow, locals, IInv, LockInv, Walking
    <3>2. slow[t] = NoStream =>
             \A S \in SUBSET Streams : self[t] \in S => ~Trap(S, Tied(t))
      BY <2>2, TieAssumption DEF IInv, WalkInv, Walking, TestSlow, Streams
    <3> QED
      BY <1>0, <2>2, <3>1, <3>2, WalkStep
      DEF TestSlow, Goto, locals, TypeOK, Walking, IInv, WalkInv
  <2>3. CASE StepSlow(t)
    <3>1. Tied(t)' = Tied(t) /\ self'[t] = self[t] /\ slow'[t] = TiedTo(slow[t]) /\ graphLock = t
      BY <1>0, <2>3 DEF Tied, TypeOK, StepSlow, IInv, LockInv, Walking
    <3>2. ASSUME NEW S \in SUBSET Streams, self[t] \in S, Trap(S, Tied(t))
          PROVE  TiedTo(slow[t]) \in S
      <4>1. slow[t] \in S /\ slow[t] # self[t]
        BY <2>3, <3>2 DEF IInv, WalkInv, AdvanceInv, Walking, StepSlow
      <4>2. Tied(t)[slow[t]] = tieStream[slow[t]]
        BY <1>0, <4>1 DEF Tied, TypeOK
      <4> QED BY <3>2, <4>1, <4>2, TieAssumption DEF Trap, TiedTo, Streams
    <3> QED
      BY <1>0, <2>3, <3>1, <3>2, WalkStep DEF StepSlow, Goto, TypeOK, Walking
  <2>4. CASE StepFast(t)
    <3>1. Tied(t)' = Tied(t) /\ self'[t] = self[t] /\ slow'[t] = slow[t] /\ graphLock = t
      BY <2>4 DEF Tied, StepFast, IInv, LockInv, Walking
    <3> QED
      BY <1>0, <2>4, <3>1, WalkStep DEF StepFast, Goto, TypeOK, Walking, IInv, WalkInv
  <2>5. CASE StepFastAgain(t)
    <3>1. Tied(t)' = Tied(t) /\ self'[t] = self[t] /\ slow'[t] = slow[t] /\ graphLock = t
      BY <2>5 DEF Tied, StepFastAgain, IInv, LockInv, Walking
    <3> QED
      BY <1>0, <2>5, <3>1, WalkStep DEF StepFastAgain, Goto, TypeOK, Walking, IInv, WalkInv
  <2>6. CASE Commit(t)
    <3>1. tieStream' = Tied(t) /\ graphLock = t /\ self[t] \in Streams
      BY <1>0, <2>6 DEF Commit, Tied, IInv, LockInv, TypeOK
    <3>2. Acyclic'
      <4> SUFFICES ASSUME NEW S \in SUBSET Streams, Trap(S, Tied(t)) PROVE FALSE
        BY <3>1 DEF Acyclic, AcyclicEdges
      <4>1. CASE self[t] \in S
        BY <2>6, <4>1 DEF Commit, IInv, CommitInv
      <4>2. CASE self[t] \notin S
        BY <1>0, <4>2, TrapWithoutSelf DEF IInv, Acyclic, AcyclicEdges
      <4> QED BY <4>1, <4>2
    <3>3. \A u \in Threads : pc'[u] \notin Walking \cup {"commit", "reject"}
      BY <1>0, <2>6, <3>1 DEF Commit, Return, Goto, TypeOK, IInv, LockInv, Walking
    <3> QED
      BY <1>0, <3>2, <3>3
      DEF IInv, LockInv, WalkInv, AdvanceInv, CommitInv, Walking
  <2>7. CASE Reject(t)
    <3>1. graphLock = t
      BY <2>7 DEF Reject, IInv, LockInv
    <3> QED BY <1>0, <2>7, <3>1, WalkStep DEF Reject, Goto, locals, TypeOK, Walking
  <2>8. CASE Report(t)
    BY <1>0, <2>8, WalkStep DEF Report, Return, Goto, TypeOK, Walking
  <2>9. CASE MoveSource(t)
    BY <1>0, <2>9, ClearStep DEF MoveSource, Return, Goto, TypeOK, Walking
  <2> QED BY <1>4, <2>1, <2>2, <2>3, <2>4, <2>5, <2>6, <2>7, <2>8, <2>9 DEF Step
<1>5. CASE UNCHANGED vars
  BY <1>5 DEF vars, IInv, TypeOK, Acyclic, LockInv, WalkInv, AdvanceInv, CommitInv, Tied
<1> QED BY <1>1, <1>2, <1>3, <1>4, <1>5 DEF Next

(* Every reachable state is well typed. *)
THEOREM TypeCorrect == Spec => []TypeOK
<1>1. Init => TypeOK
  BY InitInv DEF IInv
<1>2. TypeOK /\ [Next]_vars => TypeOK'
  BY TypeStep
<1> QED BY <1>1, <1>2, PTL DEF Spec

(* The promise of tie(): whatever calls, copies and moves run concurrently, *)
(* the tie graph has no cycle, in every state and for every set of streams. *)
THEOREM TieGraphAcyclic == Spec => []Acyclic
<1>1. Init => IInv
  BY InitInv
<1>2. IInv /\ [Next]_vars => IInv'
  BY InvStep
<1>3. IInv => Acyclic
  BY DEF IInv
<1> QED BY <1>1, <1>2, <1>3, PTL DEF Spec
-----------------------------------------------------------------------------
(* The hare is never caught.  The edges that are there during a walk are   *)
(* among those there were when it took the graph lock, an acyclic graph G: *)
(* in it, the hare is where the tortoise still has to go, though the edges *)
(* between them may be cleared meanwhile.                                  *)
Closed(S, G) == \A s \in S : G[s] \in S \cup {NoStream}

Reaches(G, x, y) == \A S \in SUBSET Streams : x \in S /\ Closed(S, G) => y \in S

Follows(G, x, y) == x = NoStream \/ y = NoStream \/ Reaches(G, x, y)

HoldsAll(G) ==
    /\ G \in [Streams -> Targets] /\ AcyclicEdges(G)
    /\ \A s \in Streams : tieStream[s] \in {G[s], NoStream}

HareAhead(t, G) ==
    /\ HoldsAll(G)
    /\ pc[t] \in {"test", "slow", "fast2"} => Follows(G, slow[t], fast[t])
    /\ pc[t] = "fast1" => fast[t] = NoStream \/ Follows(G, slow[t], G[fast[t]])

AheadInv ==
    \A t \in Threads : pc[t] \in Walking =>
        \E G \in [Streams -> Targets] : HareAhead(t, G)

RefusalInv == IInv /\ AheadInv /\ RefusedOnlyForSelf
-----------------------------------------------------------------------------
(* What is reached from x is x or is reached from the next of x. *)
LEMMA ReachesNext ==
    ASSUME NEW G, NEW x \in Streams, NEW y, Reaches(G, x, y), y # x,
           G[x] \in Streams
    PROVE  Reaches(G, G[x], y)
<1> SUFFICES ASSUME NEW S \in SUBSET Streams, G[x] \in S, Closed(S, G) PROVE y \in S
  BY DEF Reaches
<1>1. Closed(S \cup {x}, G) /\ S \cup {x} \in SUBSET Streams
  BY DEF Closed
<1> QED BY <1>1 DEF Reaches

(* The next of what is reached is reached, and by the next of x too. *)
LEMMA ReachesOn ==
    ASSUME NEW G, NEW x, NEW y, Reaches(G, x, y), G[y] # NoStream
    PROVE  Reaches(G, x, G[y])
BY DEF Reaches, Closed

(* In an acyclic graph nothing is reached from its own next. *)
LEMMA NoWayBack ==
    ASSUME NEW G, AcyclicEdges(G), NEW x \in Streams, NEW y \in Streams, Reaches(G, x, y),
           \A s \in Streams : G[s] \in Targets
    PROVE  G[y] # x
<1> SUFFICES ASSUME G[y] = x PROVE FALSE
  OBVIOUS
<1> DEFINE S == {z \in Streams : Reaches(G, x, z) /\ Reaches(G, z, y)}
<1>1. ASSUME NEW z \in S PROVE G[z] \in S
  <2>1. CASE z = y
    <3>1. Reaches(G, x, x)
      BY DEF Reaches
    <3> QED BY <2>1, <3>1
  <2>2. CASE z # y
    <3>1. G[z] # NoStream
      <4> SUFFICES ASSUME G[z] = NoStream PROVE FALSE
        OBVIOUS
      <4>1. Closed({z}, G)
        BY DEF Closed
      <4> QED BY <2>2, <4>1 DEF Reaches
    <3>2. Reaches(G, x, G[z])
      BY <3>1, ReachesOn
    <3>3. G[z] \in Streams
      BY <3>1 DEF Targets, Streams
    <3>4. Reaches(G, G[z], y)
      BY <2>2, <3>3, ReachesNext
    <3> QED BY <3>2, <3>3, <3>4
  <2> QED BY <2>1, <2>2
<1>2. x \in S
  BY DEF Reaches
<1>3. Trap(S, G)
  BY <1>1, <1>2 DEF Trap
<1> QED BY <1>3 DEF AcyclicEdges
-----------------------------------------------------------------------------
LEMMA RefusalInit == Init => RefusalInv
BY InitInv DEF Init, RefusalInv, AheadInv, RefusedOnlyForSelf, Walking

(* What another thread does leaves a walk's graph as it was. *)
LEMMA OthersStayAhead ==
    ASSUME RefusalInv, NEW t \in Threads,
           \A s \in Streams : tieStream'[s] = tieStream[s] \/ tieStream'[s] = NoStream,
           \A u \in Threads \ {t} :
              /\ pc'[u] = pc[u] /\ self'[u] = self[u]
              /\ slow'[u] = slow[u] /\ fast'[u] = fast[u],
           pc'[t] \in Walking => \E G \in [Streams -> Targets] : HareAhead(t, G)',
           pc'[t] = "reject" => slow'[t] = self'[t]
    PROVE  AheadInv' /\ RefusedOnlyForSelf'
<1>1. ASSUME NEW u \in Threads \ {t}, NEW G, HareAhead(u, G) PROVE HareAhead(u, G)'
  BY <1>1 DEF HareAhead, HoldsAll
<1>2. AheadInv'
  BY <1>1 DEF RefusalInv, AheadInv
<1>3. RefusedOnlyForSelf'
  BY DEF RefusalInv, RefusedOnlyForSelf
<1> QED BY <1>2, <1>3

LEMMA RefusalStep == RefusalInv /\ [Next]_vars => RefusalInv'
<1> SUFFICES ASSUME RefusalInv, [Next]_vars PROVE AheadInv' /\ RefusedOnlyForSelf'
  BY InvStep DEF RefusalInv
<1>0. TypeOK /\ IInv /\ TypeOK'
  BY TypeStep DEF RefusalInv, IInv
<1>1. ASSUME NEW t \in Threads, NEW s \in Streams, NEW x \in Targets, CallTie(t, s, x)
      PROVE  AheadInv' /\ RefusedOnlyForSelf'
  BY <1>0, <1>1, OthersStayAhead DEF CallTie, Goto, TypeOK, Walking
<1>2. ASSUME NEW t \in Threads, NEW s \in Streams, CopyAssign(t, s)
      PROVE  AheadInv' /\ RefusedOnlyForSelf'
  BY <1>0, <1>2, OthersStayAhead DEF CopyAssign, locals, TypeOK, Walking
<1>3. ASSUME NEW t \in Threads, NEW s \in Streams, NEW other \in Streams,
             MoveAssign(t, s, other)
      PROVE  AheadInv' /\ RefusedOnlyForSelf'
  BY <1>0, <1>3, OthersStayAhead DEF MoveAssign, Goto, TypeOK, Walking
<1>4. ASSUME NEW t \in Threads, Step(t) PROVE AheadInv' /\ RefusedOnlyForSelf'
  <2>1. CASE AcquireGraph(t)
    <3>1. HareAhead(t, tieStream)'
      <4>1. HoldsAll(tieStream)'
        BY <1>0, <2>1 DEF HoldsAll, AcquireGraph, TypeOK, IInv, Acyclic, AcyclicEdges, Trap
      <4>2. slow'[t] = fast'[t] /\ pc'[t] \notin {"fast1"}
        BY <1>0, <2>1 DEF AcquireGraph, Goto, TypeOK
      <4> QED BY <4>1, <4>2 DEF HareAhead, Follows, Reaches
    <3>2. tieStream' \in [Streams -> Targets]
      BY <1>0 DEF TypeOK
    <3>3. pc'[t] # "reject" /\ \A u \in Threads \ {t} :
              /\ pc'[u] = pc[u] /\ self'[u] = self[u]
              /\ slow'[u] = slow[u] /\ fast'[u] = fast[u]
      BY <1>0, <2>1 DEF AcquireGraph, Goto, TypeOK
    <3> QED BY <1>0, <2>1, <3>1, <3>2, <3>3, OthersStayAhead DEF AcquireGraph
  <2>2. CASE TestSlow(t)
    <3>1. PICK G \in [Streams -> Targets] : HareAhead(t, G)
      BY <2>2 DEF RefusalInv, AheadInv, Walking, TestSlow
    <3>2. pc'[t] \in Walking => HareAhead(t, G)'
      BY <1>0, <2>2, <3>1 DEF HareAhead, HoldsAll, TestSlow, Goto, locals, TypeOK, Walking
    <3> QED BY <1>0, <2>2, <3>2, OthersStayAhead DEF TestSlow, Goto, locals, TypeOK
  <2>3. CASE StepSlow(t)
    <3>1. PICK G \in [Streams -> Targets] : HareAhead(t, G)
      BY <2>3 DEF RefusalInv, AheadInv, Walking, StepSlow
    <3>2. /\ slow'[t] = TiedTo(slow[t]) /\ fast'[t] = fast[t] /\ tieStream' = tieStream
          /\ pc'[t] = "fast1" /\ pc[t] = "slow"
      BY <1>0, <2>3 DEF StepSlow, Goto, TypeOK
    <3>3. ASSUME fast[t] # NoStream, slow'[t] # NoStream, G[fast[t]] # NoStream
          PROVE  Reaches(G, slow'[t], G[fast[t]])
      <4>1. slow[t] \in Streams /\ slow'[t] = G[slow[t]] /\ slow'[t] \in Streams
        BY <1>0, <3>1, <3>2, <3>3 DEF TiedTo, HareAhead, HoldsAll, TypeOK, Targets, Streams
      <4>2. Reaches(G, slow[t], fast[t])
        BY <3>1, <3>2, <3>3, <4>1, TieAssumption DEF HareAhead, Follows, Streams
      <4>3. CASE fast[t] = slow[t]
        BY <4>1, <4>3 DEF Reaches
      <4>4. CASE fast[t] # slow[t]
        <5>1. Reaches(G, slow'[t], fast[t])
          BY <4>1, <4>2, <4>4, ReachesNext
        <5> QED BY <3>3, <5>1, ReachesOn
      <4> QED BY <4>3, <4>4
    <3>4. HareAhead(t, G)'
      BY <3>1, <3>2, <3>3 DEF HareAhead, HoldsAll, Follows
    <3>5. \A u \in Threads \ {t} :
              /\ pc'[u] = pc[u] /\ self'[u] = self[u]
              /\ slow'[u] = slow[u] /\ fast'[u] = fast[u]
      BY <1>0, <2>3 DEF StepSlow, Goto, TypeOK
    <3> QED BY <3>2, <3>4, <3>5, OthersStayAhead
  <2>4. CASE StepFast(t)
    <3>1. PICK G \in [Streams -> Targets] : HareAhead(t, G)
      BY <2>4 DEF RefusalInv, AheadInv, Walking, StepFast
    <3>2. /\ fast'[t] = TiedTo(fast[t]) /\ slow'[t] = slow[t] /\ tieStream' = tieStream
          /\ pc'[t] = "fast2" /\ pc[t] = "fast1"
      BY <1>0, <2>4 DEF StepFast, Goto, TypeOK
    <3>3. fast'[t] = NoStream \/ (fast[t] # NoStream /\ fast'[t] = G[fast[t]])
      BY <1>0, <3>1, <3>2 DEF TiedTo, HareAhead, HoldsAll, TypeOK, Targets, Streams
    <3>4. HareAhead(t, G)'
      BY <3>1, <3>2, <3>3 DEF HareAhead, HoldsAll, Follows
    <3>5. \A u \in Threads \ {t} :
              /\ pc'[u] = pc[u] /\ self'[u] = self[u]
              /\ slow'[u] = slow[u] /\ fast'[u] = fast[u]
      BY <1>0, <2>4 DEF StepFast, Goto, TypeOK
    <3> QED BY <3>2, <3>4, <3>5, OthersStayAhead
  <2>5. CASE StepFastAgain(t)
    <3>1. PICK G \in [Streams -> Targets] : HareAhead(t, G)
      BY <2>5 DEF RefusalInv, AheadInv, Walking, StepFastAgain
    <3>2. /\ fast'[t] = TiedTo(fast[t]) /\ slow'[t] = slow[t] /\ tieStream' = tieStream
          /\ pc[t] = "fast2"
          /\ pc'[t] = IF fast'[t] # NoStream /\ fast'[t] = slow[t] THEN "reject" ELSE "test"
      BY <1>0, <2>5 DEF StepFastAgain, Goto, TypeOK
    <3>3. fast'[t] = NoStream
          \/ (fast[t] \in Streams /\ fast'[t] = G[fast[t]] /\ fast'[t] \in Streams)
      BY <1>0, <3>1, <3>2 DEF TiedTo, HareAhead, HoldsAll, TypeOK, Targets, Streams
    <3>4. ASSUME fast'[t] # NoStream, slow[t] # NoStream
          PROVE  Reaches(G, slow[t], fast'[t]) /\ fast'[t] # slow[t]
      <4>1. slow[t] \in Streams /\ fast[t] \in Streams /\ fast'[t] = G[fast[t]]
        BY <1>0, <3>3, <3>4 DEF TypeOK, Targets, Streams
      <4>2. Reaches(G, slow[t], fast[t])
        BY <3>1, <3>2, <3>4, <4>1, TieAssumption DEF HareAhead, Follows, Streams
      <4>3. G[fast[t]] # slow[t]
        BY <3>1, <4>1, <4>2, NoWayBack DEF HareAhead, HoldsAll
      <4> QED BY <3>4, <4>1, <4>2, <4>3, ReachesOn
    <3>5. pc'[t] = "test"
      BY <3>2, <3>4
    <3>6. HareAhead(t, G)'
      BY <3>1, <3>2, <3>4, <3>5 DEF HareAhead, HoldsAll, Follows
    <3>7. \A u \in Threads \ {t} :
              /\ pc'[u] = pc[u] /\ self'[u] = self[u]
              /\ slow'[u] = slow[u] /\ fast'[u] = fast[u]
      BY <1>0, <2>5 DEF StepFastAgain, Goto, TypeOK
    <3> QED BY <3>2, <3>5, <3>6, <3>7, OthersStayAhead
  <2>6. CASE Commit(t)
    <3>1. \A u \in Threads : pc'[u] \notin Walking \cup {"reject"}
      BY <1>0, <2>6 DEF Commit, Return, Goto, TypeOK, IInv, LockInv, Walking
    <3> QED BY <3>1 DEF AheadInv, RefusedOnlyForSelf, Walking
  <2>7. CASE Reject(t)
    BY <1>0, <2>7, OthersStayAhead DEF Reject, Goto, locals, TypeOK, Walking
  <2>8. CASE Report(t)
    BY <1>0, <2>8, OthersStayAhead DEF Report, Return, Goto, TypeOK, Walking
  <2>9. CASE MoveSource(t)
    BY <1>0, <2>9, OthersStayAhead DEF MoveSource, Return, Goto, TypeOK, Walking
  <2> QED BY <1>4, <2>1, <2>2, <2>3, <2>4, <2>5, <2>6, <2>7, <2>8, <2>9 DEF Step
<1>5. CASE UNCHANGED vars
  BY <1>5 DEF vars, RefusalInv, AheadInv, RefusedOnlyForSelf, HareAhead, HoldsAll
<1> QED BY <1>1, <1>2, <1>3, <1>4, <1>5 DEF Next

(* check_tie's second way out, a hare caught up with, is never taken: a     *)
(* refusal means that the chain came back to the caller's stream, however   *)
(* many streams there are and whatever is copied or moved during the walk.  *)
THEOREM RefusalsAreForSelf == Spec => []RefusedOnlyForSelf
<1>1. Init => RefusalInv
  BY RefusalInit
<1>2. RefusalInv /\ [Next]_vars => RefusalInv'
  BY RefusalStep
<1>3. RefusalInv => RefusedOnlyForSelf
  BY DEF RefusalInv
<1> QED BY <1>1, <1>2, <1>3, PTL DEF Spec
=============================================================================
