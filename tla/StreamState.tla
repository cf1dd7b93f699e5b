---------------------------- MODULE StreamState ----------------------------
(***************************************************************************)
(* ios_state of io/io_base.h: the state bits of one stream, the exception  *)
(* mask, and the exception saved for each failure category.  Every public  *)
(* operation runs under the stream's io_mutex() and is one step here.  An  *)
(* operation may throw; the exception stays in flight in its thread until  *)
(* an enclosing handler of the library catches it and hands it to          *)
(* handle_exception() again, or the user does and drops it.                *)
(*                                                                         *)
(* An exception is a category and an identity; identity 0 is the default   *)
(* exception clear() makes up when the category has none saved.            *)
(***************************************************************************)
EXTENDS Naturals

CONSTANTS Threads,  (* threads that use the stream                          *)
          Ids,      (* identities that tell two failures apart              *)
          BitSets,  (* the arguments given to clear(), setstate(), exceptions() *)
          NoExc     (* a null exception_ptr                                 *)

FailBits == {"dev", "cvt", "str", "other"}
Bits == FailBits \cup {"eof"}
Exc == [cat : Bits, id : Ids \cup {0}]

ASSUME StateAssumption ==
    /\ Ids \subseteq Nat \ {0}
    /\ BitSets \subseteq SUBSET Bits
    /\ NoExc \notin Exc

VARIABLES
    bits,   (* m_stream_state                                               *)
    mask,   (* m_exception                                                  *)
    saved,  (* m_exp_dev_fail, m_exp_cvt_fail, m_exp_str_fail, m_exp_other_fail *)
    flying  (* the exception each thread has in flight                      *)

vars == <<bits, mask, saved, flying>>

(* The order in which clear() looks for a bit to report. *)
Rank == [dev |-> 1, cvt |-> 2, str |-> 3, other |-> 4, eof |-> 5]

First(S) == CHOOSE b \in S : \A c \in S : Rank[b] <= Rank[c]

(* What clear() throws for a category with no exception saved: the other   *)
(* category is reported as a stream_error.                                 *)
Default(b) == [cat |-> IF b = "other" THEN "str" ELSE b, id |-> 0]

(* operator bool *)
Usable == bits \subseteq {"eof"}

Init ==
    /\ bits = {}
    /\ mask = {}
    /\ saved = [c \in FailBits |-> NoExc]
    /\ flying = [t \in Threads |-> NoExc]
-----------------------------------------------------------------------------
(* clear<ignore>(s) when the saved exceptions are `before` and the mask is *)
(* `m`: what is left of them, and what is thrown.                          *)
KeptStale(s, before) == before  (* faulty: cleared bits keep their exception *)

Kept(s, before) == [c \in FailBits |-> IF c \in s THEN before[c] ELSE NoExc]

ThrownBy(s, before, m) ==
    IF m \cap s = {} THEN NoExc
    ELSE LET b == First(m \cap s)
         IN IF b \in FailBits /\ before[b] # NoExc THEN before[b] ELSE Default(b)

LeftBy(s, before, m) ==
    [c \in FailBits |-> IF m \cap s # {} /\ c = First(m \cap s)
                        THEN NoExc ELSE Kept(s, before)[c]]

(* clear<ignore>(s): bits, saved exceptions, and the throw in thread t. *)
ClearWith(t, s, before, m) ==
    /\ bits' = s
    /\ saved' = LeftBy(s, before, m)
    /\ flying' = [flying EXCEPT ![t] = ThrownBy(s, before, m)]

(* The exceptions saved once handle_exception() has classified ex: the     *)
(* first one of a category stays.                                          *)
SavingLast(ex, before) ==  (* faulty: the latest failure wins *)
    IF ex.cat = "eof" THEN before ELSE [before EXCEPT ![ex.cat] = ex]

Saving(ex, before) ==
    IF ex.cat = "eof" \/ before[ex.cat] # NoExc THEN before
    ELSE [before EXCEPT ![ex.cat] = ex]

(* handle_exception(ex, at_eof) under the mask m ({}: the mask is ignored). *)
HandleWith(t, ex, atEof, m) ==
    ClearWith(t, bits \cup {ex.cat} \cup (IF atEof THEN {"eof"} ELSE {}),
              Saving(ex, saved), m)
-----------------------------------------------------------------------------
Idle(t) == flying[t] = NoExc

(* clear(s), the public operation. *)
Clear(t, s) ==
    /\ Idle(t)
    /\ ClearWith(t, s, saved, mask)
    /\ UNCHANGED mask

(* setstate(s) *)
SetState(t, s) ==
    /\ Idle(t)
    /\ ClearWith(t, bits \cup s, saved, mask)
    /\ UNCHANGED mask

(* unset_state(s), which seek(), rseek(), unget and putback start with. *)
UnsetState(t, s) ==
    /\ Idle(t)
    /\ ClearWith(t, bits \ s, saved, mask)
    /\ UNCHANGED mask

(* exceptions(e): a bit that is already set fires at once. *)
Exceptions(t, e) ==
    /\ Idle(t)
    /\ mask' = e
    /\ ClearWith(t, bits, saved, e)

(* The catch block of an operation whose body failed with ex. *)
Fail(t, ex, atEof) ==
    /\ Idle(t)
    /\ HandleWith(t, ex, atEof, mask)
    /\ UNCHANGED mask

(* The same while another exception of the thread is propagating (in a     *)
(* destructor), and the mask-ignoring form: the bit is only recorded.  The *)
(* exception that propagates is not one of this stream's.                  *)
FailUnwinding(t, ex, atEof) ==
    /\ Idle(t)
    /\ HandleWith(t, ex, atEof, {})
    /\ UNCHANGED mask

(* What escaped reaches an enclosing catch of the library, which hands it  *)
(* to handle_exception() in its turn.                                      *)
Rehandle(t) ==
    /\ ~Idle(t)
    /\ HandleWith(t, flying[t], FALSE, mask)
    /\ UNCHANGED mask

AbsorbMasked(t) ==  (* faulty: the form that honours the mask *)
    /\ ~Idle(t)
    /\ HandleWith(t, flying[t], FALSE, mask)
    /\ UNCHANGED mask

(* It reaches an enclosing catch of try_flush() instead: handle_exception  *)
(* <true>, and nothing propagates any further.                             *)
Absorb(t) ==
    /\ ~Idle(t)
    /\ HandleWith(t, flying[t], FALSE, {})
    /\ UNCHANGED mask

(* The user catches it. *)
Catch(t) ==
    /\ ~Idle(t)
    /\ flying' = [flying EXCEPT ![t] = NoExc]
    /\ UNCHANGED <<bits, mask, saved>>

Failures == [cat : Bits, id : Ids]

Next ==
    \E t \in Threads :
        \/ \E s \in BitSets : Clear(t, s) \/ SetState(t, s) \/ Exceptions(t, s)
        \/ UnsetState(t, {"eof"})
        \/ \E ex \in Failures, atEof \in BOOLEAN :
              Fail(t, ex, atEof) \/ FailUnwinding(t, ex, atEof)
        \/ Rehandle(t) \/ Absorb(t) \/ Catch(t)

Spec == Init /\ [][Next]_vars
-----------------------------------------------------------------------------
TypeOK ==
    /\ bits \in SUBSET Bits
    /\ mask \in SUBSET Bits
    /\ saved \in [FailBits -> Exc \cup {NoExc}]
    /\ flying \in [Threads -> Exc \cup {NoExc}]

(* "State bits consistent with exception pointers": an exception is saved  *)
(* only under a failure bit that is set, and only one of that category, so *)
(* what clear() rethrows is never stale and never of the wrong kind.       *)
SavedMatchesBits ==
    \A c \in FailBits : saved[c] # NoExc => c \in bits /\ saved[c].cat = c

(* "The exception that yielded is not lost": a saved exception goes away   *)
(* only by being thrown or by its bit being cleared, and no later failure  *)
(* of the category takes the place of the first.                           *)
KeptOrThrown ==
    \A c \in FailBits :
        saved[c] # NoExc =>
           \/ saved'[c] = saved[c]
           \/ saved'[c] = NoExc /\ c \notin bits'
           \/ saved'[c] = NoExc /\ \E t \in Threads : flying'[t] = saved[c]

FirstFailureKept == [][KeptOrThrown]_vars

(* A failure that lands on a tie target leaves an exception object behind  *)
(* even for a user who masked the bit: inner handler, then try_flush's.    *)
AbsorbedIsRecorded ==
    [][\A t \in Threads :
          Absorb(t) /\ flying[t].cat # "eof" => saved'[flying[t].cat] # NoExc]_vars

(* Handling ex, then handling at an enclosing catch what that threw, leaves *)
(* the state and throws what handling ex once does.                         *)
NestedSameAsOnce(ex) ==
    LET once   == bits \cup {ex.cat}
        thrown == ThrownBy(once, Saving(ex, saved), mask)
        left   == LeftBy(once, Saving(ex, saved), mask)
    IN thrown # NoExc =>
          /\ thrown.cat \in once
          /\ ThrownBy(once, Saving(thrown, left), mask) = thrown
          /\ LeftBy(once, Saving(thrown, left), mask) = left

(* The note on handle_exception(): "repeat calls arise at nested handling  *)
(* points, where an inner handler rethrows on account of the mask", with   *)
(* "the same observable effect as calling it once".                        *)
NestedHandlingIdempotent == \A ex \in Failures : NestedSameAsOnce(ex)
=============================================================================
