------------------------------- MODULE StdOut -------------------------------
(***************************************************************************)
(* A standard output stream (stdout_api of io/objects/out_impl.h with its  *)
(* out_sentry) that shares stdout with C stdio: insertions, printf() and   *)
(* sync_with_stdio() of several threads, and the exit of the process.      *)
(*                                                                         *)
(* A byte is in the stream's buffer, in stdio's buffer, or on the file     *)
(* descriptor.  Insertions do not call sync_with_stdio() on their own      *)
(* stream from within, and no state bit is in the exceptions() mask.       *)
(***************************************************************************)
EXTENDS Naturals, FiniteSets, Sequences, SequencesExt

CONSTANTS Threads,
          Nobody,   (* the owner of a free mutex                            *)
          Attempts, (* of try_flush(), to take the mutex                    *)
          BufLen,   (* bound: what the stream buffers                       *)
          MaxOps    (* bound: calls made by all threads                     *)

StdOutAssumption ==
    /\ Nobody \notin Threads
    /\ Attempts \in Nat \ {0} /\ BufLen \in Nat \ {0} /\ MaxOps \in Nat

VARIABLES
    buf,     (* m_channel's buffer, <<thread, number>> of each byte         *)
    stdio,   (* the bytes in stdio's buffer                                 *)
    fd,      (* the bytes written                                           *)
    synced,  (* m_sync_with_stdio                                           *)
    exited,  (* m_exited                                                    *)
    bad,     (* the stream is in a failed state                             *)
    owner,   (* who holds io_mutex()                                        *)
    pc,      (* where each thread is in its call                            *)
    sentry,  (* out_sentry::m_sync_with_stdio of its insertion              *)
    threw,   (* whether the body of the insertion going on threw            *)
    ops,     (* how many calls were made                                    *)
    phase,   (* how far the process has got with its exit                   *)
    tries,   (* how often the exit hook has tried to take the mutex         *)
    before,  (* what was in the buffer when its sync_with_stdio() began     *)
    late,    (* whether its insertion began after the exit hook             *)
    failed,  (* whether any write has failed                                *)
    gaveUp   (* whether the exit hook did not get the mutex                 *)

bytes == <<buf, stdio, fd>>
flags == <<synced, exited, bad>>
history == <<before, late, gaveUp, tries>>
vars == <<bytes, flags, owner, pc, sentry, threw, ops, phase, history, failed>>

Alive == phase # "dead"

Init ==
    /\ buf = <<>> /\ stdio = {} /\ fd = {}
    /\ synced = TRUE /\ exited = FALSE /\ bad = FALSE
    /\ owner = Nobody
    /\ pc = [t \in Threads |-> "idle"]
    /\ sentry = [t \in Threads |-> FALSE] /\ threw = FALSE
    /\ ops = 0 /\ phase = "running" /\ tries = 0
    /\ before = [t \in Threads |-> <<>>]
    /\ late = [t \in Threads |-> FALSE]
    /\ failed = FALSE /\ gaveUp = FALSE

Goto(t, label) == pc' = [pc EXCEPT ![t] = label]
Returns(t) == Goto(t, "idle") /\ owner' = Nobody

Calls(t) ==
    /\ Alive /\ pc[t] = "idle" /\ ops < MaxOps
    /\ ops' = ops + 1

Continues(t, label) == Alive /\ pc[t] = label /\ UNCHANGED ops

Fails(fails) == bad' = (bad \/ fails) /\ failed' = (failed \/ fails)
-----------------------------------------------------------------------------
(* channel.flush(): the buffer goes to stdio, or the first k bytes do.     *)
HandOver(fails) ==
    \E k \in 0..Len(buf) :
        /\ IF fails THEN k < Len(buf) ELSE k = Len(buf)
        /\ buf' = SubSeq(buf, k + 1, Len(buf))
        /\ stdio' = stdio \cup ToSet(SubSeq(buf, 1, k))
        /\ UNCHANGED fd

(* An insertion takes the mutex, ... *)
Insert(t) ==
    /\ Calls(t) /\ owner = Nobody
    /\ owner' = t
    /\ Goto(t, "sentry")
    /\ UNCHANGED <<bytes, flags, sentry, threw, phase, history, failed>>

(* ... its sentry refuses a failed stream or remembers the flag, ...       *)
Sentry(t) ==
    /\ Continues(t, "sentry")
    /\ IF bad THEN Returns(t) ELSE Goto(t, "body") /\ UNCHANGED owner
    /\ sentry' = [sentry EXCEPT ![t] = synced]
    /\ late' = [late EXCEPT ![t] = exited]
    /\ UNCHANGED <<bytes, flags, threw, phase, before, gaveUp, tries, failed>>

(* ... it writes a byte to the channel, which may have to make room first  *)
(* and may fail, ...                                                       *)
HasRoom == Len(buf) < BufLen

Body(t) ==
    /\ Continues(t, "body")
    /\ IF HasRoom
       THEN buf' = Append(buf, <<t, ops>>) /\ UNCHANGED stdio
       ELSE buf' = <<<<t, ops>>>> /\ stdio' = stdio \cup ToSet(buf)
    /\ Goto(t, "end")
    /\ UNCHANGED <<fd, flags, owner, sentry, threw, phase, history, failed>>

BodyFails(t) ==
    /\ Continues(t, "body")
    /\ buf' \in {buf} \cup (IF HasRoom THEN {Append(buf, <<t, ops>>)} ELSE {})
    /\ Goto(t, "end")
    /\ threw' = TRUE /\ failed' = TRUE
    /\ UNCHANGED <<stdio, fd, flags, owner, sentry, phase, history>>

(* ... the sentry's destructor hands over what must not wait, while the    *)
(* exception of the body is on its way too, ...                            *)
MustHandOverIfSynced(t) == sentry[t]  (* faulty: the exit is not asked for *)
MustHandOver(t) == sentry[t] \/ exited

EndFlush(t) ==
    /\ Continues(t, "end")
    /\ \/ /\ ~bad /\ MustHandOver(t)
          /\ \E fails \in BOOLEAN :
                /\ HandOver(fails)
                /\ Fails(fails)
                /\ Goto(t, IF fails THEN "leave" ELSE "land")
       \/ /\ bad \/ ~MustHandOver(t)
          /\ Goto(t, IF bad THEN "leave" ELSE "land")
          /\ UNCHANGED <<bytes, bad, failed>>
    /\ UNCHANGED <<synced, exited, owner, sentry, threw, phase, history>>

(* ... flushes stdio too, once the exit hook has run, ... *)
Lands == exited

EndLand(t) ==
    /\ Continues(t, "land")
    /\ \/ /\ Lands
          /\ \/ stdio' = {} /\ fd' = fd \cup stdio /\ Fails(FALSE)
             \/ UNCHANGED <<stdio, fd>> /\ Fails(TRUE)
       \/ ~Lands /\ UNCHANGED <<stdio, fd, bad, failed>>
    /\ Goto(t, "leave")
    /\ UNCHANGED <<buf, synced, exited, owner, sentry, threw, phase, history>>

(* ... and then handle_exception() sets the bit of an exception.           *)
Leave(t) ==
    /\ Continues(t, "leave")
    /\ Returns(t)
    /\ bad' = (bad \/ threw) /\ threw' = FALSE
    /\ UNCHANGED <<bytes, synced, exited, sentry, phase, history, failed>>
-----------------------------------------------------------------------------
(* sync_with_stdio(true) takes the mutex, ... *)
SyncOn(t) ==
    /\ Calls(t) /\ owner = Nobody
    /\ owner' = t
    /\ before' = [before EXCEPT ![t] = buf]
    /\ Goto(t, "move")
    /\ UNCHANGED <<bytes, flags, sentry, threw, phase, late, gaveUp, tries, failed>>

(* ... hands the buffer over, in a failed state too, ... *)
SyncFlipsFirst(t) ==  (* faulty: the flag is set before the hand-over *)
    \/ /\ Continues(t, "move") /\ ~synced
       /\ synced' = TRUE
       /\ UNCHANGED <<bytes, exited, bad, owner, pc, sentry, threw, phase, history, failed>>
    \/ /\ Continues(t, "move") /\ synced
       /\ HandOver(FALSE)
       /\ Goto(t, "flip")
       /\ UNCHANGED <<flags, owner, sentry, threw, phase, history, failed>>

SyncMoves(t) ==
    /\ Continues(t, "move")
    /\ \E fails \in BOOLEAN :
          /\ HandOver(fails)
          /\ Goto(t, IF fails THEN "fail" ELSE "flip")
    /\ UNCHANGED <<flags, owner, sentry, threw, phase, history, failed>>

(* ... and only then sets the flag and reports what went wrong. *)
SyncFlips(t) ==
    /\ \E fails \in BOOLEAN :
          /\ Continues(t, IF fails THEN "fail" ELSE "flip")
          /\ Fails(fails)
    /\ synced' = TRUE
    /\ Returns(t)
    /\ before' = [before EXCEPT ![t] = <<>>]
    /\ UNCHANGED <<bytes, exited, sentry, threw, phase, late, gaveUp, tries>>

(* sync_with_stdio(false) takes no mutex. *)
SyncOff(t) ==
    /\ Calls(t)
    /\ synced' = FALSE
    /\ UNCHANGED <<bytes, exited, bad, owner, pc, sentry, threw, phase, history, failed>>

(* printf(), and clear(). *)
Printf(t) ==
    /\ Calls(t)
    /\ stdio' = stdio \cup {<<t, ops>>}
    /\ UNCHANGED <<buf, fd, flags, owner, pc, sentry, threw, phase, history, failed>>

Clear(t) ==
    /\ Calls(t) /\ bad
    /\ bad' = FALSE
    /\ UNCHANGED <<bytes, synced, exited, owner, pc, sentry, threw, phase, history, failed>>
-----------------------------------------------------------------------------
AtExit(from, to) ==
    /\ phase = from
    /\ phase' = to
    /\ UNCHANGED <<synced, owner, pc, sentry, threw, ops, before, late>>

(* flush_at_exit() marks first ... *)
HookMarks ==
    /\ AtExit("running", "trying")
    /\ exited' = TRUE
    /\ UNCHANGED <<bytes, bad, tries, gaveUp, failed>>

(* ... and then tries to flush a stream that is good, and stdio with it. *)
HookFlushes ==
    /\ AtExit("trying", "hooked") /\ owner = Nobody
    /\ \/ bad /\ UNCHANGED <<bytes, bad, failed>>
       \/ ~bad /\ HandOver(TRUE) /\ Fails(TRUE)
       \/ /\ ~bad
          /\ buf' = <<>>
          /\ \/ stdio' = {} /\ fd' = fd \cup stdio \cup ToSet(buf) /\ Fails(FALSE)
             \/ stdio' = stdio \cup ToSet(buf) /\ UNCHANGED fd /\ Fails(TRUE)
    /\ UNCHANGED <<exited, tries, gaveUp>>

GivesUpNever(n) == FALSE  (* faulty: it waits for the mutex *)
GivesUp(n) == n = Attempts

HookMisses ==
    /\ owner # Nobody
    /\ tries' = IF tries < Attempts THEN tries + 1 ELSE tries
    /\ gaveUp' = GivesUp(tries')
    /\ AtExit("trying", IF gaveUp' THEN "hooked" ELSE "trying")
    /\ UNCHANGED <<bytes, exited, bad, failed>>

(* The C library flushes stdio for the last time, and the process ends. *)
StdioExit ==
    /\ AtExit("hooked", "flushed")
    /\ fd' = fd \cup stdio /\ stdio' = {}
    /\ UNCHANGED <<buf, exited, bad, tries, gaveUp, failed>>

End ==
    /\ AtExit("flushed", "dead")
    /\ UNCHANGED <<bytes, exited, bad, tries, gaveUp, failed>>

Exit == HookMarks \/ HookFlushes \/ HookMisses \/ StdioExit \/ End

Next ==
    \/ \E t \in Threads :
          \/ Insert(t) \/ Sentry(t) \/ Body(t) \/ BodyFails(t)
          \/ EndFlush(t) \/ EndLand(t) \/ Leave(t)
          \/ SyncOn(t) \/ SyncMoves(t) \/ SyncFlips(t) \/ SyncOff(t)
          \/ Printf(t) \/ Clear(t)
    \/ Exit

Spec == Init /\ [][Next]_vars

(* The exiting thread goes on; nothing is said of the others. *)
FairSpec == Spec /\ WF_vars(phase # "running" /\ Exit)
-----------------------------------------------------------------------------
Mine(t) == {b \in ToSet(buf) : b[1] = t}
Inserting(t) == pc[t] \in {"sentry", "body", "end", "land", "leave"}

(* As long as no write has failed, a thread that sees the stream           *)
(* synchronized may printf() at once: nothing it, or anyone whose          *)
(* insertion has ended, inserted before is still waiting in the stream.    *)
SeenSyncedIsHandedOver ==
    synced /\ ~failed =>
        \A b \in ToSet(buf) : owner = b[1] /\ Inserting(owner) /\ sentry[owner]

(* Whoever is promised a hand-over gets it, or a state bit.  On a return   *)
(* from sync_with_stdio(true), all that was buffered before the call is in *)
(* stdio's hands, also when the stream was synchronized already or had     *)
(* failed.  An insertion that started after the exit hook marked the       *)
(* stream is on the file descriptor: the last flush of stdio may be past.  *)
KeepsPromise ==
    \A t \in Threads :
       /\ SyncFlips(t) => bad' \/ ToSet(before[t]) \cap ToSet(buf') = {}
       /\ late[t] /\ pc[t] = "land" /\ pc'[t] = "leave" =>
             bad' \/ (Mine(t) = {} /\ \A b \in stdio' : b[1] # t)

(* If the exit hook got the mutex and nothing failed, no insertion that    *)
(* has ended is lost with the process.                                     *)
DeliversAtExit ==
    phase = "dead" /\ ~gaveUp /\ ~failed =>
        \A t \in Threads : ~Inserting(t) => Mine(t) = {}

(* exit() ends, even when another thread never lets go of the mutex. *)
EndsItsExit == phase = "trying" ~> phase = "dead"

(* m_exited is documented to cover an insertion still in progress while    *)
(* the hook ran: one that ends after it hands its bytes to stdio.  It does *)
(* not when its destructor has read m_exited before the hook marked it.    *)
HandsOverAfterHook ==
    \A t \in Threads :
       phase \in {"hooked", "flushed"} /\ Leave(t) => failed \/ Mine(t) = {}
=============================================================================
