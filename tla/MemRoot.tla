------------------------------ MODULE MemRoot ------------------------------
(***************************************************************************)
(* root_cvt of cvt/root_cvt.h over a mem_device: no buffer, but readers    *)
(* and writers that lend the memory of the device itself, which grows      *)
(* under what is lent and shrinks when less of it is used.                 *)
(*                                                                         *)
(* The caller's bytes are numbered in the order it hands them in.          *)
(***************************************************************************)
EXTENDS Integers, Sequences

CONSTANTS MaxChunk,  (* the longest chunk that a call writes or reads       *)
          Files,     (* the contents devices come with                      *)
          NoMark,    (* m_put_buf_checkpoint holds nothing                  *)
          MaxByte,   (* bound: the last number given to a written byte      *)
          MaxEra     (* bound: how often the device is taken or replaced    *)

MemAssumption ==
    /\ MaxChunk \in Nat /\ MaxByte \in Nat /\ MaxEra \in Nat
    /\ Files \subseteq Seq(Nat) /\ NoMark \notin Nat

VARIABLES
    str,      (* m_str                                                      *)
    at,       (* m_next_pos                                                 *)
    mark,     (* m_put_buf_checkpoint                                       *)
    status,   (* m_io_status                                                *)
    bosLen,   (* m_bos_len                                                  *)
    lent,     (* how much of the last put_buf() is not yet filled, or given *)
              (* back, by put_buf_guard                                     *)
    nextByte, (* the number of the next byte the caller writes              *)
    got,      (* what the last call read                                    *)
    threw,    (* whether it threw                                           *)
    era       (* how often the device was taken away or replaced            *)

device == <<str, at, mark>>
vars == <<device, status, bosLen, lent, nextByte, got, threw, era>>

AtMost(n, m) == IF n < m THEN n ELSE m
AtLeast(n, m) == IF n < m THEN m ELSE n
BytesAfter(n) == [i \in 1..n |-> nextByte + i - 1]

(* A call in which the device is not given up, and none is under way. *)
Calls == lent = 0 /\ UNCHANGED <<era, lent>>
Returns(fails) == threw' = fails /\ got' = <<>>

(* replace(at, n, data, n): over what is there, and on from its end. *)
Replaced(s, p, data) ==
    SubSeq(s, 1, p) \o data \o SubSeq(s, p + Len(data) + 1, Len(s))

Resized(s, n) == [i \in 1..n |-> IF i <= Len(s) THEN s[i] ELSE 0]
-----------------------------------------------------------------------------
Bos ==
    /\ Calls /\ Returns(FALSE)
    /\ status = "neutral"
    /\ status' = IF at >= Len(str) THEN "output" ELSE "input"
    /\ UNCHANGED <<device, bosLen, nextByte>>

MainContBeg ==
    /\ Calls /\ Returns(FALSE)
    /\ status # "neutral"
    /\ bosLen' = at
    /\ UNCHANGED <<device, status, nextByte>>

(* dget(n) and get_buf(n) *)
Takes(n) ==
    /\ at' = at + AtMost(Len(str) - at, n)
    /\ got' = SubSeq(str, at + 1, at')
    /\ threw' = FALSE
    /\ UNCHANGED <<str, mark, bosLen, nextByte>>

Get(n) == Calls /\ Takes(n) /\ status' = "input"

(* A reader: get_buf(n), of which the caller gives the last `back` back.   *)
(* Neither turns the converter round.                                      *)
GetBuf(n, back) ==
    /\ Calls
    /\ back <= AtMost(Len(str) - at, n)
    /\ at' = at + AtMost(Len(str) - at, n) - back
    /\ got' = SubSeq(str, at + 1, at')
    /\ threw' = FALSE
    /\ UNCHANGED <<str, mark, status, bosLen, nextByte>>

(* get_buf<true>(n) *)
GetBufSaturated(n) ==
    /\ Calls
    /\ IF n > Len(str) - at THEN Returns(TRUE) /\ UNCHANGED <<device, bosLen, nextByte>>
       ELSE Takes(n)
    /\ UNCHANGED status

(* put(), which may run out of memory. *)
Put(n) ==
    /\ Calls
    /\ status' = "output"
    /\ nextByte' = nextByte + n
    /\ \/ Returns(FALSE) /\ str' = Replaced(str, at, BytesAfter(n)) /\ at' = at + n
       \/ n > 0 /\ Returns(TRUE) /\ UNCHANGED <<str, at>>
    /\ UNCHANGED <<mark, bosLen>>

(* A writer: put_buf(n) lends n bytes, grown by as many as there are not.  *)
PutBuf(n) ==
    /\ lent = 0
    /\ mark' = Len(str)
    /\ \/ /\ str' = Resized(str, AtLeast(Len(str), at + n))
          /\ at' = at + n /\ lent' = n
          /\ Returns(FALSE)
       \/ Returns(TRUE) /\ UNCHANGED <<str, at, lent>>
    /\ UNCHANGED <<status, bosLen, nextByte, era>>

KeptUpTo(filled, end) == Resized(filled, end)  (* faulty: for one that appends *)

(* put_rollback(): what lay behind the memory lent was the file's. *)
Kept(filled, end) == Resized(filled, AtLeast(end, mark))

(* The first n of them are filled, and put_rollback() gives the rest back. *)
Fill(n) ==
    /\ lent > 0 /\ lent' = 0
    /\ at' = at - (lent - n)
    /\ LET filled == Replaced(str, at - lent, BytesAfter(n))
       IN IF n = lent THEN str' = filled /\ UNCHANGED mark
          ELSE str' = Kept(filled, at') /\ mark' = NoMark
    /\ nextByte' = nextByte + n
    /\ Returns(FALSE)
    /\ UNCHANGED <<status, bosLen, era>>

(* seek() and rseek(), to p bytes from the start. *)
MoveTo(p, valid) ==
    /\ Calls
    /\ Returns(~valid)
    /\ at' = IF valid THEN p ELSE at
    /\ UNCHANGED <<str, mark, status, bosLen, nextByte>>

Seek(p) == MoveTo(p + bosLen, p + bosLen <= Len(str))
Rseek(p) == MoveTo(Len(str) - p, bosLen <= Len(str) /\ p <= Len(str) - bosLen)

Turn(to) ==
    /\ Calls /\ Returns(FALSE)
    /\ status' = to
    /\ UNCHANGED <<device, bosLen, nextByte>>

(* The device that is there afterwards: a moved-from one, or another. *)
Replace(s, p) ==
    /\ lent = 0
    /\ era < MaxEra /\ era' = era + 1
    /\ str' = s /\ at' = p /\ mark' = NoMark
    /\ bosLen' = 0 /\ status' = "neutral"
    /\ Returns(FALSE)
    /\ UNCHANGED <<lent, nextByte>>

Detach == Replace(<<>>, 0)
Attach(s, p) == Replace(s, p)
-----------------------------------------------------------------------------
Init ==
    /\ str \in Files /\ at \in {0, Len(str)} /\ mark = NoMark
    /\ status = "neutral" /\ bosLen = 0 /\ lent = 0
    /\ nextByte = 1 /\ got = <<>> /\ threw = FALSE /\ era = 0

Next ==
    \/ Bos \/ MainContBeg \/ Detach
    \/ \E n \in 1..MaxChunk : Get(n) \/ GetBufSaturated(n) \/ \E back \in 0..n : GetBuf(n, back)
    \/ \E n \in 1..MaxChunk : nextByte + n - 1 <= MaxByte /\ (Put(n) \/ PutBuf(n))
    \/ \E n \in 0..lent : Fill(n)
    \/ \E p \in 0..(Len(str) + 1) : Seek(p) \/ Rseek(p)
    \/ \E to \in {"input", "output"} : Turn(to)
    \/ \E s \in Files : \E p \in {0, Len(s)} : Attach(s, p)

Spec == Init /\ [][Next]_vars
-----------------------------------------------------------------------------
(* The assertions of tell(), dget() and get_buf(): the position is within  *)
(* the device and not before the start of the content.                     *)
InBounds == bosLen <= at - lent /\ at <= Len(str)

(* While memory is lent, the file is what it was before. *)
File == IF lent > 0 THEN SubSeq(str, 1, mark) ELSE str

Bytes == INSTANCE ByteStream WITH file <- File, pos <- at - lent, next <- nextByte
=============================================================================
