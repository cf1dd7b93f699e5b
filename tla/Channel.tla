------------------------------ MODULE Channel ------------------------------
(***************************************************************************)
(* base_channel of io/iochannel.h, the two-way form, with the direction    *)
(* flag that runtime_cvt mirrors: a stack of characters read ahead or put  *)
(* back, on top of a converter that is a file with a position (ByteStream, *)
(* which RootCvt implements) and may fail at every call.                   *)
(***************************************************************************)
EXTENDS Naturals, Sequences, SequencesExt

CONSTANTS Contents, (* what devices hold, positioned at their start         *)
          Foreign,  (* characters put back that were never read             *)
          NoChar,   (* std::nullopt                                         *)
          MaxGet,   (* bound: the most asked of getn()                      *)
          MaxBack,  (* bound: characters on the stack                       *)
          MaxByte,  (* bound: the last number given to a written character  *)
          MaxEra    (* bound: how often another device is attached          *)

ChannelAssumption ==
    /\ Contents \subseteq Seq(Nat) /\ Foreign \subseteq Nat
    /\ NoChar \notin Nat
    /\ MaxGet \in Nat /\ MaxBack \in Nat /\ MaxByte \in Nat /\ MaxEra \in Nat

VARIABLES
    file,     (* the characters of the converter                            *)
    pos,      (* its position                                               *)
    kernel,   (* the direction of the converter itself                      *)
    mirror,   (* runtime_cvt_imp::m_io_status                               *)
    readBuf,  (* m_read_buf, its back() last                                *)
    nextByte, (* the number of the next character written                   *)
    took,     (* what the last call consumed                                *)
    peeked,   (* the character it showed without consuming it               *)
    threw,    (* whether it threw                                           *)
    era,      (* how often another device was attached                      *)
    honest    (* whether the caller only puts back what it has read         *)

cvt == <<file, pos, kernel, mirror>>
vars == <<cvt, readBuf, nextByte, took, peeked, threw, era, honest>>

Least(m, n) == IF m < n THEN m ELSE n

(* tell(), which saturates when more was put back than was read. *)
Tell == IF pos < Len(readBuf) THEN 0 ELSE pos - Len(readBuf)

(* What a reader would get from here on. *)
View == Reverse(readBuf) \o SubSeq(file, pos + 1, Len(file))

(* A call consumes `chars`, shows `c`, and throws or not. *)
Result(chars, c, fails) ==
    /\ took' = chars
    /\ peeked' = c
    /\ threw' = fails

Quiet(fails) == Result(<<>>, NoChar, fails) /\ UNCHANGED era

(* bos(): a device at its end starts in output. *)
Start(f) == IF f = <<>> THEN "output" ELSE "input"

Init ==
    /\ file \in Contents
    /\ pos = 0
    /\ kernel = Start(file) /\ mirror = Start(file)
    /\ readBuf = <<>>
    /\ nextByte = 1
    /\ took = <<>> /\ peeked = NoChar /\ threw = FALSE
    /\ era = 0
    /\ honest \in BOOLEAN
-----------------------------------------------------------------------------
(* switch_to_get(), of every read, throws: the converter cannot flush. *)
InSwitchFails ==
    /\ mirror # "input"
    /\ Quiet(TRUE)
    /\ UNCHANGED <<cvt, readBuf, nextByte>>

(* What a read leaves of the converter, k characters further.  It is in     *)
(* input once its switch_to_get() or its get() was called.                  *)
Read(k, asked) ==
    /\ pos' = pos + k
    /\ kernel' = IF asked \/ mirror # "input" THEN "input" ELSE kernel
    /\ mirror' = "input"
    /\ UNCHANGED <<file, nextByte, era>>

(* A read asks the converter for a character and it throws. *)
ReadFails ==
    /\ readBuf = <<>>
    /\ Read(0, TRUE)
    /\ Quiet(TRUE)
    /\ UNCHANGED readBuf

Getc ==
    IF readBuf # <<>>
    THEN /\ Read(0, FALSE)
         /\ Result(<<>>, Last(readBuf), FALSE)
         /\ UNCHANGED readBuf
    ELSE IF pos = Len(file)
    THEN /\ Read(0, TRUE)
         /\ Quiet(FALSE)
         /\ UNCHANGED readBuf
    ELSE /\ Read(1, TRUE)
         /\ Result(<<>>, file[pos + 1], FALSE)
         /\ readBuf' = <<file[pos + 1]>>

(* getn(s, n), and bumpc() for n = 1: the stack first, then the converter,  *)
(* which may throw after some; what arrived is reported either way.         *)
Getn(n) ==
    LET fromBuf == Least(n, Len(readBuf))
        rest    == Least(n - fromBuf, Len(file) - pos)
    IN \E k \in 0..rest :
          /\ Read(k, n > fromBuf)
          /\ readBuf' = SubSeq(readBuf, 1, Len(readBuf) - fromBuf)
          /\ \E fails \in BOOLEAN :
                /\ k < rest => fails
                /\ fails => fromBuf + k < n
                /\ Result(SubSeq(Reverse(readBuf), 1, fromBuf)
                              \o SubSeq(file, pos + 1, pos + k), NoChar, fails)

(* nextc(): bumpc(), then getc(), which may throw with the first one gone. *)
Nextc ==
    LET taken  == IF readBuf = <<>> THEN 1 ELSE 0  (* by bumpc(), from file *)
        base   == pos + taken
    IN IF Len(readBuf) > 1
       THEN /\ Read(0, FALSE)
            /\ readBuf' = Front(readBuf)
            /\ Result(<<Last(readBuf)>>, Last(Front(readBuf)), FALSE)
       ELSE /\ base <= Len(file)
            /\ \/ /\ base < Len(file)
                  /\ Read(taken + 1, TRUE)
                  /\ readBuf' = <<file[base + 1]>>
                  /\ Result(<<Head(View)>>, file[base + 1], FALSE)
               \/ /\ Read(taken, TRUE)
                  /\ readBuf' = <<>>
                  /\ \E fails \in BOOLEAN :
                        /\ base < Len(file) => fails
                        /\ Result(<<Head(View)>>, NoChar, fails)

(* is_eof(); a converter without a direction throws. *)
IsEof ==
    /\ Read(0, FALSE)
    /\ \E fails \in BOOLEAN :
          /\ readBuf # <<>> => ~fails
          /\ readBuf = <<>> /\ kernel' = "neutral" => fails
          /\ Quiet(fails)
    /\ UNCHANGED readBuf

Putbackc(ch) ==
    /\ Len(readBuf) < MaxBack
    /\ Read(0, FALSE)
    /\ readBuf' = Append(readBuf, ch)
    /\ Result(<<>>, NoChar, FALSE)
-----------------------------------------------------------------------------
(* switch_to_put(), of every write and flush, throws: the converter does   *)
(* not go back to tell(), and nothing has changed, ...                     *)
OutSeekFails ==
    /\ readBuf # <<>>
    /\ Quiet(TRUE)
    /\ UNCHANGED <<cvt, readBuf, nextByte>>

(* The seek back; tell() throws in a converter without a direction. *)
SeekBack == readBuf # <<>> => kernel # "neutral"

OutTurnKeepsStack ==  (* faulty: the stack outlives the seek back *)
    /\ mirror # "output" /\ SeekBack
    /\ pos' = Tell
    /\ Quiet(TRUE)
    /\ UNCHANGED <<file, kernel, mirror, readBuf, nextByte>>

(* ... or it does, and then cannot turn round. *)
OutTurnFails ==
    /\ mirror # "output" /\ SeekBack
    /\ pos' = Tell
    /\ readBuf' = <<>>
    /\ Quiet(TRUE)
    /\ UNCHANGED <<file, kernel, mirror, nextByte>>

(* Where a write finds the converter after switch_to_put(). *)
OutAhead == pos  (* faulty: what was read ahead is skipped *)

OutAt == IF readBuf # <<>> THEN Tell ELSE pos

(* The write itself: the converter takes k of the characters. *)
Out(k, asked) ==
    /\ SeekBack
    /\ file' = SubSeq(file, 1, OutAt) \o [i \in 1..k |-> nextByte + i - 1]
                                      \o SubSeq(file, OutAt + k + 1, Len(file))
    /\ pos' = OutAt + k
    /\ readBuf' = <<>>
    /\ kernel' = IF asked \/ mirror # "output" THEN "output" ELSE kernel
    /\ mirror' = "output"

(* putc(), putn() of n characters, of which a prefix is taken if it throws. *)
Putn(n) ==
    /\ nextByte + n - 1 <= MaxByte
    /\ nextByte' = nextByte + n
    /\ \E k \in 0..n : Out(k, TRUE) /\ \E fails \in BOOLEAN : (k < n => fails) /\ Quiet(fails)

Flush ==
    /\ Out(0, FALSE)
    /\ \E fails \in BOOLEAN : Quiet(fails)
    /\ UNCHANGED nextByte

(* seek(), rseek(): the stack goes only when the converter has moved. *)
Seek ==
    /\ pos' \in 0..Len(file)
    /\ readBuf' = <<>>
    /\ Quiet(FALSE)
    /\ UNCHANGED <<file, kernel, mirror, nextByte>>

SeekFails ==
    /\ Quiet(TRUE)
    /\ UNCHANGED <<cvt, readBuf, nextByte>>

(* attach(), after a detach() or without one.  When the cleanup of the old *)
(* device throws, the new one is in place but init_cvt() is not reached.   *)
Attach(f) ==
    /\ era < MaxEra
    /\ era' = era + 1
    /\ \E fails \in BOOLEAN :
          /\ Result(<<>>, NoChar, fails)
          /\ kernel' = IF fails THEN "neutral" ELSE Start(f)
          /\ mirror' = IF fails THEN mirror ELSE Start(f)
    /\ file' = f /\ pos' = 0
    /\ readBuf' = <<>>
    /\ UNCHANGED nextByte
-----------------------------------------------------------------------------
(* What a caller may put back: what it just read, or something else. *)
PutBacks == (IF honest THEN {} ELSE Foreign) \cup (IF Tell > 0 /\ pos >= Len(readBuf) THEN {file[Tell]} ELSE {})

ReadStep ==
    \/ InSwitchFails \/ ReadFails \/ Getc \/ Nextc \/ IsEof
    \/ \E n \in 1..MaxGet : Getn(n)

Next ==
    /\ UNCHANGED honest
    /\ \/ ReadStep
       \/ \E ch \in PutBacks : Putbackc(ch)
       \/ OutSeekFails \/ OutTurnFails
       \/ \E n \in 1..2 : Putn(n)
       \/ Flush \/ Seek \/ SeekFails
       \/ \E f \in Contents : Attach(f)

Spec == Init /\ [][Next]_vars
-----------------------------------------------------------------------------
(* The copy of the direction that runtime_cvt keeps and the converter's    *)
(* own: the stack is in use only while it says input.                      *)
Mirrors ==
    /\ kernel \in {mirror, "neutral"}
    /\ readBuf # <<>> => mirror = "input"

(* Whatever a read returns, or throws, the characters it took and those     *)
(* still to come are those that were there, in order, and a character that  *)
(* was shown is the next one.  A call that throws without having moved a    *)
(* character leaves the position where it was, even when it gave up         *)
(* half-way through a turn to writing or more had been put back than read.  *)
KeepsPlace ==
    /\ ReadStep => /\ View = took' \o View'
                   /\ peeked' # NoChar => View' # <<>> /\ peeked' = Head(View')
    /\ threw' /\ era' = era /\ took' = <<>> /\ file' = file =>
          nextByte' # nextByte \/ Tell' = Tell
=============================================================================
