------------------------------ MODULE RootCvt ------------------------------
(***************************************************************************)
(* root_cvt of cvt/root_cvt.h over a device that reads, writes and seeks   *)
(* and may fail at each of them: one buffer of BufLen bytes that holds     *)
(* either bytes waiting to be written (output) or bytes read ahead         *)
(* (input); what its two cursors delimit is a sequence here.               *)
(*                                                                         *)
(* The caller's bytes are numbered in the order it hands them in, so that  *)
(* a lost, doubled or reordered byte shows.                                *)
(***************************************************************************)
EXTENDS Naturals, Sequences

CONSTANTS BufLen,    (* s_buffer_length                                     *)
          PutSizes,  (* lengths of the chunks handed to put()               *)
          GetSizes,  (* lengths asked of get()                              *)
          Files,     (* the contents devices come with                      *)
          NoDevice,  (* no device was given up                              *)
          MaxByte,   (* bound: the last number given to a written byte      *)
          MaxEra     (* bound: how often the device is taken or replaced    *)

ASSUME RootAssumption ==
    /\ BufLen \in Nat \ {0}
    /\ PutSizes \subseteq Nat
    /\ GetSizes \subseteq Nat \ {0}
    /\ Files \subseteq Seq(Nat)
    /\ MaxByte \in Nat /\ MaxEra \in Nat

VARIABLES
    dev,      (* m_device: its bytes and its position                       *)
    status,   (* m_io_status; "detached": the device was handed back        *)
    buf,      (* in input, m_buffer from m_buf_cur to m_buf_end; in output, *)
              (* from its start to m_buf_cur                                *)
    bosLen,   (* m_bos_len                                                  *)
    nextByte, (* the number of the next byte the caller writes              *)
    got,      (* what the last operation read                               *)
    threw,    (* whether it threw                                           *)
    handed,   (* the device it gave up, if it did                           *)
    era       (* how often the device was taken away or replaced            *)

vars == <<dev, status, buf, bosLen, nextByte, got, threw, handed, era>>

(* What an operation that neither reads nor gives the device up returns. *)
Returns(fails) ==
    /\ threw' = fails
    /\ got' = <<>>
    /\ handed' = NoDevice
    /\ UNCHANGED era

Fresh == {[data |-> f, pos |-> 0] : f \in Files} \cup
         {[data |-> f, pos |-> Len(f)] : f \in Files}

Open == status # "detached"

Unread == IF status = "input" THEN buf ELSE <<>>
Pending == IF status = "output" THEN buf ELSE <<>>

(* tell(), counted from the start of the device. *)
Where == dev.pos + Len(Pending) - Len(Unread)

AtMost(n, m) == IF n < m THEN n ELSE m
BytesAfter(n) == [i \in 1..n |-> nextByte + i - 1]
-----------------------------------------------------------------------------
(* The device: `data` written at its position. *)
Stored(d, data) ==
    [data |-> SubSeq(d.data, 1, d.pos) \o data \o
              SubSeq(d.data, d.pos + Len(data) + 1, Len(d.data)),
     pos  |-> d.pos + Len(data)]

(* How dput(data) may fail: a dput_error, the first `done` bytes having     *)
(* been accepted (perhaps all, when the position cannot be determined), or  *)
(* another exception, none having been.                                     *)
DputFailures(data) ==
    IF data = <<>> THEN {}
    ELSE {[how |-> "partial", done |-> k] : k \in 0..Len(data)} \cup
         {[how |-> "none", done |-> 0]}

DputEnds(data) == {[how |-> "ok", done |-> Len(data)]} \cup DputFailures(data)

(* What dget(max) may return, short counts included, 0 only at the end. *)
DgetCounts(d, max) ==
    LET most == AtMost(Len(d.data) - d.pos, max)
    IN IF most = 0 THEN {0} ELSE 1..most

Ahead(d, k) == SubSeq(d.data, d.pos + 1, d.pos + k)

DeviceAt(d, p) == [data |-> d.data, pos |-> p]
-----------------------------------------------------------------------------
(* dput_buffer(len, old), data being the first len bytes of the buffer, of  *)
(* which the first `old` were taken by earlier calls: what stays buffered.  *)
LeftAll(data, old, end) ==  (* faulty: the bytes of the failing put stay too *)
    SubSeq(data, end.done + 1, Len(data))

LeftWhole(data, old, end) ==  (* faulty: accepted bytes stay in the buffer *)
    IF end.how = "ok" THEN <<>> ELSE SubSeq(data, 1, old)

LeftBuffered(data, old, end) ==
    LET keepEnd == IF end.done > old THEN Len(data) ELSE old
    IN SubSeq(data, end.done + 1, keepEnd)

OutDeviceAhead == dev  (* faulty: the device stays ahead of the reader *)

(* The device as a write finds it after switch_to_put(): back where the     *)
(* reader was.                                                              *)
OutDevice == DeviceAt(dev, dev.pos - Len(Unread))

Output(contents) ==
    /\ status' = "output"
    /\ buf' = contents

Input(contents) ==
    /\ status' = "input"
    /\ buf' = contents

(* dput_buffer(): `data` goes to d, the first `old` of it owed to earlier   *)
(* puts, and `rest` follows it into the buffer if that succeeds.            *)
DputBuffer(d, data, old, rest) ==
    \E end \in DputEnds(data) :
        /\ dev' = Stored(d, SubSeq(data, 1, end.done))
        /\ Output(IF end.how = "ok" THEN rest ELSE LeftBuffered(data, old, end))
        /\ Returns(end.how # "ok")

(* put() and put_buf() in input, switch_to_put() failing: the device does   *)
(* not go back over what was read ahead.                                    *)
TurnFails ==
    /\ Unread # <<>>
    /\ Returns(TRUE)
    /\ UNCHANGED <<dev, status, buf, bosLen, nextByte>>

PutFitsLate(n) ==  (* faulty: the room left is not asked for *)
    /\ n <= BufLen
    /\ dev' = OutDevice
    /\ Output(Pending \o BytesAfter(n))
    /\ Returns(FALSE)

(* put(), the chunk stays below the end of the buffer, ... *)
PutFits(n) ==
    /\ n < BufLen - Len(Pending)
    /\ dev' = OutDevice
    /\ Output(Pending \o BytesAfter(n))
    /\ Returns(FALSE)

(* ... or fills it exactly, and all of it goes out, ... *)
PutFills(n) ==
    /\ n = BufLen - Len(Pending)
    /\ DputBuffer(OutDevice, Pending \o BytesAfter(n), Len(Pending), <<>>)

(* ... or is too long: the buffer goes out first, and then a short chunk is *)
(* buffered, ...                                                            *)
PutAfterFlush(n) ==
    /\ n > BufLen - Len(Pending)
    /\ n < BufLen \div 2
    /\ DputBuffer(OutDevice, Pending, Len(Pending), BytesAfter(n))

(* ... a long one bypasses the buffer. *)
PutDirect(n) ==
    /\ n > BufLen - Len(Pending)
    /\ n >= BufLen \div 2
    /\ \/ DputBuffer(OutDevice, Pending, Len(Pending), <<>>) /\ threw'
       \/ \E end \in DputEnds(BytesAfter(n)) :
             /\ dev' = Stored(Stored(OutDevice, Pending),
                              SubSeq(BytesAfter(n), 1, end.done))
             /\ Output(<<>>)
             /\ Returns(end.how # "ok")

Writes(n) ==
    /\ Open
    /\ nextByte + n - 1 <= MaxByte
    /\ nextByte' = nextByte + n
    /\ UNCHANGED bosLen

Put(n) ==
    /\ Writes(n)
    /\ PutFits(n) \/ PutFills(n) \/ PutAfterFlush(n) \/ PutDirect(n)

(* cvt_writer: put_buf(len), into which the caller fills n bytes, rolling   *)
(* back the rest.  When len does not fit, the buffer goes out first.        *)
PutBuf(len, n) ==
    /\ Writes(n)
    /\ IF len < BufLen - Len(Pending)
       THEN /\ dev' = OutDevice
            /\ Output(Pending \o BytesAfter(n))
            /\ Returns(FALSE)
       ELSE DputBuffer(OutDevice, Pending, Len(Pending), BytesAfter(n))
-----------------------------------------------------------------------------
(* flush(), which main_cont_beg(), is_eof(), seek(), rseek() and            *)
(* switch_to_get() begin with: in all of them it may fail half-way.         *)
FlushFails ==
    /\ \E end \in DputFailures(Pending) :
          /\ dev' = Stored(dev, SubSeq(Pending, 1, end.done))
          /\ Output(LeftBuffered(Pending, Len(Pending), end))
    /\ Returns(TRUE)
    /\ UNCHANGED <<bosLen, nextByte>>

Flushed == Stored(dev, Pending)
EmptiedOutput == IF status = "output" THEN Output(<<>>) ELSE UNCHANGED <<status, buf>>

(* flush() and is_eof(). *)
Flush ==
    /\ status = "output"
    /\ dev' = Flushed
    /\ EmptiedOutput
    /\ Returns(FALSE)
    /\ UNCHANGED <<bosLen, nextByte>>

SwitchToGet ==
    /\ status \in {"neutral", "output"}
    /\ dev' = Flushed
    /\ Input(<<>>)
    /\ Returns(FALSE)
    /\ UNCHANGED <<bosLen, nextByte>>

SwitchToPut ==
    /\ status \in {"neutral", "input"}
    /\ dev' = OutDevice
    /\ Output(<<>>)
    /\ Returns(FALSE)
    /\ UNCHANGED <<bosLen, nextByte>>

(* `count` bytes are read into the buffer behind those of `kept`, and the   *)
(* first k of the whole are consumed.                                       *)
Refill(kept, count, k) ==
    /\ Input(SubSeq(kept \o Ahead(Flushed, count), k + 1, Len(kept) + count))
    /\ dev' = DeviceAt(Flushed, Flushed.pos + count)
    /\ got' = SubSeq(kept \o Ahead(Flushed, count), 1, k)

(* What is read ahead is enough. *)
TakeAhead(k) ==
    /\ Input(SubSeq(buf, k + 1, Len(buf)))
    /\ got' = SubSeq(Unread, 1, k)
    /\ UNCHANGED dev

Reads ==
    /\ Open
    /\ threw' = FALSE
    /\ handed' = NoDevice
    /\ UNCHANGED <<bosLen, nextByte, era>>

(* get(n): a refill when nothing is read ahead, then at most n of it. *)
Get(n) ==
    /\ Reads
    /\ IF Unread # <<>>
       THEN TakeAhead(AtMost(Len(Unread), n))
       ELSE \E count \in DgetCounts(Flushed, BufLen) :
               Refill(<<>>, count, AtMost(count, n))

(* The refill of get() fails, after the switch to input. *)
GetFails ==
    /\ Open
    /\ Unread = <<>>
    /\ dev' = Flushed
    /\ Input(<<>>)
    /\ Returns(TRUE)
    /\ UNCHANGED <<bosLen, nextByte>>

(* cvt_reader: get_buf(n) moves what is unread to the front and tops the    *)
(* buffer up, and the caller rolls back the last `back` bytes of the result; *)
(* it is refused more than the buffer holds.                                *)
GetBuf(n, back) ==
    /\ Reads
    /\ n <= BufLen
    /\ IF Len(Unread) >= n
       THEN back <= n /\ TakeAhead(n - back)
       ELSE \E count \in DgetCounts(Flushed, BufLen - Len(Unread)) :
            LET k == AtMost(Len(Unread) + count, n)
            IN back <= k /\ Refill(Unread, count, k - back)

(* The device fails, or, get_buf<Saturate> having to return all n, ends,    *)
(* before there are n.                                                      *)
GetBufFails(n) ==
    /\ Open
    /\ n <= BufLen
    /\ Len(Unread) < n
    /\ \E count \in 0..AtMost(n - Len(Unread) - 1, Len(Flushed.data) - Flushed.pos) :
          /\ Input(Unread \o Ahead(Flushed, count))
          /\ dev' = DeviceAt(Flushed, Flushed.pos + count)
    /\ Returns(TRUE)
    /\ UNCHANGED <<bosLen, nextByte>>
-----------------------------------------------------------------------------
(* The end of seek() and rseek(): what was read ahead is dropped. *)
MoveTo(p) ==
    /\ Open
    /\ p <= Len(Flushed.data)
    /\ dev' = DeviceAt(Flushed, p)
    /\ IF status = "input" THEN Input(<<>>) ELSE EmptiedOutput
    /\ Returns(FALSE)
    /\ UNCHANGED <<bosLen, nextByte>>

(* seek(p); the device refuses a position past its end. *)
Seek(p) == MoveTo(p + bosLen)

(* rseek(p), p counted from the end. *)
Rseek(p) ==
    /\ bosLen + p <= Len(Flushed.data)
    /\ MoveTo(Len(Flushed.data) - p)

(* Either of them: out of bounds, or the device fails, after the flush. *)
SeekFails ==
    /\ Open
    /\ dev' = Flushed
    /\ EmptiedOutput
    /\ Returns(TRUE)
    /\ UNCHANGED <<bosLen, nextByte>>

(* bos(): a device at its end starts in output, another in input. *)
Bos ==
    /\ status = "neutral"
    /\ status' = IF dev.pos >= Len(dev.data) THEN "output" ELSE "input"
    /\ Returns(FALSE)
    /\ UNCHANGED <<dev, buf, bosLen, nextByte>>

(* main_cont_beg(): positions count from here. *)
MainContBeg ==
    /\ status \in {"input", "output"}
    /\ dev' = Flushed
    /\ bosLen' = Where
    /\ EmptiedOutput
    /\ Returns(FALSE)
    /\ UNCHANGED nextByte
-----------------------------------------------------------------------------
(* The cleanup of detach() leaves the device d: bytes waiting are flushed,  *)
(* bytes read ahead are put back by seek(tell()), and either may fail.      *)
CleanupNoSeek(d, failed) ==  (* faulty: bytes read ahead are dropped *)
    \E end \in DputEnds(Pending) :
        /\ d = Stored(dev, SubSeq(Pending, 1, end.done))
        /\ failed = (end.how # "ok")

Cleanup(d, failed) ==
    IF Unread = <<>>
    THEN \E end \in DputEnds(Pending) :
            /\ d = Stored(dev, SubSeq(Pending, 1, end.done))
            /\ failed = (end.how # "ok")
    ELSE d = (IF failed THEN dev ELSE OutDevice)

Closing == {Stored(dev, SubSeq(Pending, 1, k)) : k \in 0..Len(Pending)} \cup {OutDevice}

Reset(d, label) ==
    /\ dev' = d
    /\ status' = label
    /\ buf' = <<>>
    /\ bosLen' = 0
    /\ era' = era + 1
    /\ got' = <<>>
    /\ UNCHANGED nextByte

(* detach() hands the device and the first error back. *)
Detach ==
    /\ Open
    /\ era + 1 < MaxEra
    /\ handed' \in Closing
    /\ threw' \in BOOLEAN
    /\ Cleanup(handed', threw')
    /\ Reset([data |-> <<>>, pos |-> 0], "detached")

(* attach(d): detach(), the dflush() of the old device, then the new one is *)
(* in place whether or not an error is thrown at the end.                   *)
Attach(d) ==
    /\ era < MaxEra
    /\ handed' \in IF Open THEN Closing ELSE {NoDevice}
    /\ \E failed \in BOOLEAN :
          /\ IF Open THEN Cleanup(handed', failed) ELSE ~failed
          /\ threw' \in (IF failed THEN {TRUE}
                         ELSE IF status = "output" THEN BOOLEAN ELSE {FALSE})
    /\ Reset(d, "neutral")
-----------------------------------------------------------------------------
Init ==
    /\ dev \in Fresh
    /\ status = "neutral"
    /\ buf = <<>>
    /\ bosLen = 0
    /\ nextByte = 1
    /\ got = <<>>
    /\ threw = FALSE
    /\ handed = NoDevice
    /\ era = 0

PutStep ==
    \/ \E n \in PutSizes : Put(n)
    \/ \E len \in 1..BufLen : \E n \in {1, len} : PutBuf(len, n)

Next ==
    \/ PutStep
    \/ TurnFails \/ FlushFails \/ Flush \/ SwitchToGet \/ SwitchToPut
    \/ \E n \in GetSizes : Get(n) \/ GetBufFails(n) \/ \E back \in 0..n : GetBuf(n, back)
    \/ GetFails
    \/ \E p \in 0..(MaxByte + BufLen) : Seek(p) \/ Rseek(p)
    \/ SeekFails \/ Bos \/ MainContBeg
    \/ Detach \/ \E d \in Fresh : Attach(d)

Spec == Init /\ [][Next]_vars
-----------------------------------------------------------------------------
(* Types, and the assertions of tell() and main_cont_beg(): the device is  *)
(* never before the start of the stream, nor before it by what was read     *)
(* ahead, through failing refills, partial writes and seeks.                *)
TypeOK ==
    /\ dev \in [data : Seq(Nat), pos : Nat] /\ dev.pos <= Len(dev.data)
    /\ status \in {"neutral", "input", "output", "detached"}
    /\ buf \in Seq(Nat) /\ Len(buf) <= BufLen
    /\ status \in {"neutral", "detached"} => buf = <<>>
    /\ bosLen \in Nat /\ nextByte \in Nat \ {0} /\ era \in 0..MaxEra
    /\ got \in Seq(Nat) /\ threw \in BOOLEAN
    /\ dev.pos >= bosLen + Len(Unread)

(* Nothing is overwritten or kept that was not asked for: a header that was *)
(* skipped or written before main_cont_beg() stays as it is, whatever is   *)
(* buffered when the stream seeks, turns round or fails, and a put that    *)
(* throws is not taken at all, unless a byte of it has already landed on   *)
(* the device (the rule of dput_buffer()).                                 *)
OnlyWhatWasAsked ==
    [][/\ era' = era => SubSeq(dev'.data, 1, bosLen) = SubSeq(dev.data, 1, bosLen)
       /\ threw' /\ PutStep =>
             \A i \in DOMAIN Pending' : buf'[i] >= nextByte =>
                \E j \in DOMAIN dev'.data : dev'.data[j] \in nextByte..(nextByte' - 1)]_vars

(* Whoever gets the device of a detach() that reports no error, or drops it *)
(* with an attach() that throws none, finds every byte written in it and    *)
(* the position where the stream stood; after an error, a prefix of what    *)
(* was waiting.                                                             *)
DetachDelivers ==
    [][era' # era /\ Open =>
          \E k \in 0..Len(Pending) :
             /\ handed'.data = Stored(dev, SubSeq(Pending, 1, k)).data
             /\ ~threw' => k = Len(Pending) /\ handed'.pos = Where]_vars

(* No byte is lost, doubled or reordered between the caller and the device, *)
(* through every partial write, short read, turn and seek: the converter is *)
(* a plain file with a position.                                            *)
Bytes == INSTANCE ByteStream
    WITH file <- Stored(dev, Pending).data,
         pos  <- Where,
         next <- nextByte,
         MaxChunk <- MaxByte

ImplementsByteStream == Bytes!Spec
=============================================================================
