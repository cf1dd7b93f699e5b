------------------------------ MODULE ZlibCvt ------------------------------
(***************************************************************************)
(* zlib_cvt on abs_cvt, without positions and turns: a device that comes   *)
(* empty is written, any other is read.  The kernel may fail at every call *)
(* and has then taken a part of what it was given.                         *)
(*                                                                         *)
(* What zlib does is external: a byte is its number, in order of writing;  *)
(* deflate keeps some of them to itself and spells the others in units of  *)
(* one byte or of several, and the last unit of a stream has a checksum of *)
(* all.  Headers of the layers above are LayerCvt's.                       *)
(***************************************************************************)
EXTENDS Integers, Sequences, SequencesExt

CONSTANTS Foreign,  (* what devices hold that are read                      *)
          Sizes,    (* of the characters, in bytes                          *)
          MaxAsk,   (* bound: the most characters of one call               *)
          MaxBytes, (* bound: bytes written to a device                     *)
          MaxOpens  (* bound: how often a device is opened                  *)

Unit(kind, bytes) == [kind |-> kind, bytes |-> bytes]
Head12 == <<Unit("head1", <<>>), Unit("head2", <<>>)>>
Mark == Unit("mark", <<>>)
Trailer(bytes) == <<Unit("end", <<>>), Unit("sum", bytes)>>

(* Junk is whatever inflate() does not take. *)
Kinds == {"head1", "head2", "data", "mark", "end", "sum", "junk"}
Units == [kind : Kinds, bytes : Seq(Nat)]

ZlibAssumption ==
    /\ Foreign \subseteq Seq(Units) \ {<<>>}
    /\ Sizes \subseteq Nat \ {0}
    /\ MaxAsk \in Nat /\ MaxBytes \in Nat /\ MaxOpens \in Nat

VARIABLES
    size,      (* sizeof(internal_type)                                     *)
    file,      (* the units below                                           *)
    pos,       (* how many of them were read                                *)
    strm,      (* what m_strm is open for: "none", "deflate", "inflate"     *)
    held,      (* the bytes in it: not yet written, or not yet handed over  *)
    sum,       (* the bytes deflate was given                               *)
    marked,    (* the last call of deflate was a Z_SYNC_FLUSH               *)
    ended,     (* m_stream_ended                                            *)
    syncFlush, (* m_sync_flush                                              *)
    status,    (* m_io_status                                               *)
    bosDone,   (* m_is_bos_done                                             *)
    getError,  (* m_get_error holds an error                                *)
    tainted,   (* m_is_tainted                                              *)
    given,     (* how many bytes were put by calls that returned            *)
    got,       (* the bytes read since the device was opened                *)
    short,     (* whether the last get returned less than it was asked for  *)
    missed,    (* whether a part of a character went with an error          *)
    told,      (* whether a call has thrown since the device was opened     *)
    blamed,    (* whether the kernel, the data or the caller did wrong      *)
    promised,  (* the device was closed by a writer who heard of no failure *)
    opens      (* how often a device was opened                             *)

zlib == <<strm, held, sum, marked>>
layer == <<status, bosDone, getError, tainted>>
reading == <<got, short, missed>>
vars == <<size, file, pos, zlib, ended, syncFlush, layer, given, reading, told, blamed, promised, opens>>

Least(m, n) == IF m < n THEN m ELSE n
Upto(units, k) == SubSeq(units, 1, k)

Init ==
    /\ size \in Sizes
    /\ file \in Foreign \cup {<<>>} /\ pos = 0
    /\ strm = "none" /\ held = <<>> /\ sum = <<>> /\ marked = FALSE
    /\ ended = FALSE /\ syncFlush = FALSE
    /\ status = "neutral" /\ bosDone = FALSE /\ getError = FALSE /\ tainted = FALSE
    /\ given = 0 /\ got = <<>> /\ short = FALSE /\ missed = FALSE
    /\ told = FALSE /\ blamed = FALSE /\ promised = FALSE /\ opens = 0
-----------------------------------------------------------------------------
(* deflate() writes these bytes one by one or as a match. *)
Spellings(bytes) ==
    IF bytes = <<>> THEN {<<>>}
    ELSE {[i \in DOMAIN bytes |-> Unit("data", <<bytes[i]>>)], <<Unit("data", bytes)>>}

(* deflate() with Z_FINISH, or the end of an inflate stream. *)
Finish(left) ==
    IF strm = "deflate" THEN {units \o Trailer(sum) : units \in Spellings(left)} ELSE {<<>>}

(* The kernel takes all of these units, or fails after some of them.       *)
Taken(units) == {Upto(units, k) : k \in 0..Len(units)}

(* close_stream() releases the z_stream, whether or not it can finish it.  *)
Closed ==
    /\ strm' = "none" /\ held' = <<>> /\ sum' = <<>> /\ marked' = FALSE
    /\ status' = "neutral" /\ bosDone' = FALSE
    /\ syncFlush' = FALSE /\ ended' = FALSE

(* bos() and main_cont_beg() that fail close the stream and taint, where   *)
(* `before` was written and `left` is still held.                          *)
Spoils(before, left) ==
    /\ Closed
    /\ \E rest \in Finish(left) : \E taken \in Taken(rest) : file' = file \o before \o taken
    /\ tainted' = TRUE /\ told' = TRUE /\ short' = FALSE
    /\ UNCHANGED <<size, pos, getError, given, got, missed, promised, opens>>

(* bos() writes the header of an empty device, all of it or a part, and    *)
(* reads that of another.                                                  *)
Opens(kind, dir) ==
    /\ strm' = kind /\ held' = <<>> /\ sum' = <<>> /\ marked' = FALSE
    /\ status' = dir
    /\ UNCHANGED <<size, ended, syncFlush, bosDone, getError, tainted, given, reading, told, blamed,
                   promised, opens>>

Bos ==
    /\ ~tainted
    /\ \/ Spoils(<<>>, held) /\ blamed' = TRUE
       \/ /\ status = "neutral" /\ ~bosDone /\ file = <<>>
          /\ \/ Opens("deflate", "output") /\ file' = Head12 /\ UNCHANGED pos
             \/ \E before \in Taken(Head12) : Spoils(before, <<>>) /\ blamed' = TRUE
       \/ /\ status = "neutral" /\ ~bosDone /\ IsPrefix(Head12, file)
          /\ Opens("inflate", "input") /\ pos' = 2 /\ UNCHANGED file

(* flush(): with m_sync_flush all that is held goes out with a mark.       *)
Flushed == IF syncFlush THEN {units \o <<Mark>> : units \in Spellings(held)} ELSE {<<>>}

(* Nothing was put since the last mark: Z_BUF_ERROR, which zerr() throws.  *)
NoProgress == syncFlush /\ marked

FlushTakes(fails) ==
    /\ ~NoProgress
    /\ \E units \in Flushed : \E k \in 0..Len(units) :
          /\ k < Len(units) => fails
          /\ file' = file \o Upto(units, k)
    /\ held' = IF syncFlush THEN <<>> ELSE held
    /\ marked' = (marked \/ syncFlush)
    /\ UNCHANGED <<strm, sum>>

MainContBeg ==
    /\ ~tainted
    /\ \/ Spoils(<<>>, held) /\ blamed' = TRUE
       \/ status = "output" /\ NoProgress /\ Spoils(<<>>, held) /\ UNCHANGED blamed
       \/ /\ status = "output" /\ ~NoProgress
          /\ \E units \in Flushed : \E before \in Taken(units) :
                Spoils(before, IF syncFlush THEN <<>> ELSE held) /\ blamed' = TRUE
       \/ /\ \/ status = "input" /\ UNCHANGED <<file, zlib>>
             \/ status = "output" /\ FlushTakes(FALSE)
          /\ bosDone' = TRUE
          /\ UNCHANGED <<size, pos, ended, syncFlush, status, getError, tainted, given, reading, told,
                         blamed, promised, opens>>
-----------------------------------------------------------------------------
Fails(fails) ==
    /\ tainted' = fails
    /\ told' = (told \/ fails)
    /\ blamed' = (blamed \/ fails)

Numbers(from, to) == [i \in 1..(to - from) |-> from + i]

(* put() of n characters: deflate takes all of them, unless the kernel     *)
(* fails in between, and writes some of what it holds.                     *)
Put(n) ==
    /\ ~tainted /\ bosDone /\ status = "output"
    /\ Len(sum) + n * size <= MaxBytes
    /\ \E fails \in BOOLEAN, m \in 0..(n * size) :
          /\ m < n * size => fails
          /\ sum' = sum \o Numbers(Len(sum), Len(sum) + m)
          /\ LET all == held \o Numbers(Len(sum), Len(sum) + m)
             IN \E out \in 0..Len(all) : \E units \in Spellings(Upto(all, out)) : \E k \in 0..Len(units) :
                   /\ k < Len(units) => fails
                   /\ file' = file \o Upto(units, k)
                   /\ held' = SubSeq(all, out + 1, Len(all))
          /\ Fails(fails)
          /\ given' = IF fails THEN given ELSE given + n * size
    /\ marked' = FALSE
    /\ UNCHANGED <<size, pos, strm, ended, syncFlush, status, bosDone, getError, reading, promised, opens>>

Flush ==
    /\ status = "output" /\ ~tainted
    /\ \/ \E fails \in BOOLEAN : FlushTakes(fails) /\ Fails(fails)
       \/ /\ NoProgress
          /\ tainted' = TRUE /\ told' = TRUE
          /\ UNCHANGED <<file, zlib, blamed>>
    /\ UNCHANGED <<size, pos, ended, syncFlush, status, bosDone, getError, given, reading, promised, opens>>

(* adjust() *)
Adjust(sync) ==
    /\ ~tainted
    /\ syncFlush' = sync
    /\ UNCHANGED <<size, file, pos, zlib, ended, layer, given, reading, told, blamed, promised, opens>>
-----------------------------------------------------------------------------
(* inflate() goes from the unit before i on with unit i. *)
Inflated(i) == FlattenSeq([j \in 1..(i - 2) |-> file[j + 2].bytes])
Good(i) ==
    LET before == IF i = 3 THEN "head2" ELSE file[i - 1].kind
    IN \/ file[i].kind \in {"data", "mark", "end"} /\ before # "end"
       \/ file[i].kind = "sum" /\ before = "end" /\ file[i].bytes = Inflated(i - 1)

(* What inflate() can hand over once it was fed u units. *)
Fed(u) == held \o FlattenSeq([j \in 1..u |-> file[pos + j].bytes])
Ends(u) == u > 0 /\ Good(pos + u) /\ file[pos + u].kind = "sum"
Wrong(u) == pos + u > 2 /\ ~Good(pos + u)
Bytes(u) == IF Ends(u) \/ Wrong(u) THEN Fed(u - 1) ELSE Fed(u)
FeedsOn(u, aim) == Len(Bytes(u)) < aim /\ ~Ends(u) /\ ~Wrong(u)

CutOffPasses(u, out, aim) == Wrong(u)  (* faulty: the end of the kernel is an end *)
CutOff(u, out, aim) == out < aim /\ ~Ends(u)

(* get_main() feeds the units one by one, until all n characters are there *)
(* or the stream, the data, the kernel or its patience ends.  An error     *)
(* after some characters waits for the next call.                          *)
Get(n) ==
    /\ ~getError /\ ~tainted /\ bosDone /\ status = "input" /\ ~ended
    /\ LET aim == n * size
       IN \E u \in 0..(Len(file) - pos), fails \in BOOLEAN :
             /\ \A v \in 0..(u - 1) : FeedsOn(v, aim)
             /\ FeedsOn(u, aim) => fails \/ pos + u = Len(file)
             /\ fails => FeedsOn(u, aim)
             /\ \E out \in {Least(Len(Bytes(u)), aim)} : \E error \in {fails \/ CutOff(u, out, aim) \/ out % size # 0} :
                   /\ held' = SubSeq(Bytes(u), out + 1, Len(Bytes(u)))
                   /\ got' = got \o Upto(Bytes(u), out - (out % size))
                   /\ getError' = (error /\ out >= size)
                   /\ short' = (out < aim /\ (error => out >= size))
                   /\ missed' = (missed \/ (error /\ out % size # 0))
             /\ pos' = pos + u
             /\ ended' = Ends(u)
    /\ UNCHANGED <<size, file, strm, sum, marked, syncFlush, status, bosDone, tainted, given, told, blamed,
                   promised, opens>>

(* Past the end of the stream there is nothing more. *)
GetEnded ==
    /\ ~getError /\ ~tainted /\ bosDone /\ status = "input" /\ ended
    /\ short' = TRUE
    /\ UNCHANGED <<size, file, pos, zlib, ended, syncFlush, layer, given, got, missed, told, blamed,
                   promised, opens>>

GetHeld ==
    /\ getError /\ getError' = FALSE
    /\ short' = FALSE
    /\ UNCHANGED <<size, file, pos, zlib, ended, syncFlush, status, bosDone, tainted, given, got, missed,
                   told, blamed, promised, opens>>
-----------------------------------------------------------------------------
(* attach() of a device that holds f. *)
Fresh(f) ==
    /\ Closed
    /\ opens < MaxOpens /\ opens' = opens + 1
    /\ file' = f /\ pos' = 0
    /\ got' = <<>> /\ short' = FALSE /\ missed' = FALSE
    /\ told' = FALSE
    /\ UNCHANGED size

ErrorDropped(taken) == FALSE  (* faulty *)
Reported(taken) == taken \notin Finish(held)

(* detach(), which reports what close_stream() threw, or else the kernel,  *)
(* and attach() of the device that it returned.                            *)
Reopen ==
    \E rest \in Finish(held), report \in BOOLEAN : \E taken \in Taken(rest) :
        /\ Reported(taken) => report
        /\ Fresh(file \o taken)
        /\ promised' = (status = "output" /\ ~told /\ ~report)
        /\ given' = IF promised' THEN given ELSE 0
        /\ getError' = FALSE /\ tainted' = FALSE /\ blamed' = FALSE

(* attach() of another device, which closes the old stream as well; the    *)
(* kernel's may throw.                                                     *)
Attach(f) ==
    /\ Fresh(f) /\ promised' = FALSE /\ given' = 0
    /\ \/ getError' = FALSE /\ tainted' = FALSE /\ blamed' = FALSE
       \/ UNCHANGED getError /\ tainted' = TRUE /\ blamed' = TRUE

(* Calls on a tainted converter, or against its direction, throw. *)
Refused ==
    /\ tainted \/ ~bosDone \/ status # "input"
    /\ UNCHANGED vars

Next ==
    \/ Bos \/ MainContBeg
    \/ \E n \in 1..MaxAsk : Put(n) \/ Get(n)
    \/ Flush
    \/ \E sync \in BOOLEAN : Adjust(sync)
    \/ GetEnded \/ GetHeld
    \/ Reopen
    \/ \E f \in Foreign \cup {<<>>} : Attach(f)
    \/ Refused

Spec == Init /\ [][Next]_vars
-----------------------------------------------------------------------------
(* What a writer leaves who closed the device and heard of no failure is a *)
(* whole stream of all that was put.                                       *)
ClosesWhole ==
    promised =>
        /\ IsPrefix(Head12, file) /\ Len(file) > 2
        /\ \A i \in 3..Len(file) : Good(i)
        /\ file[Len(file)] = Unit("sum", Numbers(0, given))

(* A reader who is told of no error and gets less than it asked for, or    *)
(* comes to the end, has read the whole of a stream.                       *)
EndsWithAll ==
    /\ short /\ ~getError => ended
    /\ ended /\ ~getError /\ ~missed =>
          pos > 0 /\ file[pos].kind = "sum" /\ got = file[pos].bytes

(* The converter is tainted only for what others did. *)
TaintHasCause == tainted => blamed
=============================================================================
