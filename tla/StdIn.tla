------------------------------- MODULE StdIn -------------------------------
(***************************************************************************)
(* stdin_root_cvt_imp over std_device<0>: the one buffer below all the     *)
(* standard input streams, which reads through C stdio while synchronized  *)
(* and from the file descriptor while not, in a program that reads stdin   *)
(* itself too.  What a stream has looked at and not used goes back at the  *)
(* end of its extraction.                                                  *)
(*                                                                         *)
(* The streams share one mutex, so their extractions do not overlap;       *)
(* getchar() and the like may come between any two steps.  The bytes of    *)
(* the input are numbered.  An end may be told before the last of them, as *)
(* a terminal does; it is remembered, by the FILE or by the device.        *)
(*                                                                         *)
(* Not modelled: bad_alloc, reset() and detach(), which drop what is       *)
(* buffered on purpose, and get_buf<true>(), which only headers of         *)
(* converters use.                                                         *)
(***************************************************************************)
EXTENDS Naturals, FiniteSets, Sequences, SequencesExt

CONSTANTS InputLen, (* bound: how many bytes the input has                  *)
          BufLen,   (* s_buffer_length                                      *)
          MaxAsk    (* bound: the most an extraction asks for               *)

StdInAssumption ==
    InputLen \in Nat /\ BufLen \in Nat \ {0} /\ MaxAsk \in 1..BufLen

VARIABLES
    fd,     (* the bytes not yet read from the descriptor                   *)
    file,   (* those in the buffer of stdin's FILE                          *)
    probed, (* m_c of the device, a sequence of at most one                 *)
    ended,  (* feof(stdin)                                                  *)
    hitEnd, (* m_eof_hit of the device                                      *)
    rest,   (* the bytes from m_cur to m_end                                *)
    synced, (* m_synced, and m_use_stdio of the device                      *)
    held,   (* what the extraction under way has taken                      *)
    inBuf,  (* how many of those it may still roll back                     *)
    kept,   (* what extractions have kept                                   *)
    byC,    (* what the program has read through C stdio                    *)
    mixed   (* bytes are here that a switch or a refusing FILE left here    *)

source == <<fd, file, probed>>
ends == <<ended, hitEnd>>
vars == <<source, ends, rest, synced, held, inBuf, kept, byC, mixed>>

Least(m, n) == IF m < n THEN m ELSE n
First(s, n) == SubSeq(s, 1, Least(n, Len(s)))
After(s, n) == SubSeq(s, n + 1, Len(s))
All == [i \in 1..InputLen |-> i]

Mixes(now) == mixed' = ((mixed \/ now) /\ rest' \o probed' # <<>>)

Init ==
    /\ fd = All /\ file = <<>> /\ probed = <<>> /\ rest = <<>>
    /\ ended = FALSE /\ hitEnd = FALSE
    /\ synced = TRUE
    /\ held = <<>> /\ inBuf = 0
    /\ kept = {} /\ byC = {} /\ mixed = FALSE
-----------------------------------------------------------------------------
(* The results of a read: what it got, and what it left where.             *)
Outcome(got, device, left, unread) ==
    [got |-> got, probed |-> device, file |-> left, fd |-> unread]

Nothing == Outcome(<<>>, probed, file, fd)

(* fread() of n bytes waits for all of them, stops at an end or after an   *)
(* error that came later than some byte, and may read ahead.  The FILE     *)
(* asks no more after an end.                                              *)
FileRead(n) ==
    IF ended THEN {Nothing}
    ELSE IF n <= Len(file)
    THEN {Outcome(First(file, n), probed, After(file, n), fd)}
    ELSE LET need == Least(n - Len(file), Len(fd))
         IN {Outcome(file \o First(fd, k), probed, <<>>, After(fd, k)) : k \in 0..need}
            \cup {Outcome(file \o First(fd, need), probed,
                          SubSeq(fd, need + 1, k), After(fd, k)) : k \in need..Len(fd)}

FileEnds(n, got) ==
    ended' \in {e \in BOOLEAN : (got = <<>> => e) /\ (e => Len(got) < n)}

(* read() returns what there is, n bytes at the most; nothing is an end.   *)
FdRead(n) ==
    IF hitEnd THEN {Nothing}
    ELSE {Outcome(First(fd, k), probed, file, After(fd, k)) : k \in 0..Least(n, Len(fd))}

(* fd_get(): the probed byte first, and more only if that does not wait.   *)
FdGet(n) ==
    IF hitEnd \/ probed = <<>> THEN FdRead(n)
    ELSE {Outcome(probed \o First(fd, k), <<>>, file, After(fd, k)) :
             k \in 0..Least(n - 1, Len(fd))}

FdEnds(n, got) ==
    hitEnd' \in {e \in BOOLEAN :
                    (got = <<>> => e) /\ (e => got \in {<<>>, probed} /\ Len(got) < n)}

(* stdio_get(): a probed byte alone, or through the FILE. *)
StdioGet(n) ==
    IF probed = <<>> THEN FileRead(n) ELSE {Outcome(probed, <<>>, file, fd)}

Dget(n) == IF synced THEN StdioGet(n) ELSE FdGet(n)

DgetEnds(n, got) ==
    \/ synced /\ probed = <<>> /\ FileEnds(n, got) /\ UNCHANGED hitEnd
    \/ synced /\ probed # <<>> /\ UNCHANGED ends
    \/ ~synced /\ FdEnds(n, got) /\ UNCHANGED ended

Leaves(r) == probed' = r.probed /\ file' = r.file /\ fd' = r.fd

(* dunget(): the FILE takes s in front of its bytes and forgets the end,  *)
Shares == synced /\ probed = <<>>

Dungets(s) ==
    Shares /\ file' = s \o file /\ ended' = FALSE /\ UNCHANGED <<fd, probed, hitEnd>>

(* ... or the device refuses and no byte has moved; but a FILE that takes  *)
(* one byte and not the next has forgotten the end.                        *)
Refuses(s) ==
    /\ UNCHANGED <<source, hitEnd>>
    /\ ended' \in IF Shares /\ Len(s) > 1 THEN {ended, FALSE} ELSE {ended}
-----------------------------------------------------------------------------
Begins == held = <<>> /\ inBuf = 0

HandsOut(s, n) == held' = First(s, n) /\ rest' = After(s, n)

(* get(): what the buffer holds; else, synchronized, from the device past  *)
(* the buffer, and, not synchronized, after filling the buffer.            *)
Get(n) ==
    /\ Begins
    /\ \/ rest # <<>> /\ HandsOut(rest, n) /\ UNCHANGED <<source, ends>>
       \/ /\ rest = <<>>
          /\ LET asked == IF synced THEN n ELSE BufLen
             IN \E r \in Dget(asked) :
                   HandsOut(r.got, n) /\ Leaves(r) /\ DgetEnds(asked, r.got)
    /\ Mixes(FALSE)
    /\ UNCHANGED <<synced, inBuf, kept, byC>>

(* get_buf(): reads what is missing, or, not synchronized, all there is    *)
(* room for; what it hands out may be rolled back.                         *)
Wants(n) ==
    IF synced THEN Least(n - Len(rest), BufLen - Len(rest)) ELSE BufLen - Len(rest)

GetBuf(n) ==
    /\ Begins
    /\ \/ Len(rest) >= n /\ HandsOut(rest, n) /\ UNCHANGED <<source, ends>>
       \/ /\ Len(rest) < n
          /\ \E r \in Dget(Wants(n)) :
                HandsOut(rest \o r.got, n) /\ Leaves(r) /\ DgetEnds(Wants(n), r.got)
    /\ inBuf' = Len(held')
    /\ Mixes(FALSE)
    /\ UNCHANGED <<synced, kept, byC>>

(* rollback(): the last n go back, with all that is behind them. *)
Rollback(n) ==
    /\ n \in 1..inBuf
    /\ LET back == After(held, Len(held) - n) \o rest
       IN \/ Dungets(back) /\ rest' = <<>> /\ Mixes(FALSE)
          \/ Refuses(back) /\ rest' = back /\ Mixes(Shares)
    /\ held' = First(held, Len(held) - n)
    /\ inBuf' = 0
    /\ UNCHANGED <<synced, kept, byC>>

(* The extraction keeps n bytes and unget()s the others: to the FILE only  *)
(* if nothing that comes after them is in the buffer.                      *)
UngetsAlways(s) ==  (* faulty: it does not look at the buffer *)
    \/ Dungets(s) /\ UNCHANGED rest /\ Mixes(FALSE)
    \/ Refuses(s) /\ rest' = s \o rest /\ Mixes(Shares)

Ungets(s) ==
    \/ s = <<>> /\ UNCHANGED <<source, ends, rest>> /\ Mixes(FALSE)
    \/ s # <<>> /\ rest = <<>> /\ Dungets(s) /\ UNCHANGED rest /\ Mixes(FALSE)
    \/ /\ s # <<>>
       /\ rest' = s \o rest
       /\ \/ rest = <<>> /\ Refuses(s) /\ Mixes(Shares)
          \/ rest # <<>> /\ UNCHANGED <<source, ends>> /\ Mixes(FALSE)

Finish(n) ==
    /\ held # <<>> /\ n \in 0..Len(held)
    /\ Ungets(After(held, n))
    /\ kept' = kept \cup ToSet(First(held, n))
    /\ held' = <<>> /\ inBuf' = 0
    /\ UNCHANGED <<synced, byC>>

(* is_eof(): an empty buffer asks the device, which, with no byte probed   *)
(* before, must read one to know: it keeps it, or hands it to the FILE.    *)
Probes == probed = <<>>

IsEof ==
    /\ Begins /\ rest = <<>> /\ Probes
    /\ IF synced
       THEN \E r \in FileRead(1) :
               /\ fd' = r.fd /\ file' = r.got \o r.file /\ ended' = (r.got = <<>>)
               /\ UNCHANGED <<probed, hitEnd>>
       ELSE \E r \in FdRead(1) :
               /\ fd' = r.fd /\ probed' = probed \o r.got /\ hitEnd' = (r.got = <<>>)
               /\ UNCHANGED <<file, ended>>
    /\ Mixes(FALSE)
    /\ UNCHANGED <<rest, synced, held, inBuf, kept, byC>>

(* synchronize(): moves no byte; the device forgets an end it met.         *)
Synchronize ==
    /\ Begins
    /\ synced' = ~synced
    /\ hitEnd' = (hitEnd /\ synced)
    /\ UNCHANGED <<source, ended, rest, held, inBuf, kept, byC>>
    /\ Mixes(TRUE)

(* The program reads a byte with getchar(), or sees an end; and it makes   *)
(* the FILE forget one.                                                    *)
CGet ==
    /\ \E r \in FileRead(1) :
          /\ r.got # <<>>
          /\ byC' = byC \cup ToSet(r.got)
          /\ Leaves(r) /\ FileEnds(1, r.got)
    /\ UNCHANGED <<hitEnd, rest, synced, held, inBuf, kept, mixed>>

CMeetsEnd ==
    /\ file = <<>> /\ ended' = TRUE
    /\ UNCHANGED <<source, hitEnd, rest, synced, held, inBuf, kept, byC, mixed>>

ClearErr ==
    /\ ended /\ ended' = FALSE
    /\ UNCHANGED <<source, hitEnd, rest, synced, held, inBuf, kept, byC, mixed>>

Next ==
    \/ \E n \in 1..MaxAsk : Get(n) \/ GetBuf(n) \/ Rollback(n)
    \/ \E n \in 0..MaxAsk : Finish(n)
    \/ IsEof \/ Synchronize \/ CGet \/ CMeetsEnd \/ ClearErr

Spec == Init /\ [][Next]_vars
-----------------------------------------------------------------------------
Everywhere == fd \o file \o probed \o rest \o held

(* Whatever is probed, rolled back, handed back, refused or switched, no   *)
(* byte of the input is lost and none is read twice.                       *)
ByteOnce ==
    /\ Len(Everywhere) + Cardinality(kept) + Cardinality(byC) = InputLen
    /\ ToSet(Everywhere) \cup kept \cup byC = ToSet(All)

(* What the streams will read next, in their order: probing, rolling back  *)
(* and handing back leave it as it is, and an extraction takes what it     *)
(* keeps from its front.  Only a switch and C stdio change it.             *)
Due == held \o rest \o probed \o (IF synced THEN file ELSE <<>>) \o fd

ReadOn ==
    /\ ByteOnce'
    /\ synced' = synced /\ byC' = byC =>
          IF kept' = kept THEN Due' = Due
          ELSE \E n \in 1..Len(held) :
                  Due' = After(Due, n) /\ kept' = kept \cup ToSet(First(Due, n))

(* A synchronized stream leaves nothing behind between two extractions     *)
(* that C stdio cannot see: only a switch made while bytes were buffered,  *)
(* or a FILE that refuses them, keeps any here, and only until they are    *)
(* read.                                                                   *)
LeavesToStdio ==
    synced /\ held = <<>> /\ ~mixed => rest \o probed = <<>>

(* The end that stdio or the device remembers hides nothing: as long as    *)
(* anything is left that was probed, or that went back to the FILE behind  *)
(* that end, a stream that reads on gets some of it, whatever the kernel   *)
(* has.                                                                    *)
EndComesLast ==
    held \o rest = <<>> /\ Due # fd =>
        \A n \in 1..MaxAsk : \A r \in Dget(n) : r.got # <<>>
=============================================================================
