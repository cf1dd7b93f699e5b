------------------------------ MODULE LayerCvt ------------------------------
(***************************************************************************)
(* One layer of a converter pipe: vigenere_cvt on abs_cvt.  The kernel is  *)
(* a file with a position, as ByteStream promises, that may fail at every  *)
(* call and may land elsewhere when it is asked to seek.  The layer adds   *)
(* its own position in the key, an error it holds back, and the taint.     *)
(*                                                                         *)
(* Calls of one converter do not overlap, so one action is one call.  What *)
(* a put stages is committed or dropped before it returns.                 *)
(***************************************************************************)
EXTENDS Naturals, Sequences

CONSTANTS Contents, (* what devices hold when they are attached             *)
          Key,      (* the key, a sequence of characters                    *)
          Width,    (* how many characters there are: arithmetic wraps      *)
          BosChunk, (* s_bos_chunk: units read at once in the header        *)
          MaxAsk,   (* bound: the most one call reads or writes             *)
          MaxByte,  (* bound: the last number given to a written character  *)
          MaxEra    (* bound: how often a device or a header is replaced    *)

ASSUME LayerAssumption ==
    /\ Width \in Nat \ {0} /\ BosChunk \in Nat \ {0}
    /\ Contents \subseteq Seq(0..(Width - 1))
    /\ Key \in Seq(0..(Width - 1)) /\ Key # <<>>
    /\ MaxAsk \in Nat /\ MaxByte \in 0..(Width - 1) /\ MaxEra \in Nat

VARIABLES
    file,     (* the characters below this layer, header included           *)
    pos,      (* the kernel's position, from the start of the header        *)
    base,     (* where the kernel's main content begins                     *)
    status,   (* m_io_status                                                *)
    bosDone,  (* m_is_bos_done                                              *)
    unread,   (* m_buf_end - m_buf_cur                                      *)
    getError, (* m_get_error holds an error                                 *)
    tainted,  (* m_is_tainted                                               *)
    keyPos,   (* m_pos of vigenere_cvt                                      *)
    nextByte, (* the number of the next character written                   *)
    got,      (* what the last call read                                    *)
    short,    (* whether it read less than it was asked, without throwing   *)
    lost,     (* whether characters given to a put were dropped             *)
    era       (* how often a device or a header was replaced                *)

kernel == <<file, pos, base>>
layer == <<status, bosDone, unread, getError, tainted, keyPos>>
vars == <<kernel, layer, nextByte, got, short, lost, era>>

Least(m, n) == IF m < n THEN m ELSE n
Left == Len(file) - pos

KeyAt(p) == Key[(p % Len(Key)) + 1]
SubWrap(a, b) == (a + Width - b) % Width
AddWrap(a, b) == (a + b) % Width

(* kernel_tell(), from the start of the header. *)
KernelTell == pos - unread

(* A call reads `chars`, or none; every other call reads none. *)
Reads(chars, less) == got' = chars /\ short' = less
Quiet == Reads(<<>>, FALSE)
Aside == Quiet /\ UNCHANGED <<nextByte, lost, era>>

Init ==
    /\ file \in Contents /\ pos = 0 /\ base = 0
    /\ status = "neutral" /\ bosDone = FALSE /\ unread = 0
    /\ getError = FALSE /\ tainted = FALSE /\ keyPos = 0
    /\ nextByte = 1 /\ got = <<>> /\ short = FALSE /\ lost = FALSE /\ era = 0
-----------------------------------------------------------------------------
(* A failed bos() or main_cont_beg() releases the key position and taints. *)
Spoil ==
    /\ status' = "neutral" /\ keyPos' = 0 /\ tainted' = TRUE
    /\ Aside
    /\ UNCHANGED <<kernel, bosDone, unread, getError>>

(* bos(): once, from neutral. *)
Bos ==
    /\ ~tainted
    /\ IF status # "neutral" \/ bosDone
       THEN Spoil
       ELSE \/ Spoil
            \/ /\ status' = IF Left = 0 THEN "output" ELSE "input"
               /\ Aside
               /\ UNCHANGED <<kernel, bosDone, unread, getError, tainted, keyPos>>

(* main_cont_beg(): positions count from here.  A caller whose header read *)
(* failed, which leaves unread characters, does not go on to it.           *)
MainContBeg ==
    /\ ~tainted /\ unread = 0
    /\ \/ Spoil
       \/ /\ status # "neutral" /\ era < MaxEra
          /\ base' = pos
          /\ bosDone' = TRUE /\ keyPos' = 0
          /\ era' = era + 1
          /\ Quiet
          /\ UNCHANGED <<file, pos, status, unread, getError, tainted, nextByte, lost>>
-----------------------------------------------------------------------------
(* get() reports first what an earlier one held back. *)
GetHeld ==
    /\ getError /\ getError' = FALSE
    /\ Aside
    /\ UNCHANGED <<kernel, status, bosDone, unread, tainted, keyPos>>

(* get() of n characters of the header: all of them, or it throws.  Whole  *)
(* chunks before the failing one are gone, what is fetched of it stays.    *)
GetHeader(n) ==
    /\ ~getError /\ ~tainted /\ ~bosDone /\ status = "input"
    /\ UNCHANGED <<file, base, status, bosDone, getError, tainted, keyPos, nextByte, lost, era>>
    /\ \/ /\ n <= unread + Left
          /\ unread' = IF n <= unread THEN unread - n ELSE 0
          /\ pos' = KernelTell + n + unread'
          /\ Reads(SubSeq(file, KernelTell + 1, KernelTell + n), FALSE)
       \/ \E c \in {i \in 0..(n - 1) : i % BosChunk = 0} :
             /\ unread' \in (IF c = 0 THEN unread ELSE 0)..(Least(BosChunk, n - c) - 1)
             /\ pos' = KernelTell + c + unread'
             /\ pos' <= Len(file)
             /\ Quiet

(* get() in the header, before bos() or while writing it, throws. *)
MayRead == ~tainted

DeliveredSame(k) ==  (* faulty: the key does not advance within a call *)
    [i \in 1..k |-> SubWrap(file[pos + i], KeyAt(keyPos))]

(* The next k characters, decoded. *)
Delivered(k) == [i \in 1..k |-> SubWrap(file[pos + i], KeyAt(keyPos + i - 1))]

(* An error after some characters waits for the next call. *)
HoldsNever(k, fails) == FALSE  (* faulty: it is forgotten *)
Holds(k, fails) == fails /\ k > 0

(* get() of n characters of the content: it turns to reading if it must,   *)
(* decodes what the kernel delivers, and stops at the end or at a failure. *)
Get(n) ==
    /\ ~getError /\ MayRead /\ bosDone
    /\ \E k \in 0..Least(n, Left), fails \in BOOLEAN :
          /\ k < Least(n, Left) => fails
          /\ fails => k < n
          /\ pos' = pos + k
          /\ keyPos' = keyPos + k
          /\ getError' = Holds(k, fails)
          /\ Reads(Delivered(k), k < n /\ ~(fails /\ k = 0))
    /\ status' = "input"
    /\ UNCHANGED <<file, base, bosDone, unread, tainted, nextByte, lost, era>>
-----------------------------------------------------------------------------
(* The kernel takes k characters at p. *)
Stored(p, chars) == SubSeq(file, 1, p) \o chars \o SubSeq(file, p + Len(chars) + 1, Len(file))

(* A put that throws drops what it staged and taints. *)
TaintsNever(fails) == tainted  (* faulty *)
Taints(fails) == tainted \/ fails

Written(n, k, fails) ==
    /\ nextByte + n - 1 <= MaxByte
    /\ nextByte' = nextByte + n
    /\ k < n => fails
    /\ tainted' = Taints(fails)
    /\ lost' = (lost \/ k < n)
    /\ Quiet

(* put() of n characters of the header, as they are. *)
PutHeader(n) ==
    /\ ~tainted /\ ~bosDone /\ status = "output"
    /\ \E k \in 0..n, fails \in BOOLEAN :
          /\ Written(n, k, fails)
          /\ file' = Stored(pos, [i \in 1..k |-> nextByte + i - 1])
          /\ pos' = pos + k
    /\ UNCHANGED <<base, status, bosDone, unread, getError, keyPos, era>>

(* Before bos() the kernel refuses, and that taints too. *)
PutNeutral ==
    /\ ~tainted /\ ~bosDone /\ status = "neutral"
    /\ tainted' = TRUE
    /\ Aside
    /\ UNCHANGED <<kernel, status, bosDone, unread, getError, keyPos>>

(* put() of n characters of the content: it turns to writing if it must,   *)
(* which drops a held error, and encodes from the key position on.  After  *)
(* a failure the key position may be ahead of what the kernel took.        *)
Put(n) ==
    /\ ~tainted /\ bosDone
    /\ \E k \in 0..n, fails \in BOOLEAN :
          /\ Written(n, k, fails)
          /\ file' = Stored(pos, [i \in 1..k |-> AddWrap(nextByte + i - 1, KeyAt(keyPos + i - 1))])
          /\ pos' = pos + k
          /\ keyPos' \in IF fails THEN (keyPos + k)..(keyPos + n) ELSE {keyPos + n}
    /\ status' = "output"
    /\ getError' = (getError /\ status = "output")
    /\ UNCHANGED <<base, bosDone, unread, era>>

(* flush() of a kernel that cannot taints. *)
FlushFails ==
    /\ status = "output" /\ ~tainted
    /\ tainted' = TRUE
    /\ Aside
    /\ UNCHANGED <<kernel, status, bosDone, unread, getError, keyPos>>
-----------------------------------------------------------------------------
(* switch_to_get(); when it throws, nothing has changed. *)
SwitchToGet ==
    /\ bosDone /\ ~tainted /\ status # "input"
    /\ status' = "input"
    /\ Aside
    /\ UNCHANGED <<kernel, bosDone, unread, getError, tainted, keyPos>>

(* switch_to_put() hands the read area back, which drops a held error, and *)
(* then turns the kernel, or throws.                                       *)
SwitchToPut ==
    /\ bosDone /\ ~tainted /\ status # "output"
    /\ pos' = KernelTell /\ unread' = 0 /\ getError' = FALSE
    /\ status' \in {status, "output"}
    /\ Aside
    /\ UNCHANGED <<file, base, bosDone, tainted, keyPos>>

(* Where seek_impl() and rseek_impl() find themselves: the kernel is asked. *)
ResyncNever(p) == keyPos  (* faulty: a kernel that threw did not move *)
Resync(p) == p - base - unread

(* seek(), rseek(): the kernel lands somewhere. *)
Seek ==
    /\ bosDone /\ ~tainted
    /\ pos' \in base..Len(file)
    /\ keyPos' = pos' - base
    /\ unread' = 0 /\ getError' = FALSE
    /\ Aside
    /\ UNCHANGED <<file, base, status, bosDone, tainted>>

(* They throw; wherever that left the kernel, the key position follows.    *)
(* When not even tell() answers, the layer is tainted.                     *)
SeekFails ==
    /\ bosDone /\ ~tainted
    /\ pos' \in (base + unread)..Len(file)
    /\ \/ keyPos' = Resync(pos') /\ tainted' = FALSE
       \/ keyPos' = keyPos /\ tainted' = TRUE
    /\ Aside
    /\ UNCHANGED <<file, base, status, bosDone, unread, getError>>
-----------------------------------------------------------------------------
Cleared ==
    /\ status' = "neutral" /\ bosDone' = FALSE
    /\ getError' = FALSE /\ tainted' = FALSE
    /\ unread' = 0

Replaced(f) ==
    /\ era < MaxEra /\ era' = era + 1
    /\ file' = f /\ pos' = 0 /\ base' = 0
    /\ keyPos' = 0
    /\ Quiet
    /\ UNCHANGED nextByte

(* attach(), of another device or, after a detach(), of the first. *)
Attach(f) == Replaced(f) /\ Cleared /\ lost' = FALSE

(* The kernel's attach() throws: the key position is gone, the rest stays  *)
(* and the layer is tainted until an attach() succeeds.                    *)
AttachFails(f) ==
    /\ Replaced(f)
    /\ tainted' = TRUE
    /\ UNCHANGED <<status, bosDone, unread, getError, lost>>

(* assert_not_tainted(), and the calls a header phase refuses, throw.      *)
Refused ==
    /\ tainted \/ ~bosDone
    /\ Aside
    /\ UNCHANGED <<kernel, layer>>

Next ==
    \/ Refused
    \/ Bos \/ MainContBeg
    \/ GetHeld
    \/ \E n \in 1..MaxAsk : GetHeader(n) \/ PutHeader(n) \/ Put(n)
    \/ \E n \in 0..MaxAsk : Get(n)
    \/ PutNeutral \/ FlushFails
    \/ SwitchToGet \/ SwitchToPut
    \/ Seek \/ SeekFails
    \/ \E f \in Contents : Attach(f) \/ AttachFails(f)

Spec == Init /\ [][Next]_vars
-----------------------------------------------------------------------------
(* The kernel's position is never behind what is still in the read area:   *)
(* kernel_tell() does not wrap below zero while the layer is usable.       *)
TypeOK ==
    /\ file \in Seq(0..(Width - 1)) /\ pos \in 0..Len(file) /\ base \in 0..pos
    /\ status \in {"neutral", "input", "output"}
    /\ unread \in 0..(BosChunk - 1)
    /\ tainted \/ unread <= pos - base
    /\ {bosDone, getError, tainted, short, lost} \subseteq BOOLEAN
    /\ keyPos \in Nat /\ nextByte \in Nat \ {0}
    /\ got \in Seq(0..(Width - 1))

(* The key is applied where the kernel is, or the layer refuses to work:   *)
(* through reads that fail half-way, seeks that land elsewhere, turns and  *)
(* new headers.                                                            *)
KeyInStep == bosDone /\ ~tainted => keyPos = pos - base - unread

(* A get() that returns less than it was asked for has come to the end, or *)
(* the next get() reports why not.                                         *)
ShortMeansEnd == short => Left = 0 \/ getError

(* Once a put has dropped characters, nothing more is read or written      *)
(* until another device is attached.                                       *)
NothingAfterLoss ==
    [][lost /\ era' = era => got' = <<>> /\ file' = file]_vars

(* What the layer shows above it: the header as it is, the rest decoded. *)
PlainFile ==
    IF bosDone
    THEN [i \in 1..Len(file) |->
            IF i <= base THEN file[i] ELSE SubWrap(file[i], KeyAt(i - base - 1))]
    ELSE file

(* The layer promises the layers above it what the kernel promises: a file *)
(* and a position, with a key nobody sees.                                 *)
PlainPos == IF unread <= pos THEN KernelTell ELSE 0  (* after AttachFails *)

Above == INSTANCE ByteStream
    WITH file <- PlainFile, pos <- PlainPos, next <- nextByte, MaxChunk <- MaxAsk

ImplementsByteStream == Above!Spec
=============================================================================
