------------------------------ MODULE CodeCvt -------------------------------
(***************************************************************************)
(* code_cvt on abs_cvt: characters above, units of an encoding below.  The *)
(* kernel is a root converter: a file with a position that goes where a    *)
(* seek asks or stays and throws, and may fail at every call.              *)
(*                                                                         *)
(* There are three kinds of encoding: "fixed" (one unit a character),      *)
(* "multi" (some take two) and "shift" (two states, with a unit for each   *)
(* turn).  A device is opened with no header, which LayerCvt covers.       *)
(***************************************************************************)
EXTENDS Integers, Sequences, SequencesExt

CONSTANTS Contents, (* for each kind, what devices hold when opened         *)
          MaxAsk,   (* bound: the most characters one call reads            *)
          Texts,    (* what one call writes                                 *)
          MaxLen,   (* bound: units in a file                               *)
          MaxOpen   (* bound: how often a device is opened                  *)

(* a: one unit, in both states.  l t: two, "multi" and shifted "shift"      *)
(* only.  o, i: shift out and in.  z: zero.  x: never valid.                *)
Units == {"a", "l", "t", "o", "i", "z", "x"}

(* Characters, one of which no encoding has. *)
Chars == {"a", "c", "lt", "z", "none"}

CodeAssumption ==
    /\ DOMAIN Contents = {"fixed", "multi", "shift"}
    /\ \A k \in DOMAIN Contents : Contents[k] \subseteq Seq(Units)
    /\ Texts \subseteq Seq(Chars)
    /\ MaxAsk \in Nat /\ MaxLen \in Nat /\ MaxOpen \in Nat

VARIABLES
    kind,     (* of m_cvt_kernel                                            *)
    file,     (* the units below                                            *)
    pos,      (* the kernel's position                                      *)
    status,   (* m_io_status                                                *)
    unread,   (* m_buf_end - m_buf_cur                                      *)
    getError, (* m_get_error holds an error                                 *)
    tainted,  (* m_is_tainted                                               *)
    shifted,  (* m_state is not the initial one                             *)
    accu,     (* m_accu_len                                                 *)
    skipped,  (* the bad units skipped since the last seek                  *)
    reads,    (* whether the last call was a get()                          *)
    got,      (* what it read, "bad" for a bad unit it skipped              *)
    put,      (* what the last call wrote, if it did not throw              *)
    short,    (* whether it read less than asked, without throwing          *)
    threw,    (* whether it threw                                           *)
    opened    (* how often a device was opened                              *)

kernel == <<file, pos>>
state == <<status, unread, getError, tainted, shifted, accu, skipped>>
vars == <<kind, kernel, state, reads, got, put, short, threw, opened>>

VarLength == kind # "fixed"
KernelTell == pos - unread
Stored(p, units) == SubSeq(file, 1, p) \o units \o SubSeq(file, p + Len(units) + 1, Len(file))

(* A call neither reads nor writes, and throws or not. *)
Quiet(fails) ==
    /\ reads' = FALSE /\ got' = <<>> /\ put' = <<>> /\ short' = FALSE
    /\ threw' = fails
    /\ UNCHANGED kind

(* bos() and main_cont_beg() of a device without a header. *)
Opens(f) ==
    /\ file' = f /\ pos' = 0
    /\ status' = IF f = <<>> THEN "output" ELSE "input"

Init ==
    /\ kind \in DOMAIN Contents /\ file \in Contents[kind] /\ pos = 0
    /\ status = IF file = <<>> THEN "output" ELSE "input"
    /\ unread = 0 /\ getError = FALSE /\ tainted = FALSE
    /\ shifted = FALSE /\ accu = 0 /\ skipped = 0
    /\ reads = FALSE /\ got = <<>> /\ put = <<>> /\ short = FALSE /\ threw = FALSE /\ opened = 1
-----------------------------------------------------------------------------
(* The encodings: one character at the front of `units`, or why there is   *)
(* none.  A zero is a character of itself.                                 *)
Shifts == IF kind = "shift" THEN {"o", "i"} ELSE {}

Plain(sh, units) ==
    LET pairs == kind = "multi" \/ (kind = "shift" /\ sh)
    IN CASE units[1] = "a" -> [is |-> "char", char |-> IF sh THEN "c" ELSE "a", len |-> 1, sh |-> sh]
         [] units[1] = "z" -> [is |-> "char", char |-> "z", len |-> 1, sh |-> FALSE]
         [] units[1] = "l" /\ pairs /\ Len(units) = 1 -> [is |-> "part", len |-> 1, sh |-> sh]
         [] units[1] = "l" /\ pairs /\ Len(units) > 1 /\ units[2] = "t"
              -> [is |-> "char", char |-> "lt", len |-> 2, sh |-> sh]
         [] OTHER -> [is |-> "bad", len |-> 1, sh |-> sh]

(* mbrtowc() of the C library judges a character with the shifts before it. *)
MbRead(sh, units) ==
    LET first == SelectInSeq(units, LAMBDA u : u \notin Shifts)
        k     == IF first = 0 THEN Len(units) ELSE first - 1
        after == IF k = 0 THEN sh ELSE units[k] = "o"
        r     == Plain(after, SubSeq(units, k + 1, Len(units)))
    IN IF first = 0 THEN [is |-> "turn", len |-> k, sh |-> after]
       ELSE [r EXCEPT !.len = k + @]

(* One round of in_helper(): a zero ends what mbrtowc() is shown, and a    *)
(* shift is taken off what it rejects.                                     *)
TakeOffNever(sh, units, r) == r  (* faulty: shift and bad unit are one *)
TakeOff(sh, units, r) ==
    IF r.is \in {"bad", "part"} /\ Len(units) > 1 /\ units[1] \in Shifts
    THEN [is |-> "turn", len |-> 1, sh |-> units[1] = "o"]
    ELSE r

ReadOne(sh, units) ==
    LET zero  == IF kind = "shift" THEN SelectInSeq(units, LAMBDA u : u = "z") ELSE 0
        shown == IF zero = 0 THEN units ELSE SubSeq(units, 1, zero - 1)
        cut(r) == IF r.is = "part" /\ zero # 0 THEN [r EXCEPT !.is = "bad"] ELSE r
    IN IF units[1] = "z" THEN Plain(sh, units)
       ELSE cut(TakeOff(sh, shown, MbRead(sh, shown)))

(* in_helper(): at most `max` characters of `units`. *)
Took(r) == IF r.is = "char" THEN <<r.char>> ELSE <<>>

Helpings == [sh : BOOLEAN, units : Seq(Units), max : Nat]
InHelper[q \in Helpings] ==
    IF q.units = <<>> \/ q.max = 0 THEN [ok |-> TRUE, chars |-> <<>>, used |-> 0, sh |-> q.sh]
    ELSE LET r == ReadOne(q.sh, q.units)
         IN IF r.is \in {"bad", "part"}
            THEN [ok |-> r.is = "part", chars |-> <<>>, used |-> 0, sh |-> q.sh]
            ELSE [InHelper[[sh |-> r.sh, units |-> SubSeq(q.units, r.len + 1, Len(q.units)),
                            max |-> q.max - Len(Took(r))]]
                     EXCEPT !.chars = Took(r) \o @, !.used = r.len + @]

(* The loop of get_main().  It has come to `from`, the kernel to `fetched`, *)
(* `left` characters are still to be read, and the last round left `kept`  *)
(* units of one.  The kernel throws once it has answered `calls` times.    *)
Area(r) == r.fetched - r.from
Rounds ==
    {r \in [from : 0..Len(file), fetched : 0..Len(file), sh : BOOLEAN, out : Seq(Chars), left : Nat,
            kept : 0..Len(file), calls : Nat, end : {"on"}] : r.kept <= Area(r)}

Dest(r) == Max({r.left, r.kept + 1})
Fetches(r) == Dest(r) > Area(r)
Filled(r) ==
    IF Fetches(r)
    THEN [r EXCEPT !.fetched = @ + Min({Dest(r) - Area(r), Len(file) - @}), !.calls = @ - 1]
    ELSE r
Size(r) == Min({Dest(r), Area(Filled(r))})

Helped(r) == InHelper[[sh |-> r.sh, units |-> SubSeq(file, r.from + 1, r.from + Size(r)), max |-> r.left]]
Decoded(r, h) ==
    [Filled(r) EXCEPT !.from = @ + h.used, !.sh = h.sh, !.out = @ \o h.chars, !.left = @ - Len(h.chars),
                      !.kept = Size(r) - h.used]

SkipKeeps(r) == r.from  (* faulty: a bad unit is met again *)
SkipOne(r) == r.from + 1
Rejected(r) ==
    IF r.out # <<>> THEN [r EXCEPT !.end = "stop"] ELSE [r EXCEPT !.end = "bad", !.from = SkipOne(r)]

GetMain[r \in Rounds] ==
    IF r.left = 0 THEN [r EXCEPT !.end = "full"]
    ELSE IF Fetches(r) /\ r.calls = 0 THEN [r EXCEPT !.end = "fails"]
    ELSE IF Size(r) = r.kept
    THEN [Filled(r) EXCEPT !.end = IF r.kept = 0 \/ r.out # <<>> THEN "end" ELSE "part"]
    ELSE LET h == Helped(r)
         IN IF h.ok THEN GetMain[Decoded(r, h)] ELSE Rejected(Decoded(r, h))
-----------------------------------------------------------------------------
(* get() of n characters, which turns to reading if it must: not inside of *)
(* shifted text.                                                           *)
Get(n) ==
    /\ ~getError /\ ~tainted
    /\ status = "input" \/ (status = "output" /\ ~shifted)
    /\ \E r \in {GetMain[[from |-> KernelTell, fetched |-> pos, sh |-> shifted, out |-> <<>>, left |-> n,
                             kept |-> 0, calls |-> calls, end |-> "on"]] : calls \in 0..(2 * MaxAsk)} :
            /\ pos' = r.fetched /\ unread' = r.fetched - r.from
            /\ shifted' = r.sh
            /\ accu' = accu + Len(r.out)
            /\ skipped' = IF r.end = "bad" THEN skipped + 1 ELSE skipped
            /\ getError' = (r.end = "fails" /\ r.out # <<>>)
            /\ got' = IF r.end = "bad" THEN <<"bad">> ELSE r.out
            /\ threw' = (r.end \in {"bad", "part"} \/ (r.end = "fails" /\ r.out = <<>>))
            /\ short' = (Len(r.out) < n /\ ~threw')
    /\ status' = "input" /\ put' = <<>> /\ reads' = TRUE
    /\ UNCHANGED <<kind, file, tainted, opened>>

(* get() reports what an earlier one held back. *)
GetHeld ==
    /\ getError /\ getError' = FALSE
    /\ reads' = TRUE /\ got' = <<>> /\ put' = <<>> /\ short' = FALSE /\ threw' = TRUE
    /\ UNCHANGED <<kind, kernel, status, unread, tainted, shifted, accu, skipped, opened>>
-----------------------------------------------------------------------------
(* out_helper(): the units of a character, or none that can be encoded.    *)
OutHelper(sh, char) ==
    LET to(goal) == IF kind # "shift" \/ sh = goal THEN <<>> ELSE IF goal THEN <<"o">> ELSE <<"i">>
    IN CASE char \in {"a", "z"} -> [ok |-> TRUE, units |-> Append(to(FALSE), char), sh |-> FALSE]
         [] char = "lt" /\ kind # "fixed"
              -> [ok |-> TRUE, units |-> to(kind = "shift") \o <<"l", "t">>, sh |-> kind = "shift"]
         [] char = "c" /\ kind = "shift" -> [ok |-> TRUE, units |-> Append(to(TRUE), "a"), sh |-> TRUE]
         [] OTHER -> [ok |-> FALSE, units |-> <<>>, sh |-> sh]

(* put_main(): up to the first character that cannot be encoded. *)
Writings == [sh : BOOLEAN, text : Seq(Chars)]
PutMain[q \in Writings] ==
    IF q.text = <<>> THEN [ok |-> TRUE, units |-> <<>>, sh |-> q.sh]
    ELSE LET one == OutHelper(q.sh, Head(q.text))
         IN IF one.ok
            THEN [PutMain[[sh |-> one.sh, text |-> Tail(q.text)]] EXCEPT !.units = one.units \o @]
            ELSE one

Coded(text) == PutMain[[sh |-> shifted, text |-> text]]

(* switch_to_put() hands the read area back, refuses inside of shifted     *)
(* text and, unless every character takes one unit, before the end, and    *)
(* otherwise goes to where the count of characters is.                     *)
CanTurn == status = "output" \/ (~shifted /\ (VarLength => KernelTell = Len(file)))

TurnAt == IF status = "output" THEN pos ELSE IF VarLength THEN KernelTell ELSE accu

(* The kernel does not go back, or the turn is refused, or the kernel does *)
(* not turn: from all of them on, the reader sees the same.                *)
TurnFails ==
    /\ status = "input" /\ ~tainted
    /\ \/ UNCHANGED <<pos, unread, getError, skipped>>
       \/ pos' = KernelTell /\ unread' = 0 /\ getError' = FALSE /\ UNCHANGED skipped
       \/ ~VarLength /\ pos' = accu /\ unread' = 0 /\ getError' = FALSE /\ skipped' = 0
    /\ Quiet(TRUE)
    /\ UNCHANGED <<file, status, tainted, shifted, accu, opened>>

Turned ==
    /\ ~tainted /\ status # "closed" /\ CanTurn
    /\ status' = "output" /\ unread' = 0 /\ getError' = FALSE
    /\ skipped' = IF VarLength THEN skipped ELSE TurnAt - accu
    /\ reads' = FALSE /\ got' = <<>> /\ short' = FALSE
    /\ UNCHANGED <<kind, opened>>

(* put() of some text that can be encoded and that the kernel takes. *)
Put(text) ==
    LET coded == Coded(text)
    IN /\ Turned /\ coded.ok
       /\ TurnAt + Len(coded.units) <= MaxLen
       /\ file' = Stored(TurnAt, coded.units)
       /\ pos' = TurnAt + Len(coded.units)
       /\ shifted' = coded.sh
       /\ accu' = accu + Len(text)
       /\ put' = text /\ threw' = FALSE
       /\ UNCHANGED tainted

(* It throws: a part of it may have gone down, the rest is dropped. *)
PutFails(text) ==
    LET coded == Coded(text)
    IN /\ Turned
       /\ TurnAt + Len(coded.units) <= MaxLen
       /\ \E k \in 0..Len(coded.units), n \in 0..Len(text) :
             LET done == Coded(SubSeq(text, 1, n))
             IN /\ coded.ok => k < Len(coded.units)
                /\ k <= Len(done.units)
                /\ file' = Stored(TurnAt, SubSeq(coded.units, 1, k))
                /\ pos' = TurnAt + k
                /\ shifted' = done.sh
       /\ tainted' = TRUE
       /\ put' = <<>> /\ threw' = TRUE
       /\ UNCHANGED accu

(* flush() of a kernel that cannot. *)
FlushFails ==
    /\ status = "output" /\ ~tainted /\ tainted' = TRUE
    /\ Quiet(TRUE)
    /\ UNCHANGED <<kernel, status, unread, getError, shifted, accu, skipped, opened>>
-----------------------------------------------------------------------------
(* seek() elsewhere than tell(): to the start only, and while reading,     *)
(* unless every character takes one unit.                                  *)
SeekKeepsState == shifted  (* faulty: the start is read as what was there *)
SeekState == FALSE

Seek(p) ==
    /\ status # "closed" /\ ~tainted /\ p # accu
    /\ VarLength => p = 0 /\ status = "input"
    /\ p <= Len(file)
    /\ pos' = p /\ accu' = p /\ shifted' = SeekState
    /\ unread' = 0 /\ getError' = FALSE /\ skipped' = 0
    /\ Quiet(FALSE)
    /\ UNCHANGED <<file, status, tainted, opened>>

(* rseek() asks the kernel where it is. *)
Rseek(p) ==
    /\ status # "closed" /\ ~tainted /\ ~VarLength
    /\ p <= Len(file)
    /\ pos' = Len(file) - p /\ accu' = pos'
    /\ shifted' = FALSE
    /\ unread' = 0 /\ getError' = FALSE /\ skipped' = 0
    /\ Quiet(FALSE)
    /\ UNCHANGED <<file, status, tainted, opened>>

(* Every other call that throws leaves everything as it is: seeks and      *)
(* turns refused here or by the kernel, and calls of a tainted converter.  *)
Refused ==
    /\ Quiet(TRUE)
    /\ UNCHANGED <<kernel, state, opened>>

(* unshift() and close_stream(), of detach(), of the destructor and of     *)
(* assignment.                                                             *)
UnshiftNothing == <<>>  (* faulty: shifted text is left open *)
Unshift == IF shifted THEN <<"i">> ELSE <<>>

Close ==
    /\ status # "closed" /\ status' = "closed"
    /\ \E k \in 0..Len(Unshift) :
          IF status = "output"
          THEN /\ file' = Stored(pos, SubSeq(Unshift, 1, k)) /\ pos' = pos + k
               /\ Quiet(k < Len(Unshift))
          ELSE Quiet(FALSE) /\ UNCHANGED kernel
    /\ unread' = 0 /\ getError' = FALSE /\ tainted' = FALSE
    /\ shifted' = FALSE /\ accu' = 0 /\ skipped' = 0
    /\ UNCHANGED opened

(* attach(), bos() and main_cont_beg(). *)
Open(f) ==
    /\ status = "closed" /\ opened < MaxOpen /\ opened' = opened + 1
    /\ Opens(f)
    /\ Quiet(FALSE)
    /\ UNCHANGED <<unread, getError, tainted, shifted, accu, skipped>>

Next ==
    \/ GetHeld
    \/ \E n \in 0..MaxAsk : Get(n)
    \/ \E text \in Texts : Put(text) \/ PutFails(text)
    \/ TurnFails \/ FlushFails
    \/ \E p \in 0..MaxLen : Seek(p) \/ Rseek(p)
    \/ Refused \/ Close
    \/ \E f \in Contents[kind] : Open(f)

Spec == Init /\ [][Next]_vars
-----------------------------------------------------------------------------
(* What units say, read one after the other, how many characters that are, *)
(* and the state they end in.                                              *)
Inputs == [sh : BOOLEAN, units : Seq(Units)]
Meaning[m \in Inputs] ==
    IF m.units = <<>> THEN [text |-> <<>>, count |-> 0, sh |-> m.sh]
    ELSE LET turn == Head(m.units) \in Shifts
             r    == Plain(m.sh, m.units)
         IN IF turn THEN Meaning[[sh |-> Head(m.units) = "o", units |-> Tail(m.units)]]
            ELSE [Meaning[[sh |-> r.sh, units |-> SubSeq(m.units, r.len + 1, Len(m.units))]]
                     EXCEPT !.text = <<IF r.is = "char" THEN r.char ELSE r.is>> \o @,
                            !.count = @ + Len(Took(r))]

Says(sh, units) == Meaning[[sh |-> sh, units |-> units]]
Upto(p) == Says(FALSE, SubSeq(file, 1, p))

(* What a reader has still to come, errors included. *)
View == Says(shifted, SubSeq(file, KernelTell + 1, Len(file))).text

(* However reads cut the text up, and whenever the kernel fails between    *)
(* them, they deliver the same characters and report the same bad units in *)
(* the same order, and a short read has come to the end or to an error.    *)
ReadOn ==
    reads' =>
        /\ View = got' \o View'
        /\ short' => View' = <<>> \/ Head(View') \in {"bad", "part"} \/ getError'

(* The count tell() returns, the shift state and the kernel's position say *)
(* the same, through skipped units, turns, seeks and failing calls.        *)
CountsInStep ==
    status # "closed" /\ ~tainted =>
        IF VarLength
        THEN accu = Upto(KernelTell).count /\ shifted = Upto(KernelTell).sh
        ELSE KernelTell = accu + skipped

(* Where writing starts: at the end, or at the character tell() counts to. *)
Start == IF status = "output" THEN pos ELSE IF VarLength THEN Len(file) ELSE accu

(* What a put wrote is read back as its text, and a stream that was closed *)
(* well ends in the state the next text on the device starts in.           *)
ReadsBackAs ==
    /\ put' # <<>> =>
          LET said == Says(shifted, SubSeq(file', Start + 1, pos'))
          IN said.text = put' /\ said.sh = shifted'
    /\ status = "output" /\ ~tainted /\ status' = "closed" /\ ~threw' =>
          ~Says(FALSE, SubSeq(file', 1, pos')).sh
=============================================================================
