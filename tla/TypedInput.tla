----------------------------- MODULE TypedInput -----------------------------
(***************************************************************************)
(* What the input operations of a stream take from its channel: get() and  *)
(* getline(), read(), ignore(), peek(), putback(), ws, and operator>> of   *)
(* words and characters.  The channel shows characters one at a time, as   *)
(* Channel says, and may throw when it has to ask the device for the next  *)
(* one; the device may have more later, as a terminal or a growing file    *)
(* has.                                                                    *)
(*                                                                         *)
(* An operation holds the stream's io_mutex() throughout and is one step.  *)
(* Of the bits, `failed` stands for all but eofbit; what the exception     *)
(* mask throws is in StreamState, and the flush of the tied stream in      *)
(* TieFlush.                                                               *)
(***************************************************************************)
EXTENDS Integers, Sequences, SequencesExt

CONSTANTS Lines,    (* what arrives at once                                 *)
          MaxRoom,  (* bound: the most an operation takes                   *)
          MaxLen    (* bound: characters the device holds                   *)

(* s: a space.  d: the delimiter, which is a space too. *)
Chars == {"a", "s", "d"}
Spaces == {"s", "d"}

InputAssumption == Lines \subseteq Seq(Chars) /\ MaxRoom \in Nat /\ MaxLen \in Nat

VARIABLES
    due,     (* the characters not yet consumed                             *)
    shown,   (* how many of them the channel has already                    *)
    eof,     (* eofbit                                                      *)
    failed,  (* another bit                                                 *)
    width,   (* width()                                                     *)
    op,      (* the last operation, "" for one that reads nothing           *)
    skipped, (* what it consumed and dropped                                *)
    got,     (* what it handed over                                         *)
    delim,   (* the delimiter it consumed after that                        *)
    asked,   (* up to which character it needed the channel to show         *)
    threw    (* whether the channel threw                                   *)

last == <<op, skipped, got, delim, asked, threw>>
vars == <<due, shown, eof, failed, width, last>>

End == Len(due) + 1

(* Where, after the first `from` characters, one of `set` or the end is.   *)
Find(from, set) == Min({i \in (from + 1)..Len(due) : due[i] \in set} \cup {End})

Good == ~eof /\ ~failed

Init ==
    /\ due = <<>> /\ shown = 0 /\ eof = FALSE /\ failed = FALSE /\ width = 0
    /\ op = "" /\ skipped = <<>> /\ got = <<>> /\ delim = <<>> /\ asked = 0
    /\ threw = FALSE
-----------------------------------------------------------------------------
(* An operation consumes n characters: the first s it drops, the next k it *)
(* hands over, the rest is the delimiter.                                  *)
Consumes(name, s, k, n, upTo) ==
    /\ op' = name
    /\ skipped' = SubSeq(due, 1, s)
    /\ got' = SubSeq(due, s + 1, s + k)
    /\ delim' = SubSeq(due, s + k + 1, n)
    /\ due' = SubSeq(due, n + 1, Len(due))
    /\ asked' = upTo
    /\ shown' = Max({Min({upTo, Len(due)}), shown, n}) - n

(* It sets eofbit or a failure bit, or the channel threw.                  *)
Reports(end, fail, throws) ==
    eof' = (eof \/ end) /\ failed' = (failed \/ fail) /\ threw' = throws

(* The loops look at a character when they have consumed those before it:  *)
(* if the channel shows the first `most` and then throws, these are used.  *)
(* peek() and in_sentry end the same way.                                  *)
Performs(name, s, k, n, upTo, end, fail) ==
    \E most \in shown..End :
        IF upTo <= most
        THEN Consumes(name, s, k, n, upTo) /\ Reports(end, fail, FALSE)
        ELSE LET drop == Min({s, most})
             IN Consumes(name, drop, most - drop, most, most + 1) /\ Reports(FALSE, TRUE, TRUE)

(* in_sentry, or a check of the arguments, refuses: nothing is read. *)
Refuse == Consumes("", 0, 0, 0, 0) /\ Reports(FALSE, TRUE, FALSE)

Refused == ~Good /\ Refuse /\ UNCHANGED width

(* A size that is no size, or leaves room for the terminator only when     *)
(* nothing is to be consumed.                                              *)
NoRoom == Good /\ Refuse /\ UNCHANGED width
-----------------------------------------------------------------------------
(* read() of n, and get() of one character: all of them or a failure.      *)
Read(n) ==
    LET k == Min({n, Len(due)})
    IN /\ Good
       /\ Performs("read", 0, k, k, IF k = n THEN n ELSE End, k < n, k < n)
       /\ UNCHANGED width

(* Faulty: an empty result is a success. *)
UpToEmpty(room) ==
    LET stop == Find(0, {"d"})
        k == Min({room, stop - 1})
    IN /\ Good
       /\ Performs("upTo", 0, k, k, Min({room, stop}), k < room /\ stop = End, FALSE)
       /\ UNCHANGED width

(* get<keep_sep> of a sequence: up to the delimiter, which stays. *)
UpTo(room) ==
    LET stop == Find(0, {"d"})
        k == Min({room, stop - 1})
    IN /\ Good
       /\ Performs("upTo", 0, k, k, Min({room, stop}), k < room /\ stop = End, k = 0)
       /\ UNCHANGED width

(* Faulty: the character that did not fit is consumed like a delimiter. *)
LineDrops(room) ==
    LET stop == Find(0, {"d"})
        k == Min({room, stop - 1})
        n == Min({k + 1, Len(due)})
    IN /\ Good
       /\ Performs("line", 0, k, n, Min({room + 1, stop}),
                   k < room /\ stop = End, n = 0 \/ stop > room + 1)
       /\ UNCHANGED width

(* getline, get<cons_sep>: the delimiter is consumed and not handed over;  *)
(* to tell it from overflow a full buffer is followed by a look.           *)
Line(room) ==
    LET stop == Find(0, {"d"})
        k == Min({room, stop - 1})
        n == IF stop # End /\ stop <= room + 1 THEN stop ELSE k
    IN /\ Good
       /\ Performs("line", 0, k, n, Min({room + 1, stop}),
                   k < room /\ stop = End, n = 0 \/ stop > room + 1)
       /\ UNCHANGED width

Peek == Good /\ Performs("peek", 0, 0, 0, 1, due = <<>>, FALSE) /\ UNCHANGED width

(* ignore() of n *)
Ignore(n) ==
    LET k == Min({n, Len(due)})
    IN /\ Good
       /\ Performs("ignore", k, 0, k, IF k = n THEN n ELSE End, k < n, FALSE)
       /\ UNCHANGED width

(* ignore() of n, or up to and with the delimiter. *)
IgnoreTo(n) ==
    LET stop == Find(0, {"d"})
        k == Min({n, stop, Len(due)})
    IN /\ Good
       /\ Performs("ignoreTo", k, 0, k, Min({n, stop}), stop = End /\ k < n, FALSE)
       /\ UNCHANGED width

(* putback(): eofbit goes first, or in_sentry would refuse. *)
Putback(c) ==
    /\ Len(due) < MaxLen
    /\ IF failed THEN UNCHANGED <<due, shown>>
                 ELSE due' = <<c>> \o due /\ shown' = shown + 1
    /\ eof' = FALSE
    /\ op' = "" /\ skipped' = <<>> /\ got' = <<>> /\ delim' = <<>> /\ asked' = 0
    /\ threw' = FALSE
    /\ UNCHANGED <<failed, width>>
-----------------------------------------------------------------------------
(* operator>>.  in_sentry drops spaces if `skip`; at the end the operation *)
(* has failed, with width() as it was.                                     *)
Lead(skip) == IF skip THEN Find(0, {"a"}) - 1 ELSE 0

NothingThere(skip) ==
    /\ Good /\ skip /\ Lead(skip) = Len(due)
    /\ Performs("word", Len(due), 0, Len(due), End, TRUE, TRUE)
    /\ UNCHANGED width

(* width() is used up when the reading of the value starts, after the skip. *)
UsesWidth(skip) == width' = IF threw' /\ got' = <<>> /\ skip THEN width ELSE 0

(* A string takes width() characters, or all there are; `array` is the     *)
(* size of a char array, 0 for a string.                                   *)
WordRoom(array) ==
    IF array = 0 THEN IF width = 0 THEN MaxLen + 1 ELSE width
    ELSE (IF width \in 1..(array - 1) THEN width ELSE array) - 1

(* Faulty: the word that fills its room is followed by one more look. *)
WordPeeks(skip, array) ==
    LET s == Lead(skip)
        room == WordRoom(array)
        stop == Find(s, Spaces)
        k == Min({room, stop - s - 1})
        upTo == Max({Min({s + room + 1, stop}), IF skip THEN s + 1 ELSE 0})
    IN /\ Good /\ (skip => s < Len(due))
       /\ Performs("word", s, k, s + k, upTo, upTo = End, k = 0)
       /\ UsesWidth(skip)

(* A word ends before a space. *)
Word(skip, array) ==
    LET s == Lead(skip)
        room == WordRoom(array)
        stop == Find(s, Spaces)
        k == Min({room, stop - s - 1})
        upTo == Max({Min({s + room, stop}), IF skip THEN s + 1 ELSE 0})
    IN /\ Good /\ (skip => s < Len(due))
       /\ Performs("word", s, k, s + k, upTo, upTo = End, k = 0)
       /\ UsesWidth(skip)

(* A character, a space too when none are skipped. *)
Char(skip) ==
    LET s == Lead(skip)
        k == Min({1, Len(due) - s})
    IN /\ Good /\ (skip => s < Len(due))
       /\ Performs("word", s, k, s + k, s + 1, k = 0, k = 0)
       /\ UNCHANGED width

(* ws reads spaces, and the end is no failure. *)
Ws ==
    LET s == Lead(TRUE)
    IN Good /\ Performs("ws", s, 0, s, s + 1, s + 1 = End, FALSE) /\ UNCHANGED width
-----------------------------------------------------------------------------
Quiet == op' = "" /\ skipped' = <<>> /\ got' = <<>> /\ delim' = <<>> /\ asked' = 0 /\ threw' = FALSE

(* More arrives; clear(); width(w). *)
Arrive(line) ==
    /\ Len(due) + Len(line) <= MaxLen
    /\ due' = due \o line
    /\ Quiet /\ UNCHANGED <<shown, eof, failed, width>>

Clear == eof' = FALSE /\ failed' = FALSE /\ Quiet /\ UNCHANGED <<due, shown, width>>

Width(w) == width' = w /\ Quiet /\ UNCHANGED <<due, shown, eof, failed>>

Next ==
    \/ Refused \/ NoRoom \/ Peek \/ Ws \/ Clear
    \/ \E n \in 0..MaxRoom : Read(n) \/ Line(n) \/ Ignore(n) \/ IgnoreTo(n) \/ Width(n)
    \/ \E n \in 1..MaxRoom : UpTo(n)
    \/ \E c \in Chars : Putback(c)
    \/ \E skip \in BOOLEAN :
          NothingThere(skip) \/ Char(skip) \/ \E array \in 0..MaxRoom + 1 : Word(skip, array)
    \/ \E line \in Lines : Arrive(line)

Spec == Init /\ [][Next]_vars
-----------------------------------------------------------------------------
(* Whether it succeeds, fails for want of room or is cut short by the      *)
(* device, an operation's characters are those it hands over, after spaces *)
(* or what it was told to ignore, and at most a delimiter: a retry after   *)
(* clear() goes on with the next one, and no character is lost.            *)
LosesNothing ==
    op' # "" =>
        /\ due = skipped' \o got' \o delim' \o due'
        /\ op' \notin {"ignore", "ignoreTo"} => \A i \in DOMAIN skipped' : skipped'[i] \in Spaces
        /\ delim' \in {<<>>, <<"d">>}

(* No operation needs a character beyond those it uses, unless that one    *)
(* decides how it ends: so on a terminal none waits for a line it could do *)
(* without.  peek() and ws are there to look; getline() and a word look    *)
(* for what ends them.                                                     *)
LooksNoFurther ==
    LET used == Len(due) - Len(due')
           next == IF asked' = Len(due) + 1 THEN "end" ELSE due[asked']
       IN op' # "" /\ ~threw' /\ asked' > used =>
            /\ asked' = used + 1
            /\ \/ op' \in {"peek", "ws"} \/ next = "end"
               \/ op' \in {"upTo", "ignoreTo"} /\ next = "d"
               \/ op' = "word" /\ (next \in Spaces \/ (got' = <<>> /\ failed'))
               \/ op' = "line" /\ failed'

(* An operation that is not cut short sets eofbit only if it needed a      *)
(* character past the last, and then always, but for the look of getline() *)
(* after a full buffer; one that reads and reports no failure has used a   *)
(* character, so that `while (is >> word)` ends; and the end alone is no   *)
(* failure for those that may use none.                                    *)
TellsTheEnd ==
    op' # "" /\ ~threw' =>
        /\ eof' /\ ~eof => asked' = Len(due) + 1
        /\ op' # "line" /\ asked' = Len(due) + 1 => eof'
        /\ op' \in {"upTo", "line", "word"} /\ ~failed' => due' # due
        /\ op' \in {"peek", "ws", "ignore", "ignoreTo"} => failed' = failed
=============================================================================
