------------------------------ MODULE Numeric -------------------------------
(***************************************************************************)
(* The numeric facet: integers, bools and floating-point numbers written   *)
(* into fields of a width, with the locale's grouping and the stream's     *)
(* fill, and read back from a text, which may also come from elsewhere.    *)
(*                                                                         *)
(* A letter stands for its two cases.  A floating-point number is the text *)
(* snprintf() makes of it in the "C" locale; strtod() tells two texts      *)
(* apart as Spelled does.  Not modelled: hexadecimal ones, inf and nan.    *)
(***************************************************************************)
EXTENDS Integers, Sequences, SequencesExt, Grouping

CONSTANTS Locales,  (* of records: grouping, sep, point, true, false        *)
          Formats,  (* of records: base, adjust, showbase, showpos,         *)
                    (* boolalpha, fill                                      *)
          Types,    (* a subset of {"int", "uint", "bool", "float"}         *)
          Bits,     (* the width of the integers                            *)
          Ints,     (* which ones are written                               *)
          Floats,   (* which floating-point numbers are                     *)
          Widths,   (* of fields                                            *)
          MaxPad,   (* max_pad_count                                        *)
          MaxGroup, (* the most digits of a group that is counted           *)
          Inputs,   (* in each format, texts that come from elsewhere       *)
          MaxFields (* bound: how many fields are waiting to be read        *)

Glyphs == <<"0", "1", "2", "3", "4", "5", "6", "7", "8", "9", "a", "b", "c", "d", "e", "f">>
Chars == ToSet(Glyphs) \cup {"x", "-", "+", ".", ",", " ", "t", "y"}

(* No name of a bool begins the other, and no separator is a digit.        *)
ASSUME NumericAssumption ==
    /\ Bits \in Nat \ {0} /\ MaxPad \in Nat /\ MaxGroup \in Nat /\ MaxFields \in Nat
    /\ \A f \in Formats : Inputs[f] \subseteq Seq(Chars)
    /\ Floats \subseteq Seq(Chars)
    /\ Widths \subseteq Nat /\ Ints \subseteq Int
    /\ \A l \in Locales : /\ ~IsPrefix(l.true, l.false) /\ ~IsPrefix(l.false, l.true)
                          /\ {l.sep, l.point} \cap ToSet(Glyphs) = {} /\ l.sep # l.point

VARIABLES
    loc,     (* the locale                                                  *)
    io,      (* flags() and fill() of the stream                            *)
    type,    (* of the values                                               *)
    text,    (* what is written and not yet read                            *)
    fields,  (* the values it stands for, in order                          *)
    foreign, (* whether it comes from elsewhere                             *)
    reads,   (* whether the last call was a get()                           *)
    ok,      (* whether the last call did not throw                         *)
    value    (* what it read                                                *)

vars == <<loc, io, type, text, fields, foreign, reads, ok, value>>

Signs == {"-", "+"}
Groups == loc.grouping # <<>>
IsPunct(c) == (Groups /\ c = loc.sep) \/ c = loc.point
IsDigitGlyph(c, radix) == \E i \in 1..radix : Glyphs[i] = c
DigitOf(c) == SelectInSeq(Glyphs, LAMBDA g : g = c) - 1
Radix == CASE io.base = "hex" -> 16 [] io.base = "oct" -> 8 [] OTHER -> 10

Size == 2 ^ Bits
MaxOf(signed) == IF signed THEN Size \div 2 - 1 ELSE Size - 1
MinOf(signed) == IF signed THEN -(Size \div 2) ELSE 0
-----------------------------------------------------------------------------
AddGrouping(digits) == IF Groups THEN Grouped(digits, loc.grouping, loc.sep) ELSE digits

VerifyGrouping(widths) == Follows(widths, loc.grouping)
-----------------------------------------------------------------------------
(* Whether padding would be read as a part of the number.                  *)
FillAltersReading(leadsDigits, trailsValue, negative, floating) ==
    LET hex == io.base = "hex"
        glyph == IsDigitGlyph(io.fill, IF hex THEN 16 ELSE 10)
    IN \/ glyph /\ ~(io.fill = "0" /\ leadsDigits)
       \/ ~glyph /\ trailsValue
          /\ \/ Groups /\ io.fill = loc.sep
             \/ IF floating THEN io.fill = "e" ELSE hex /\ io.fill = "x"
       \/ ~glyph /\ ~trailsValue
          /\ \/ io.fill = loc.point
             \/ io.fill = "-" /\ ~negative
             \/ io.fill = "+" /\ negative

Threw == [ok |-> FALSE, text |-> <<>>]
Wrote(chars) == [ok |-> TRUE, text |-> chars]

(* A prefix and digits, padded: fill goes behind them, before them, or     *)
(* between them.                                                           *)
SeparatedNever(digits) == FALSE  (* faulty: zeros may join a group *)
Separated(digits) == Groups /\ Contains(digits, loc.sep)

Field(prefix, digits, w, floating) ==
    LET len   == Len(prefix) + Len(digits)
        run   == [i \in 1..(w - len) |-> io.fill]
        left  == io.adjust = "left"
        inner == io.adjust = "internal"
        marks == (Len(prefix) = 1 /\ prefix[1] \in Signs) \/ Len(prefix) = 2
        leads == ~left /\ ~Separated(digits) /\ (inner \/ ~marks)
    IN IF w <= len THEN Wrote(prefix \o digits)
       ELSE IF w - len > MaxPad \/ FillAltersReading(leads, left, prefix = <<"-">>, floating)
       THEN Threw
       ELSE Wrote(IF left THEN prefix \o digits \o run
                  ELSE IF inner /\ marks THEN prefix \o run \o digits
                  ELSE run \o prefix \o digits)

Digits[n \in Nat, radix \in {8, 10, 16}] ==
    (IF n < radix THEN <<>> ELSE Digits[n \div radix, radix]) \o <<Glyphs[(n % radix) + 1]>>

(* insert_int(): in octal and hexadecimal a negative number is the one it  *)
(* is modulo 2^Bits.                                                       *)
InsertInt(v, signed, w) ==
    LET dec    == io.base \notin {"oct", "hex"}
        u      == IF dec /\ v < 0 THEN -v ELSE v % Size
        prefix == IF dec
                  THEN IF v < 0 THEN <<"-">> ELSE IF signed /\ io.showpos THEN <<"+">> ELSE <<>>
                  ELSE IF ~io.showbase \/ v = 0 THEN <<>>
                  ELSE IF io.base = "hex" THEN <<"0", "x">> ELSE <<"0">>
    IN Field(prefix, AddGrouping(Digits[u, Radix]), w, FALSE)

(* insert_float(): the point is the locale's, and only what is before it   *)
(* is grouped, if the text is no exponent alone.                           *)
InsertFloat(cs, w) ==
    LET sign   == IF cs[1] \in Signs THEN 1 ELSE 0
        point  == SelectInSeq(cs, LAMBDA c : c = ".")
        before == SubSeq(cs, sign + 1, IF point = 0 THEN Len(cs) ELSE point - 1)
        after  == IF point = 0 THEN <<>> ELSE <<loc.point>> \o SubSeq(cs, point + 1, Len(cs))
        number == point # 0 \/ Len(cs) < 3 \/ \A i \in 2..3 : IsDigitGlyph(cs[i], 10)
    IN Field(SubSeq(cs, 1, sign), (IF number THEN AddGrouping(before) ELSE before) \o after, w, TRUE)

(* put() of a bool as its name. *)
InsertName(v, w) ==
    LET name == IF v THEN loc.true ELSE loc.false
        run  == [i \in 1..(w - Len(name)) |-> io.fill]
    IN IF w <= Len(name) THEN Wrote(name)
       ELSE IF w - Len(name) > MaxPad
               \/ (io.adjust # "left" /\ io.fill \in {loc.true[1], loc.false[1]}) THEN Threw
       ELSE Wrote(IF io.adjust = "left" THEN name \o run ELSE run \o name)

Inserted(v, w) ==
    CASE type = "float" -> InsertFloat(v, w)
      [] type = "bool" /\ io.boolalpha -> InsertName(v, w)
      [] type = "bool" /\ ~io.boolalpha -> InsertInt(IF v THEN 1 ELSE 0, TRUE, w)
      [] OTHER -> InsertInt(v, type = "int", w)
-----------------------------------------------------------------------------
From(s, at) == SubSeq(s, at + 1, Len(s))
At(at, set) == at < Len(text) /\ text[at + 1] \in set

(* skip_fill(): how much fill there is, a digit and the point excepted.    *)
SkipFill(at, radix) ==
    LET other == SelectInSeq(From(text, at), LAMBDA c : c # io.fill)
    IN IF IsDigitGlyph(io.fill, radix) \/ io.fill = loc.point THEN 0
       ELSE IF other = 0 THEN Len(text) - at ELSE other - 1

(* The sign of a field: a sign, or fill that looks like one. *)
TakeSignOnly(radix) ==  (* faulty: such fill is skipped like any other *)
    LET lead == SkipFill(0, radix)
        mark == lead + 1
    IN IF At(lead, Signs) /\ ~IsPunct(text[mark])
       THEN [negative |-> text[mark] = "-", at |-> mark + SkipFill(mark, radix)]
       ELSE [negative |-> FALSE, at |-> lead]

TakeSign(radix) ==
    LET lead == SkipFill(0, radix)
        mark == lead + 1
    IN IF lead > 0 /\ io.fill \in Signs /\ ~IsPunct(io.fill)
       THEN [negative |-> io.fill = "-", at |-> lead]
       ELSE IF At(lead, Signs) /\ ~IsPunct(text[mark])
       THEN [negative |-> text[mark] = "-", at |-> mark + SkipFill(mark, radix)]
       ELSE [negative |-> FALSE, at |-> lead]

(* The zero in front, and the `0x` it may begin. *)
TakePrefix(at) ==
    LET infer == io.base = "none"
        radix == IF infer THEN 8 ELSE Radix
    IN IF ~At(at, {"0"}) \/ IsPunct("0")
       THEN [radix |-> Radix, at |-> at, has |-> FALSE, group |-> 0]
       ELSE IF At(at + 1, {"x"}) /\ ~IsPunct("x") /\ (infer \/ radix = 16)
       THEN [radix |-> 16, at |-> at + 2 + SkipFill(at + 2, 16), has |-> FALSE, group |-> 0]
       ELSE [radix |-> radix, at |-> at + 1, has |-> TRUE, group |-> IF radix = 8 THEN 0 ELSE 1]

(* The digit loop of extract_int().  A digit too many freezes the count of *)
(* the group.                                                              *)
CountedAlways(s, digit) ==  (* faulty: the last digit is not compared *)
    IF s.over THEN s
    ELSE IF s.magnitude > s.limit \div s.radix THEN [s EXCEPT !.over = TRUE]
    ELSE [s EXCEPT !.magnitude = @ * s.radix + digit, !.group = @ + 1]

Counted(s, digit) ==
    LET cutoff == s.limit \div s.radix
    IN IF s.over THEN s
       ELSE IF s.magnitude > cutoff THEN [s EXCEPT !.over = TRUE]
       ELSE IF s.magnitude = cutoff /\ digit > s.limit % s.radix
            THEN [s EXCEPT !.over = TRUE, !.group = @ + 1]
       ELSE [s EXCEPT !.magnitude = @ * s.radix + digit, !.group = @ + 1]

Scans == [at : Nat, radix : {8, 10, 16}, limit : Nat, magnitude : Nat, over : BOOLEAN,
          bad : BOOLEAN, has : BOOLEAN, group : Nat, widths : Seq(Nat)]

Scan[s \in Scans] ==
    LET c == text[s.at + 1]
    IN IF s.at = Len(text) THEN s
       ELSE IF Groups /\ c = loc.sep
       THEN IF s.group = 0 \/ s.group > MaxGroup THEN [s EXCEPT !.bad = TRUE]
            ELSE Scan[[s EXCEPT !.widths = Append(@, s.group), !.group = 0, !.at = @ + 1]]
       ELSE IF c = loc.point \/ ~IsDigitGlyph(c, s.radix) THEN s
       ELSE Scan[[Counted(s, DigitOf(c)) EXCEPT !.has = TRUE, !.at = @ + 1]]

(* What extract_int() makes of the digits: a number out of range is the    *)
(* nearest one, and fails.                                                 *)
LimitOf(negative, signed) == IF negative /\ signed THEN -MinOf(signed) ELSE MaxOf(signed)

IntOf(s, negative, signed) ==
    LET excess == s.widths # <<>> /\ s.group > MaxGroup
        grouped == s.widths = <<>> \/ VerifyGrouping(Append(s.widths, s.group))
        number == IF ~negative THEN s.magnitude
                  ELSE IF signed THEN -s.magnitude ELSE (-s.magnitude) % Size
    IN [ok    |-> s.has /\ ~s.over /\ ~s.bad /\ ~excess /\ grouped,
        at    |-> s.at,
        value |-> IF s.over THEN IF negative /\ signed THEN MinOf(signed) ELSE MaxOf(signed)
                  ELSE IF ~s.has \/ s.bad \/ excess THEN 0 ELSE number]

ScanInt(prefix, negative, signed) ==
    IntOf(Scan[[at |-> prefix.at, radix |-> prefix.radix, limit |-> LimitOf(negative, signed),
                magnitude |-> 0, over |-> FALSE, bad |-> FALSE, has |-> prefix.has,
                group |-> prefix.group, widths |-> <<>>]],
          negative, signed)

ExtractInt(signed) ==
    LET behind(sign) == ScanInt(TakePrefix(sign.at), sign.negative, signed)
    IN behind(TakeSign(Radix))
-----------------------------------------------------------------------------
(* The loop of extract_float(), and what it leaves for strtod().           *)
FloatScans == [at : Nat, xtrc : Seq(Chars), digit : BOOLEAN, point : BOOLEAN,
               exp : BOOLEAN, bad : BOOLEAN, group : Nat, widths : Seq(Nat)]

FloatScan[s \in FloatScans] ==
    LET c      == text[s.at + 1]
        opened == s.widths # <<>> /\ ~s.point
        closed == IF opened THEN Append(s.widths, s.group) ELSE s.widths
        signed == At(s.at + 1, Signs) /\ ~IsPunct(text[s.at + 2])
    IN IF s.at = Len(text) THEN s
       ELSE IF Groups /\ c = loc.sep
       THEN IF s.point \/ s.exp THEN s
            ELSE IF s.group \notin 1..MaxGroup THEN [s EXCEPT !.bad = TRUE]
            ELSE FloatScan[[s EXCEPT !.widths = Append(@, s.group), !.group = 0, !.at = @ + 1]]
       ELSE IF c = loc.point
       THEN IF s.point \/ s.exp THEN s
            ELSE IF opened /\ s.group > MaxGroup THEN [s EXCEPT !.bad = TRUE]
            ELSE FloatScan[[s EXCEPT !.widths = closed, !.point = TRUE,
                                     !.xtrc = Append(@, "."), !.at = @ + 1]]
       ELSE IF IsDigitGlyph(c, 10)
       THEN FloatScan[[s EXCEPT !.xtrc = Append(@, c), !.digit = TRUE,
                                !.group = @ + 1, !.at = @ + 1]]
       ELSE IF c # "e" \/ s.exp \/ ~s.digit THEN s
       ELSE IF opened /\ s.group > MaxGroup THEN [s EXCEPT !.bad = TRUE]
       ELSE FloatScan[[s EXCEPT !.widths = closed, !.exp = TRUE,
                                !.xtrc = @ \o <<"e">> \o IF signed THEN <<text[s.at + 2]>> ELSE <<>>,
                                !.at = @ + IF signed THEN 2 ELSE 1]]

(* strtod() takes all of it. *)
IsNumber(xtrc) ==
    LET e == SelectInSeq(xtrc, LAMBDA c : c = "e")
    IN /\ \E i \in 1..(IF e = 0 THEN Len(xtrc) ELSE e - 1) : IsDigitGlyph(xtrc[i], 10)
       /\ IsDigitGlyph(Last(xtrc), 10) \/ (e = 0 /\ Last(xtrc) = ".")

(* What it makes of it: no plus, no zeros in front and no point at the end *)
(* make a difference.                                                      *)
Spelled(xtrc) ==
    LET bare  == IF xtrc[1] \in Signs THEN Tail(xtrc) ELSE xtrc
        first == SelectInSeq(bare, LAMBDA c : c # "0")
        rest  == IF first = 0 THEN <<>> ELSE SubSeq(bare, first, Len(bare))
    IN <<xtrc[1] = "-">> \o IF rest # <<>> /\ Last(rest) = "." THEN Front(rest) ELSE rest

FloatOf(s) ==
    LET whole == s.point \/ s.exp
        grouped == \/ s.widths = <<>>
                   \/ whole /\ VerifyGrouping(s.widths)
                   \/ ~whole /\ s.group <= MaxGroup /\ VerifyGrouping(Append(s.widths, s.group))
        number == ~s.bad /\ IsNumber(s.xtrc)
    IN [ok |-> grouped /\ number, at |-> s.at,
        value |-> IF number THEN Spelled(s.xtrc) ELSE <<FALSE>>]

ScanFloat(at, zeros, negative) ==
    FloatOf(FloatScan[[at |-> at + zeros, digit |-> zeros > 0, point |-> FALSE,
                       exp |-> FALSE, bad |-> FALSE, group |-> zeros, widths |-> <<>>,
                       xtrc |-> (IF negative THEN <<"-">> ELSE <<>>)
                                \o IF zeros > 0 THEN <<"0">> ELSE <<>>]])

ExtractFloat ==
    LET other(at) == SelectInSeq(From(text, at), LAMBDA c : c # "0" \/ IsPunct(c))
        zeros(at, n) == IF n = 0 THEN Len(text) - at ELSE n - 1
        behind(sign) == ScanFloat(sign.at, zeros(sign.at, other(sign.at)), sign.negative)
    IN behind(TakeSign(10))

(* get() of a bool by name: the names race for the input. *)
ExtractName ==
    LET heads == {loc.true[1], loc.false[1]}
        other == SelectInSeq(text, LAMBDA c : c # io.fill)
        skip  == IF io.fill \in heads THEN 0 ELSE IF other = 0 THEN Len(text) ELSE other - 1
        read(n) == SubSeq(text, skip + 1, skip + n)
        taken == {n \in 0..(Len(text) - skip) : IsPrefix(read(n), loc.true) \/ IsPrefix(read(n), loc.false)}
        word  == read(Max(taken))
    IN [ok |-> word \in {loc.true, loc.false}, value |-> word = loc.true, at |-> skip + Len(word)]

(* As a number it is 0 or 1, and true for what does not fit. *)
ExtractBit ==
    LET bit(r) == [r EXCEPT !.ok = @ /\ r.value \in {0, 1}, !.value = @ # 0]
    IN bit(ExtractInt(TRUE))

Extracted ==
    CASE type = "float" -> ExtractFloat
      [] type = "bool" /\ io.boolalpha -> ExtractName
      [] type = "bool" /\ ~io.boolalpha -> ExtractBit
      [] OTHER -> ExtractInt(type = "int")
-----------------------------------------------------------------------------
Init ==
    /\ loc \in Locales /\ io \in Formats /\ type \in Types
    /\ text = <<>> /\ fields = <<>> /\ foreign = FALSE
    /\ reads = FALSE /\ ok = TRUE /\ value = <<>>

Values ==
    CASE type = "float" -> Floats
      [] type = "bool" -> BOOLEAN
      [] OTHER -> {v \in Ints : v \in MinOf(type = "int")..MaxOf(type = "int")}

(* Fill between two fields belongs to neither. *)
Separates ==
    /\ ~IsDigitGlyph(io.fill, 16)
    /\ io.fill \notin Signs \cup {loc.point, loc.true[1], loc.false[1]}

(* put() of a value in a field of width w, behind a field that fill ends.  *)
Put(v, w) ==
    /\ ~foreign /\ Len(fields) < MaxFields
    /\ text # <<>> => Last(text) = io.fill /\ Separates
    /\ \E r \in {Inserted(v, w)} :
          /\ ok' = r.ok
          /\ text' = text \o r.text
          /\ fields' = IF ~r.ok THEN fields
                       ELSE Append(fields, IF type = "float" THEN Spelled(v) ELSE v)
    /\ reads' = FALSE /\ value' = <<>>
    /\ UNCHANGED <<loc, io, type, foreign>>

(* get() of a value; whoever fails to read gives the text up. *)
Get ==
    /\ foreign \/ fields # <<>>
    /\ \E r \in {Extracted} :
          /\ ok' = r.ok /\ value' = r.value
          /\ text' = IF r.ok THEN From(text, r.at) ELSE <<>>
          /\ fields' = IF r.ok /\ ~foreign THEN Tail(fields) ELSE <<>>
    /\ foreign' = FALSE /\ reads' = TRUE
    /\ UNCHANGED <<loc, io, type>>

(* A text that nobody here wrote, for an integer to be read from. *)
Arrives(s) ==
    /\ type \in {"int", "uint"} /\ text = <<>> /\ text' = s /\ foreign' = TRUE
    /\ reads' = FALSE /\ ok' = TRUE /\ value' = <<>>
    /\ UNCHANGED <<loc, io, type, fields>>

Drop ==
    /\ fields = <<>> /\ text # <<>> /\ text' = <<>> /\ foreign' = FALSE
    /\ reads' = FALSE /\ ok' = TRUE /\ value' = <<>>
    /\ UNCHANGED <<loc, io, type, fields>>

Next ==
    \/ \E v \in Values, w \in Widths : Put(v, w)
    \/ \E s \in Inputs[io] : Arrives(s)
    \/ Get \/ Drop

Spec == Init /\ [][Next]_vars
-----------------------------------------------------------------------------
(* A field that was let through is read back as the value it was made of,  *)
(* under the same locale, flags and fill, when the base is set; a negative *)
(* number only in base ten, as the others write it modulo 2^Bits.          *)
Returns == ok' /\ value' = Head(fields)

FieldsReadBack ==
    [][reads' /\ fields # <<>> =>
          \/ Returns
          \/ type \notin {"float"} /\ ~(type = "bool" /\ io.boolalpha)
             /\ (io.base = "none" \/ (type = "int" /\ io.base # "dec" /\ Head(fields) < 0))]_vars

(* The comment on fill_alters_reading() promises it of every base, the one *)
(* that is inferred from the text included.                                *)
InferredReadsBack ==
    [][reads' /\ fields # <<>> /\ type = "uint" /\ io.fill = "0" => Returns]_vars

(* A text is taken as an integer if its digits denote one of the type, and *)
(* are grouped as add_grouping() would have or not at all; a number out of *)
(* range is the nearest one even if its grouping is wrong.                 *)
Run(head) ==
    LET start == head.at - head.group
        sep(i) == Groups /\ text[i] = loc.sep
        before(i) == {start} \cup {j \in (start + 1)..(i - 1) : sep(j)}
        ends(i) == IF sep(i) THEN i - 1 - Max(before(i)) \notin 1..MaxGroup
                   ELSE ~IsDigitGlyph(text[i], head.radix)
        upto(stop) == [digits |-> SubSeq(text, start + 1, stop - 1),
                       cut |-> stop <= Len(text) /\ sep(stop)]
    IN upto(Min({i \in (start + 1)..Len(text) : ends(i)} \cup {Len(text) + 1}))

Denotes(good, got, run, head, negative, signed) ==
    LET limit == LimitOf(negative, signed)
        of(digits, number) ==
            /\ good <=> /\ digits # <<>> \/ head.has
                        /\ number <= limit
                        /\ ~run.cut
                        /\ run.digits = digits \/ run.digits = AddGrouping(digits)
            /\ good /\ ~negative => got = number
            /\ good /\ negative => got = IF signed THEN -number ELSE (-number) % Size
            /\ number > limit => got = IF negative /\ signed THEN -limit ELSE limit
        by(digits) ==
            of(digits, FoldLeft(LAMBDA sum, c : sum * head.radix + DigitOf(c), 0, digits))
    IN by(SelectSeq(run.digits, LAMBDA c : ~Groups \/ c # loc.sep))

TakenRightly(signed, good, got) ==
    LET behind(sign, head) == Denotes(good, got, Run(head), head, sign.negative, signed)
        from(sign) == behind(sign, TakePrefix(sign.at))
    IN from(TakeSign(Radix))

TextDenotes ==
    [][reads' /\ foreign /\ type \in {"int", "uint"} => TakenRightly(type = "int", ok', value')]_vars
=============================================================================
