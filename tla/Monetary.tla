------------------------------ MODULE Monetary ------------------------------
(***************************************************************************)
(* The monetary facet: amounts in the smallest unit of a currency, written *)
(* into fields by the pattern of a locale and read back from a text, which *)
(* may also come from elsewhere.  A locale is what lconv says of it, for   *)
(* the one of the two formats that the call asks for by `intl`.            *)
(***************************************************************************)
EXTENDS Integers, Sequences, SequencesExt, Grouping

CONSTANTS Locales,  (* of records: grouping, sep, point, symbol, pos, neg,  *)
                    (* frac; and plus and minus, each of precedes, space    *)
                    (* and posn                                             *)
          Formats,  (* of records: adjust, showbase, fill                   *)
          Types,    (* a subset of {"int", "uint", "digits"}                *)
          Bits,     (* the width of the integers                            *)
          Ints,     (* which ones are written                               *)
          Strings,  (* which strings of digits are                          *)
          Widths,   (* of fields                                            *)
          MaxPad,   (* max_pad_count                                        *)
          MaxGroup, (* the most digits of a group that is counted           *)
          Inputs    (* in each format, texts that come from elsewhere       *)

(* Every limit of an integer has two digits or more, and one of the signs  *)
(* is written.                                                             *)
MonetaryAssumption ==
    /\ Bits \in Nat /\ Bits > 4 /\ MaxPad \in Nat /\ MaxGroup \in Nat
    /\ Widths \subseteq Nat /\ Ints \subseteq Int
    /\ \A l \in Locales : /\ l.sep # l.point /\ l.frac \in Int
                          /\ l.pos # l.neg \/ l.minus.posn = 0

VARIABLES
    loc,     (* the locale                                                  *)
    io,      (* adjustfield, showbase and fill() of the stream              *)
    type,    (* of the amounts                                              *)
    text,    (* what was written or has come                                *)
    amount,  (* what was written, or no amount                              *)
    width,   (* of the field                                                *)
    ok,      (* whether the last call did not throw                         *)
    value    (* what it read                                                *)

vars == <<loc, io, type, text, amount, width, ok, value>>

Figures == <<"0", "1", "2", "3", "4", "5", "6", "7", "8", "9">>
IsFigure(c) == c \in ToSet(Figures)
FigureOf(c) == SelectInSeq(Figures, LAMBDA f : f = c) - 1
Groups == loc.grouping # <<>>

NegativeSign == IF loc.minus.posn = 0 THEN <<"(", ")">> ELSE loc.neg
PositiveSign == loc.pos

(* s_construct_pattern(): the amount and the symbol, which a sign may be   *)
(* glued to, and the space between them.                                   *)
Pattern(spec) ==
    LET group == IF spec.posn = 3 THEN <<"sign", "symbol">>
                 ELSE IF spec.posn = 4 THEN <<"symbol", "sign">> ELSE <<"symbol">>
        seam  == IF spec.space THEN <<"space">> ELSE <<>>
        inner == IF spec.precedes THEN group \o seam \o <<"value">> ELSE <<"value">> \o seam \o group
        whole == (IF spec.posn \in 0..1 THEN <<"sign">> ELSE <<>>) \o inner
                 \o IF spec.posn = 2 THEN <<"sign">> ELSE <<>>
    IN IF spec.posn \notin 0..4 THEN <<"symbol", "sign", "none", "value">>
       ELSE IF spec.space THEN whole ELSE Append(whole, "none")

(* Whether a run of fill would be read as a part of the amount. *)
FillAltersReadingSignless(leadsDigits, trailsValue, negative) ==  (* faulty: signs pass *)
    IF IsFigure(io.fill) THEN ~(io.fill = "0" /\ leadsDigits)
    ELSE ~trailsValue /\ io.fill = loc.point

FillAltersReading(leadsDigits, trailsValue, negative) ==
    LET begins(sign) == sign # <<>> /\ io.fill = sign[1]
    IN IF IsFigure(io.fill) THEN ~(io.fill = "0" /\ leadsDigits)
       ELSE /\ ~trailsValue
            /\ \/ io.fill = loc.point
               \/ IF begins(NegativeSign) THEN ~negative ELSE begins(PositiveSign) /\ negative

Threw == [ok |-> FALSE, text |-> <<>>]
Run(c, n) == [i \in 1..Max({0, n}) |-> c]
Fill(n) == Run(io.fill, n)

(* The digits of an amount, cut frac places from their end. *)
Amount(digits) ==
    LET frac == IF loc.frac > 0 THEN loc.frac ELSE 0
        head == IF Len(digits) > frac THEN Len(digits) - frac ELSE 0
        whole == SubSeq(digits, 1, head)
    IN (IF Groups /\ head > 0 THEN Grouped(whole, loc.grouping, loc.sep) ELSE whole)
       \o IF frac = 0 THEN <<>>
          ELSE <<loc.point>> \o Run("0", frac - Len(digits)) \o SubSeq(digits, head + 1, Len(digits))

Length(amt, sign) == Len(amt) + Len(sign) + IF io.showbase THEN Len(loc.symbol) ELSE 0

(* The parts laid down in their order, the rest of the sign behind them,   *)
(* and the fill that is missing before or behind all.                      *)
Laid(order, sign, amt, w) ==
    LET spread == IF io.adjust = "internal" THEN Max({0, w - Length(amt, sign)}) ELSE 0
        part(i) == CASE order[i] = "symbol" -> IF io.showbase THEN loc.symbol ELSE <<>>
                     [] order[i] = "sign"   -> IF sign = <<>> THEN <<>> ELSE <<sign[1]>>
                     [] order[i] = "value"  -> amt
                     [] order[i] = "space"  -> Fill(IF spread = 0 THEN 1 ELSE spread)
                     [] order[i] = "none"   -> Fill(spread)
        parts  == [i \in 1..5 |-> IF i = 5 THEN SubSeq(sign, 2, Len(sign)) ELSE part(i)]
        pad    == Fill(w - Len(FlattenSeq(parts)))
    IN IF io.adjust = "left" THEN <<<<>>>> \o parts \o <<pad>> ELSE <<pad>> \o parts \o <<<<>>>>

(* Whether the fill in these parts would not be read as nothing. *)
FillMisread(parts, order, negative) ==
    LET at == SelectInSeq(order, LAMBDA p : p = "value") + 1
        spare(i) == i \in {1, 7} \/ (i \in 2..5 /\ order[i - 1] \in {"space", "none"})
        leads(i) == i < at /\ \A j \in (i + 1)..(at - 1) : parts[j] = <<>>
    IN \E i \in 1..7 : spare(i) /\ parts[i] # <<>> /\ FillAltersReading(leads(i), i > at, negative)

Checked(parts, order, negative) ==
    IF FillMisread(parts, order, negative) THEN Threw ELSE [ok |-> TRUE, text |-> FlattenSeq(parts)]

Field(order, sign, amt, negative, w) ==
    IF w > Length(amt, sign) + MaxPad THEN Threw ELSE Checked(Laid(order, sign, amt, w), order, negative)

(* insert(): a minus in front selects the pattern and the sign; what is    *)
(* behind the digits is left out.                                          *)
Insert(chars, w) ==
    LET negative == chars # <<>> /\ chars[1] = "-"
        bare   == IF negative THEN Tail(chars) ELSE chars
        digits == SubSeq(bare, 1, SelectInSeq(Append(bare, "."), LAMBDA c : ~IsFigure(c)) - 1)
    IN IF digits = <<>> THEN [ok |-> TRUE, text |-> <<>>]
       ELSE IF negative THEN Field(Pattern(loc.minus), NegativeSign, Amount(digits), TRUE, w)
       ELSE Field(Pattern(loc.plus), PositiveSign, Amount(digits), FALSE, w)

DigitsOf[n \in Nat] == (IF n < 10 THEN <<>> ELSE DigitsOf[n \div 10]) \o <<Figures[(n % 10) + 1]>>

(* put() of an integer *)
Spelled(v) == IF type = "digits" THEN v
              ELSE IF v < 0 THEN <<"-">> \o DigitsOf[-v] ELSE DigitsOf[v]
-----------------------------------------------------------------------------
(* extract(): the negative pattern is walked, whichever sign there is.     *)
Here(s, c) == s.at < Len(text) /\ text[s.at + 1] = c
Next1(s) == IF s.at < Len(text) THEN {text[s.at + 1]} ELSE {}
Required == PositiveSign # <<>> /\ NegativeSign # <<>>

(* How much of `word` from its character `from` on is there. *)
Common(s, word) ==
    Max({n \in 0..Min({Len(word), Len(text) - s.at}) : SubSeq(text, s.at + 1, s.at + n) = SubSeq(word, 1, n)})

TakeSymbol(s, order, i) ==
    LET required == \/ io.showbase \/ s.signLen > 1 \/ i = 1
                    \/ i = 2 /\ (Required \/ order[1] = "sign" \/ order[3] = "space")
                    \/ i = 3 /\ (order[4] = "value" \/ (Required /\ order[4] = "sign"))
        taken == Common(s, loc.symbol)
    IN IF ~required THEN s
       ELSE [s EXCEPT !.at = @ + taken,
                      !.valid = taken = Len(loc.symbol) \/ (taken = 0 /\ ~io.showbase)]

TakeSign(s) ==
    LET wears(sign) == sign # <<>> /\ Here(s, sign[1])
        worn(sign, negative) == [s EXCEPT !.at = @ + 1, !.negative = negative, !.signLen = Len(sign)]
    IN IF wears(PositiveSign) THEN worn(PositiveSign, FALSE)
       ELSE IF wears(NegativeSign) THEN worn(NegativeSign, TRUE)
       ELSE IF (PositiveSign = <<>>) # (NegativeSign = <<>>) THEN [s EXCEPT !.negative = NegativeSign = <<>>]
       ELSE [s EXCEPT !.valid = ~Required]

Scans == [at : Nat, valid : BOOLEAN, threw : BOOLEAN, negative : BOOLEAN, signLen : Nat,
          digits : Seq(STRING), point : BOOLEAN, run : Nat, whole : Nat, widths : Seq(Nat)]

TakeDigits[s \in Scans] ==
    LET c == text[s.at + 1]
    IN IF s.at = Len(text) THEN s
       ELSE IF IsFigure(c)
       THEN TakeDigits[[s EXCEPT !.at = @ + 1, !.digits = Append(@, c), !.run = @ + 1]]
       ELSE IF s.point THEN s
       ELSE IF c = loc.point
       THEN IF loc.frac <= 0 THEN s
            ELSE TakeDigits[[s EXCEPT !.at = @ + 1, !.point = TRUE, !.whole = s.run, !.run = 0]]
       ELSE IF ~Groups \/ c # loc.sep THEN s
       ELSE IF s.run \notin 1..MaxGroup THEN [s EXCEPT !.valid = FALSE]
       ELSE TakeDigits[[s EXCEPT !.at = @ + 1, !.widths = Append(@, s.run), !.run = 0]]

TakeValue(s) ==
    LET end == TakeDigits[s] IN [end EXCEPT !.valid = @ /\ end.digits # <<>>]

(* One fill for a space, and all that follows unless nothing else does.    *)
TakeFill(s, order, i) ==
    LET other == SelectInSeq(SubSeq(text, s.at + 1, Len(text)), LAMBDA c : c # io.fill)
        there == IF other = 0 THEN Len(text) - s.at ELSE other - 1
        taken == IF i # 4 THEN there ELSE IF order[i] = "space" THEN Min({there, 1}) ELSE 0
        at    == SelectInSeq(order, LAMBDA p : p = "value")
        end   == [s EXCEPT !.at = @ + taken, !.valid = order[i] = "none" \/ there > 0]
        leads == i < at /\ \E c \in Next1(end) : IsFigure(c) \/ c = loc.point
    IN [end EXCEPT !.threw = taken > 0 /\ FillAltersReading(leads, i > at, s.negative)]

Walked ==
    LET order == Pattern(loc.minus)
        slot(s, i) ==
            CASE order[i] = "symbol" -> TakeSymbol(s, order, i)
              [] order[i] = "sign"   -> TakeSign(s)
              [] order[i] = "value"  -> TakeValue(s)
              [] OTHER               -> TakeFill(s, order, i)
        start == [at |-> 0, valid |-> TRUE, threw |-> FALSE, negative |-> FALSE, signLen |-> 0,
                  digits |-> <<>>, point |-> FALSE, run |-> 0, whole |-> 0, widths |-> <<>>]
    IN FoldLeft(LAMBDA s, i : IF s.valid /\ ~s.threw THEN slot(s, i) ELSE s, start, <<1, 2, 3, 4>>)

(* The rest of a sign ends the field. *)
Closed(s) ==
    LET sign == IF s.negative THEN NegativeSign ELSE PositiveSign
        rest == SubSeq(sign, 2, Len(sign))
        taken == Common(s, rest)
    IN IF s.signLen <= 1 \/ ~s.valid THEN s
       ELSE [s EXCEPT !.at = @ + taken, !.valid = taken = Len(rest)]

Stripped(digits) ==
    LET first == SelectInSeq(digits, LAMBDA c : c # "0")
    IN IF first = 0 THEN <<"0">> ELSE SubSeq(digits, first, Len(digits))

Signed(s, digits) ==
    IF s.negative /\ digits[1] # "0" THEN <<"-">> \o digits ELSE digits

WellGrouped(s) ==
    LET last == IF s.point THEN s.whole ELSE s.run
    IN s.widths = <<>> \/ (last <= MaxGroup /\ Follows(Append(s.widths, last), loc.grouping))

(* What extract() returns: no units unless the whole field held up.        *)
Judged(s) ==
    LET valid == s.valid /\ ~s.threw /\ (s.point => s.run = loc.frac)
    IN [ok    |-> valid /\ WellGrouped(s), at |-> s.at,
        units |-> IF valid THEN Signed(s, Stripped(s.digits)) ELSE <<>>]

Extract == Judged(Closed(Walked))

Size == 2 ^ Bits
MaxOf(signed) == IF signed THEN Size \div 2 - 1 ELSE Size - 1
MinOf(signed) == IF signed THEN -(Size \div 2) ELSE 0

(* str_to_v(): a digit that would pass the limit ends it. *)
Accumulated(limit, m, digit) ==
    IF m = -1 \/ m > (limit - digit) \div 10 THEN -1 ELSE m * 10 + digit

StrToV(units) ==
    LET signed   == type = "int"
        negative == units[1] = "-"
        limit    == IF negative THEN -MinOf(signed) ELSE MaxOf(signed)
        size     == FoldLeft(LAMBDA m, c : Accumulated(limit, m, FigureOf(c)), 0,
                             IF negative THEN Tail(units) ELSE units)
    IN [ok |-> (signed \/ ~negative) /\ size # -1, value |-> IF negative THEN -size ELSE size]

(* get() into an integer or a string of digits *)
Converted(r) ==
    LET v == IF type = "digits" \/ r.units = <<>> THEN [ok |-> r.units # <<>>, value |-> r.units]
             ELSE StrToV(r.units)
    IN [ok |-> r.ok /\ v.ok, at |-> r.at, value |-> v.value]

Extracted == Converted(Extract)
-----------------------------------------------------------------------------
Nothing == <<>>

Init ==
    /\ loc \in Locales /\ io \in Formats /\ type \in Types
    /\ text = <<>> /\ amount = Nothing /\ width = 0 /\ ok = TRUE /\ value = Nothing

Values ==
    IF type = "digits" THEN Strings ELSE {v \in Ints : v \in MinOf(type = "int")..MaxOf(type = "int")}

(* put() of an amount in a field of width w. *)
Put(v, w) ==
    /\ text = <<>>
    /\ \E r \in {Insert(Spelled(v), w)} : ok' = r.ok /\ text' = r.text
    /\ amount' = <<v>> /\ width' = w /\ value' = Nothing
    /\ UNCHANGED <<loc, io, type>>

(* A text that nobody here wrote. *)
Arrives(s) ==
    /\ text = <<>> /\ text' = s /\ amount' = Nothing /\ width' = 0 /\ ok' = TRUE /\ value' = Nothing
    /\ UNCHANGED <<loc, io, type>>

(* get(); whoever fails to read gives the text up. *)
Get ==
    /\ text # <<>>
    /\ \E r \in {Extracted} :
          /\ ok' = r.ok
          /\ value' = IF r.ok THEN <<r.value>> ELSE Nothing
          /\ text' = IF r.ok THEN SubSeq(text, r.at + 1, Len(text)) ELSE <<>>
    /\ amount' = Nothing /\ width' = 0
    /\ UNCHANGED <<loc, io, type>>

Next ==
    \/ \E v \in Values, w \in Widths : Put(v, w)
    \/ \E s \in Inputs[io] : Arrives(s)
    \/ Get

Spec == Init /\ [][Next]_vars
-----------------------------------------------------------------------------
(* The amount that digits denote: no zeros in front, and none with a sign. *)
Canonical(v) ==
    LET bare == IF v[1] = "-" THEN Tail(v) ELSE v
        ends == SelectInSeq(bare, LAMBDA c : ~IsFigure(c))
        size == Stripped(IF ends = 0 THEN bare ELSE SubSeq(bare, 1, ends - 1))
    IN IF v[1] = "-" /\ size # <<"0">> THEN <<"-">> \o size ELSE size

Same(v, w) == IF type = "digits" THEN Canonical(v) = w ELSE v = w

(* Fill that looks like the sign of the other amounts is let through       *)
(* behind an amount whose own sign stands there, and is read as the sign:  *)
(* the comment on fill_alters_reading() has nothing but a digit read into  *)
(* an amount from behind.                                                  *)
Misled ==
    LET order == Pattern(loc.minus)
        at(part) == SelectInSeq(order, LAMBDA p : p = part)
        begins(sign) == sign # <<>> /\ io.fill = sign[1]
    IN at("sign") > at("value") /\ (begins(PositiveSign) \/ begins(NegativeSign))

(* Fill that is nothing else, none of it before everything, or between the *)
(* last slot and the rest of the sign.                                     *)
Neutral ==
    /\ ~IsFigure(io.fill) /\ io.fill \notin {loc.sep, loc.point}
    /\ \A word \in {PositiveSign, NegativeSign, loc.symbol} : io.fill \notin ToSet(word)

Plain ==
    /\ Neutral /\ loc.plus = loc.minus
    /\ io.adjust = "right" => Len(text) > width
    /\ \/ io.adjust # "internal" \/ Last(Pattern(loc.minus)) # "none"
       \/ Len(PositiveSign) <= 1 /\ Len(NegativeSign) <= 1

(* What is read of a text from elsewhere is what its digits say, with the  *)
(* sign it carries: as many places as the locale has, or a whole number,   *)
(* grouped as put() would have or not at all, and in the range of the type. *)
Says(read, v) ==
    LET core  == SelectSeq(read, LAMBDA c : IsFigure(c) \/ c = loc.point \/ (Groups /\ c = loc.sep))
        point == SelectInSeq(core, LAMBDA c : c = loc.point)
        head  == IF point = 0 THEN core ELSE SubSeq(core, 1, point - 1)
        tail  == IF point = 0 THEN <<>> ELSE SubSeq(core, point + 1, Len(core))
        bare  == SelectSeq(head, IsFigure)
        size  == FoldLeft(LAMBDA m, c : m * 10 + FigureOf(c), 0, bare \o tail)
        shows(sign) == sign # <<>> /\ sign[1] \in ToSet(read)
        negative == IF NegativeSign # <<>> THEN shows(NegativeSign) ELSE ~shows(PositiveSign)
        sign == IF negative /\ size > 0 THEN <<"-">> ELSE <<>>
    IN /\ point # 0 => Len(tail) = loc.frac
       /\ head # bare => head = Grouped(bare, loc.grouping, loc.sep)
       /\ IF type = "digits" THEN v = sign \o Stripped(bare \o tail)
          ELSE v = (IF negative THEN -size ELSE size) /\ v \in MinOf(type = "int")..MaxOf(type = "int")

(* A field that was let through is read back as the amount it was made of, *)
(* or not at all, and a plain one is read back; and what is read of a text *)
(* from elsewhere is what it says.                                         *)
ReadRightly ==
    text # <<>> =>
       IF amount # Nothing
       THEN /\ ok' => Misled \/ Same(amount[1], value'[1])
            /\ Plain => ok'
       ELSE ok' /\ Neutral => Says(SubSeq(text, 1, Len(text) - Len(text')), value'[1])
=============================================================================
