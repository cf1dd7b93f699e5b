--------------------------- MODULE CodeCvtProofs ----------------------------
(***************************************************************************)
(* code_cvt: reads come in order, writes are read back and tell() counts   *)
(* right, for every content, text and length, however blocks cut the units *)
(* and wherever the kernel fails.                                          *)
(*                                                                         *)
(* Some units at the front of others say a text, and leave a shift state   *)
(* behind, whatever follows them (Fronts).  The loops of the codecs are    *)
(* unfolded into that: one character (PlainIs, ReadOneIs), in_helper()     *)
(* (InHelperIs), put_main() (PutMainIs) and get_main() (GetMainIs).  CInv  *)
(* keeps it of all the units up to the kernel's position (Counted).        *)
(***************************************************************************)
EXTENDS MCLayerCvt, SequenceFacts

(* One character, or what is in its place, at the front of some units.     *)
CUnits == Code!Units
CChars == Code!Chars
Pairs(sh) == kind = "multi" \/ (kind = "shift" /\ sh = TRUE)
Paired(sh, u) == u[1] = "l" /\ Pairs(sh) /\ Len(u) > 1 /\ u[2] = "t"
Parted(sh, u) == u[1] = "l" /\ Pairs(sh) /\ Len(u) = 1

IsChar(sh, u, r) ==
    /\ r.is = "char" /\ DOMAIN r = {"is", "char", "len", "sh"}
    /\ \/ u[1] = "a" /\ r.char = (IF sh THEN "c" ELSE "a") /\ r.len = 1 /\ r.sh = sh
       \/ u[1] = "z" /\ r.char = "z" /\ r.len = 1 /\ r.sh = FALSE
       \/ Paired(sh, u) /\ r.char = "lt" /\ r.len = 2 /\ r.sh = sh

LEMMA PlainIs ==
  ASSUME NEW sh \in BOOLEAN, NEW u \in Seq(CUnits), u # <<>>, NEW r, r = Code!Plain(sh, u)
  PROVE  \/ IsChar(sh, u, r)
         \/ Parted(sh, u) /\ r = [is |-> "part", len |-> 1, sh |-> sh]
         \/ /\ u[1] \notin {"a", "z"} /\ ~Parted(sh, u) /\ ~Paired(sh, u)
            /\ r = [is |-> "bad", len |-> 1, sh |-> sh]
<1>1. PICK l \in Nat : l = Len(u)
  OBVIOUS
<1>2. l # 0
  BY <1>1
<1>3. PICK n : n = u[1]
  OBVIOUS
<1>4. PICK p \in BOOLEAN : p = (kind = "multi" \/ (kind = "shift" /\ sh))
  OBVIOUS
<1>5. p = Pairs(sh)
  BY ONLY <1>4, sh \in BOOLEAN DEF Pairs
<1>6. PICK t \in BOOLEAN : t = (u[2] = "t")
  OBVIOUS
<1>7. r = CASE n = "a" -> [is |-> "char", char |-> IF sh THEN "c" ELSE "a", len |-> 1, sh |-> sh]
         [] n = "z" -> [is |-> "char", char |-> "z", len |-> 1, sh |-> FALSE]
         [] n = "l" /\ p /\ l = 1 -> [is |-> "part", len |-> 1, sh |-> sh]
         [] n = "l" /\ p /\ l > 1 /\ t
              -> [is |-> "char", char |-> "lt", len |-> 2, sh |-> sh]
         [] OTHER -> [is |-> "bad", len |-> 1, sh |-> sh]
  BY <1>1, <1>3, <1>4, <1>6 DEF Code!Plain
<1>8. CASE n = "a"
  <2>1. r = [is |-> "char", char |-> IF sh THEN "c" ELSE "a", len |-> 1, sh |-> sh]
    BY ONLY <1>7, <1>8, l \in Nat
  <2>2. QED  BY ONLY <2>1, <1>8, <1>3 DEF IsChar
<1>9. CASE n = "z"
  <2>1. r = [is |-> "char", char |-> "z", len |-> 1, sh |-> FALSE]
    BY ONLY <1>7, <1>9, l \in Nat
  <2>2. QED  BY ONLY <2>1, <1>9, <1>3 DEF IsChar
<1>10. CASE n = "l" /\ p /\ l = 1
  <2>1. r = [is |-> "part", len |-> 1, sh |-> sh]
    BY ONLY <1>7, <1>10, l \in Nat
  <2>2. QED  BY ONLY <2>1, <1>10, <1>3, <1>1, <1>5 DEF Parted
<1>11. CASE n = "l" /\ p /\ l > 1 /\ t
  <2>1. r = [is |-> "char", char |-> "lt", len |-> 2, sh |-> sh]
    BY ONLY <1>7, <1>11, l \in Nat
  <2>2. Paired(sh, u)
    BY ONLY <1>11, <1>3, <1>1, <1>5, <1>6 DEF Paired
  <2>3. QED  BY ONLY <2>1, <2>2 DEF IsChar
<1>12. CASE n # "a" /\ n # "z" /\ ~(n = "l" /\ p /\ l = 1) /\ ~(n = "l" /\ p /\ l > 1 /\ t)
  <2>1. r = [is |-> "bad", len |-> 1, sh |-> sh]
    BY ONLY <1>7, <1>12, l \in Nat
  <2>2. ~Parted(sh, u) /\ ~Paired(sh, u)
    BY ONLY <1>12, <1>3, <1>1, <1>5, <1>6 DEF Paired, Parted
  <2>3. QED  BY ONLY <2>1, <2>2, <1>12, <1>3
<1>13. QED  BY ONLY <1>8, <1>9, <1>10, <1>11, <1>12

(* What is at the front of some units: a turn of the shift state, a        *)
(* character, or what is no character.                                     *)
Said == CChars \cup {"bad", "part"}
Pieces == [text : Seq(Said), took : Nat, len : Nat, sh : BOOLEAN]
Piece(sh, u) ==
    IF Head(u) \in Code!Shifts
    THEN [text |-> <<>>, took |-> 0, len |-> 1, sh |-> Head(u) = "o"]
    ELSE [text |-> <<IF Code!Plain(sh, u).is = "char" THEN Code!Plain(sh, u).char ELSE Code!Plain(sh, u).is>>,
          took |-> IF Code!Plain(sh, u).is = "char" THEN 1 ELSE 0,
          len |-> Code!Plain(sh, u).len, sh |-> Code!Plain(sh, u).sh]

LEMMA PlainType ==
  ASSUME NEW sh \in BOOLEAN, NEW u \in Seq(CUnits), u # <<>>, NEW r, r = Code!Plain(sh, u)
  PROVE  /\ r.is \in {"char", "bad", "part"} /\ r.len \in 1..Len(u) /\ r.sh \in BOOLEAN
         /\ r.is = "char" => r.char \in CChars
<1>1. PICK l \in Nat : l = Len(u) /\ l # 0
  OBVIOUS
<1>2. CASE IsChar(sh, u, r)
  <2>1. r.char \in CChars /\ r.sh \in BOOLEAN
    BY ONLY <1>2, sh \in BOOLEAN DEF IsChar, CChars, Code!Chars
  <2>2. r.len \in 1..l
    BY ONLY <1>1, <1>2 DEF IsChar, Paired
  <2>3. QED  BY ONLY <1>1, <1>2, <2>1, <2>2 DEF IsChar
<1>3. CASE r = [is |-> "part", len |-> 1, sh |-> sh] \/ r = [is |-> "bad", len |-> 1, sh |-> sh]
  BY ONLY <1>1, <1>3, sh \in BOOLEAN
<1>4. QED  BY <1>2, <1>3, PlainIs

LEMMA PieceType ==
  ASSUME NEW sh \in BOOLEAN, NEW u \in Seq(CUnits), u # <<>>
  PROVE  Piece(sh, u) \in Pieces /\ Piece(sh, u).len \in 1..Len(u)
<1>1. PICK l \in Nat : l = Len(u) /\ l # 0
  OBVIOUS
<1>2. CASE Head(u) \in Code!Shifts
  <2>1. PICK p : p = [text |-> <<>>, took |-> 0, len |-> 1, sh |-> Head(u) = "o"]
    OBVIOUS
  <2>2. p = Piece(sh, u)
    BY ONLY <1>2, <2>1 DEF Piece
  <2>3. p.len \in 1..l
    BY ONLY <1>1, <2>1
  <2>4. <<>> \in Seq(Said)
    OBVIOUS
  <2>5. p \in Pieces
    BY ONLY <2>1, <2>4 DEF Pieces
  <2>6. QED  BY ONLY <1>1, <2>2, <2>3, <2>5
<1>3. CASE Head(u) \notin Code!Shifts
  <2>1. PICK r : r = Code!Plain(sh, u)
    OBVIOUS
  <2>2. PICK p : p = [text |-> <<IF r.is = "char" THEN r.char ELSE r.is>>, took |-> IF r.is = "char" THEN 1 ELSE 0,
                      len |-> r.len, sh |-> r.sh]
    OBVIOUS
  <2>3. p = Piece(sh, u)
    BY ONLY <1>3, <2>1, <2>2 DEF Piece
  <2>4. /\ r.is \in {"char", "bad", "part"} /\ r.len \in 1..l /\ r.sh \in BOOLEAN
        /\ r.is = "char" => r.char \in CChars
    BY <1>1, <2>1, PlainType
  <2>5. PICK c \in Said : c = IF r.is = "char" THEN r.char ELSE r.is
    BY ONLY <2>4 DEF Said
  <2>6. <<c>> \in Seq(Said)
    OBVIOUS
  <2>7. p \in Pieces
    BY ONLY <1>1, <2>2, <2>4, <2>5, <2>6 DEF Pieces
  <2>8. p.len \in 1..l
    BY ONLY <2>2, <2>4
  <2>9. QED  BY ONLY <1>1, <2>3, <2>7, <2>8
<1>4. QED  BY <1>2, <1>3

Inputs == [sh : BOOLEAN, units : Seq(CUnits)]
Meanings == [text : Seq(Said), count : Nat, sh : BOOLEAN]
Joined(p, y) == [text |-> p.text \o y.text, count |-> y.count + p.took, sh |-> y.sh]
After(p, u) == [sh |-> p.sh, units |-> SubSeq(u, p.len + 1, Len(u))]

LEMMA AfterType ==
  ASSUME NEW m \in Inputs, m.units # <<>>
  PROVE  /\ After(Piece(m.sh, m.units), m.units) \in Inputs
         /\ Len(After(Piece(m.sh, m.units), m.units).units) < Len(m.units)
<1>1. PICK sh \in BOOLEAN : sh = m.sh
  BY DEF Inputs
<1>2. PICK u \in Seq(CUnits) : u = m.units
  BY DEF Inputs
<1>3. PICK l \in Nat : l = Len(u)
  OBVIOUS
<1>4. PICK p : p = Piece(sh, u)
  OBVIOUS
<1>5. p \in Pieces /\ p.len \in 1..l
  BY <1>2, <1>3, <1>4, PieceType
<1>6. PICK n \in 1..l : n = p.len
  BY <1>5
<1>7. SubSeq(u, n + 1, l) \in Seq(CUnits) /\ Len(SubSeq(u, n + 1, l)) < l
  BY <1>3
<1>8. p.sh \in BOOLEAN
  BY ONLY <1>5 DEF Pieces
<1>9. After(p, u) \in Inputs /\ Len(After(p, u).units) < l
  BY ONLY <1>3, <1>6, <1>7, <1>8 DEF After, Inputs
<1>10. QED  BY ONLY <1>1, <1>2, <1>3, <1>4, <1>9

LEMMA JoinedType ==
  ASSUME NEW p \in Pieces, NEW y \in Meanings
  PROVE  Joined(p, y) \in Meanings
<1>1. p.text \o y.text \in Seq(Said)
  BY DEF Pieces, Meanings
<1>2. y.count + p.took \in Nat /\ y.sh \in BOOLEAN
  BY DEF Pieces, Meanings
<1>3. QED  BY ONLY <1>1, <1>2 DEF Joined, Meanings

Says0(f) ==
    [m \in [sh : BOOLEAN, units : Seq(Code!Units)] |->
        IF m.units = <<>> THEN [text |-> <<>>, count |-> 0, sh |-> m.sh]
        ELSE LET turn == Head(m.units) \in Code!Shifts
                 r    == Code!Plain(m.sh, m.units)
             IN IF turn THEN f[[sh |-> Head(m.units) = "o", units |-> Tail(m.units)]]
                ELSE [f[[sh |-> r.sh, units |-> SubSeq(m.units, r.len + 1, Len(m.units))]]
                         EXCEPT !.text = <<IF r.is = "char" THEN r.char ELSE r.is>> \o @,
                                !.count = @ + Len(Code!Took(r))]]

LEMMA MeaningChosen == Code!Meaning = CHOOSE f : f = Says0(f)
  BY DEF Code!Meaning, Code!Inputs, Says0

LEMMA MeaningHere ==
  ASSUME NEW f, NEW m \in Inputs, m.units # <<>>, NEW p, p = Piece(m.sh, m.units),
         f[After(p, m.units)] \in Meanings
  PROVE  Says0(f)[m] = Joined(p, f[After(p, m.units)])
<1>1. PICK sh \in BOOLEAN : sh = m.sh
  BY DEF Inputs
<1>2. PICK u \in Seq(CUnits) : u = m.units /\ u # <<>>
  BY DEF Inputs
<1>3. PICK y \in Meanings : y = f[After(p, u)]
  BY <1>2
<1>4. PICK a \in Seq(Said), b \in Nat, c \in BOOLEAN : y = [text |-> a, count |-> b, sh |-> c]
  BY DEF Meanings
<1>5. m \in [sh : BOOLEAN, units : Seq(Code!Units)]
  BY DEF Inputs, CUnits
<1>6. CASE Head(u) \in Code!Shifts
  <2>1. Says0(f)[m] = f[[sh |-> Head(u) = "o", units |-> Tail(u)]]
    BY ONLY <1>2, <1>5, <1>6 DEF Says0
  <2>2. p = [text |-> <<>>, took |-> 0, len |-> 1, sh |-> Head(u) = "o"]
    BY <1>1, <1>2, <1>6 DEF Piece
  <2>3. Tail(u) = SubSeq(u, 2, Len(u))
    BY ONLY <1>2
  <2>4. p.len + 1 = 2 /\ p.sh = (Head(u) = "o")
    BY ONLY <2>2
  <2>5. After(p, u) = [sh |-> Head(u) = "o", units |-> Tail(u)]
    BY ONLY <2>3, <2>4 DEF After
  <2>6. Says0(f)[m] = y
    BY ONLY <1>3, <2>1, <2>5
  <2>7. <<>> \o a = a /\ b + 0 = b
    OBVIOUS
  <2>8. p.text = <<>> /\ p.took = 0
    BY ONLY <2>2
  <2>9. Joined(p, y) = [text |-> a, count |-> b, sh |-> c]
    BY ONLY <1>4, <2>7, <2>8 DEF Joined
  <2>10. QED  BY ONLY <1>2, <1>3, <1>4, <2>6, <2>9
<1>7. CASE Head(u) \notin Code!Shifts
  <2>1. PICK r : r = Code!Plain(sh, u)
    OBVIOUS
  <2>2. p = [text |-> <<IF r.is = "char" THEN r.char ELSE r.is>>, took |-> IF r.is = "char" THEN 1 ELSE 0,
             len |-> r.len, sh |-> r.sh]
    BY <1>1, <1>2, <1>7, <2>1 DEF Piece
  <2>3. p.len = r.len /\ p.sh = r.sh
    BY ONLY <2>2
  <2>4. After(p, u) = [sh |-> r.sh, units |-> SubSeq(u, r.len + 1, Len(u))]
    BY ONLY <2>3 DEF After
  <2>5. PICK t : t = <<IF r.is = "char" THEN r.char ELSE r.is>>
    OBVIOUS
  <2>6. PICK n : n = Len(Code!Took(r))
    OBVIOUS
  <2>7. n = IF r.is = "char" THEN 1 ELSE 0
    BY ONLY <2>6 DEF Code!Took
  <2>8. Says0(f)[m] = [y EXCEPT !.text = t \o @, !.count = @ + n]
    <3>1. Says0(f)[m] = [f[[sh |-> r.sh, units |-> SubSeq(u, r.len + 1, Len(u))]]
                         EXCEPT !.text = <<IF r.is = "char" THEN r.char ELSE r.is>> \o @,
                                !.count = @ + Len(Code!Took(r))]
      BY ONLY <1>1, <1>2, <1>5, <1>7, <2>1 DEF Says0
    <3>2. QED  BY ONLY <1>3, <2>4, <2>5, <2>6, <3>1
  <2>9. Says0(f)[m] = [text |-> t \o a, count |-> b + n, sh |-> c]
    BY ONLY <1>4, <2>8
  <2>10. p.text = t /\ p.took = n
    BY ONLY <2>2, <2>5, <2>7
  <2>11. Joined(p, y) = [text |-> t \o a, count |-> b + n, sh |-> c]
    BY ONLY <1>4, <2>10 DEF Joined
  <2>12. QED  BY ONLY <1>2, <1>3, <2>9, <2>11
<1>8. QED  BY <1>6, <1>7

LEMMA MeaningAtEnd ==
  ASSUME NEW f, NEW m \in Inputs, m.units = <<>>
  PROVE  Says0(f)[m] = [text |-> <<>>, count |-> 0, sh |-> m.sh] /\ Says0(f)[m] \in Meanings
<1>1. m \in [sh : BOOLEAN, units : Seq(Code!Units)] /\ m.sh \in BOOLEAN
  BY DEF Inputs, CUnits
<1>2. Says0(f)[m] = [text |-> <<>>, count |-> 0, sh |-> m.sh]
  BY ONLY <1>1, m.units = <<>> DEF Says0
<1>3. <<>> \in Seq(Said)
  OBVIOUS
<1>4. QED  BY ONLY <1>1, <1>2, <1>3 DEF Meanings

LEMMA MeaningUnfolds ==
  /\ Code!Meaning \in [Inputs -> Meanings]
  /\ Code!Meaning = Says0(Code!Meaning)
<1> DEFINE piece(x) == Piece(x.sh, x.units)
<1>a. PICK G : G = {x \in Inputs : x.units # <<>>}
  OBVIOUS
<1>b. PICK m : m = [x \in Inputs |-> Len(x.units)]
  OBVIOUS
<1>c. PICK next : next = [x \in Inputs |-> IF x \in G THEN After(piece(x), x.units) ELSE x]
  OBVIOUS
<1>d. PICK val : val = [x \in Inputs |-> [text |-> <<>>, count |-> 0, sh |-> x.sh]]
  OBVIOUS
<1>e. PICK on : on = [x \in Inputs |-> [y \in Meanings |-> IF x \in G THEN Joined(piece(x), y) ELSE y]]
  OBVIOUS
<1>1. G \in SUBSET Inputs
  BY <1>a
<1>2. m \in [Inputs -> Nat]
  BY <1>b DEF Inputs
<1>3. \A x \in Inputs : (x \in G => After(piece(x), x.units) \in Inputs /\ piece(x) \in Pieces)
  <2>1. SUFFICES ASSUME NEW x \in Inputs, x.units # <<>>
        PROVE  After(piece(x), x.units) \in Inputs /\ piece(x) \in Pieces
    BY <1>a
  <2>2. After(piece(x), x.units) \in Inputs
    BY AfterType, <2>1
  <2>3. x.sh \in BOOLEAN /\ x.units \in Seq(CUnits)
    BY DEF Inputs
  <2>4. QED  BY <2>1, <2>2, <2>3, PieceType
<1>4. next \in [Inputs -> Inputs]
  BY ONLY <1>3, <1>c
<1>5. val \in [Inputs -> Meanings]
  <2>1. \A x \in Inputs : x.sh \in BOOLEAN
    BY DEF Inputs
  <2>2. <<>> \in Seq(Said)
    OBVIOUS
  <2>3. \A x \in Inputs : [text |-> <<>>, count |-> 0, sh |-> x.sh] \in Meanings
    BY ONLY <2>1, <2>2 DEF Meanings
  <2>4. QED  BY ONLY <1>d, <2>3
<1>6. on \in [Inputs -> [Meanings -> Meanings]]
  <2>1. \A x \in Inputs : \A y \in Meanings : (IF x \in G THEN Joined(piece(x), y) ELSE y) \in Meanings
    BY <1>1, <1>3, JoinedType
  <2> HIDE DEF piece
  <2>2. QED  BY ONLY <1>e, <2>1
<1>7. \A x \in G : m[next[x]] < m[x]
  <2> SUFFICES ASSUME NEW x \in G PROVE m[next[x]] < m[x]
    OBVIOUS
  <2>1. x \in Inputs /\ x \in G
    BY <1>1
  <2>2. next[x] = After(piece(x), x.units)
    BY ONLY <1>c, <2>1
  <2>3. Len(After(piece(x), x.units).units) < Len(x.units) /\ After(piece(x), x.units) \in Inputs
    BY <1>a, <2>1, AfterType
  <2>4. QED  BY ONLY <1>b, <2>1, <2>2, <2>3
<1>8. \E f \in [Inputs -> Meanings] : \A x \in Inputs : f[x] = Unfolds(f, x, G, next, val, on)
  <2>1. Recursion(Inputs, Meanings, G, m, next, val, on)
    BY ONLY <1>1, <1>2, <1>4, <1>5, <1>6, <1>7 DEF Recursion
  <2>2. QED  BY ONLY <2>1, RecursionEnds
<1>9. PICK f \in [Inputs -> Meanings] : \A x \in Inputs : f[x] = Unfolds(f, x, G, next, val, on)
  BY ONLY <1>8
<1>10. ASSUME NEW x \in Inputs PROVE f[x] = Says0(f)[x]
  <2>1. CASE x.units = <<>>
    <3>1. x \notin G
      BY <1>a, <2>1
    <3>2. f[x] = val[x]
      BY ONLY <1>9, <3>1, x \in Inputs DEF Unfolds
    <3>3. QED  BY <1>d, <3>2, <2>1, MeaningAtEnd
  <2>2. CASE x.units # <<>>
    <3>1. x \in G
      BY <1>a, <2>2
    <3>2. f[x] = on[x][f[next[x]]]
      BY ONLY <1>9, <3>1, x \in Inputs DEF Unfolds
    <3>3. next[x] = After(piece(x), x.units) /\ next[x] \in Inputs
      BY ONLY <1>3, <1>c, <3>1, x \in Inputs
    <3>4. f[next[x]] \in Meanings
      BY ONLY <3>3, f \in [Inputs -> Meanings]
    <3>5. on[x][f[next[x]]] = Joined(piece(x), f[next[x]])
      BY ONLY <1>e, <3>1, <3>4, x \in Inputs
    <3>6. Says0(f)[x] = Joined(piece(x), f[After(piece(x), x.units)])
      BY <2>2, <3>3, <3>4, MeaningHere
    <3>7. QED  BY ONLY <3>2, <3>3, <3>5, <3>6
  <2>3. QED  BY <2>1, <2>2
<1>11. f = Says0(f)
  <2>1. DOMAIN Says0(f) = Inputs /\ Says0(f) = [x \in Inputs |-> Says0(f)[x]]
    BY DEF Says0, Inputs, CUnits
  <2>2. QED  BY ONLY <1>10, <2>1, f \in [Inputs -> Meanings]
<1>12. Code!Meaning = Says0(Code!Meaning)
  <2>1. \E h : h = Says0(h)
    BY ONLY <1>11
  <2>2. (CHOOSE h : h = Says0(h)) = Says0(CHOOSE h : h = Says0(h))
    BY ONLY <2>1
  <2>3. QED  BY ONLY <2>2, MeaningChosen
<1>13. PICK g : g = Code!Meaning
  OBVIOUS
<1>14. g = Says0(g)
  BY ONLY <1>12, <1>13
<1>15. \A x \in Inputs : x \in {z \in Inputs : g[z] \in Meanings}
  <2>1. ASSUME NEW x \in Inputs, \A z \in Inputs : m[z] < m[x] => z \in {y \in Inputs : g[y] \in Meanings}
        PROVE  g[x] \in Meanings
    <3>1. CASE x.units = <<>>
      BY <1>14, <3>1, MeaningAtEnd
    <3>2. CASE x.units # <<>>
      <4>1. x \in G
        BY <1>a, <3>2
      <4>2. PICK z \in Inputs : z = next[x]
        BY ONLY <1>4, x \in Inputs
      <4>3. z = After(piece(x), x.units) /\ m[z] < m[x]
        BY ONLY <1>c, <1>7, <4>1, <4>2, x \in Inputs
      <4>4. g[z] \in Meanings
        BY ONLY <2>1, <4>3, z \in Inputs
      <4>5. Says0(g)[x] = Joined(piece(x), g[z])
        BY <3>2, <4>3, <4>4, MeaningHere
      <4>6. Joined(piece(x), g[z]) \in Meanings
        BY <1>3, <4>1, <4>4, JoinedType
      <4>7. QED  BY ONLY <1>14, <4>5, <4>6
    <3>3. QED  BY <3>1, <3>2
  <2>2. \A x \in Inputs : (\A z \in Inputs : m[z] < m[x] => z \in {y \in Inputs : g[y] \in Meanings})
                          => x \in {y \in Inputs : g[y] \in Meanings}
    BY ONLY <2>1
  <2>3. QED  BY ONLY <1>2, <2>2, ByMeasure
<1>16. g \in [Inputs -> Meanings]
  <2>1. g = [x \in Inputs |-> Says0(g)[x]]
    BY <1>14 DEF Says0, Inputs, CUnits
  <2>2. QED  BY ONLY <1>14, <1>15, <2>1, SMTT(30)
<1>17. QED  BY ONLY <1>13, <1>14, <1>16

LEMMA SaysType ==
  ASSUME NEW sh \in BOOLEAN, NEW u \in Seq(CUnits)
  PROVE  Code!Says(sh, u) \in Meanings
<1>1. [sh |-> sh, units |-> u] \in Inputs
  BY DEF Inputs
<1>2. QED  BY ONLY <1>1, MeaningUnfolds DEF Code!Says

LEMMA SaysNothing ==
  ASSUME NEW sh \in BOOLEAN
  PROVE  Code!Says(sh, <<>>) = [text |-> <<>>, count |-> 0, sh |-> sh]
<1>1. PICK m : m = [sh |-> sh, units |-> <<>>]
  OBVIOUS
<1>2. m \in Inputs /\ m.units = <<>> /\ m.sh = sh
  BY <1>1 DEF Inputs
<1>3. Says0(Code!Meaning)[m] = [text |-> <<>>, count |-> 0, sh |-> sh]
  BY <1>2, MeaningAtEnd
<1>4. QED  BY ONLY <1>1, <1>3, MeaningUnfolds DEF Code!Says

(* What units say is what their first piece says, and then the rest.       *)
LEMMA SaysPiece ==
  ASSUME NEW sh \in BOOLEAN, NEW u \in Seq(CUnits), u # <<>>, NEW p, p = Piece(sh, u)
  PROVE  Code!Says(sh, u) = Joined(p, Code!Says(p.sh, SubSeq(u, p.len + 1, Len(u))))
<1>1. PICK m : m = [sh |-> sh, units |-> u]
  OBVIOUS
<1>2. m \in Inputs /\ m.units = u /\ m.sh = sh
  BY <1>1 DEF Inputs
<1>3. After(p, u) \in Inputs
  BY <1>2, AfterType
<1>4. PICK f : f = Code!Meaning
  OBVIOUS
<1>5. f[After(p, u)] \in Meanings /\ f[m] = Says0(f)[m]
  BY ONLY <1>3, <1>4, MeaningUnfolds
<1>6. Says0(f)[m] = Joined(p, f[After(p, u)])
  BY <1>2, <1>5, MeaningHere
<1>7. QED  BY ONLY <1>1, <1>4, <1>5, <1>6 DEF Code!Says, After

(* Some units say a text and leave a state behind, whatever comes then.    *)
Added(t, y) == [text |-> t \o y.text, count |-> y.count + Len(t), sh |-> y.sh]
Fronts(sh, u, after, t) ==
    \A v \in Seq(CUnits) : Code!Says(sh, u \o v) = Added(t, Code!Says(after, v))

LEMMA AddedTwice ==
  ASSUME NEW t \in Seq(Said), NEW w \in Seq(Said), NEW y \in Meanings
  PROVE  Added(t, Added(w, y)) = Added(t \o w, y)
<1>1. PICK a \in Seq(Said), b \in Nat, c \in BOOLEAN : y = [text |-> a, count |-> b, sh |-> c]
  BY DEF Meanings
<1>2. Added(w, y) = [text |-> w \o a, count |-> b + Len(w), sh |-> c]
  BY ONLY <1>1 DEF Added
<1>3. Added(t, Added(w, y)) = [text |-> t \o (w \o a), count |-> (b + Len(w)) + Len(t), sh |-> c]
  BY ONLY <1>2 DEF Added
<1>4. t \o (w \o a) = (t \o w) \o a
  BY ConcatThree
<1>5. Len(w) \in Nat /\ Len(t) \in Nat /\ Len(t \o w) = Len(t) + Len(w)
  OBVIOUS
<1>6. (b + Len(w)) + Len(t) = b + Len(t \o w)
  BY ONLY <1>5, b \in Nat
<1>7. QED  BY ONLY <1>1, <1>3, <1>4, <1>6 DEF Added

LEMMA FrontsNone ==
  ASSUME NEW sh \in BOOLEAN
  PROVE  Fronts(sh, <<>>, sh, <<>>)
<1> SUFFICES ASSUME NEW v \in Seq(CUnits) PROVE Code!Says(sh, <<>> \o v) = Added(<<>>, Code!Says(sh, v))
  BY DEF Fronts
<1>1. <<>> \o v = v
  OBVIOUS
<1>2. PICK y \in Meanings : y = Code!Says(sh, v)
  BY SaysType
<1>3. PICK a \in Seq(Said), b \in Nat, c \in BOOLEAN : y = [text |-> a, count |-> b, sh |-> c]
  BY DEF Meanings
<1>4. <<>> \o a = a /\ b + Len(<<>>) = b
  OBVIOUS
<1>5. Added(<<>>, y) = y
  BY ONLY <1>3, <1>4 DEF Added
<1>6. QED  BY ONLY <1>1, <1>2, <1>5

LEMMA FrontsThen ==
  ASSUME NEW sh \in BOOLEAN, NEW s \in BOOLEAN, NEW after \in BOOLEAN,
         NEW u \in Seq(CUnits), NEW w \in Seq(CUnits), NEW t \in Seq(Said), NEW q \in Seq(Said),
         Fronts(sh, u, s, t), Fronts(s, w, after, q)
  PROVE  Fronts(sh, u \o w, after, t \o q)
<1> SUFFICES ASSUME NEW v \in Seq(CUnits)
             PROVE  Code!Says(sh, (u \o w) \o v) = Added(t \o q, Code!Says(after, v))
  BY DEF Fronts
<1>1. (u \o w) \o v = u \o (w \o v) /\ w \o v \in Seq(CUnits)
  BY ConcatThree
<1>2. Code!Says(sh, u \o (w \o v)) = Added(t, Code!Says(s, w \o v))
  BY ONLY <1>1, Fronts(sh, u, s, t) DEF Fronts
<1>3. Code!Says(s, w \o v) = Added(q, Code!Says(after, v))
  BY ONLY Fronts(s, w, after, q), v \in Seq(CUnits) DEF Fronts
<1>4. Added(t, Added(q, Code!Says(after, v))) = Added(t \o q, Code!Says(after, v))
  BY SaysType, AddedTwice
<1>5. QED  BY ONLY <1>1, <1>2, <1>3, <1>4

LEMMA FrontsTurn ==
  ASSUME NEW sh \in BOOLEAN, NEW u \in Seq(CUnits), Len(u) = 1, u[1] \in Code!Shifts
  PROVE  Fronts(sh, u, u[1] = "o", <<>>)
<1> SUFFICES ASSUME NEW v \in Seq(CUnits)
             PROVE  Code!Says(sh, u \o v) = Added(<<>>, Code!Says(u[1] = "o", v))
  BY DEF Fronts
<1>1. PICK w \in Seq(CUnits) : w = u \o v
  BY ONLY u \in Seq(CUnits), v \in Seq(CUnits), BehindFirst
<1>2. w # <<>> /\ Head(w) = u[1] /\ SubSeq(w, 2, Len(w)) = v
  <2>1. /\ SubSeq(w, Len(u) + 1, Len(w)) = v
        /\ Len(u) > 0 => w # <<>> /\ Head(w) = u[1]
    BY ONLY <1>1, u \in Seq(CUnits), v \in Seq(CUnits), BehindFirst
  <2>2. QED  BY ONLY <2>1, Len(u) = 1
<1>3. PICK p : p = Piece(sh, w)
  OBVIOUS
<1>4. p = [text |-> <<>>, took |-> 0, len |-> 1, sh |-> u[1] = "o"]
  BY <1>2, <1>3 DEF Piece
<1>5. PICK y : y = Code!Says(u[1] = "o", v)
  OBVIOUS
<1>6. p.len + 1 = 2 /\ p.sh = (u[1] = "o") /\ p.text = <<>> /\ p.took = 0
  BY ONLY <1>4
<1>7. Code!Says(sh, w) = Joined(p, Code!Says(p.sh, SubSeq(w, p.len + 1, Len(w))))
  BY <1>2, <1>3, SaysPiece
<1>8. Code!Says(sh, w) = Joined(p, y)
  BY ONLY <1>2, <1>5, <1>6, <1>7
<1>9. Joined(p, y) = Added(<<>>, y)
  <2>1. Len(<<>>) = 0
    OBVIOUS
  <2>2. QED  BY ONLY <1>6, <2>1 DEF Joined, Added
<1>10. QED  BY ONLY <1>1, <1>5, <1>8, <1>9

LEMMA FrontsChar ==
  ASSUME NEW sh \in BOOLEAN, NEW u \in Seq(CUnits), u # <<>>, NEW r, IsChar(sh, u, r),
         NEW w, w = SubSeq(u, 1, r.len)
  PROVE  Fronts(sh, w, r.sh, <<r.char>>)
<1> SUFFICES ASSUME NEW v \in Seq(CUnits)
             PROVE  Code!Says(sh, w \o v) = Added(<<r.char>>, Code!Says(r.sh, v))
  BY DEF Fronts
<1>1. PICK n \in Nat : n = r.len /\ n \in {1, 2} /\ n <= Len(u) /\ (n = 2 <=> Paired(sh, u))
  <2>1. Len(u) \in Nat /\ Len(u) # 0
    OBVIOUS
  <2>2. QED  BY <2>1 DEF IsChar, Paired
<1>2. w \in Seq(CUnits) /\ Len(w) = n /\ w[1] = u[1] /\ (n = 2 => w[2] = u[2])
  <2>1. /\ SubSeq(u, 1, n) \in Seq(CUnits) /\ Len(SubSeq(u, 1, n)) = n
        /\ \A i \in 1..n : SubSeq(u, 1, n)[i] = u[i]
    BY ONLY <1>1, u \in Seq(CUnits), PrefixElements
  <2>2. w = SubSeq(u, 1, n)
    BY ONLY <1>1, w = SubSeq(u, 1, r.len)
  <2>3. QED  BY ONLY <1>1, <2>1, <2>2
<1>3. PICK z : z = w \o v
  OBVIOUS
<1>a. /\ z \in Seq(CUnits) /\ Len(z) = n + Len(v)
      /\ \A i \in 1..n : z[i] = w[i]
      /\ SubSeq(z, n + 1, Len(z)) = v
      /\ n > 0 => z # <<>> /\ Head(z) = w[1]
  <2>1. w \in Seq(CUnits) /\ Len(w) = n
    BY ONLY <1>2
  <2>2. QED  BY ONLY <1>3, <2>1, v \in Seq(CUnits), BehindFirst, ZenonT(60)
<1>4. z # <<>> /\ Head(z) = u[1] /\ z[1] = u[1] /\ (n = 2 => Len(z) > 1 /\ z[2] = u[2])
  <2>1. Len(v) \in Nat /\ 1 \in 1..n /\ (n = 2 => 2 \in 1..n) /\ n > 0
    BY ONLY <1>1, v \in Seq(CUnits)
  <2>2. QED  BY ONLY <1>1, <1>2, <1>a, <2>1
<1>5. SubSeq(z, n + 1, Len(z)) = v
  BY ONLY <1>a
<1>6. PICK q : q = Code!Plain(sh, z)
  OBVIOUS
<1>7. u[1] \in {"a", "z", "l"} /\ (u[1] = "l" => Paired(sh, u))
  BY DEF IsChar, Paired
<1>8. Paired(sh, u) => Paired(sh, z) /\ ~Parted(sh, z)
  BY <1>1, <1>4 DEF Paired, Parted
<1>9. IsChar(sh, z, q)
  <2>1. \/ IsChar(sh, z, q) \/ Parted(sh, z) \/ (z[1] \notin {"a", "z"} /\ ~Paired(sh, z))
    BY <1>a, <1>4, <1>6, PlainIs
  <2>2. QED  BY <1>4, <1>7, <1>8, <2>1 DEF Parted
<1>10. q.is = "char" /\ q.char = r.char /\ q.len = n /\ q.sh = r.sh
  <2>1. CASE u[1] = "a"
    BY <1>1, <1>4, <1>9, <2>1 DEF IsChar, Paired
  <2>2. CASE u[1] = "z"
    BY <1>1, <1>4, <1>9, <2>2 DEF IsChar, Paired
  <2>3. CASE u[1] = "l"
    BY <1>1, <1>4, <1>9, <2>3 DEF IsChar, Paired
  <2>4. QED  BY <1>7, <2>1, <2>2, <2>3
<1>11. Head(z) \notin Code!Shifts
  BY <1>4, <1>7 DEF Code!Shifts
<1>12. PICK p : p = Piece(sh, z)
  OBVIOUS
<1>13. p = [text |-> <<r.char>>, took |-> 1, len |-> n, sh |-> r.sh]
  BY ONLY <1>6, <1>10, <1>11, <1>12 DEF Piece
<1>14. PICK y : y = Code!Says(r.sh, v)
  OBVIOUS
<1>15. p.len = n /\ p.sh = r.sh /\ p.text = <<r.char>> /\ p.took = 1
  BY ONLY <1>13
<1>16. Code!Says(sh, z) = Joined(p, Code!Says(p.sh, SubSeq(z, p.len + 1, Len(z))))
  BY <1>a, <1>4, <1>12, SaysPiece
<1>17. Code!Says(sh, z) = Joined(p, y)
  BY ONLY <1>5, <1>14, <1>15, <1>16
<1>18. Joined(p, y) = Added(<<r.char>>, y)
  <2>1. Len(<<r.char>>) = 1
    OBVIOUS
  <2>2. QED  BY ONLY <1>15, <2>1 DEF Joined, Added
<1>19. QED  BY ONLY <1>3, <1>14, <1>17, <1>18

AllTurns(u) == \A i \in 1..Len(u) : u[i] \in Code!Shifts

LEMMA FrontsTurns ==
  \A u \in Seq(CUnits) : u # <<>> /\ AllTurns(u) =>
      \A sh \in BOOLEAN : Fronts(sh, u, u[Len(u)] = "o", <<>>)
<1> DEFINE TurnsThere(u) == u # <<>> /\ AllTurns(u) =>
                          \A sh \in BOOLEAN : Fronts(sh, u, u[Len(u)] = "o", <<>>)
<1>1. PICK D : D = Seq(CUnits)
  OBVIOUS
<1>2. PICK S : S = {u \in D : TurnsThere(u)}
  OBVIOUS
<1>3. PICK m : m = [u \in D |-> Len(u)]
  OBVIOUS
<1>4. m \in [D -> Nat]
  BY <1>1, <1>3
<1>5. ASSUME NEW u \in Seq(CUnits), \A z \in Seq(CUnits) : Len(z) < Len(u) => TurnsThere(z) PROVE TurnsThere(u)
  <2>1. SUFFICES ASSUME u # <<>>, AllTurns(u), NEW sh \in BOOLEAN
                 PROVE  Fronts(sh, u, u[Len(u)] = "o", <<>>)
    OBVIOUS
  <2>2. PICK n \in Nat : n = Len(u) /\ n # 0
    BY <2>1
  <2>3. CASE n = 1
    <3>1. u[1] \in Code!Shifts
      BY <2>1, <2>2, <2>3 DEF AllTurns
    <3>2. QED  BY <2>2, <2>3, <3>1, FrontsTurn
  <2>4. CASE n # 1
    <3>1. PICK a : a = SubSeq(u, 1, 1)
      OBVIOUS
    <3>2. a \in Seq(CUnits) /\ Len(a) = 1 /\ a[1] = u[1]
      <4>1. /\ SubSeq(u, 1, 1) \in Seq(CUnits) /\ Len(SubSeq(u, 1, 1)) = 1
            /\ \A i \in 1..1 : SubSeq(u, 1, 1)[i] = u[i]
        BY ONLY <2>2, u \in Seq(CUnits), PrefixElements
      <4>2. QED  BY ONLY <3>1, <4>1
    <3>3. PICK b : b = SubSeq(u, 1 + 1, Len(u))
      OBVIOUS
    <3>4. b \in Seq(CUnits) /\ Len(b) = n - 1 /\ \A i \in 1..(n - 1) : b[i] = u[1 + i]
      <4>1. /\ SubSeq(u, 1 + 1, Len(u)) \in Seq(CUnits) /\ Len(SubSeq(u, 1 + 1, Len(u))) = Len(u) - 1
            /\ \A i \in 1..(Len(u) - 1) : SubSeq(u, 1 + 1, Len(u))[i] = u[1 + i]
        BY ONLY <2>2, u \in Seq(CUnits), SuffixElements
      <4>2. QED  BY ONLY <2>2, <3>3, <4>1
    <3>5. a \o b = u
      <4>1. SubSeq(u, 1, 1) \o SubSeq(u, 1 + 1, n) = SubSeq(u, 1, n)
        BY ONLY <2>2, u \in Seq(CUnits), PrefixAndPiece
      <4>2. SubSeq(u, 1, n) = u
        BY ONLY <2>2, u \in Seq(CUnits), WholePiece
      <4>3. QED  BY ONLY <2>2, <3>1, <3>3, <4>1, <4>2
    <3>6. b # <<>> /\ b[Len(b)] = u[Len(u)] /\ Len(b) < Len(u)
      BY ONLY <2>2, <2>4, <3>4
    <3>7. AllTurns(b)
      <4>1. \A i \in 1..(n - 1) : 1 + i \in 1..n
        BY ONLY n \in Nat
      <4>2. QED  BY ONLY <2>1, <2>2, <3>4, <4>1 DEF AllTurns
    <3>8. Fronts(u[1] = "o", b, u[Len(u)] = "o", <<>>)
      <4>1. TurnsThere(b)
        BY ONLY <1>5, <3>4, <3>6
      <4>2. (u[1] = "o") \in BOOLEAN
        OBVIOUS
      <4>3. QED  BY ONLY <3>6, <3>7, <4>1, <4>2
    <3>9. Fronts(sh, a, u[1] = "o", <<>>)
      <4>1. u[1] \in Code!Shifts
        BY ONLY <2>1, <2>2 DEF AllTurns
      <4>2. QED  BY <3>2, <4>1, FrontsTurn
    <3>10. Fronts(sh, a \o b, u[Len(u)] = "o", <<>> \o <<>>)
      <4>1. PICK x \in BOOLEAN, y \in BOOLEAN : x = (u[1] = "o") /\ y = (u[Len(u)] = "o")
        OBVIOUS
      <4>2. Fronts(sh, a, x, <<>>) /\ Fronts(x, b, y, <<>>)
        BY ONLY <3>8, <3>9, <4>1
      <4>3. <<>> \in Seq(Said)
        OBVIOUS
      <4>4. Fronts(sh, a \o b, y, <<>> \o <<>>)
        BY ONLY <3>2, <3>4, <4>2, <4>3, sh \in BOOLEAN, x \in BOOLEAN, y \in BOOLEAN, FrontsThen
      <4>5. QED  BY ONLY <4>1, <4>4
    <3>11. <<>> \o <<>> = <<>>
      OBVIOUS
    <3>12. QED  BY ONLY <3>5, <3>10, <3>11
  <2>5. QED  BY <2>3, <2>4
<1> HIDE DEF TurnsThere
<1>6. \A u \in D : (\A z \in D : m[z] < m[u] => z \in S) => u \in S
  <2>1. SUFFICES ASSUME NEW u \in D, \A z \in D : m[z] < m[u] => z \in S PROVE u \in S
    OBVIOUS
  <2>2. \A z \in D : m[z] = Len(z)
    BY ONLY <1>3
  <2>3. \A z \in D : Len(z) < Len(u) => TurnsThere(z)
    BY ONLY <1>2, <2>1, <2>2, u \in D
  <2>4. TurnsThere(u)
    BY ONLY <1>1, <1>5, <2>3, u \in D
  <2>5. QED  BY ONLY <1>2, <2>4, u \in D
<1>7. \A u \in D : u \in S
  BY ONLY <1>4, <1>6, ByMeasure
<1>8. \A u \in Seq(CUnits) : TurnsThere(u)
  BY ONLY <1>1, <1>2, <1>7
<1>9. QED  BY ONLY <1>8 DEF TurnsThere

(* The first unit that is no turn, and the first zero. *)
LEMMA SelectedIs ==
  ASSUME NEW I \in SUBSET Nat, NEW n, n = IF I # {} THEN Code!Min(I) ELSE 0
  PROVE  \/ I = {} /\ n = 0
         \/ n \in I /\ \A i \in I : n <= i
<1>1. CASE I = {}
  BY <1>1
<1>2. CASE I # {}
  <2>1. n = CHOOSE x \in I : \A y \in I : x <= y
    BY <1>2 DEF Code!Min
  <2>2. \E x \in I : \A y \in I : x <= y
    BY ONLY <1>2, I \in SUBSET Nat, LeastElement
  <2>3. n \in I /\ \A y \in I : n <= y
    BY ONLY <2>1, <2>2
  <2>4. QED  BY ONLY <2>3
<1>3. QED  BY <1>1, <1>2

StateAt(sh, u, k) == IF k = 0 THEN sh ELSE u[k] = "o"
TurnsTo(u, k) == \A i \in 1..k : u[i] \in Code!Shifts
RestOf(u, k) == SubSeq(u, k + 1, Len(u))

LEMMA FirstIs ==
  ASSUME NEW u \in Seq(CUnits), NEW n, n = Code!SelectInSeq(u, LAMBDA x : x \notin Code!Shifts)
  PROVE  \/ n = 0 /\ AllTurns(u)
         \/ n \in 1..Len(u) /\ TurnsTo(u, n - 1) /\ u[n] \notin Code!Shifts
<1>1. PICK I : I = {i \in 1..Len(u) : u[i] \notin Code!Shifts}
  OBVIOUS
<1>2. n = IF I # {} THEN Code!Min(I) ELSE 0
  BY <1>1 DEF Code!SelectInSeq
<1>3. I \in SUBSET Nat
  BY ONLY <1>1
<1>4. (I = {} /\ n = 0) \/ (n \in I /\ \A i \in I : n <= i)
  BY ONLY <1>2, <1>3, SelectedIs
<1>5. CASE I = {} /\ n = 0
  BY ONLY <1>1, <1>5 DEF AllTurns
<1>6. CASE n \in I /\ \A i \in I : n <= i
  <2>1. n \in 1..Len(u) /\ u[n] \notin Code!Shifts
    BY ONLY <1>1, <1>6
  <2>2. \A i \in 1..(n - 1) : i \in 1..Len(u) /\ ~(n <= i)
    BY ONLY <2>1, u \in Seq(CUnits)
  <2>3. TurnsTo(u, n - 1)
    BY ONLY <1>1, <1>6, <2>2 DEF TurnsTo
  <2>4. QED  BY ONLY <2>1, <2>3
<1>7. QED  BY ONLY <1>4, <1>5, <1>6

LEMMA ZeroIs ==
  ASSUME NEW u \in Seq(CUnits), NEW n, n = Code!SelectInSeq(u, LAMBDA x : x = "z")
  PROVE  n = 0 \/ (n \in 1..Len(u) /\ u[n] = "z")
<1>1. PICK I : I = {i \in 1..Len(u) : u[i] = "z"}
  OBVIOUS
<1>2. n = IF I # {} THEN Code!Min(I) ELSE 0
  BY <1>1 DEF Code!SelectInSeq
<1>3. I \in SUBSET Nat
  BY ONLY <1>1
<1>4. (I = {} /\ n = 0) \/ (n \in I /\ \A i \in I : n <= i)
  BY ONLY <1>2, <1>3, SelectedIs
<1>5. QED  BY ONLY <1>1, <1>4

LEMMA MbReadIs ==
  ASSUME NEW sh \in BOOLEAN, NEW u \in Seq(CUnits), u # <<>>, NEW r, r = Code!MbRead(sh, u)
  PROVE  \/ AllTurns(u) /\ r = [is |-> "turn", len |-> Len(u), sh |-> u[Len(u)] = "o"]
         \/ \E k \in 0..(Len(u) - 1) :
               /\ TurnsTo(u, k) /\ u[k + 1] \notin Code!Shifts
               /\ r = [Code!Plain(StateAt(sh, u, k), RestOf(u, k)) EXCEPT !.len = k + @]
<1>1. PICK l \in Nat : l = Len(u) /\ l # 0
  OBVIOUS
<1>2. PICK first : first = Code!SelectInSeq(u, LAMBDA x : x \notin Code!Shifts)
  OBVIOUS
<1>3. \/ first = 0 /\ AllTurns(u)
      \/ first \in 1..l /\ TurnsTo(u, first - 1) /\ u[first] \notin Code!Shifts
  BY ONLY <1>1, <1>2, u \in Seq(CUnits), FirstIs
<1>4. PICK k : k = IF first = 0 THEN l ELSE first - 1
  OBVIOUS
<1>5. r = IF first = 0 THEN [is |-> "turn", len |-> k, sh |-> StateAt(sh, u, k)]
          ELSE [Code!Plain(StateAt(sh, u, k), RestOf(u, k)) EXCEPT !.len = k + @]
  BY ONLY <1>1, <1>2, <1>4, r = Code!MbRead(sh, u) DEF Code!MbRead, StateAt, RestOf
<1>6. CASE first = 0 /\ AllTurns(u)
  <2>1. k = l
    BY ONLY <1>4, <1>6
  <2>2. StateAt(sh, u, k) = (u[l] = "o")
    BY ONLY <1>1, <2>1 DEF StateAt
  <2>3. QED  BY ONLY <1>1, <1>5, <1>6, <2>1, <2>2
<1>7. CASE first \in 1..l /\ TurnsTo(u, first - 1) /\ u[first] \notin Code!Shifts
  <2>1. first # 0 /\ k = first - 1 /\ k \in 0..(l - 1) /\ k + 1 = first
    BY ONLY <1>4, <1>7, l \in Nat
  <2>2. r = [Code!Plain(StateAt(sh, u, k), RestOf(u, k)) EXCEPT !.len = k + @]
    BY ONLY <1>5, <2>1
  <2>3. QED  BY ONLY <1>1, <1>7, <2>1, <2>2
<1>8. QED  BY ONLY <1>3, <1>6, <1>7

(* What ReadOne finds: turns only, or a character behind some turns, or a  *)
(* unit that is none and no turn.                                          *)
ReadTurn(u, r) == r.is = "turn" /\ r.len \in 1..Len(u) /\ TurnsTo(u, r.len) /\ r.sh = (u[r.len] = "o")
ReadCharAt(sh, u, r, k) ==
    \E q : /\ TurnsTo(u, k) /\ IsChar(StateAt(sh, u, k), RestOf(u, k), q)
           /\ r.is = "char" /\ r.char = q.char /\ r.len = k + q.len /\ r.sh = q.sh
ReadChar(sh, u, r) == \E k \in 0..(Len(u) - 1) : ReadCharAt(sh, u, r, k)
ReadNone(sh, u, r) ==
    /\ r.is \in {"bad", "part"} /\ u[1] \notin Code!Shifts /\ u[1] \notin {"a", "z"}
    /\ ~Paired(sh, u) /\ (r.is = "part" <=> Parted(sh, u))

LEMMA IsCharLonger ==
  ASSUME NEW s \in BOOLEAN, NEW u \in Seq(CUnits), NEW e \in Nat, e <= Len(u), NEW k \in 0..(e - 1),
         NEW q, IsChar(s, RestOf(SubSeq(u, 1, e), k), q)
  PROVE  IsChar(s, RestOf(u, k), q)
<1>1. PICK l \in Nat : l = Len(u)
  OBVIOUS
<1>2. PICK w : w = SubSeq(u, 1, e)
  OBVIOUS
<1>3. w \in Seq(CUnits) /\ Len(w) = e /\ \A i \in 1..e : w[i] = u[i]
  BY ONLY <1>2, u \in Seq(CUnits), e \in Nat, e <= Len(u), PrefixElements
<1>4. k \in Nat /\ k <= e /\ k <= l /\ k + 1 <= e
  BY ONLY <1>1, e <= Len(u), e \in Nat, k \in 0..(e - 1)
<1>5. PICK x : x = RestOf(w, k)
  OBVIOUS
<1>6. x \in Seq(CUnits) /\ Len(x) = e - k /\ \A i \in 1..(e - k) : x[i] = w[k + i]
  <2>1. /\ SubSeq(w, k + 1, Len(w)) \in Seq(CUnits) /\ Len(SubSeq(w, k + 1, Len(w))) = Len(w) - k
        /\ \A i \in 1..(Len(w) - k) : SubSeq(w, k + 1, Len(w))[i] = w[k + i]
    BY ONLY <1>3, <1>4, SuffixElements
  <2>2. QED  BY ONLY <1>3, <1>5, <2>1 DEF RestOf
<1>7. PICK y : y = RestOf(u, k)
  OBVIOUS
<1>8. y \in Seq(CUnits) /\ Len(y) = l - k /\ \A i \in 1..(l - k) : y[i] = u[k + i]
  <2>1. /\ SubSeq(u, k + 1, Len(u)) \in Seq(CUnits) /\ Len(SubSeq(u, k + 1, Len(u))) = Len(u) - k
        /\ \A i \in 1..(Len(u) - k) : SubSeq(u, k + 1, Len(u))[i] = u[k + i]
    BY ONLY <1>1, <1>4, u \in Seq(CUnits), SuffixElements
  <2>2. QED  BY ONLY <1>1, <1>7, <2>1 DEF RestOf
<1>9. x[1] = y[1]
  BY ONLY <1>1, <1>3, <1>4, <1>6, <1>8, e \in Nat, e <= Len(u)
<1>10. Len(x) > 1 => Len(y) > 1 /\ x[2] = y[2]
  BY ONLY <1>1, <1>3, <1>4, <1>6, <1>8, e \in Nat, e <= Len(u)
<1>11. Paired(s, x) => Paired(s, y)
  BY ONLY <1>9, <1>10 DEF Paired
<1>12. IsChar(s, x, q)
  BY ONLY <1>2, <1>5, IsChar(s, RestOf(SubSeq(u, 1, e), k), q)
<1>13. IsChar(s, y, q)
  BY ONLY <1>9, <1>11, <1>12 DEF IsChar
<1>14. QED  BY ONLY <1>7, <1>13

LEMMA ReadOneIs ==
  ASSUME NEW sh \in BOOLEAN, NEW u \in Seq(CUnits), u # <<>>, NEW r, r = Code!ReadOne(sh, u)
  PROVE  ReadTurn(u, r) \/ ReadChar(sh, u, r) \/ ReadNone(sh, u, r)
<1>1. PICK l \in Nat : l = Len(u) /\ l # 0
  OBVIOUS
<1>2. CASE u[1] = "z"
  <2>1. r = Code!Plain(sh, u)
    BY ONLY <1>2, r = Code!ReadOne(sh, u) DEF Code!ReadOne
  <2>2. IsChar(sh, u, r)
    <3>1. ~Parted(sh, u)
      BY <1>2 DEF Parted
    <3>2. QED  BY <1>2, <2>1, <3>1, PlainIs
  <2>3. StateAt(sh, u, 0) = sh /\ RestOf(u, 0) = u
    <3>1. SubSeq(u, 1, l) = u
      BY ONLY <1>1, u \in Seq(CUnits), WholePiece
    <3>2. QED  BY ONLY <1>1, <3>1 DEF StateAt, RestOf
  <2>4. TurnsTo(u, 0) /\ 0 \in 0..(l - 1) /\ r.len = 0 + r.len /\ r.is = "char"
    <3>1. r.len \in Nat /\ r.is = "char"
      BY ONLY <2>2 DEF IsChar
    <3>2. QED  BY ONLY <1>1, <3>1 DEF TurnsTo
  <2>5. ReadCharAt(sh, u, r, 0)
    BY ONLY <2>2, <2>3, <2>4 DEF ReadCharAt
  <2>6. QED  BY ONLY <1>1, <2>4, <2>5 DEF ReadChar
<1>3. CASE u[1] # "z"
  <2>1. PICK zero : zero = IF kind = "shift" THEN Code!SelectInSeq(u, LAMBDA x : x = "z") ELSE 0
    OBVIOUS
  <2>2. zero = 0 \/ (zero \in 2..l /\ u[zero] = "z")
    <3>1. CASE kind = "shift"
      <4>1. zero = 0 \/ (zero \in 1..l /\ u[zero] = "z")
        BY ONLY <1>1, <2>1, <3>1, u \in Seq(CUnits), ZeroIs
      <4>2. QED  BY ONLY <1>1, <1>3, <4>1
    <3>2. CASE kind # "shift"
      BY ONLY <2>1, <3>2
    <3>3. QED  BY ONLY <3>1, <3>2
  <2>3. PICK e \in 1..l : /\ zero = 0 => e = l
                          /\ zero # 0 => e = zero - 1 /\ e < l /\ u[e + 1] = "z"
    <3>1. CASE zero = 0
      BY ONLY <1>1, <3>1
    <3>2. CASE zero \in 2..l /\ u[zero] = "z"
      <4>1. zero - 1 \in 1..l /\ zero - 1 < l /\ (zero - 1) + 1 = zero
        BY ONLY <1>1, <3>2
      <4>2. QED  BY ONLY <3>2, <4>1
    <3>3. QED  BY ONLY <2>2, <3>1, <3>2
  <2>4. PICK w : w = SubSeq(u, 1, e)
    OBVIOUS
  <2>5. w \in Seq(CUnits) /\ Len(w) = e /\ \A i \in 1..e : w[i] = u[i]
    <3>1. e \in Nat /\ e <= Len(u)
      BY ONLY <1>1, e \in 1..l
    <3>2. QED  BY ONLY <2>4, <3>1, u \in Seq(CUnits), PrefixElements
  <2>6. w # <<>> /\ w[1] = u[1]
    BY ONLY <1>1, <2>5, e \in 1..l
  <2>7. w = IF zero = 0 THEN u ELSE SubSeq(u, 1, zero - 1)
    <3>1. SubSeq(u, 1, l) = u
      BY ONLY <1>1, u \in Seq(CUnits), WholePiece
    <3>2. QED  BY ONLY <2>3, <2>4, <3>1
  <2>8. PICK m : m = Code!MbRead(sh, w)
    OBVIOUS
  <2>9. PICK t : t = Code!TakeOff(sh, w, m)
    OBVIOUS
  <2>10. r = IF t.is = "part" /\ zero # 0 THEN [t EXCEPT !.is = "bad"] ELSE t
    BY ONLY <1>3, <2>1, <2>7, <2>8, <2>9, r = Code!ReadOne(sh, u) DEF Code!ReadOne
  <2>11. t = IF m.is \in {"bad", "part"} /\ e > 1 /\ u[1] \in Code!Shifts
             THEN [is |-> "turn", len |-> 1, sh |-> u[1] = "o"] ELSE m
    BY ONLY <2>5, <2>6, <2>9 DEF Code!TakeOff
  <2>12. CASE AllTurns(w) /\ m = [is |-> "turn", len |-> e, sh |-> w[e] = "o"]
    <3>1. r = m
      BY ONLY <2>10, <2>11, <2>12
    <3>2. TurnsTo(u, e) /\ w[e] = u[e]
      BY ONLY <1>1, <2>5, <2>12, e \in 1..l DEF AllTurns, TurnsTo
    <3>3. r.is = "turn" /\ r.len = e /\ r.sh = (u[e] = "o")
      BY ONLY <2>12, <3>1, <3>2
    <3>4. QED  BY ONLY <1>1, <3>2, <3>3, e \in 1..l DEF ReadTurn
  <2>13. CASE \E k \in 0..(e - 1) :
                 /\ TurnsTo(w, k) /\ w[k + 1] \notin Code!Shifts
                 /\ m = [Code!Plain(StateAt(sh, w, k), RestOf(w, k)) EXCEPT !.len = k + @]
    <3>1. PICK k \in 0..(e - 1) :
                 /\ TurnsTo(w, k) /\ w[k + 1] \notin Code!Shifts
                 /\ m = [Code!Plain(StateAt(sh, w, k), RestOf(w, k)) EXCEPT !.len = k + @]
      BY ONLY <2>13
    <3>2. k \in Nat /\ k <= e /\ k + 1 \in 1..e /\ k \in 0..(l - 1) /\ e \in Nat /\ e <= Len(u)
      BY ONLY <1>1, e \in 1..l, k \in 0..(e - 1)
    <3>3. PICK s \in BOOLEAN : s = StateAt(sh, w, k)
      BY DEF StateAt
    <3>4. s = StateAt(sh, u, k) /\ TurnsTo(u, k) /\ u[k + 1] \notin Code!Shifts
      <4>1. k # 0 => k \in 1..e
        BY ONLY <3>2
      <4>2. \A i \in 1..k : i \in 1..e
        BY ONLY <3>2
      <4>3. QED  BY ONLY <2>5, <3>1, <3>2, <3>3, <4>1, <4>2 DEF StateAt, TurnsTo
    <3>5. PICK x : x = RestOf(w, k)
      OBVIOUS
    <3>6. x \in Seq(CUnits) /\ Len(x) = e - k /\ \A i \in 1..(e - k) : x[i] = w[k + i]
      <4>1. /\ SubSeq(w, k + 1, Len(w)) \in Seq(CUnits) /\ Len(SubSeq(w, k + 1, Len(w))) = Len(w) - k
            /\ \A i \in 1..(Len(w) - k) : SubSeq(w, k + 1, Len(w))[i] = w[k + i]
        <5>1. k \in Nat /\ k <= Len(w) /\ w \in Seq(CUnits)
          BY ONLY <2>5, <3>2
        <5>2. QED  BY ONLY <5>1, SuffixElements
      <4>2. QED  BY ONLY <2>5, <3>5, <4>1 DEF RestOf
    <3>7. x # <<>>
      BY ONLY <3>2, <3>6
    <3>8. PICK q : q = Code!Plain(s, x)
      OBVIOUS
    <3>9. m = [q EXCEPT !.len = k + @]
      BY ONLY <3>1, <3>3, <3>5, <3>8
    <3>10. \/ IsChar(s, x, q)
           \/ Parted(s, x) /\ q = [is |-> "part", len |-> 1, sh |-> s]
           \/ /\ x[1] \notin {"a", "z"} /\ ~Parted(s, x) /\ ~Paired(s, x)
              /\ q = [is |-> "bad", len |-> 1, sh |-> s]
      BY ONLY <3>6, <3>7, <3>8, s \in BOOLEAN, PlainIs
    <3>11. CASE IsChar(s, x, q)
      <4>1. m.is = "char" /\ m.len = k + q.len /\ m.char = q.char /\ m.sh = q.sh
        BY ONLY <3>9, <3>11 DEF IsChar
      <4>2. r = m
        BY ONLY <2>10, <2>11, <4>1
      <4>3. IsChar(s, RestOf(u, k), q)
        BY ONLY <2>4, <3>2, <3>5, <3>11, s \in BOOLEAN, u \in Seq(CUnits), k \in 0..(e - 1), IsCharLonger
      <4>4. ReadCharAt(sh, u, r, k)
        BY ONLY <3>4, <4>1, <4>2, <4>3 DEF ReadCharAt
      <4>5. QED  BY ONLY <1>1, <3>2, <4>4 DEF ReadChar
    <3>12. CASE q.is \in {"bad", "part"} /\ k # 0 /\ (m.is = q.is)
      <4>1. e > 1 /\ u[1] \in Code!Shifts
        BY ONLY <3>2, <3>4, <3>12 DEF TurnsTo
      <4>2. r = [is |-> "turn", len |-> 1, sh |-> u[1] = "o"]
        BY ONLY <2>10, <2>11, <3>12, <4>1
      <4>3. r.is = "turn" /\ r.len = 1 /\ r.sh = (u[1] = "o")
        BY ONLY <4>2
      <4>4. 1 \in 1..l /\ TurnsTo(u, 1)
        BY ONLY <1>1, <4>1 DEF TurnsTo
      <4>5. QED  BY ONLY <1>1, <4>3, <4>4 DEF ReadTurn
    <3>13. CASE k = 0
      <4>1. x = w /\ s = sh
        <5>1. SubSeq(w, 1, e) = w
          BY ONLY <2>5, WholePiece
        <5>2. QED  BY ONLY <2>5, <3>3, <3>5, <3>13, <5>1 DEF RestOf, StateAt
      <4>2. CASE q.is \in {"bad", "part"} /\ m.is = q.is /\ ~Paired(sh, w) /\ w[1] \notin {"a", "z"}
                 /\ (q.is = "part" <=> Parted(sh, w))
        <5>1. u[1] \notin Code!Shifts
          BY ONLY <3>1, <3>13, <2>6
        <5>2. t = m
          BY ONLY <2>11, <5>1
        <5>3. r.is = IF m.is = "part" /\ zero # 0 THEN "bad" ELSE m.is
          <6>1. CASE m.is = "part" /\ zero # 0
            <7>1. m = [is |-> "part", len |-> k + 1, sh |-> s]
              <8>1. q = [is |-> "part", len |-> 1, sh |-> s]
                <9>1. q.is = "part"
                  BY ONLY <4>2, <6>1
                <9>2. ~IsChar(s, x, q) /\ q # [is |-> "bad", len |-> 1, sh |-> s]
                  BY ONLY <9>1 DEF IsChar
                <9>3. QED  BY ONLY <3>10, <9>2
              <8>2. QED  BY ONLY <3>9, <8>1
            <7>2. QED  BY ONLY <2>10, <5>2, <6>1, <7>1
          <6>2. CASE ~(m.is = "part" /\ zero # 0)
            BY ONLY <2>10, <5>2, <6>2
          <6>3. QED  BY ONLY <6>1, <6>2
        <5>4. ~Paired(sh, u)
          <6>1. CASE zero = 0
            BY ONLY <2>7, <4>2, <6>1
          <6>2. CASE zero # 0
            <7>1. Len(w) = e /\ e < l /\ u[e + 1] = "z" /\ w[1] = u[1] /\ (e > 1 => w[2] = u[2]) /\ e \in 1..l
              BY ONLY <2>3, <2>5, <6>2, e \in 1..l
            <7>2. e = 1 \/ e > 1
              BY ONLY <7>1
            <7>3. QED  BY ONLY <4>2, <7>1, <7>2 DEF Paired
          <6>3. QED  BY ONLY <6>1, <6>2
        <5>5. r.is = "part" <=> Parted(sh, u)
          <6>1. CASE zero = 0
            BY ONLY <2>7, <4>2, <5>3, <6>1
          <6>2. CASE zero # 0
            <7>1. e < l /\ e \in 1..l
              BY ONLY <2>3, <6>2
            <7>2. ~Parted(sh, u)
              BY ONLY <1>1, <7>1 DEF Parted
            <7>3. QED  BY ONLY <4>2, <5>3, <6>2, <7>2
          <6>3. QED  BY ONLY <6>1, <6>2
        <5>6. QED  BY ONLY <2>6, <4>2, <5>1, <5>3, <5>4, <5>5 DEF ReadNone
      <4>3. CASE IsChar(s, x, q)
        BY <3>11, <4>3
      <4>4. CASE \/ Parted(s, x) /\ q = [is |-> "part", len |-> 1, sh |-> s]
                 \/ /\ x[1] \notin {"a", "z"} /\ ~Parted(s, x) /\ ~Paired(s, x)
                    /\ q = [is |-> "bad", len |-> 1, sh |-> s]
        <5>1. q.is \in {"bad", "part"} /\ m.is = q.is
          BY ONLY <3>9, <4>4
        <5>2. (q.is = "part" <=> Parted(sh, w)) /\ w[1] \notin {"a", "z"} /\ ~Paired(sh, w)
          BY ONLY <4>1, <4>4 DEF Parted, Paired
        <5>3. QED  BY ONLY <4>2, <5>1, <5>2
      <4>5. QED  BY ONLY <3>10, <4>3, <4>4
    <3>14. k = 0 \/ IsChar(s, x, q) \/ (q.is \in {"bad", "part"} /\ k # 0 /\ m.is = q.is)
      <4>1. CASE q = [is |-> "part", len |-> 1, sh |-> s] \/ q = [is |-> "bad", len |-> 1, sh |-> s]
        BY ONLY <3>9, <4>1
      <4>2. QED  BY ONLY <3>10, <4>1
    <3>15. QED  BY ONLY <3>11, <3>12, <3>13, <3>14
  <2>14. QED
    <3>1. \/ AllTurns(w) /\ m = [is |-> "turn", len |-> Len(w), sh |-> w[Len(w)] = "o"]
          \/ \E k \in 0..(Len(w) - 1) :
                /\ TurnsTo(w, k) /\ w[k + 1] \notin Code!Shifts
                /\ m = [Code!Plain(StateAt(sh, w, k), RestOf(w, k)) EXCEPT !.len = k + @]
      BY ONLY <2>5, <2>6, <2>8, sh \in BOOLEAN, MbReadIs, SMTT(30)
    <3>2. QED  BY ONLY <2>5, <2>12, <2>13, <3>1
<1>4. QED  BY <1>2, <1>3

(* PieceElements for units, of the whole file as a rule. *)
LEMMA UnitsPiece ==
  ASSUME NEW q \in Seq(CUnits), NEW a \in Nat, NEW b \in Nat, a <= b, b <= Len(q)
  PROVE  SubSeq(q, a + 1, b) \in Seq(CUnits) /\ Len(SubSeq(q, a + 1, b)) = b - a
  BY PieceElements

LEMMA CharsSaid == \A t \in Seq(CChars) : t \in Seq(Said)
<1>1. CChars \subseteq Said
  BY DEF Said
<1>2. QED  BY ONLY <1>1

(* A character or turns that ReadOne finds are a piece of what units say.  *)
FrontRead(sh, u, r) ==
    /\ r.len \in 1..Len(u) /\ r.sh \in BOOLEAN
    /\ Code!Took(r) \in Seq(CChars) /\ Len(Code!Took(r)) \in {0, 1}
    /\ Fronts(sh, SubSeq(u, 1, r.len), r.sh, Code!Took(r))
    /\ kind = "fixed" => Len(Code!Took(r)) = r.len

LEMMA FrontTurn ==
  ASSUME NEW sh \in BOOLEAN, NEW u \in Seq(CUnits), NEW r, ReadTurn(u, r)
  PROVE  FrontRead(sh, u, r)
<1>1. PICK n \in 1..Len(u) : n = r.len
  BY DEF ReadTurn
<1>2. n \in Nat /\ n # 0 /\ n <= Len(u)
  BY ONLY n \in 1..Len(u), u \in Seq(CUnits)
<1>3. r.is = "turn" /\ TurnsTo(u, n) /\ r.sh = (u[n] = "o")
  BY ONLY <1>1, ReadTurn(u, r) DEF ReadTurn
<1>4. PICK w : w = SubSeq(u, 1, n)
  OBVIOUS
<1>5. w \in Seq(CUnits) /\ Len(w) = n /\ \A i \in 1..n : w[i] = u[i]
  BY ONLY <1>2, <1>4, u \in Seq(CUnits), PrefixElements
<1>6. w # <<>> /\ AllTurns(w) /\ w[Len(w)] = u[n]
  BY ONLY <1>2, <1>3, <1>5 DEF AllTurns, TurnsTo
<1>7. Fronts(sh, w, u[n] = "o", <<>>)
  <2>1. Fronts(sh, w, w[Len(w)] = "o", <<>>)
    BY ONLY <1>5, <1>6, sh \in BOOLEAN, FrontsTurns
  <2>2. QED  BY ONLY <1>6, <2>1
<1>8. Code!Took(r) = <<>>
  BY ONLY <1>3 DEF Code!Took
<1>9. kind # "fixed"
  BY ONLY <1>2, <1>3 DEF TurnsTo, Code!Shifts
<1>10. <<>> \in Seq(CChars) /\ Len(<<>>) = 0
  OBVIOUS
<1>11. r.sh \in BOOLEAN
  BY ONLY <1>3
<1>12. QED  BY ONLY <1>1, <1>3, <1>4, <1>7, <1>8, <1>9, <1>10, <1>11, n \in 1..Len(u) DEF FrontRead

LEMMA FrontChar ==
  ASSUME NEW sh \in BOOLEAN, NEW u \in Seq(CUnits), NEW r, ReadChar(sh, u, r)
  PROVE  FrontRead(sh, u, r)
<1>1. PICK k \in 0..(Len(u) - 1) : ReadCharAt(sh, u, r, k)
  BY DEF ReadChar
<1>2. PICK q : /\ TurnsTo(u, k) /\ IsChar(StateAt(sh, u, k), RestOf(u, k), q)
               /\ r.is = "char" /\ r.char = q.char /\ r.len = k + q.len /\ r.sh = q.sh
  BY <1>1 DEF ReadCharAt
<1>3. k \in Nat /\ k <= Len(u) /\ k + 1 <= Len(u)
  BY ONLY k \in 0..(Len(u) - 1), u \in Seq(CUnits)
<1>4. PICK s \in BOOLEAN : s = StateAt(sh, u, k)
  BY DEF StateAt
<1>5. PICK x : x = RestOf(u, k)
  OBVIOUS
<1>6. x \in Seq(CUnits) /\ Len(x) = Len(u) - k /\ x # <<>>
  <2>1. SubSeq(u, k + 1, Len(u)) \in Seq(CUnits) /\ Len(SubSeq(u, k + 1, Len(u))) = Len(u) - k
    BY ONLY <1>3, u \in Seq(CUnits), SuffixElements
  <2>2. Len(u) \in Nat
    OBVIOUS
  <2>3. x \in Seq(CUnits) /\ Len(x) = Len(u) - k
    BY ONLY <1>5, <2>1 DEF RestOf
  <2>4. Len(x) # 0
    BY ONLY <1>3, <2>2, <2>3
  <2>5. QED  BY ONLY <2>3, <2>4
<1>7. IsChar(s, x, q)
  BY ONLY <1>2, <1>4, <1>5
<1>8. PICK n \in Nat : n = q.len /\ n # 0 /\ n <= Len(x) /\ (n = 1 \/ Pairs(s))
  <2>1. Len(x) \in Nat /\ Len(x) # 0
    BY ONLY <1>6
  <2>2. QED  BY ONLY <1>7, <2>1 DEF IsChar, Paired
<1>9. q.sh \in BOOLEAN /\ q.char \in CChars
  BY ONLY <1>7, s \in BOOLEAN DEF IsChar, CChars, Code!Chars
<1>10. PICK w : w = SubSeq(x, 1, n)
  OBVIOUS
<1>11. w \in Seq(CUnits)
  BY ONLY <1>6, <1>8, <1>10, PrefixElements
<1>12. Fronts(s, w, q.sh, <<q.char>>)
  BY ONLY <1>6, <1>7, <1>8, <1>10, s \in BOOLEAN, FrontsChar
<1>13. PICK v : v = SubSeq(u, 1, k)
  OBVIOUS
<1>14. v \in Seq(CUnits) /\ Len(v) = k /\ \A i \in 1..k : v[i] = u[i]
  BY ONLY <1>3, <1>13, u \in Seq(CUnits), PrefixElements
<1>15. Fronts(sh, v, s, <<>>)
  <2>1. CASE k = 0
    <3>1. s = sh /\ v = <<>>
      BY ONLY <1>4, <1>14, <2>1 DEF StateAt
    <3>2. QED  BY ONLY <3>1, sh \in BOOLEAN, FrontsNone
  <2>2. CASE k # 0
    <3>1. s = (u[k] = "o")
      BY ONLY <1>4, <2>2 DEF StateAt
    <3>2. v # <<>> /\ AllTurns(v) /\ v[Len(v)] = u[k]
      BY ONLY <1>2, <1>3, <1>14, <2>2 DEF AllTurns, TurnsTo
    <3>3. Fronts(sh, v, v[Len(v)] = "o", <<>>)
      BY ONLY <1>14, <3>2, sh \in BOOLEAN, FrontsTurns
    <3>4. QED  BY ONLY <3>1, <3>2, <3>3
  <2>3. QED  BY ONLY <2>1, <2>2
<1>16. v \o w = SubSeq(u, 1, k + n)
  <2>1. Len(u) \in Nat /\ n <= Len(u) - k
    BY ONLY <1>6, <1>8, u \in Seq(CUnits)
  <2>2. w = SubSeq(u, k + 1, k + n)
    <3>1. PICK b \in Nat : b = Len(u) /\ k <= b /\ n <= b - k
      BY ONLY <1>3, <2>1
    <3>2. SubSeq(SubSeq(u, k + 1, b), 1, n) = SubSeq(u, k + 1, k + n)
      BY ONLY <1>3, <3>1, n \in Nat, u \in Seq(CUnits), PrefixOfPiece
    <3>3. QED  BY ONLY <1>5, <1>10, <3>1, <3>2 DEF RestOf
  <2>3. k + n \in Nat /\ k <= k + n /\ k + n <= Len(u)
    BY ONLY <1>3, <2>1, n \in Nat
  <2>4. SubSeq(u, 1, k) \o SubSeq(u, k + 1, k + n) = SubSeq(u, 1, k + n)
    BY ONLY <1>3, <2>3, u \in Seq(CUnits), PrefixAndPiece
  <2>5. QED  BY ONLY <1>13, <2>2, <2>4
<1>17. Fronts(sh, v \o w, q.sh, <<q.char>>)
  <2>1. <<>> \in Seq(Said) /\ <<q.char>> \in Seq(Said)
    BY ONLY <1>9 DEF Said
  <2>2. Fronts(sh, v \o w, q.sh, <<>> \o <<q.char>>)
    BY ONLY <1>9, <1>11, <1>12, <1>14, <1>15, <2>1, sh \in BOOLEAN, s \in BOOLEAN, FrontsThen
  <2>3. <<>> \o <<q.char>> = <<q.char>>
    OBVIOUS
  <2>4. QED  BY ONLY <2>2, <2>3
<1>18. Code!Took(r) = <<q.char>>
  BY ONLY <1>2 DEF Code!Took
<1>19. <<q.char>> \in Seq(CChars) /\ Len(<<q.char>>) = 1
  BY ONLY <1>9
<1>20. k + n \in 1..Len(u) /\ r.len = k + n
  BY ONLY <1>2, <1>3, <1>6, <1>8, u \in Seq(CUnits)
<1>21. kind = "fixed" => k + n = 1
  <2>1. kind = "fixed" => ~Pairs(s)
    BY ONLY TRUE DEF Pairs
  <2>2. kind = "fixed" => k = 0
    BY ONLY <1>2, <1>3 DEF TurnsTo, Code!Shifts
  <2>3. QED  BY ONLY <1>8, <2>1, <2>2
<1>22. QED  BY ONLY <1>2, <1>9, <1>16, <1>17, <1>18, <1>19, <1>20, <1>21 DEF FrontRead

(* in_helper().  It goes on behind what ReadOne finds, if that is no error *)
(* and there is room for characters.                                       *)
Helpings == [sh : BOOLEAN, units : Seq(CUnits), max : Nat]
Helps == [ok : BOOLEAN, chars : Seq(CChars), used : Nat, sh : BOOLEAN]
GoesOn(q) == q.units # <<>> /\ q.max # 0 /\ Code!ReadOne(q.sh, q.units).is \notin {"bad", "part"}
Onward(q, r) == [sh |-> r.sh, units |-> RestOf(q.units, r.len), max |-> q.max - Len(Code!Took(r))]
Stopped(q) ==
    [ok |-> q.units = <<>> \/ q.max = 0 \/ Code!ReadOne(q.sh, q.units).is = "part",
     chars |-> <<>>, used |-> 0, sh |-> q.sh]
Gained(r, h) == [ok |-> h.ok, chars |-> Code!Took(r) \o h.chars, used |-> r.len + h.used, sh |-> h.sh]

InHelper0(f) ==
    [q \in [sh : BOOLEAN, units : Seq(Code!Units), max : Nat] |->
        IF q.units = <<>> \/ q.max = 0 THEN [ok |-> TRUE, chars |-> <<>>, used |-> 0, sh |-> q.sh]
        ELSE LET r == Code!ReadOne(q.sh, q.units)
             IN IF r.is \in {"bad", "part"}
                THEN [ok |-> r.is = "part", chars |-> <<>>, used |-> 0, sh |-> q.sh]
                ELSE [f[[sh |-> r.sh, units |-> SubSeq(q.units, r.len + 1, Len(q.units)),
                         max |-> q.max - Len(Code!Took(r))]]
                         EXCEPT !.chars = Code!Took(r) \o @, !.used = r.len + @]]

LEMMA InHelperChosen == Code!InHelper = CHOOSE f : f = InHelper0(f)
  BY DEF Code!InHelper, Code!Helpings, InHelper0

LEMMA ReadFronts ==
  ASSUME NEW sh \in BOOLEAN, NEW u \in Seq(CUnits), u # <<>>, NEW r, r = Code!ReadOne(sh, u)
  PROVE  \/ r.is \in {"bad", "part"} /\ ReadNone(sh, u, r)
         \/ r.is \notin {"bad", "part"} /\ FrontRead(sh, u, r)
<1>1. CASE ReadTurn(u, r)
  <2>1. r.is \notin {"bad", "part"}
    BY ONLY <1>1 DEF ReadTurn
  <2>2. QED  BY <1>1, <2>1, FrontTurn
<1>2. CASE ReadChar(sh, u, r)
  <2>1. r.is \notin {"bad", "part"}
    BY ONLY <1>2 DEF ReadChar, ReadCharAt
  <2>2. QED  BY <1>2, <2>1, FrontChar
<1>3. CASE ReadNone(sh, u, r)
  BY ONLY <1>3 DEF ReadNone
<1>4. QED  BY <1>1, <1>2, <1>3, ReadOneIs

LEMMA OnwardType ==
  ASSUME NEW q \in Helpings, GoesOn(q), NEW r, r = Code!ReadOne(q.sh, q.units)
  PROVE  /\ Onward(q, r) \in Helpings /\ FrontRead(q.sh, q.units, r)
         /\ Len(Onward(q, r).units) < Len(q.units)
<1>1. PICK sh \in BOOLEAN, u \in Seq(CUnits), x \in Nat : q.sh = sh /\ q.units = u /\ q.max = x
  BY DEF Helpings
<1>2. u # <<>> /\ x # 0 /\ r = Code!ReadOne(sh, u) /\ r.is \notin {"bad", "part"}
  BY <1>1 DEF GoesOn
<1>3. FrontRead(sh, u, r)
  BY <1>2, ReadFronts
<1>4. r.len \in 1..Len(u) /\ r.sh \in BOOLEAN /\ Len(Code!Took(r)) \in {0, 1}
  BY ONLY <1>3 DEF FrontRead
<1>5. PICK n \in Nat : n = r.len /\ n # 0 /\ n <= Len(u)
  BY ONLY <1>4, u \in Seq(CUnits)
<1>6. SubSeq(u, n + 1, Len(u)) \in Seq(CUnits) /\ Len(SubSeq(u, n + 1, Len(u))) = Len(u) - n
  BY ONLY <1>5, u \in Seq(CUnits), SuffixElements
<1>7. x - Len(Code!Took(r)) \in Nat
  <2>1. PICK k \in {0, 1} : k = Len(Code!Took(r))
    BY ONLY <1>4
  <2>2. x - k \in Nat
    BY ONLY <1>2, k \in {0, 1}, x \in Nat
  <2>3. QED  BY ONLY <2>1, <2>2
<1>8. Onward(q, r) = [sh |-> r.sh, units |-> SubSeq(u, n + 1, Len(u)), max |-> x - Len(Code!Took(r))]
  BY ONLY <1>1, <1>5 DEF Onward, RestOf
<1>9. Onward(q, r) \in Helpings
  BY ONLY <1>4, <1>6, <1>7, <1>8 DEF Helpings
<1>10. Len(Onward(q, r).units) < Len(u)
  <2>1. Len(u) \in Nat /\ Onward(q, r).units = SubSeq(u, n + 1, Len(u))
    BY ONLY <1>8, u \in Seq(CUnits)
  <2>2. QED  BY ONLY <1>5, <1>6, <2>1
<1>11. QED  BY ONLY <1>1, <1>3, <1>9, <1>10

LEMMA StoppedType ==
  ASSUME NEW q \in Helpings
  PROVE  Stopped(q) \in Helps
<1>1. q.sh \in BOOLEAN /\ <<>> \in Seq(CChars)
  BY DEF Helpings
<1>2. (q.units = <<>> \/ q.max = 0 \/ Code!ReadOne(q.sh, q.units).is = "part") \in BOOLEAN
  OBVIOUS
<1>3. QED  BY ONLY <1>1, <1>2 DEF Stopped, Helps

LEMMA GainedType ==
  ASSUME NEW sh, NEW u \in Seq(CUnits), NEW r, FrontRead(sh, u, r), NEW h \in Helps
  PROVE  Gained(r, h) \in Helps
<1>1. Code!Took(r) \in Seq(CChars) /\ r.len \in Nat
  BY DEF FrontRead
<1>2. h.ok \in BOOLEAN /\ h.chars \in Seq(CChars) /\ h.used \in Nat /\ h.sh \in BOOLEAN
  BY DEF Helps
<1>3. Code!Took(r) \o h.chars \in Seq(CChars) /\ r.len + h.used \in Nat
  BY ONLY <1>1, <1>2
<1>4. QED  BY ONLY <1>2, <1>3 DEF Gained, Helps

LEMMA InHelperStops ==
  ASSUME NEW f, NEW q \in Helpings, ~GoesOn(q)
  PROVE  InHelper0(f)[q] = Stopped(q)
<1>1. q \in [sh : BOOLEAN, units : Seq(Code!Units), max : Nat]
  BY DEF Helpings, CUnits
<1>2. CASE q.units = <<>> \/ q.max = 0
  <2>1. InHelper0(f)[q] = [ok |-> TRUE, chars |-> <<>>, used |-> 0, sh |-> q.sh]
    BY ONLY <1>1, <1>2 DEF InHelper0
  <2>2. QED  BY ONLY <1>2, <2>1 DEF Stopped
<1>3. CASE ~(q.units = <<>> \/ q.max = 0)
  <2>1. PICK r : r = Code!ReadOne(q.sh, q.units)
    OBVIOUS
  <2>2. r.is \in {"bad", "part"}
    BY ONLY <1>3, <2>1, ~GoesOn(q) DEF GoesOn
  <2>3. InHelper0(f)[q] = [ok |-> r.is = "part", chars |-> <<>>, used |-> 0, sh |-> q.sh]
    BY ONLY <1>1, <1>3, <2>1, <2>2 DEF InHelper0
  <2>4. QED  BY ONLY <1>3, <2>1, <2>3 DEF Stopped
<1>4. QED  BY <1>2, <1>3

LEMMA InHelperGoesOn ==
  ASSUME NEW f, NEW q \in Helpings, GoesOn(q), NEW r, r = Code!ReadOne(q.sh, q.units),
         f[Onward(q, r)] \in Helps
  PROVE  InHelper0(f)[q] = Gained(r, f[Onward(q, r)])
<1>1. q \in [sh : BOOLEAN, units : Seq(Code!Units), max : Nat]
  BY DEF Helpings, CUnits
<1>2. ~(q.units = <<>> \/ q.max = 0) /\ r.is \notin {"bad", "part"}
  BY DEF GoesOn
<1>3. InHelper0(f)[q] = [f[[sh |-> r.sh, units |-> SubSeq(q.units, r.len + 1, Len(q.units)),
                            max |-> q.max - Len(Code!Took(r))]]
                         EXCEPT !.chars = Code!Took(r) \o @, !.used = r.len + @]
  BY ONLY <1>1, <1>2, r = Code!ReadOne(q.sh, q.units) DEF InHelper0
<1>4. PICK h \in Helps : h = f[Onward(q, r)]
  OBVIOUS
<1>5. InHelper0(f)[q] = [h EXCEPT !.chars = Code!Took(r) \o @, !.used = r.len + @]
  BY ONLY <1>3, <1>4 DEF Onward, RestOf
<1>6. PICK a \in BOOLEAN, b \in Seq(CChars), c \in Nat, d \in BOOLEAN :
         h = [ok |-> a, chars |-> b, used |-> c, sh |-> d]
  BY DEF Helps
<1>7. PICK t : t = Code!Took(r)
  OBVIOUS
<1>8. InHelper0(f)[q] = [ok |-> a, chars |-> t \o b, used |-> r.len + c, sh |-> d]
  BY ONLY <1>5, <1>6, <1>7
<1>9. Gained(r, h) = [ok |-> a, chars |-> t \o b, used |-> r.len + c, sh |-> d]
  BY ONLY <1>6, <1>7 DEF Gained
<1>10. QED  BY ONLY <1>4, <1>8, <1>9

LEMMA InHelperUnfolds ==
  Code!InHelper = InHelper0(Code!InHelper)
<1> DEFINE one(x) == Code!ReadOne(x.sh, x.units)
<1>a. PICK G : G = {x \in Helpings : GoesOn(x)}
  OBVIOUS
<1>b. PICK m : m = [x \in Helpings |-> Len(x.units)]
  OBVIOUS
<1>c. PICK next : next = [x \in Helpings |-> IF x \in G THEN Onward(x, one(x)) ELSE x]
  OBVIOUS
<1>d. PICK val : val = [x \in Helpings |-> Stopped(x)]
  OBVIOUS
<1>e. PICK on : on = [x \in Helpings |-> [y \in Helps |-> IF x \in G THEN Gained(one(x), y) ELSE y]]
  OBVIOUS
<1>1. G \in SUBSET Helpings
  BY <1>a
<1>2. m \in [Helpings -> Nat]
  BY <1>b DEF Helpings
<1>3. \A x \in Helpings : x \in G => Onward(x, one(x)) \in Helpings
  BY <1>a, OnwardType
<1>4. next \in [Helpings -> Helpings]
  BY ONLY <1>3, <1>c
<1>5. val \in [Helpings -> Helps]
  <2>1. \A x \in Helpings : Stopped(x) \in Helps
    BY StoppedType
  <2>2. QED  BY ONLY <1>d, <2>1
<1>6. on \in [Helpings -> [Helps -> Helps]]
  <2>1. ASSUME NEW x \in Helpings, NEW y \in Helps, x \in G PROVE Gained(one(x), y) \in Helps
    <3>1. FrontRead(x.sh, x.units, one(x))
      BY <1>a, <2>1, OnwardType
    <3>2. x.units \in Seq(CUnits)
      BY DEF Helpings
    <3>3. QED  BY <3>1, <3>2, GainedType
  <2> HIDE DEF one
  <2>2. QED  BY ONLY <1>e, <2>1
<1>7. \A x \in G : m[next[x]] < m[x]
  <2> SUFFICES ASSUME NEW x \in G PROVE m[next[x]] < m[x]
    OBVIOUS
  <2>1. x \in Helpings /\ x \in G
    BY <1>1
  <2>2. next[x] = Onward(x, one(x))
    BY ONLY <1>c, <2>1
  <2>3. Len(Onward(x, one(x)).units) < Len(x.units) /\ Onward(x, one(x)) \in Helpings
    BY <1>a, <2>1, OnwardType
  <2>4. QED  BY ONLY <1>b, <2>1, <2>2, <2>3
<1>8. \E f \in [Helpings -> Helps] : \A x \in Helpings : f[x] = Unfolds(f, x, G, next, val, on)
  <2>1. Recursion(Helpings, Helps, G, m, next, val, on)
    BY ONLY <1>1, <1>2, <1>4, <1>5, <1>6, <1>7 DEF Recursion
  <2>2. QED  BY ONLY <2>1, RecursionEnds
<1>9. PICK f \in [Helpings -> Helps] : \A x \in Helpings : f[x] = Unfolds(f, x, G, next, val, on)
  BY ONLY <1>8
<1>10. ASSUME NEW x \in Helpings PROVE f[x] = InHelper0(f)[x]
  <2>1. CASE ~GoesOn(x)
    <3>1. x \notin G
      BY <1>a, <2>1
    <3>2. f[x] = val[x]
      BY ONLY <1>9, <3>1, x \in Helpings DEF Unfolds
    <3>3. QED  BY <1>d, <3>2, <2>1, InHelperStops
  <2>2. CASE GoesOn(x)
    <3>1. x \in G
      BY <1>a, <2>2
    <3>2. f[x] = on[x][f[next[x]]]
      BY ONLY <1>9, <3>1, x \in Helpings DEF Unfolds
    <3>3. next[x] = Onward(x, one(x)) /\ next[x] \in Helpings
      BY ONLY <1>3, <1>c, <3>1, x \in Helpings
    <3>4. f[next[x]] \in Helps
      BY ONLY <3>3, f \in [Helpings -> Helps]
    <3>5. on[x][f[next[x]]] = Gained(one(x), f[next[x]])
      BY ONLY <1>e, <3>1, <3>4, x \in Helpings
    <3>6. InHelper0(f)[x] = Gained(one(x), f[Onward(x, one(x))])
      BY <2>2, <3>3, <3>4, InHelperGoesOn
    <3>7. QED  BY ONLY <3>2, <3>3, <3>5, <3>6
  <2>3. QED  BY <2>1, <2>2
<1>11. f = InHelper0(f)
  <2>1. DOMAIN InHelper0(f) = Helpings /\ InHelper0(f) = [x \in Helpings |-> InHelper0(f)[x]]
    BY ZenonT(30) DEF InHelper0, Helpings, CUnits
  <2>2. QED  BY ONLY <1>10, <2>1, f \in [Helpings -> Helps]
<1>12. (CHOOSE h : h = InHelper0(h)) = InHelper0(CHOOSE h : h = InHelper0(h))
  BY ONLY <1>11
<1>13. QED  BY ONLY <1>12, InHelperChosen

(* No character starts here, and no turn. *)
NoChar(sh, u) == u[1] \notin Code!Shifts /\ u[1] \notin {"a", "z"} /\ ~Paired(sh, u) /\ ~Parted(sh, u)

(* What in_helper() reads is a piece of what the units say, and it stops   *)
(* at the end, with enough characters, or at what is no character.         *)
HelpIs(sh, u, max, h) ==
    /\ h \in Helps /\ h.used <= Len(u) /\ Len(h.chars) <= max
    /\ Fronts(sh, SubSeq(u, 1, h.used), h.sh, h.chars)
    /\ kind = "fixed" => Len(h.chars) = h.used
    /\ h.ok => h.used = Len(u) \/ Len(h.chars) = max \/ Parted(h.sh, RestOf(u, h.used))
    /\ ~h.ok => h.used < Len(u) /\ NoChar(h.sh, RestOf(u, h.used))

LEMMA RestNone ==
  ASSUME NEW u \in Seq(CUnits)
  PROVE  RestOf(u, 0) = u /\ SubSeq(u, 1, 0) = <<>>
<1>1. SubSeq(u, 1, Len(u)) = u
  BY WholePiece
<1>2. SubSeq(u, 0 + 1, 0) = <<>>
  BY NoPiece
<1>3. QED  BY <1>1, <1>2 DEF RestOf

LEMMA StoppedIs ==
  ASSUME NEW q \in Helpings, ~GoesOn(q)
  PROVE  HelpIs(q.sh, q.units, q.max, Stopped(q))
<1>1. PICK sh \in BOOLEAN, u \in Seq(CUnits), x \in Nat : q.sh = sh /\ q.units = u /\ q.max = x
  BY DEF Helpings
<1>2. PICK h : h = Stopped(q)
  OBVIOUS
<1>3. h \in Helps
  BY <1>2, StoppedType
<1>4. /\ h.ok = (u = <<>> \/ x = 0 \/ Code!ReadOne(sh, u).is = "part")
      /\ h.chars = <<>> /\ h.used = 0 /\ h.sh = sh
  BY ONLY <1>1, <1>2 DEF Stopped
<1>5. RestOf(u, 0) = u /\ SubSeq(u, 1, 0) = <<>> /\ Len(u) \in Nat
  BY RestNone
<1>6. Fronts(sh, <<>>, sh, <<>>)
  BY FrontsNone
<1>7. Len(<<>>) = 0
  OBVIOUS
<1>8. u # <<>> /\ x # 0 => ReadNone(sh, u, Code!ReadOne(sh, u))
  <2>1. SUFFICES ASSUME u # <<>>, x # 0 PROVE ReadNone(sh, u, Code!ReadOne(sh, u))
    OBVIOUS
  <2>2. Code!ReadOne(sh, u).is \in {"bad", "part"}
    BY <1>1, <2>1 DEF GoesOn
  <2>3. QED  BY <2>1, <2>2, ReadFronts
<1>9. h.ok => 0 = Len(u) \/ 0 = x \/ Parted(sh, u)
  <2>1. u = <<>> => Len(u) = 0
    OBVIOUS
  <2>2. QED  BY ONLY <1>4, <1>8, <2>1 DEF ReadNone
<1>10. ~h.ok => 0 < Len(u) /\ NoChar(sh, u)
  <2>1. u # <<>> => 0 < Len(u)
    OBVIOUS
  <2>2. QED  BY ONLY <1>4, <1>8, <2>1 DEF ReadNone, NoChar
<1>11. 0 <= Len(u) /\ 0 <= x
  BY ONLY <1>5, x \in Nat
<1>12. HelpIs(sh, u, x, h)
  BY ONLY <1>3, <1>4, <1>5, <1>6, <1>7, <1>9, <1>10, <1>11 DEF HelpIs
<1>13. QED  BY ONLY <1>1, <1>2, <1>12

LEMMA GainedIs ==
  ASSUME NEW sh \in BOOLEAN, NEW u \in Seq(CUnits), NEW x \in Nat, NEW r, FrontRead(sh, u, r),
         x # 0, NEW h, HelpIs(r.sh, RestOf(u, r.len), x - Len(Code!Took(r)), h)
  PROVE  HelpIs(sh, u, x, Gained(r, h))
<1>1. PICK n \in Nat : n = r.len /\ n <= Len(u) /\ n # 0
  BY DEF FrontRead
<1>2. PICK t \in Seq(CChars) : t = Code!Took(r)
  BY DEF FrontRead
<1>3. PICK s \in BOOLEAN : s = r.sh
  BY DEF FrontRead
<1>4. Len(t) \in {0, 1} /\ (kind = "fixed" => Len(t) = n) /\ Fronts(sh, SubSeq(u, 1, n), s, t)
  BY ONLY <1>1, <1>2, <1>3, FrontRead(sh, u, r) DEF FrontRead
<1>5. PICK w : w = RestOf(u, n)
  OBVIOUS
<1>6. HelpIs(s, w, x - Len(t), h)
  BY ONLY <1>1, <1>2, <1>3, <1>5, HelpIs(r.sh, RestOf(u, r.len), x - Len(Code!Took(r)), h)
<1>7. PICK a \in BOOLEAN, b \in Seq(CChars), c \in Nat, d \in BOOLEAN :
         h = [ok |-> a, chars |-> b, used |-> c, sh |-> d]
  BY ONLY <1>6 DEF HelpIs, Helps
<1>8. h.ok = a /\ h.chars = b /\ h.used = c /\ h.sh = d
  BY ONLY <1>7
<1>9. /\ c <= Len(w) /\ Len(b) <= x - Len(t) /\ Fronts(s, SubSeq(w, 1, c), d, b)
      /\ kind = "fixed" => Len(b) = c
      /\ a => c = Len(w) \/ Len(b) = x - Len(t) \/ Parted(d, RestOf(w, c))
      /\ ~a => c < Len(w) /\ NoChar(d, RestOf(w, c))
  BY ONLY <1>6, <1>8 DEF HelpIs
<1>10. /\ w \in Seq(CUnits) /\ Len(w) = Len(u) - n /\ n + c <= Len(u)
       /\ RestOf(w, c) = RestOf(u, n + c)
       /\ SubSeq(w, 1, c) \in Seq(CUnits) /\ SubSeq(u, 1, n) \in Seq(CUnits)
       /\ SubSeq(u, 1, n) \o SubSeq(w, 1, c) = SubSeq(u, 1, n + c)
  <2>1. w = SubSeq(u, n + 1, Len(u))
    BY ONLY <1>5 DEF RestOf
  <2>2. c <= Len(w) /\ n <= Len(u)
    BY ONLY <1>1, <1>9
  <2>3. /\ w \in Seq(CUnits) /\ Len(w) = Len(u) - n /\ n + c <= Len(u)
        /\ SubSeq(w, c + 1, Len(w)) = SubSeq(u, (n + c) + 1, Len(u))
        /\ SubSeq(w, 1, c) \in Seq(CUnits)
        /\ SubSeq(u, 1, n) \in Seq(CUnits)
        /\ SubSeq(u, 1, n) \o SubSeq(w, 1, c) = SubSeq(u, 1, n + c)
    BY ONLY <2>1, <2>2, c \in Nat, n \in Nat, u \in Seq(CUnits), RestOfRest, SMTT(30)
  <2>4. QED  BY ONLY <2>3 DEF RestOf
<1>11. PICK g : g = Gained(r, h)
  OBVIOUS
<1>12. g = [ok |-> a, chars |-> t \o b, used |-> n + c, sh |-> d]
  BY ONLY <1>1, <1>2, <1>8, <1>11 DEF Gained
<1>13. g.ok = a /\ g.chars = t \o b /\ g.used = n + c /\ g.sh = d
  BY ONLY <1>12
<1>14. t \o b \in Seq(CChars) /\ Len(t \o b) = Len(t) + Len(b) /\ n + c \in Nat /\ Len(b) \in Nat
       /\ Len(t) \in Nat
  BY ONLY b \in Seq(CChars), t \in Seq(CChars), n \in Nat, c \in Nat
<1>15. g \in Helps
  BY ONLY <1>12, <1>14, a \in BOOLEAN, d \in BOOLEAN DEF Helps
<1>16. Fronts(sh, SubSeq(u, 1, n + c), d, t \o b)
  <2>1. t \in Seq(Said) /\ b \in Seq(Said)
    BY ONLY t \in Seq(CChars), b \in Seq(CChars), CharsSaid
  <2>2. Fronts(sh, SubSeq(u, 1, n) \o SubSeq(w, 1, c), d, t \o b)
    BY ONLY <1>4, <1>9, <1>10, <2>1, sh \in BOOLEAN, s \in BOOLEAN, d \in BOOLEAN, FrontsThen
  <2>3. QED  BY ONLY <1>10, <2>2
<1>17. PICK lt \in Nat, lb \in Nat, lu \in Nat, lw \in Nat :
          lt = Len(t) /\ lb = Len(b) /\ lu = Len(u) /\ lw = Len(w)
  BY ONLY <1>10, <1>14, u \in Seq(CUnits)
<1>18. lt + lb <= x /\ (lb = x - lt => lt + lb = x) /\ (kind = "fixed" => lt + lb = n + c)
       /\ (c = lw => n + c = lu) /\ (c < lw => n + c < lu)
  <2>1. lb <= x - lt /\ c <= lw /\ lw = lu - n
    BY ONLY <1>9, <1>10, <1>17
  <2>2. kind = "fixed" => lt = n /\ lb = c
    BY ONLY <1>4, <1>9, <1>17
  <2>3. lt + lb <= x /\ (lb = x - lt => lt + lb = x) /\ (lt = n /\ lb = c => lt + lb = n + c)
        /\ (c = lw => n + c = lu) /\ (c < lw => n + c < lu)
    BY ONLY <2>1, n \in Nat, c \in Nat, x \in Nat, lt \in Nat, lb \in Nat, lu \in Nat, lw \in Nat
  <2>4. QED  BY ONLY <2>2, <2>3
<1>19. HelpIs(sh, u, x, g)
  BY ONLY <1>9, <1>10, <1>13, <1>14, <1>15, <1>16, <1>17, <1>18 DEF HelpIs
<1>20. QED  BY ONLY <1>11, <1>19

LEMMA InHelperIs ==
  \A q \in Helpings : HelpIs(q.sh, q.units, q.max, Code!InHelper[q])
<1>1. PICK f : f = Code!InHelper
  OBVIOUS
<1>2. f = InHelper0(f)
  BY ONLY <1>1, InHelperUnfolds
<1>3. PICK m : m = [q \in Helpings |-> Len(q.units)]
  OBVIOUS
<1>4. PICK S : S = {q \in Helpings : HelpIs(q.sh, q.units, q.max, f[q])}
  OBVIOUS
<1>5. m \in [Helpings -> Nat]
  BY <1>3 DEF Helpings
<1>6. ASSUME NEW q \in Helpings, \A z \in Helpings : m[z] < m[q] => z \in S PROVE q \in S
  <2>1. CASE ~GoesOn(q)
    <3>1. f[q] = Stopped(q)
      BY <1>2, <2>1, InHelperStops
    <3>2. HelpIs(q.sh, q.units, q.max, Stopped(q))
      BY <2>1, StoppedIs
    <3>3. QED  BY ONLY <1>4, <3>1, <3>2, q \in Helpings
  <2>2. CASE GoesOn(q)
    <3>1. PICK r : r = Code!ReadOne(q.sh, q.units)
      OBVIOUS
    <3>2. PICK z : z = Onward(q, r)
      OBVIOUS
    <3>3. z \in Helpings /\ FrontRead(q.sh, q.units, r) /\ Len(z.units) < Len(q.units)
      BY <2>2, <3>1, <3>2, OnwardType
    <3>4. m[z] < m[q]
      BY ONLY <1>3, <3>3, q \in Helpings
    <3>5. HelpIs(z.sh, z.units, z.max, f[z])
      BY ONLY <1>4, <1>6, <3>3, <3>4
    <3>6. HelpIs(r.sh, RestOf(q.units, r.len), q.max - Len(Code!Took(r)), f[z])
      BY ONLY <3>2, <3>5 DEF Onward
    <3>7. f[z] \in Helps
      BY ONLY <3>5 DEF HelpIs
    <3>8. f[q] = Gained(r, f[z])
      BY <1>2, <2>2, <3>1, <3>2, <3>7, InHelperGoesOn
    <3>9. q.sh \in BOOLEAN /\ q.units \in Seq(CUnits) /\ q.max \in Nat /\ q.max # 0
      BY <2>2 DEF Helpings, GoesOn
    <3>10. HelpIs(q.sh, q.units, q.max, Gained(r, f[z]))
      BY ONLY <3>3, <3>6, <3>9, GainedIs
    <3>11. QED  BY ONLY <1>4, <3>8, <3>10, q \in Helpings
  <2>3. QED  BY <2>1, <2>2
<1>7. \A q \in Helpings : q \in S
  BY ONLY <1>5, <1>6, ByMeasure
<1>8. QED  BY ONLY <1>1, <1>4, <1>7

(* out_helper() and put_main().  What is written for a character says it.  *)
OneWritten(sh, c, o) ==
    /\ o.ok \in BOOLEAN /\ o.units \in Seq(CUnits) /\ o.sh \in BOOLEAN
    /\ o.sh = TRUE => kind = "shift"
    /\ o.ok = TRUE => /\ Fronts(sh, o.units, o.sh, <<c>>)
                      /\ o.units # <<>> /\ o.units[1] # "t"
                      /\ kind = "fixed" => Len(o.units) = 1

TurnTo(sh, goal) == IF kind # "shift" \/ sh = goal THEN <<>> ELSE IF goal THEN <<"o">> ELSE <<"i">>

LEMMA TurnToIs ==
  ASSUME NEW sh \in BOOLEAN, NEW goal \in BOOLEAN, kind # "shift" => sh = goal,
         NEW u, u = TurnTo(sh, goal)
  PROVE  /\ u \in Seq(CUnits) /\ Fronts(sh, u, goal, <<>>)
         /\ u = <<>> \/ (u[1] # "t" /\ Len(u) = 1)
         /\ kind = "fixed" => u = <<>>
<1>1. CASE kind # "shift" \/ sh = goal
  <2>1. u = <<>> /\ sh = goal
    BY <1>1 DEF TurnTo
  <2>2. <<>> \in Seq(CUnits)
    OBVIOUS
  <2>3. QED  BY ONLY <2>1, <2>2, sh \in BOOLEAN, FrontsNone
<1>2. CASE ~(kind # "shift" \/ sh = goal)
  <2>1. PICK x \in {"o", "i"} : u = <<x>> /\ goal = (x = "o")
    <3>1. CASE goal = TRUE
      BY ONLY <1>2, <3>1, u = TurnTo(sh, goal) DEF TurnTo
    <3>2. CASE goal = FALSE
      BY ONLY <1>2, <3>2, u = TurnTo(sh, goal) DEF TurnTo
    <3>3. QED  BY ONLY <3>1, <3>2, goal \in BOOLEAN
  <2>2. x \in CUnits /\ x \in Code!Shifts /\ x # "t"
    BY ONLY <1>2, x \in {"o", "i"} DEF CUnits, Code!Units, Code!Shifts
  <2>3. u \in Seq(CUnits) /\ Len(u) = 1 /\ u[1] = x
    BY ONLY <2>1, <2>2
  <2>4. Fronts(sh, u, u[1] = "o", <<>>)
    BY ONLY <2>2, <2>3, sh \in BOOLEAN, FrontsTurn
  <2>5. kind # "fixed"
    BY ONLY <1>2
  <2>6. QED  BY ONLY <2>1, <2>2, <2>3, <2>4, <2>5
<1>3. QED  BY <1>1, <1>2

LEMMA FrontsWhole ==
  ASSUME NEW sh \in BOOLEAN, NEW u \in Seq(CUnits), u # <<>>, NEW r, IsChar(sh, u, r), r.len = Len(u)
  PROVE  Fronts(sh, u, r.sh, <<r.char>>)
<1>1. SubSeq(u, 1, Len(u)) = u
  BY WholePiece
<1>2. u = SubSeq(u, 1, r.len)
  BY <1>1
<1>3. QED  BY <1>2, FrontsChar

LEMMA CharFronts ==
  /\ Fronts(FALSE, <<"a">>, FALSE, <<"a">>)
  /\ Fronts(TRUE, <<"a">>, TRUE, <<"c">>)
  /\ Fronts(FALSE, <<"z">>, FALSE, <<"z">>)
  /\ \A s \in BOOLEAN : Pairs(s) => Fronts(s, <<"l", "t">>, s, <<"lt">>)
<1>1. ASSUME NEW s \in BOOLEAN, NEW x \in {"a", "z"}, NEW c, c = IF x = "z" THEN "z" ELSE IF s THEN "c" ELSE "a"
      PROVE  Fronts(s, <<x>>, IF x = "z" THEN FALSE ELSE s, <<c>>)
  <2>1. PICK r : r = [is |-> "char", char |-> c, len |-> 1, sh |-> IF x = "z" THEN FALSE ELSE s]
    OBVIOUS
  <2>2. PICK u : u = <<x>>
    OBVIOUS
  <2>3. u \in Seq(CUnits) /\ u # <<>> /\ u[1] = x /\ Len(u) = 1
    BY ONLY <2>2, x \in {"a", "z"} DEF CUnits, Code!Units
  <2>4. r.is = "char" /\ r.char = c /\ r.len = 1 /\ r.sh = (IF x = "z" THEN FALSE ELSE s)
        /\ DOMAIN r = {"is", "char", "len", "sh"}
    BY ONLY <2>1
  <2>5. IsChar(s, u, r)
    <3>1. CASE x = "a"
      BY ONLY <1>1, <2>3, <2>4, <3>1 DEF IsChar
    <3>2. CASE x = "z"
      BY ONLY <1>1, <2>3, <2>4, <3>2 DEF IsChar
    <3>3. QED  BY ONLY <3>1, <3>2, x \in {"a", "z"}
  <2>6. Fronts(s, u, r.sh, <<r.char>>)
    BY ONLY <2>3, <2>4, <2>5, s \in BOOLEAN, FrontsWhole
  <2>7. QED  BY ONLY <2>2, <2>4, <2>6
<1>2. ASSUME NEW s \in BOOLEAN, Pairs(s) PROVE Fronts(s, <<"l", "t">>, s, <<"lt">>)
  <2>1. PICK r : r = [is |-> "char", char |-> "lt", len |-> 2, sh |-> s]
    OBVIOUS
  <2>2. PICK u : u = <<"l", "t">>
    OBVIOUS
  <2>3. u \in Seq(CUnits) /\ u # <<>> /\ u[1] = "l" /\ u[2] = "t" /\ Len(u) = 2
    BY ONLY <2>2 DEF CUnits, Code!Units
  <2>4. r.is = "char" /\ r.char = "lt" /\ r.len = 2 /\ r.sh = s
        /\ DOMAIN r = {"is", "char", "len", "sh"}
    BY ONLY <2>1
  <2>5. IsChar(s, u, r)
    BY ONLY <1>2, <2>3, <2>4 DEF IsChar, Paired
  <2>6. Fronts(s, u, r.sh, <<r.char>>)
    BY ONLY <2>3, <2>4, <2>5, s \in BOOLEAN, FrontsWhole
  <2>7. QED  BY ONLY <2>2, <2>4, <2>6
<1>3. Fronts(FALSE, <<"a">>, FALSE, <<"a">>)
  BY ONLY <1>1
<1>4. Fronts(TRUE, <<"a">>, TRUE, <<"c">>)
  BY ONLY <1>1
<1>5. Fronts(FALSE, <<"z">>, FALSE, <<"z">>)
  BY ONLY <1>1
<1>6. QED  BY ONLY <1>2, <1>3, <1>4, <1>5

(* A turn, and then a character that is read in the state turned to.       *)
LEMMA TurnAndChar ==
  ASSUME NEW sh \in BOOLEAN, NEW goal \in BOOLEAN, kind # "shift" => sh = goal,
         NEW w \in Seq(CUnits), w # <<>>, w[1] # "t", kind = "fixed" => Len(w) = 1,
         NEW c \in CChars, Fronts(goal, w, goal, <<c>>), goal = TRUE => kind = "shift",
         NEW o, o = [ok |-> TRUE, units |-> TurnTo(sh, goal) \o w, sh |-> goal]
  PROVE  OneWritten(sh, c, o)
<1>1. PICK v : v = TurnTo(sh, goal)
  OBVIOUS
<1>2. /\ v \in Seq(CUnits) /\ Fronts(sh, v, goal, <<>>)
      /\ v = <<>> \/ (v[1] # "t" /\ Len(v) = 1)
      /\ kind = "fixed" => v = <<>>
  BY <1>1, TurnToIs
<1>3. PICK u : u = v \o w
  OBVIOUS
<1>4. u \in Seq(CUnits)
  BY ONLY <1>2, <1>3, w \in Seq(CUnits), BehindFirst
<1>5. Fronts(sh, u, goal, <<c>>)
  <2>1. <<>> \in Seq(Said) /\ <<c>> \in Seq(Said)
    BY DEF Said
  <2>2. Fronts(sh, v \o w, goal, <<>> \o <<c>>)
    BY ONLY <1>2, <2>1, sh \in BOOLEAN, goal \in BOOLEAN, w \in Seq(CUnits), Fronts(goal, w, goal, <<c>>),
            FrontsThen
  <2>3. <<>> \o <<c>> = <<c>>
    OBVIOUS
  <2>4. QED  BY ONLY <1>3, <2>2, <2>3
<1>6. u # <<>> /\ u[1] # "t" /\ (kind = "fixed" => Len(u) = 1)
  <2>1. CASE v = <<>>
    <3>1. u = w
      BY ONLY <1>3, <2>1, w \in Seq(CUnits), ConcatOfNone
    <3>2. QED  BY <3>1
  <2>2. CASE v # <<>>
    <3>1. v[1] # "t" /\ Len(v) = 1 /\ kind # "fixed"
      BY ONLY <1>2, <2>2
    <3>2. /\ \A i \in 1..Len(v) : u[i] = v[i]
          /\ Len(v) > 0 => u # <<>>
      BY ONLY <1>2, <1>3, w \in Seq(CUnits), BehindFirst
    <3>3. u[1] = v[1] /\ u # <<>>
      BY ONLY <3>1, <3>2
    <3>4. QED  BY ONLY <3>1, <3>3
  <2>3. QED  BY ONLY <2>1, <2>2
<1>7. o.ok = TRUE /\ o.units = u /\ o.sh = goal
  BY <1>1, <1>3
<1>8. QED  BY ONLY <1>4, <1>5, <1>6, <1>7, goal \in BOOLEAN, goal = TRUE => kind = "shift" DEF OneWritten

LEMMA OutHelperIs ==
  ASSUME kind \in {"fixed", "multi", "shift"}, NEW sh \in BOOLEAN, sh = TRUE => kind = "shift",
         NEW c \in CChars, NEW o, o = Code!OutHelper(sh, c)
  PROVE  OneWritten(sh, c, o)
<1>1. o = CASE c \in {"a", "z"} -> [ok |-> TRUE, units |-> Append(TurnTo(sh, FALSE), c), sh |-> FALSE]
            [] c = "lt" /\ kind # "fixed"
                 -> [ok |-> TRUE, units |-> TurnTo(sh, kind = "shift") \o <<"l", "t">>, sh |-> kind = "shift"]
            [] c = "c" /\ kind = "shift" -> [ok |-> TRUE, units |-> Append(TurnTo(sh, TRUE), "a"), sh |-> TRUE]
            [] OTHER -> [ok |-> FALSE, units |-> <<>>, sh |-> sh]
  BY ONLY o = Code!OutHelper(sh, c) DEF Code!OutHelper, TurnTo
<1>2. \A s \in Seq(CUnits), x \in CUnits : Append(s, x) = s \o <<x>>
  OBVIOUS
<1>3. CASE c \in {"a", "z"}
  <2>1. o = [ok |-> TRUE, units |-> Append(TurnTo(sh, FALSE), c), sh |-> FALSE]
    BY ONLY <1>1, <1>3
  <2>2. kind # "shift" => sh = FALSE
    OBVIOUS
  <2>3. c \in CUnits /\ <<c>> \in Seq(CUnits) /\ <<c>> # <<>> /\ <<c>>[1] # "t" /\ Len(<<c>>) = 1
    BY ONLY <1>3 DEF CUnits, Code!Units
  <2>4. TurnTo(sh, FALSE) \in Seq(CUnits)
    BY ONLY <2>2, sh \in BOOLEAN, TurnToIs
  <2>5. o = [ok |-> TRUE, units |-> TurnTo(sh, FALSE) \o <<c>>, sh |-> FALSE]
    BY ONLY <1>2, <2>1, <2>3, <2>4
  <2>6. Fronts(FALSE, <<c>>, FALSE, <<c>>)
    BY ONLY <1>3, CharFronts
  <2>7. QED  BY ONLY <2>2, <2>3, <2>5, <2>6, sh \in BOOLEAN, c \in CChars, TurnAndChar
<1>4. CASE c = "lt" /\ kind # "fixed"
  <2>1. PICK g \in BOOLEAN : g = (kind = "shift")
    OBVIOUS
  <2>2. o = [ok |-> TRUE, units |-> TurnTo(sh, g) \o <<"l", "t">>, sh |-> g]
    BY ONLY <1>1, <1>4, <2>1
  <2>3. PICK w : w = <<"l", "t">>
    OBVIOUS
  <2>4. w \in Seq(CUnits) /\ w # <<>> /\ w[1] # "t"
    BY ONLY <2>3 DEF CUnits, Code!Units
  <2>5. kind # "shift" => sh = g
    BY <2>1
  <2>6. CASE kind \in {"multi", "shift"}
    <3>1. Fronts(g, w, g, <<c>>)
      <4>1. Pairs(g)
        BY ONLY <2>1, <2>6 DEF Pairs
      <4>2. QED  BY ONLY <1>4, <2>3, <4>1, g \in BOOLEAN, CharFronts
    <3>2. QED  BY ONLY <1>4, <2>1, <2>2, <2>3, <2>4, <2>5, <3>1, sh \in BOOLEAN, c \in CChars, TurnAndChar
  <2>7. QED  BY <1>4, <2>6
<1>5. CASE c = "c" /\ kind = "shift"
  <2>1. o = [ok |-> TRUE, units |-> Append(TurnTo(sh, TRUE), "a"), sh |-> TRUE]
    BY ONLY <1>1, <1>5
  <2>2. "a" \in CUnits /\ <<"a">> \in Seq(CUnits) /\ <<"a">> # <<>> /\ <<"a">>[1] # "t" /\ Len(<<"a">>) = 1
    BY DEF CUnits, Code!Units
  <2>3. TurnTo(sh, TRUE) \in Seq(CUnits)
    BY ONLY <1>5, sh \in BOOLEAN, TurnToIs
  <2>4. o = [ok |-> TRUE, units |-> TurnTo(sh, TRUE) \o <<"a">>, sh |-> TRUE]
    BY ONLY <1>2, <2>1, <2>2, <2>3
  <2>5. Fronts(TRUE, <<"a">>, TRUE, <<c>>)
    BY ONLY <1>5, CharFronts
  <2>6. QED  BY ONLY <1>5, <2>2, <2>4, <2>5, sh \in BOOLEAN, c \in CChars, TurnAndChar
<1>6. CASE c \notin {"a", "z"} /\ ~(c = "lt" /\ kind # "fixed") /\ ~(c = "c" /\ kind = "shift")
  <2>1. o = [ok |-> FALSE, units |-> <<>>, sh |-> sh]
    BY ONLY <1>1, <1>6
  <2>2. <<>> \in Seq(CUnits)
    OBVIOUS
  <2>3. QED  BY <2>1, <2>2 DEF OneWritten
<1>7. QED  BY ONLY <1>3, <1>4, <1>5, <1>6

Writings == [sh : BOOLEAN, text : Seq(CChars)]
Puts == [ok : BOOLEAN, units : Seq(CUnits), sh : BOOLEAN]
OneOf(q) == Code!OutHelper(q.sh, Head(q.text))
WritesOn(q) == q.text # <<>> /\ OneOf(q).ok
Unwritten(q) == [sh |-> OneOf(q).sh, text |-> Tail(q.text)]
Ended(q) == IF q.text = <<>> THEN [ok |-> TRUE, units |-> <<>>, sh |-> q.sh] ELSE OneOf(q)
Before(o, p) == [ok |-> p.ok, units |-> o.units \o p.units, sh |-> p.sh]

PutMain0(f) ==
    [q \in [sh : BOOLEAN, text : Seq(Code!Chars)] |->
        IF q.text = <<>> THEN [ok |-> TRUE, units |-> <<>>, sh |-> q.sh]
        ELSE LET one == Code!OutHelper(q.sh, Head(q.text))
             IN IF one.ok
                THEN [f[[sh |-> one.sh, text |-> Tail(q.text)]] EXCEPT !.units = one.units \o @]
                ELSE one]

LEMMA PutMainChosen == Code!PutMain = CHOOSE f : f = PutMain0(f)
  BY DEF Code!PutMain, Code!Writings, PutMain0

LEMMA TurnToType ==
  ASSUME NEW sh, NEW goal
  PROVE  TurnTo(sh, goal) \in Seq(CUnits)
<1>1. "o" \in CUnits /\ "i" \in CUnits
  BY DEF CUnits, Code!Units
<1>2. <<>> \in Seq(CUnits) /\ <<"o">> \in Seq(CUnits) /\ <<"i">> \in Seq(CUnits)
  BY ONLY <1>1
<1>3. QED  BY ONLY <1>2 DEF TurnTo

LEMMA OutHelperType ==
  ASSUME NEW sh \in BOOLEAN, NEW c \in CChars
  PROVE  Code!OutHelper(sh, c) \in Puts
<1>1. PICK o : o = Code!OutHelper(sh, c)
  OBVIOUS
<1>2. o = CASE c \in {"a", "z"} -> [ok |-> TRUE, units |-> Append(TurnTo(sh, FALSE), c), sh |-> FALSE]
            [] c = "lt" /\ kind # "fixed"
                 -> [ok |-> TRUE, units |-> TurnTo(sh, kind = "shift") \o <<"l", "t">>, sh |-> kind = "shift"]
            [] c = "c" /\ kind = "shift" -> [ok |-> TRUE, units |-> Append(TurnTo(sh, TRUE), "a"), sh |-> TRUE]
            [] OTHER -> [ok |-> FALSE, units |-> <<>>, sh |-> sh]
  BY ONLY <1>1 DEF Code!OutHelper, TurnTo
<1>3. \A s \in Seq(CUnits), x \in CUnits : Append(s, x) \in Seq(CUnits)
  OBVIOUS
<1>4. {"a", "z", "l", "t"} \subseteq CUnits
  BY DEF CUnits, Code!Units
<1>5. <<>> \in Seq(CUnits) /\ <<"l", "t">> \in Seq(CUnits)
  BY ONLY <1>4
<1>6. CASE c \in {"a", "z"}
  <2>1. o = [ok |-> TRUE, units |-> Append(TurnTo(sh, FALSE), c), sh |-> FALSE]
    BY ONLY <1>2, <1>6
  <2>2. Append(TurnTo(sh, FALSE), c) \in Seq(CUnits)
    BY ONLY <1>3, <1>4, <1>6, TurnToType
  <2>3. PICK v \in Seq(CUnits) : v = Append(TurnTo(sh, FALSE), c)
    BY ONLY <2>2
  <2>4. o = [ok |-> TRUE, units |-> v, sh |-> FALSE]
    BY ONLY <2>1, <2>3
  <2>5. o \in Puts
    BY ONLY <2>4, v \in Seq(CUnits) DEF Puts
  <2>6. QED  BY ONLY <1>1, <2>5
<1>7. CASE c = "lt" /\ kind # "fixed"
  <2>1. o = [ok |-> TRUE, units |-> TurnTo(sh, kind = "shift") \o <<"l", "t">>, sh |-> kind = "shift"]
    BY ONLY <1>2, <1>7
  <2>2. PICK v \in Seq(CUnits) : v = TurnTo(sh, kind = "shift")
    BY ONLY TurnToType
  <2>3. v \o <<"l", "t">> \in Seq(CUnits)
    BY ONLY <1>5, v \in Seq(CUnits), BehindFirst
  <2>4. QED  BY ONLY <1>1, <2>1, <2>2, <2>3 DEF Puts
<1>8. CASE c = "c" /\ kind = "shift"
  <2>1. o = [ok |-> TRUE, units |-> Append(TurnTo(sh, TRUE), "a"), sh |-> TRUE]
    BY ONLY <1>2, <1>8
  <2>2. Append(TurnTo(sh, TRUE), "a") \in Seq(CUnits)
    BY ONLY <1>3, <1>4, TurnToType
  <2>3. PICK v \in Seq(CUnits) : v = Append(TurnTo(sh, TRUE), "a")
    BY ONLY <2>2
  <2>4. o = [ok |-> TRUE, units |-> v, sh |-> TRUE]
    BY ONLY <2>1, <2>3
  <2>5. o \in Puts
    BY ONLY <2>4, v \in Seq(CUnits) DEF Puts
  <2>6. QED  BY ONLY <1>1, <2>5
<1>9. CASE c \notin {"a", "z"} /\ ~(c = "lt" /\ kind # "fixed") /\ ~(c = "c" /\ kind = "shift")
  <2>1. o = [ok |-> FALSE, units |-> <<>>, sh |-> sh]
    BY ONLY <1>2, <1>9
  <2>2. QED  BY ONLY <1>1, <1>5, <2>1, sh \in BOOLEAN DEF Puts
<1>10. QED  BY ONLY <1>6, <1>7, <1>8, <1>9

LEMMA OneOfType ==
  ASSUME NEW q \in Writings, q.text # <<>>
  PROVE  /\ OneOf(q) \in Puts /\ Unwritten(q) \in Writings /\ Head(q.text) \in CChars
         /\ Len(Unwritten(q).text) < Len(q.text)
         /\ q.text = <<Head(q.text)>> \o Tail(q.text) /\ Tail(q.text) \in Seq(CChars)
<1>1. PICK sh \in BOOLEAN, t \in Seq(CChars) : q.sh = sh /\ q.text = t
  BY DEF Writings
<1>2. t # <<>>
  BY <1>1
<1>3. Head(t) \in CChars /\ Tail(t) \in Seq(CChars) /\ Len(Tail(t)) < Len(t) /\ t = <<Head(t)>> \o Tail(t)
  BY ONLY <1>2, t \in Seq(CChars)
<1>4. OneOf(q) \in Puts
  BY <1>1, <1>3, OutHelperType DEF OneOf
<1>5. OneOf(q).sh \in BOOLEAN
  BY ONLY <1>4 DEF Puts
<1>6. Unwritten(q) \in Writings /\ Unwritten(q).text = Tail(t)
  BY ONLY <1>1, <1>3, <1>5 DEF Unwritten, Writings
<1>7. QED  BY ONLY <1>1, <1>3, <1>4, <1>6

LEMMA EndedType ==
  ASSUME NEW q \in Writings
  PROVE  Ended(q) \in Puts
<1>1. CASE q.text = <<>>
  <2>1. Ended(q) = [ok |-> TRUE, units |-> <<>>, sh |-> q.sh]
    BY ONLY <1>1 DEF Ended
  <2>2. <<>> \in Seq(CUnits) /\ q.sh \in BOOLEAN
    BY DEF Writings
  <2>3. QED  BY ONLY <2>1, <2>2 DEF Puts
<1>2. CASE q.text # <<>>
  BY <1>2, OneOfType DEF Ended
<1>3. QED  BY <1>1, <1>2

LEMMA BeforeType ==
  ASSUME NEW o \in Puts, NEW p \in Puts
  PROVE  Before(o, p) \in Puts
<1>1. o.units \in Seq(CUnits) /\ p.units \in Seq(CUnits) /\ p.ok \in BOOLEAN /\ p.sh \in BOOLEAN
  BY DEF Puts
<1>2. o.units \o p.units \in Seq(CUnits)
  BY ONLY <1>1, BehindFirst
<1>3. QED  BY ONLY <1>1, <1>2 DEF Before, Puts

LEMMA PutMainEnds ==
  ASSUME NEW f, NEW q \in Writings, ~WritesOn(q)
  PROVE  PutMain0(f)[q] = Ended(q)
<1>1. q \in [sh : BOOLEAN, text : Seq(Code!Chars)]
  BY DEF Writings, CChars
<1>2. q.text = <<>> \/ ~OneOf(q).ok
  BY DEF WritesOn
<1>3. QED  BY ONLY <1>1, <1>2 DEF PutMain0, Ended, OneOf

LEMMA PutMainGoesOn ==
  ASSUME NEW f, NEW q \in Writings, WritesOn(q), f[Unwritten(q)] \in Puts
  PROVE  PutMain0(f)[q] = Before(OneOf(q), f[Unwritten(q)])
<1>1. q \in [sh : BOOLEAN, text : Seq(Code!Chars)]
  BY DEF Writings, CChars
<1>2. q.text # <<>> /\ OneOf(q).ok
  BY DEF WritesOn
<1>3. PutMain0(f)[q] = [f[Unwritten(q)] EXCEPT !.units = OneOf(q).units \o @]
  BY ONLY <1>1, <1>2 DEF PutMain0, OneOf, Unwritten
<1>4. PICK p \in Puts : p = f[Unwritten(q)]
  OBVIOUS
<1>5. PICK a \in BOOLEAN, b \in Seq(CUnits), c \in BOOLEAN : p = [ok |-> a, units |-> b, sh |-> c]
  BY DEF Puts
<1>6. PICK v : v = OneOf(q).units
  OBVIOUS
<1>7. PutMain0(f)[q] = [p EXCEPT !.units = v \o @]
  BY ONLY <1>3, <1>4, <1>6
<1>8. PutMain0(f)[q] = [ok |-> a, units |-> v \o b, sh |-> c]
  BY ONLY <1>5, <1>7
<1>9. Before(OneOf(q), p) = [ok |-> a, units |-> v \o b, sh |-> c]
  BY ONLY <1>5, <1>6 DEF Before
<1>10. QED  BY ONLY <1>4, <1>8, <1>9

LEMMA PutMainUnfolds ==
  Code!PutMain = PutMain0(Code!PutMain)
<1>a. PICK G : G = {x \in Writings : WritesOn(x)}
  OBVIOUS
<1>b. PICK m : m = [x \in Writings |-> Len(x.text)]
  OBVIOUS
<1>c. PICK next : next = [x \in Writings |-> IF x \in G THEN Unwritten(x) ELSE x]
  OBVIOUS
<1>d. PICK val : val = [x \in Writings |-> Ended(x)]
  OBVIOUS
<1>e. PICK on : on = [x \in Writings |-> [y \in Puts |-> IF x \in G THEN Before(OneOf(x), y) ELSE y]]
  OBVIOUS
<1>1. G \in SUBSET Writings /\ \A x \in G : x.text # <<>>
  BY <1>a DEF WritesOn
<1>2. m \in [Writings -> Nat]
  BY <1>b DEF Writings
<1>3. \A x \in Writings : x \in G => Unwritten(x) \in Writings
  BY <1>1, OneOfType
<1>4. next \in [Writings -> Writings]
  BY ONLY <1>3, <1>c
<1>5. val \in [Writings -> Puts]
  <2>1. \A x \in Writings : Ended(x) \in Puts
    BY EndedType
  <2>2. QED  BY ONLY <1>d, <2>1
<1>6. on \in [Writings -> [Puts -> Puts]]
  <2>1. \A x \in Writings, y \in Puts : x \in G => Before(OneOf(x), y) \in Puts
    BY <1>1, OneOfType, BeforeType
  <2>2. QED  BY ONLY <1>e, <2>1
<1>7. \A x \in G : m[next[x]] < m[x]
  <2> SUFFICES ASSUME NEW x \in G PROVE m[next[x]] < m[x]
    OBVIOUS
  <2>1. x \in Writings /\ x \in G
    BY <1>1
  <2>2. next[x] = Unwritten(x)
    BY ONLY <1>c, <2>1
  <2>3. Len(Unwritten(x).text) < Len(x.text) /\ Unwritten(x) \in Writings
    BY <1>1, <2>1, OneOfType
  <2>4. QED  BY ONLY <1>b, <2>1, <2>2, <2>3
<1>8. \E f \in [Writings -> Puts] : \A x \in Writings : f[x] = Unfolds(f, x, G, next, val, on)
  <2>1. Recursion(Writings, Puts, G, m, next, val, on)
    BY ONLY <1>1, <1>2, <1>4, <1>5, <1>6, <1>7 DEF Recursion
  <2>2. QED  BY ONLY <2>1, RecursionEnds
<1>9. PICK f \in [Writings -> Puts] : \A x \in Writings : f[x] = Unfolds(f, x, G, next, val, on)
  BY ONLY <1>8
<1>10. ASSUME NEW x \in Writings PROVE f[x] = PutMain0(f)[x]
  <2>1. CASE ~WritesOn(x)
    <3>1. x \notin G
      BY <1>a, <2>1
    <3>2. f[x] = val[x]
      BY ONLY <1>9, <3>1, x \in Writings DEF Unfolds
    <3>3. QED  BY <1>d, <3>2, <2>1, PutMainEnds
  <2>2. CASE WritesOn(x)
    <3>1. x \in G
      BY <1>a, <2>2
    <3>2. f[x] = on[x][f[next[x]]]
      BY ONLY <1>9, <3>1, x \in Writings DEF Unfolds
    <3>3. next[x] = Unwritten(x) /\ next[x] \in Writings
      BY ONLY <1>3, <1>c, <3>1, x \in Writings
    <3>4. f[next[x]] \in Puts
      BY ONLY <3>3, f \in [Writings -> Puts]
    <3>5. on[x][f[next[x]]] = Before(OneOf(x), f[next[x]])
      BY ONLY <1>e, <3>1, <3>4, x \in Writings
    <3>6. PutMain0(f)[x] = Before(OneOf(x), f[Unwritten(x)])
      BY <2>2, <3>3, <3>4, PutMainGoesOn
    <3>7. QED  BY ONLY <3>2, <3>3, <3>5, <3>6
  <2>3. QED  BY <2>1, <2>2
<1>11. f = PutMain0(f)
  <2>1. DOMAIN PutMain0(f) = Writings /\ PutMain0(f) = [x \in Writings |-> PutMain0(f)[x]]
    BY DEF PutMain0, Writings, CChars
  <2>2. QED  BY ONLY <1>10, <2>1, f \in [Writings -> Puts]
<1>12. (CHOOSE h : h = PutMain0(h)) = PutMain0(CHOOSE h : h = PutMain0(h))
  BY ONLY <1>11
<1>13. QED  BY ONLY <1>12, PutMainChosen

(* Text that is put says it, in the state that put_main() starts from.     *)
PutIs(sh, text, p) ==
    /\ p \in Puts
    /\ p.sh = TRUE => kind = "shift"
    /\ p.units = <<>> \/ p.units[1] # "t"
    /\ p.ok = TRUE => /\ Fronts(sh, p.units, p.sh, text)
                      /\ kind = "fixed" => Len(p.units) = Len(text)

LEMMA EndedIs ==
  ASSUME kind \in {"fixed", "multi", "shift"}, NEW q \in Writings, ~WritesOn(q),
         q.sh = TRUE => kind = "shift"
  PROVE  PutIs(q.sh, q.text, Ended(q))
<1>1. PICK p : p = Ended(q)
  OBVIOUS
<1>2. p \in Puts
  BY <1>1, EndedType
<1>3. q.sh \in BOOLEAN
  BY DEF Writings
<1>4. CASE q.text = <<>>
  <2>1. p.ok = TRUE /\ p.units = <<>> /\ p.sh = q.sh
    BY ONLY <1>1, <1>4 DEF Ended
  <2>2. Fronts(q.sh, <<>>, q.sh, <<>>)
    BY ONLY <1>3, FrontsNone
  <2>3. PutIs(q.sh, q.text, p)
    BY ONLY <1>2, <1>4, <2>1, <2>2, q.sh = TRUE => kind = "shift" DEF PutIs
  <2>4. QED  BY ONLY <1>1, <2>3
<1>5. CASE q.text # <<>>
  <2>1. p = OneOf(q) /\ Head(q.text) \in CChars
    BY <1>1, <1>5, OneOfType DEF Ended
  <2>2. p.ok # TRUE
    <3>1. ~OneOf(q).ok
      BY ONLY <1>5, ~WritesOn(q) DEF WritesOn
    <3>2. QED  BY ONLY <2>1, <3>1
  <2>3. OneWritten(q.sh, Head(q.text), p)
    BY <1>3, <2>1, OutHelperIs DEF OneOf
  <2>4. p.units = <<>>
    <3>1. p.ok = FALSE
      BY ONLY <1>2, <2>2 DEF Puts
    <3>2. QED  BY ONLY <2>1, <3>1 DEF OneOf, Code!OutHelper
  <2>5. PutIs(q.sh, q.text, p)
    BY ONLY <1>2, <2>2, <2>3, <2>4 DEF PutIs, OneWritten
  <2>6. QED  BY ONLY <1>1, <2>5
<1>6. QED  BY <1>4, <1>5

LEMMA BeforeIs ==
  ASSUME NEW sh \in BOOLEAN, NEW c \in CChars, NEW t \in Seq(CChars), NEW o \in Puts, o.ok = TRUE,
         OneWritten(sh, c, o), NEW p, PutIs(o.sh, t, p)
  PROVE  PutIs(sh, <<c>> \o t, Before(o, p))
<1>1. PICK a \in BOOLEAN, b \in Seq(CUnits), d \in BOOLEAN : p = [ok |-> a, units |-> b, sh |-> d]
  BY DEF PutIs, Puts
<1>2. p.ok = a /\ p.units = b /\ p.sh = d
  BY ONLY <1>1
<1>3. PICK u \in Seq(CUnits), s \in BOOLEAN : u = o.units /\ s = o.sh
  BY DEF Puts
<1>4. /\ Fronts(sh, u, s, <<c>>) /\ u # <<>> /\ u[1] # "t"
      /\ kind = "fixed" => Len(u) = 1
  BY ONLY <1>3, o.ok = TRUE, OneWritten(sh, c, o) DEF OneWritten
<1>5. /\ d = TRUE => kind = "shift"
      /\ a = TRUE => /\ Fronts(s, b, d, t)
                     /\ kind = "fixed" => Len(b) = Len(t)
  BY ONLY <1>2, <1>3, PutIs(o.sh, t, p) DEF PutIs
<1>6. PICK g : g = Before(o, p)
  OBVIOUS
<1>7. g.ok = a /\ g.units = u \o b /\ g.sh = d
  BY ONLY <1>2, <1>3, <1>6 DEF Before
<1>8. g \in Puts
  <2>1. p \in Puts
    BY DEF PutIs
  <2>2. QED  BY <1>6, <2>1, BeforeType
<1>9. /\ \A i \in 1..Len(u) : (u \o b)[i] = u[i]
      /\ Len(u \o b) = Len(u) + Len(b)
  BY ONLY u \in Seq(CUnits), b \in Seq(CUnits), BehindFirst
<1>10. (u \o b)[1] # "t"
  <2>1. 1 \in 1..Len(u)
    BY ONLY <1>4, u \in Seq(CUnits)
  <2>2. QED  BY ONLY <1>4, <1>9, <2>1
<1>11. ASSUME a = TRUE PROVE Fronts(sh, u \o b, d, <<c>> \o t)
  <2>1. <<c>> \in Seq(Said) /\ t \in Seq(Said)
    BY CharsSaid DEF Said
  <2>2. QED  BY ONLY <1>4, <1>5, <1>11, <2>1, sh \in BOOLEAN, s \in BOOLEAN, d \in BOOLEAN,
                 u \in Seq(CUnits), b \in Seq(CUnits), FrontsThen
<1>12. ASSUME a = TRUE, kind = "fixed" PROVE Len(u \o b) = Len(<<c>> \o t)
  <2>1. Len(<<c>> \o t) = Len(t) + 1
    BY ONLY c \in CChars, t \in Seq(CChars), ConsElements
  <2>2. Len(u) = 1 /\ Len(b) = Len(t) /\ Len(t) \in Nat
    BY ONLY <1>4, <1>5, <1>12, t \in Seq(CChars)
  <2>3. QED  BY ONLY <1>9, <2>1, <2>2
<1>13. PutIs(sh, <<c>> \o t, g)
  BY ONLY <1>5, <1>7, <1>8, <1>10, <1>11, <1>12 DEF PutIs
<1>14. QED  BY ONLY <1>6, <1>13

LEMMA PutMainIs ==
  ASSUME kind \in {"fixed", "multi", "shift"}
  PROVE  \A q \in Writings : (q.sh = TRUE => kind = "shift") => PutIs(q.sh, q.text, Code!PutMain[q])
<1>1. PICK f : f = Code!PutMain
  OBVIOUS
<1>2. f = PutMain0(f)
  BY ONLY <1>1, PutMainUnfolds
<1>3. PICK m : m = [q \in Writings |-> Len(q.text)]
  OBVIOUS
<1>4. PICK S : S = {q \in Writings : f[q] \in Puts /\ ((q.sh = TRUE => kind = "shift") => PutIs(q.sh, q.text, f[q]))}
  OBVIOUS
<1>5. m \in [Writings -> Nat]
  BY <1>3 DEF Writings
<1>6. ASSUME NEW q \in Writings, \A z \in Writings : m[z] < m[q] => z \in S PROVE q \in S
  <2>1. CASE ~WritesOn(q)
    <3>1. f[q] = Ended(q)
      BY <1>2, <2>1, PutMainEnds
    <3>2. Ended(q) \in Puts /\ ((q.sh = TRUE => kind = "shift") => PutIs(q.sh, q.text, Ended(q)))
      BY <2>1, EndedIs, EndedType
    <3>3. QED  BY ONLY <1>4, <3>1, <3>2, q \in Writings
  <2>2. CASE WritesOn(q)
    <3>1. PICK z : z = Unwritten(q)
      OBVIOUS
    <3>2. PICK o : o = OneOf(q)
      OBVIOUS
    <3>3. /\ o \in Puts /\ z \in Writings /\ Head(q.text) \in CChars
          /\ Len(z.text) < Len(q.text)
          /\ q.text = <<Head(q.text)>> \o Tail(q.text) /\ Tail(q.text) \in Seq(CChars)
      BY <2>2, <3>1, <3>2, OneOfType DEF WritesOn
    <3>4. m[z] < m[q]
      BY ONLY <1>3, <3>3, q \in Writings
    <3>5. z \in S
      BY ONLY <1>6, <3>3, <3>4
    <3>6. f[q] = Before(o, f[z])
      BY <1>2, <1>4, <2>2, <3>1, <3>2, <3>5, PutMainGoesOn
    <3>7. f[q] \in Puts
      BY ONLY <1>4, <3>3, <3>5, <3>6, BeforeType
    <3>8. ASSUME q.sh = TRUE => kind = "shift" PROVE PutIs(q.sh, q.text, f[q])
      <4>1. o.ok = TRUE
        BY ONLY <2>2, <3>2, <3>3 DEF WritesOn, Puts
      <4>2. q.sh \in BOOLEAN
        BY DEF Writings
      <4>3. OneWritten(q.sh, Head(q.text), o)
        BY <3>2, <3>3, <3>8, <4>2, OutHelperIs DEF OneOf
      <4>4. z.sh = o.sh /\ z.text = Tail(q.text)
        BY ONLY <3>1, <3>2 DEF Unwritten
      <4>5. o.sh = TRUE => kind = "shift"
        BY ONLY <4>3 DEF OneWritten
      <4>6. PutIs(o.sh, Tail(q.text), f[z])
        BY ONLY <1>4, <3>5, <4>4, <4>5
      <4>7. PutIs(q.sh, <<Head(q.text)>> \o Tail(q.text), Before(o, f[z]))
        BY ONLY <3>3, <4>1, <4>2, <4>3, <4>6, BeforeIs
      <4>8. QED  BY ONLY <3>3, <3>6, <4>7
    <3>9. QED  BY ONLY <1>4, <3>7, <3>8, q \in Writings
  <2>3. QED  BY <2>1, <2>2
<1>7. \A q \in Writings : q \in S
  BY ONLY <1>5, <1>6, ByMeasure
<1>8. QED  BY ONLY <1>1, <1>4, <1>7

(* The loop of get_main(). *)
LEMMA MaxOfTwo ==
  ASSUME NEW a \in Int, NEW b \in Int, NEW x, x = Code!Max({a, b})
  PROVE  x \in {a, b} /\ x >= a /\ x >= b
<1>1. x = CHOOSE y \in {a, b} : \A z \in {a, b} : y >= z
  BY DEF Code!Max
<1>2. \E y \in {a, b} : \A z \in {a, b} : y >= z
  <2>1. a >= b \/ b >= a
    OBVIOUS
  <2>2. a >= a /\ b >= b
    OBVIOUS
  <2>3. QED  BY ONLY <2>1, <2>2
<1>3. x \in {a, b} /\ \A z \in {a, b} : x >= z
  BY ONLY <1>1, <1>2
<1>4. QED  BY ONLY <1>3

LEMMA MinOfTwo ==
  ASSUME NEW a \in Int, NEW b \in Int, NEW x, x = Code!Min({a, b})
  PROVE  x \in {a, b} /\ x <= a /\ x <= b
<1>1. x = CHOOSE y \in {a, b} : \A z \in {a, b} : y <= z
  BY DEF Code!Min
<1>2. \E y \in {a, b} : \A z \in {a, b} : y <= z
  <2>1. a <= b \/ b <= a
    OBVIOUS
  <2>2. a <= a /\ b <= b
    OBVIOUS
  <2>3. QED  BY ONLY <2>1, <2>2
<1>3. x \in {a, b} /\ \A z \in {a, b} : x <= z
  BY ONLY <1>1, <1>2
<1>4. QED  BY ONLY <1>3

Round(a, b, s, o, l, k, c) ==
    [from |-> a, fetched |-> b, sh |-> s, out |-> o, left |-> l, kept |-> k, calls |-> c, end |-> "on"]

LEMMA RoundsAre ==
  ASSUME cFile \in Seq(CUnits), NEW r \in Code!Rounds
  PROVE  \E a \in Nat, b \in Nat, s \in BOOLEAN, o \in Seq(CChars), l \in Nat, k \in Nat, c \in Nat :
            r = Round(a, b, s, o, l, k, c) /\ a + k <= b /\ b <= Len(cFile)
<1>1. PICK n \in Nat : n = Len(cFile)
  OBVIOUS
<1>2. /\ r \in [from : 0..n, fetched : 0..n, sh : BOOLEAN, out : Seq(CChars), left : Nat,
                kept : 0..n, calls : Nat, end : {"on"}]
      /\ r.kept <= r.fetched - r.from
  BY ONLY <1>1, r \in Code!Rounds DEF Code!Rounds, Code!Area, CChars
<1>3. PICK a \in 0..n, b \in 0..n, s \in BOOLEAN, o \in Seq(CChars), l \in Nat, k \in 0..n, c \in Nat :
         r = [from |-> a, fetched |-> b, sh |-> s, out |-> o, left |-> l, kept |-> k, calls |-> c, end |-> "on"]
  BY ONLY <1>2
<1>4. k <= b - a
  BY ONLY <1>2, <1>3
<1>5. a \in Nat /\ b \in Nat /\ k \in Nat /\ a + k <= b /\ b <= n
  BY ONLY <1>4, a \in 0..n, b \in 0..n, k \in 0..n, n \in Nat
<1>6. r = Round(a, b, s, o, l, k, c)
  BY ONLY <1>3 DEF Round
<1>7. QED  BY ONLY <1>1, <1>5, <1>6, s \in BOOLEAN, o \in Seq(CChars), l \in Nat, c \in Nat

LEMMA AreRounds ==
  ASSUME cFile \in Seq(CUnits), NEW a \in Nat, NEW b \in Nat, NEW s \in BOOLEAN, NEW o \in Seq(CChars),
         NEW l \in Nat, NEW k \in Nat, NEW c \in Nat, a + k <= b, b <= Len(cFile)
  PROVE  Round(a, b, s, o, l, k, c) \in Code!Rounds
<1>1. PICK n \in Nat : n = Len(cFile)
  OBVIOUS
<1>2. a \in 0..n /\ b \in 0..n /\ k \in 0..n /\ k <= b - a
  BY ONLY <1>1, a \in Nat, b \in Nat, k \in Nat, a + k <= b, b <= Len(cFile)
<1>3. PICK r : r = Round(a, b, s, o, l, k, c)
  OBVIOUS
<1>4. r \in [from : 0..n, fetched : 0..n, sh : BOOLEAN, out : Seq(CChars), left : Nat,
             kept : 0..n, calls : Nat, end : {"on"}]
  BY ONLY <1>2, <1>3, s \in BOOLEAN, o \in Seq(CChars), l \in Nat, c \in Nat DEF Round
<1>5. r.kept <= r.fetched - r.from
  BY ONLY <1>2, <1>3 DEF Round
<1>6. r \in Code!Rounds
  BY ONLY <1>1, <1>4, <1>5 DEF Code!Rounds, Code!Area, CChars
<1>7. QED  BY ONLY <1>3, <1>6

(* What the round has when it has asked the kernel for what it lacks: d is *)
(* how many units it would have, f is where the kernel has come to.        *)
LEMMA FilledIs ==
  ASSUME cFile \in Seq(CUnits), NEW a \in Nat, NEW b \in Nat, NEW s, NEW o,
         NEW l \in Nat, NEW k \in Nat, NEW c \in Nat, a + k <= b, b <= Len(cFile),
         NEW r, r = Round(a, b, s, o, l, k, c), l # 0, ~(Code!Fetches(r) /\ c = 0)
  PROVE  \E f \in Nat, e \in Nat, z \in Nat :
            /\ Code!Filled(r) = Round(a, f, s, o, l, k, e) /\ Code!Size(r) = z
            /\ b <= f /\ f <= Len(cFile) /\ k <= z /\ a + z <= f
            /\ z = k => a + k = Len(cFile)
<1>1. PICK n \in Nat : n = Len(cFile)
  OBVIOUS
<1>2. r.from = a /\ r.fetched = b /\ r.left = l /\ r.kept = k /\ r.calls = c
  BY DEF Round
<1>3. PICK d : d = Code!Dest(r)
  OBVIOUS
<1>4. d \in Nat /\ d >= l /\ d >= k + 1
  <2>1. d = Code!Max({l, k + 1})
    BY ONLY <1>2, <1>3 DEF Code!Dest
  <2>2. l \in Int /\ k + 1 \in Int
    OBVIOUS
  <2>3. d \in {l, k + 1} /\ d >= l /\ d >= k + 1
    BY ONLY <2>1, <2>2, MaxOfTwo
  <2>4. QED  BY <2>3
<1>5. Code!Area(r) = b - a /\ (Code!Fetches(r) <=> d > b - a)
  BY ONLY <1>2, <1>3 DEF Code!Area, Code!Fetches
<1>6. PICK m : m = Code!Min({d - (b - a), n - b})
  OBVIOUS
<1>7. d > b - a => m \in Nat /\ m <= n - b /\ m <= d - (b - a) /\ (m = d - (b - a) \/ m = n - b)
  <2>1. d - (b - a) \in Int /\ n - b \in Int
    BY ONLY <1>4, n \in Nat, a \in Nat, b \in Nat
  <2>2. m \in {d - (b - a), n - b} /\ m <= d - (b - a) /\ m <= n - b
    <3>1. PICK p \in Int, q \in Int : p = d - (b - a) /\ q = n - b
      BY ONLY <2>1
    <3>2. m = Code!Min({p, q})
      BY ONLY <1>6, <3>1
    <3>3. QED  BY ONLY <3>1, <3>2, p \in Int, q \in Int, MinOfTwo
  <2>3. b <= n
    BY <1>1
  <2>4. QED  BY ONLY <1>4, <2>2, <2>3, n \in Nat, a \in Nat, b \in Nat
<1>8. PICK f : f = IF d > b - a THEN b + m ELSE b
  OBVIOUS
<1>9. /\ f \in Nat /\ b <= f /\ f <= n
      /\ f - a < d => f = n
  <2>1. b <= n
    BY <1>1
  <2>2. CASE d > b - a
    BY ONLY <1>4, <1>7, <1>8, <2>1, <2>2, n \in Nat, a \in Nat, b \in Nat
  <2>3. CASE ~(d > b - a)
    BY ONLY <1>4, <1>8, <2>1, <2>3, n \in Nat, a \in Nat, b \in Nat
  <2>4. QED  BY ONLY <2>2, <2>3
<1>10. PICK e : e = IF d > b - a THEN c - 1 ELSE c
  OBVIOUS
<1>11. e \in Nat
  <2>1. d > b - a => c # 0
    BY ONLY <1>5, ~(Code!Fetches(r) /\ c = 0)
  <2>2. QED  BY ONLY <1>10, <2>1, c \in Nat
<1>12. Code!Filled(r) = Round(a, f, s, o, l, k, e)
  <2>1. CASE d > b - a
    <3>1. Code!Filled(r) = [r EXCEPT !.fetched = @ + m, !.calls = @ - 1]
      BY ONLY <1>1, <1>2, <1>3, <1>5, <1>6, <2>1 DEF Code!Filled
    <3>2. f = b + m /\ e = c - 1
      BY ONLY <1>8, <1>10, <2>1
    <3>3. Code!Filled(r) = [r EXCEPT !.fetched = f, !.calls = e]
      BY ONLY <1>2, <3>1, <3>2
    <3>4. QED  BY ONLY <3>3, r = Round(a, b, s, o, l, k, c) DEF Round
  <2>2. CASE ~(d > b - a)
    <3>1. Code!Filled(r) = r
      BY ONLY <1>5, <2>2 DEF Code!Filled
    <3>2. QED  BY ONLY <1>8, <1>10, <2>2, <3>1, r = Round(a, b, s, o, l, k, c)
  <2>3. QED  BY ONLY <2>1, <2>2
<1>13. PICK z : z = Code!Size(r)
  OBVIOUS
<1>14. z \in {d, f - a} /\ z <= d /\ z <= f - a
  <2>1. Code!Area(Code!Filled(r)) = f - a
    BY ONLY <1>12 DEF Code!Area, Round
  <2>2. z = Code!Min({d, f - a})
    BY ONLY <1>3, <1>13, <2>1 DEF Code!Size
  <2>3. d \in Int /\ f - a \in Int
    BY ONLY <1>4, <1>9, a \in Nat
  <2>4. QED  BY ONLY <2>2, <2>3, MinOfTwo
<1>15. z \in Nat /\ k <= z /\ a + z <= f /\ (z = k => a + k = n)
  BY ONLY <1>4, <1>9, <1>14, a \in Nat, b \in Nat, k \in Nat, n \in Nat, a + k <= b
<1>16. QED  BY ONLY <1>1, <1>9, <1>11, <1>12, <1>13, <1>15

(* One round of get_main(): it shows in_helper() the units u behind where  *)
(* the read has come to, gets h from it, and leaves g to the next round.   *)
RoundStep(r, u, h, g) ==
    /\ u \in Seq(CUnits) /\ u = SubSeq(cFile, r.from + 1, r.from + Len(u))
    /\ r.kept < Len(u) /\ r.from + Len(u) <= Len(cFile)
    /\ HelpIs(r.sh, u, r.left, h)
    /\ g \in Code!Rounds /\ g.from = r.from + h.used /\ g.fetched >= r.fetched /\ g.sh = h.sh
    /\ g.out = r.out \o h.chars /\ g.left = r.left - Len(h.chars) /\ g.kept = Len(u) - h.used

Steps(r) == r.left # 0 /\ ~(Code!Fetches(r) /\ r.calls = 0) /\ Code!Size(r) # r.kept

LEMMA RoundSteps ==
  ASSUME cFile \in Seq(CUnits), NEW r \in Code!Rounds, Steps(r),
         NEW h, h = Code!Helped(r)
  PROVE  \E u : RoundStep(r, u, h, Code!Decoded(r, h))
<1>1. PICK a \in Nat, b \in Nat, s \in BOOLEAN, o \in Seq(CChars), l \in Nat, k \in Nat, c \in Nat :
         r = Round(a, b, s, o, l, k, c) /\ a + k <= b /\ b <= Len(cFile)
  BY RoundsAre
<1>2. r.from = a /\ r.fetched = b /\ r.sh = s /\ r.out = o /\ r.left = l /\ r.kept = k /\ r.calls = c
  BY ONLY <1>1 DEF Round
<1>3. l # 0 /\ ~(Code!Fetches(r) /\ c = 0) /\ Code!Size(r) # k
  BY ONLY <1>2, Steps(r) DEF Steps
<1>4. PICK f \in Nat, e \in Nat, z \in Nat :
            /\ Code!Filled(r) = Round(a, f, s, o, l, k, e) /\ Code!Size(r) = z
            /\ b <= f /\ f <= Len(cFile) /\ k <= z /\ a + z <= f
  BY ONLY <1>1, <1>3, cFile \in Seq(CUnits), a \in Nat, b \in Nat, l \in Nat, k \in Nat, c \in Nat, FilledIs
<1>5. PICK n \in Nat : n = Len(cFile)
  OBVIOUS
<1>6. k < z /\ a + z <= n
  BY ONLY <1>3, <1>4, <1>5, a \in Nat, k \in Nat, z \in Nat, f \in Nat, n \in Nat
<1>7. PICK u : u = SubSeq(cFile, a + 1, a + z)
  OBVIOUS
<1>8. u \in Seq(CUnits) /\ Len(u) = z
  <2>1. /\ SubSeq(cFile, a + 1, a + z) \in Seq(CUnits)
        /\ Len(SubSeq(cFile, a + 1, a + z)) = (a + z) - a
    <3>1. PICK w \in Nat : w = a + z
      BY ONLY a \in Nat, z \in Nat
    <3>2. a <= w
      BY ONLY <3>1, a \in Nat, z \in Nat
    <3>3. w <= Len(cFile)
      BY ONLY <1>5, <1>6, <3>1
    <3>4. /\ SubSeq(cFile, a + 1, w) \in Seq(CUnits)
          /\ Len(SubSeq(cFile, a + 1, w)) = w - a
      BY ONLY <3>2, <3>3, a \in Nat, w \in Nat, cFile \in Seq(CUnits), UnitsPiece, ZenonT(30)
    <3>5. QED  BY ONLY <3>1, <3>4
  <2>2. (a + z) - a = z
    BY ONLY a \in Nat, z \in Nat
  <2>3. QED  BY ONLY <1>7, <2>1, <2>2
<1>9. PICK q : q = [sh |-> s, units |-> u, max |-> l]
  OBVIOUS
<1>10. q \in Helpings /\ q.sh = s /\ q.units = u /\ q.max = l
  BY ONLY <1>8, <1>9, s \in BOOLEAN, l \in Nat DEF Helpings
<1>11. h = Code!InHelper[q]
  BY ONLY <1>2, <1>4, <1>7, <1>9, h = Code!Helped(r) DEF Code!Helped
<1>12. HelpIs(s, u, l, h)
  BY ONLY <1>10, <1>11, InHelperIs
<1>13. PICK ok \in BOOLEAN, w \in Seq(CChars), y \in Nat, t \in BOOLEAN :
          h = [ok |-> ok, chars |-> w, used |-> y, sh |-> t]
  BY ONLY <1>12 DEF HelpIs, Helps
<1>14. h.ok = ok /\ h.chars = w /\ h.used = y /\ h.sh = t
  BY ONLY <1>13
<1>15. y <= z /\ Len(w) <= l
  BY ONLY <1>8, <1>12, <1>14 DEF HelpIs
<1>16. PICK v \in Seq(CChars) : v = o \o w
  <2>1. o \o w \in Seq(CChars)
    BY ONLY o \in Seq(CChars), w \in Seq(CChars)
  <2>2. QED  BY ONLY <2>1
<1>17. PICK ay \in Nat, lw \in Nat, zy \in Nat : ay = a + y /\ lw = l - Len(w) /\ zy = z - y /\ ay + zy <= f
  <2>1. Len(w) \in Nat
    BY ONLY w \in Seq(CChars)
  <2>2. a + y \in Nat /\ l - Len(w) \in Nat /\ z - y \in Nat /\ (a + y) + (z - y) <= f
    BY ONLY <1>4, <1>15, <2>1, a \in Nat, y \in Nat, z \in Nat, l \in Nat, f \in Nat
  <2>3. QED  BY ONLY <2>2
<1>18. PICK g : g = Code!Decoded(r, h)
  OBVIOUS
<1>19. g = Round(ay, f, t, v, lw, zy, e)
  <2>1. PICK m : m = Round(a, f, s, o, l, k, e)
    OBVIOUS
  <2>2. g = [m EXCEPT !.from = @ + y, !.sh = t, !.out = @ \o w, !.left = @ - Len(w), !.kept = z - y]
    BY ONLY <1>4, <1>14, <1>18, <2>1 DEF Code!Decoded
  <2>3. m.from = a /\ m.out = o /\ m.left = l
    BY ONLY <2>1 DEF Round
  <2>4. g = [m EXCEPT !.from = ay, !.sh = t, !.out = v, !.left = lw, !.kept = zy]
    BY ONLY <1>16, <1>17, <2>2, <2>3
  <2>5. QED  BY ONLY <2>1, <2>4 DEF Round
<1>20. g \in Code!Rounds
  BY ONLY <1>4, <1>17, <1>19, cFile \in Seq(CUnits), t \in BOOLEAN, v \in Seq(CChars), ay \in Nat, f \in Nat,
          lw \in Nat, zy \in Nat, e \in Nat, AreRounds
<1>21. g.from = ay /\ g.fetched = f /\ g.sh = t /\ g.out = v /\ g.left = lw /\ g.kept = zy
  BY ONLY <1>19 DEF Round
<1>22. f >= b
  BY ONLY <1>4, f \in Nat, b \in Nat
<1>23. RoundStep(r, u, h, g)
  BY ONLY <1>2, <1>5, <1>6, <1>7, <1>8, <1>12, <1>14, <1>16, <1>17, <1>20, <1>21, <1>22 DEF RoundStep
<1>24. QED  BY ONLY <1>18, <1>23

Further(r) == Code!Decoded(r, Code!Helped(r))
GoesRound(r) == Steps(r) /\ Code!Helped(r).ok
Ending(r) ==
    IF r.left = 0 THEN [r EXCEPT !.end = "full"]
    ELSE IF Code!Fetches(r) /\ r.calls = 0 THEN [r EXCEPT !.end = "fails"]
    ELSE IF Code!Size(r) = r.kept
    THEN [Code!Filled(r) EXCEPT !.end = IF r.kept = 0 \/ r.out # <<>> THEN "end" ELSE "part"]
    ELSE Code!Rejected(Further(r))

GetMain0(f) ==
    [r \in Code!Rounds |->
        IF r.left = 0 THEN [r EXCEPT !.end = "full"]
        ELSE IF Code!Fetches(r) /\ r.calls = 0 THEN [r EXCEPT !.end = "fails"]
        ELSE IF Code!Size(r) = r.kept
        THEN [Code!Filled(r) EXCEPT !.end = IF r.kept = 0 \/ r.out # <<>> THEN "end" ELSE "part"]
        ELSE LET h == Code!Helped(r)
             IN IF h.ok THEN f[Code!Decoded(r, h)] ELSE Code!Rejected(Code!Decoded(r, h))]

LEMMA GetMainChosen == Code!GetMain = CHOOSE f : f = GetMain0(f)
  BY DEF Code!GetMain, GetMain0

LEMMA GetMainEnds ==
  ASSUME NEW f, NEW r \in Code!Rounds
  PROVE  GetMain0(f)[r] = IF GoesRound(r) THEN f[Further(r)] ELSE Ending(r)
<1>1. PICK h : h = Code!Helped(r)
  OBVIOUS
<1>2. PICK d : d = Code!Decoded(r, h)
  OBVIOUS
<1>3. d = Further(r)
  BY ONLY <1>1, <1>2 DEF Further
<1>4. GetMain0(f)[r] =
        IF r.left = 0 THEN [r EXCEPT !.end = "full"]
        ELSE IF Code!Fetches(r) /\ r.calls = 0 THEN [r EXCEPT !.end = "fails"]
        ELSE IF Code!Size(r) = r.kept
        THEN [Code!Filled(r) EXCEPT !.end = IF r.kept = 0 \/ r.out # <<>> THEN "end" ELSE "part"]
        ELSE IF h.ok THEN f[d] ELSE Code!Rejected(d)
  BY ONLY <1>1, <1>2, r \in Code!Rounds DEF GetMain0
<1>5. CASE GoesRound(r)
  <2>1. r.left # 0 /\ ~(Code!Fetches(r) /\ r.calls = 0) /\ Code!Size(r) # r.kept /\ h.ok
    BY ONLY <1>1, <1>5 DEF GoesRound, Steps
  <2>2. GetMain0(f)[r] = f[d]
    BY ONLY <1>4, <2>1
  <2>3. QED  BY ONLY <1>3, <1>5, <2>2
<1>6. CASE ~GoesRound(r)
  <2>1. Ending(r) =
        IF r.left = 0 THEN [r EXCEPT !.end = "full"]
        ELSE IF Code!Fetches(r) /\ r.calls = 0 THEN [r EXCEPT !.end = "fails"]
        ELSE IF Code!Size(r) = r.kept
        THEN [Code!Filled(r) EXCEPT !.end = IF r.kept = 0 \/ r.out # <<>> THEN "end" ELSE "part"]
        ELSE Code!Rejected(d)
    BY ONLY <1>3 DEF Ending
  <2>2. r.left = 0 \/ (Code!Fetches(r) /\ r.calls = 0) \/ Code!Size(r) = r.kept \/ ~h.ok
    BY ONLY <1>1, <1>6 DEF GoesRound, Steps
  <2>3. GetMain0(f)[r] = Ending(r)
    BY ONLY <1>4, <2>1, <2>2
  <2>4. QED  BY ONLY <1>6, <2>3
<1>7. QED  BY <1>5, <1>6

(* From round to round get_main() has come further, with what the last one *)
(* left, so it ends.                                                       *)
LEMMA FurtherIs ==
  ASSUME cFile \in Seq(CUnits), NEW r \in Code!Rounds, Steps(r)
  PROVE  /\ r.from + r.kept \in 0..Len(cFile) /\ Further(r) \in Code!Rounds
         /\ Further(r).from + Further(r).kept \in 0..Len(cFile)
         /\ r.from + r.kept < Further(r).from + Further(r).kept
<1>1. PICK h : h = Code!Helped(r)
  OBVIOUS
<1>2. PICK g : g = Code!Decoded(r, h)
  OBVIOUS
<1>3. g = Further(r)
  BY ONLY <1>1, <1>2 DEF Further
<1>4. PICK u : RoundStep(r, u, h, g)
  BY <1>1, <1>2, RoundSteps
<1>5. PICK a \in Nat, b \in Nat, s \in BOOLEAN, o \in Seq(CChars), l \in Nat, k \in Nat, c \in Nat :
         r = Round(a, b, s, o, l, k, c) /\ a + k <= b /\ b <= Len(cFile)
  BY RoundsAre
<1>6. r.from = a /\ r.kept = k
  BY ONLY <1>5 DEF Round
<1>7. PICK n \in Nat, z \in Nat, y \in Nat : n = Len(cFile) /\ z = Len(u) /\ y = h.used
  BY ONLY <1>4, cFile \in Seq(CUnits) DEF RoundStep, HelpIs, Helps
<1>8. /\ g \in Code!Rounds /\ k < z /\ a + z <= n /\ y <= z
      /\ g.from = a + y /\ g.kept = z - y
  BY ONLY <1>4, <1>6, <1>7 DEF RoundStep, HelpIs
<1>9. /\ a + k \in 0..n /\ (a + y) + (z - y) \in 0..n /\ a + k < (a + y) + (z - y)
  <2>1. k < z /\ a + z <= n /\ y <= z
    BY ONLY <1>8
  <2>2. (a + y) + (z - y) = a + z
    BY ONLY z \in Nat, y \in Nat, a \in Nat
  <2>3. a + k \in 0..n /\ a + z \in 0..n /\ a + k < a + z
    BY ONLY <2>1, n \in Nat, z \in Nat, a \in Nat, k \in Nat
  <2>4. QED  BY ONLY <2>2, <2>3
<1>10. QED  BY ONLY <1>3, <1>6, <1>7, <1>8, <1>9

LEMMA GetMainUnfolds ==
  ASSUME cFile \in Seq(CUnits)
  PROVE  Code!GetMain = GetMain0(Code!GetMain)
<1>a. PICK D : D = Code!Rounds
  OBVIOUS
<1>b. PICK G : G = {x \in D : GoesRound(x)}
  OBVIOUS
<1>c. PICK n \in Nat : n = Len(cFile)
  OBVIOUS
<1>d. PICK m : m = [x \in D |-> n - (x.from + x.kept)]
  OBVIOUS
<1>e. PICK next : next = [x \in D |-> IF x \in G THEN Further(x) ELSE x]
  OBVIOUS
<1>f. PICK val : val = [x \in D |-> Ending(x)]
  OBVIOUS
<1>g. PICK V : V = {val[x] : x \in D}
  OBVIOUS
<1>h. PICK on : on = [x \in D |-> [y \in V |-> y]]
  OBVIOUS
<1>1. G \in SUBSET D /\ val \in [D -> V] /\ on \in [D -> [V -> V]]
  BY ONLY <1>b, <1>f, <1>g, <1>h
<1>2. \A x \in D : x.from + x.kept \in 0..n
  <2> SUFFICES ASSUME NEW x \in Code!Rounds PROVE x.from + x.kept \in 0..n
    BY <1>a
  <2>1. PICK a \in Nat, b \in Nat, s \in BOOLEAN, o \in Seq(CChars), l \in Nat, k \in Nat, c \in Nat :
           x = Round(a, b, s, o, l, k, c) /\ a + k <= b /\ b <= Len(cFile)
    BY RoundsAre
  <2>2. x.from = a /\ x.kept = k
    BY ONLY <2>1 DEF Round
  <2>3. QED  BY ONLY <1>c, <2>1, <2>2, a \in Nat, b \in Nat, k \in Nat, n \in Nat
<1>3. m \in [D -> Nat]
  <2>1. \A x \in D : n - (x.from + x.kept) \in Nat
    BY ONLY <1>2, n \in Nat
  <2>2. QED  BY ONLY <1>d, <2>1
<1>4. \A x \in G : x \in D /\ Further(x) \in D /\ x.from + x.kept < Further(x).from + Further(x).kept
  <2>1. SUFFICES ASSUME NEW x \in G
                 PROVE  x \in D /\ Further(x) \in D /\ x.from + x.kept < Further(x).from + Further(x).kept
    OBVIOUS
  <2>2. x \in D /\ Steps(x)
    BY ONLY <1>b, x \in G DEF GoesRound
  <2>3. x \in Code!Rounds
    BY ONLY <1>a, <2>2
  <2>4. Further(x) \in Code!Rounds /\ x.from + x.kept < Further(x).from + Further(x).kept
    BY <2>2, <2>3, FurtherIs
  <2>5. QED  BY ONLY <1>a, <2>2, <2>4
<1>5. next \in [D -> D]
  BY ONLY <1>e, <1>4
<1>6. \A x \in G : m[next[x]] < m[x]
  <2>1. SUFFICES ASSUME NEW x \in G PROVE m[next[x]] < m[x]
    OBVIOUS
  <2>2. x \in D /\ next[x] = Further(x) /\ Further(x) \in D
    BY ONLY <1>e, <1>4, x \in G
  <2>3. PICK i \in 0..n, j \in 0..n : i = x.from + x.kept /\ j = Further(x).from + Further(x).kept
    BY ONLY <1>2, <2>2
  <2>4. i < j
    BY ONLY <1>4, <2>3, x \in G
  <2>5. m[x] = n - i /\ m[next[x]] = n - j
    BY ONLY <1>d, <2>2, <2>3
  <2>6. QED  BY ONLY <2>4, <2>5, i \in 0..n, j \in 0..n, n \in Nat
<1>7. \E f \in [D -> V] : \A x \in D : f[x] = Unfolds(f, x, G, next, val, on)
  <2>1. Recursion(D, V, G, m, next, val, on)
    BY ONLY <1>1, <1>3, <1>5, <1>6 DEF Recursion
  <2>2. QED  BY ONLY <2>1, RecursionEnds
<1>8. PICK f \in [D -> V] : \A x \in D : f[x] = Unfolds(f, x, G, next, val, on)
  BY ONLY <1>7
<1>9. ASSUME NEW x \in D PROVE f[x] = GetMain0(f)[x]
  <2>1. x \in Code!Rounds
    BY ONLY <1>a, x \in D
  <2>2. GetMain0(f)[x] = IF GoesRound(x) THEN f[Further(x)] ELSE Ending(x)
    BY ONLY <2>1, GetMainEnds
  <2>3. CASE ~GoesRound(x)
    <3>1. f[x] = val[x] /\ val[x] = Ending(x)
      BY ONLY <1>b, <1>f, <1>8, <2>3, x \in D DEF Unfolds
    <3>2. QED  BY ONLY <2>2, <2>3, <3>1
  <2>4. CASE GoesRound(x)
    <3>1. x \in G
      BY ONLY <1>b, <2>4, x \in D
    <3>2. f[x] = on[x][f[next[x]]]
      BY ONLY <1>8, <3>1, x \in D DEF Unfolds
    <3>3. next[x] = Further(x) /\ next[x] \in D
      BY ONLY <1>e, <1>5, <3>1, x \in D
    <3>4. f[next[x]] \in V
      BY ONLY <3>3, f \in [D -> V]
    <3>5. on[x][f[next[x]]] = f[next[x]]
      BY ONLY <1>h, <3>4, x \in D
    <3>6. QED  BY ONLY <2>2, <2>4, <3>2, <3>3, <3>5
  <2>5. QED  BY <2>3, <2>4
<1>10. f = GetMain0(f)
  <2>1. GetMain0(f) = [x \in D |-> GetMain0(f)[x]]
    BY <1>a DEF GetMain0
  <2>2. QED  BY ONLY <1>9, <2>1, f \in [D -> V]
<1>11. (CHOOSE h : h = GetMain0(h)) = GetMain0(CHOOSE h : h = GetMain0(h))
  BY ONLY <1>10
<1>12. QED  BY ONLY <1>11, GetMainChosen

(* What no longer piece begins with either. *)
LEMMA NoCharLonger ==
  ASSUME NEW s, NEW x \in Seq(CUnits), NEW y \in Seq(CUnits), Len(x) # 0, Len(x) <= Len(y),
         \A i \in 1..Len(x) : y[i] = x[i], NoChar(s, x)
  PROVE  NoChar(s, y)
<1>1. PICK n \in Nat, m \in Nat : n = Len(x) /\ m = Len(y)
  OBVIOUS
<1>2. n # 0 /\ n <= m /\ y[1] = x[1] /\ (n > 1 => y[2] = x[2])
  BY <1>1
<1>3. ~(x[1] = "l" /\ Pairs(s) /\ n > 1 /\ x[2] = "t") /\ ~(x[1] = "l" /\ Pairs(s) /\ n = 1)
  BY ONLY <1>1, NoChar(s, x) DEF NoChar, Paired, Parted
<1>4. x[1] = "l" /\ Pairs(s) => m > 1 /\ y[2] # "t"
  <2>1. x[1] = "l" /\ Pairs(s) => n > 1 /\ x[2] # "t"
    BY ONLY <1>2, <1>3, n \in Nat
  <2>2. n > 1 => m > 1
    BY ONLY <1>2, n \in Nat, m \in Nat
  <2>3. QED  BY ONLY <1>2, <2>1, <2>2
<1>5. ~Paired(s, y) /\ ~Parted(s, y)
  BY ONLY <1>1, <1>2, <1>4 DEF Paired, Parted
<1>6. QED  BY ONLY <1>2, <1>5, NoChar(s, x) DEF NoChar

(* The units of the file from a to b have been read as the characters t.   *)
Reached(sh, a, b, after, t) ==
    /\ a \in Nat /\ b \in Nat /\ a <= b /\ b <= Len(cFile)
    /\ sh \in BOOLEAN /\ after \in BOOLEAN /\ t \in Seq(CChars)
    /\ Fronts(sh, SubSeq(cFile, a + 1, b), after, t)
    /\ kind = "fixed" => Len(t) = b - a

LEMMA ReachedNone ==
  ASSUME NEW sh \in BOOLEAN, NEW a \in Nat, a <= Len(cFile)
  PROVE  Reached(sh, a, a, sh, <<>>)
<1>1. SubSeq(cFile, a + 1, a) = <<>>
  BY NoPiece
<1>2. Fronts(sh, SubSeq(cFile, a + 1, a), sh, <<>>)
  BY <1>1, FrontsNone
<1>3. <<>> \in Seq(CChars) /\ Len(<<>>) = a - a /\ a <= a
  OBVIOUS
<1>4. QED  BY ONLY <1>2, <1>3, sh \in BOOLEAN, a \in Nat, a <= Len(cFile) DEF Reached

LEMMA ReachedThen ==
  ASSUME cFile \in Seq(CUnits), NEW sh, NEW a, NEW b, NEW s, NEW t, NEW c, NEW after, NEW q,
         Reached(sh, a, b, s, t), Reached(s, b, c, after, q)
  PROVE  Reached(sh, a, c, after, t \o q)
<1>1. /\ a \in Nat /\ b \in Nat /\ c \in Nat /\ a <= b /\ b <= c /\ c <= Len(cFile)
      /\ sh \in BOOLEAN /\ s \in BOOLEAN /\ after \in BOOLEAN /\ t \in Seq(CChars) /\ q \in Seq(CChars)
  BY DEF Reached
<1>2. /\ Fronts(sh, SubSeq(cFile, a + 1, b), s, t) /\ Fronts(s, SubSeq(cFile, b + 1, c), after, q)
      /\ kind = "fixed" => Len(t) = b - a /\ Len(q) = c - b
  BY DEF Reached
<1>3. PICK n \in Nat : n = Len(cFile)
  OBVIOUS
<1>4. a <= c /\ b <= n
  BY ONLY <1>1, <1>3, n \in Nat
<1>5. PICK u \in Seq(CUnits) : u = SubSeq(cFile, a + 1, b)
  BY ONLY <1>1, <1>3, <1>4, cFile \in Seq(CUnits), PieceElements
<1>6. PICK w \in Seq(CUnits) : w = SubSeq(cFile, b + 1, c)
  BY ONLY <1>1, <1>3, <1>4, cFile \in Seq(CUnits), PieceElements
<1>7. u \o w = SubSeq(cFile, a + 1, c)
  BY ONLY <1>1, <1>5, <1>6, cFile \in Seq(CUnits), AdjacentPieces, SMTT(30)
<1>8. t \in Seq(Said) /\ q \in Seq(Said)
  BY ONLY <1>1, CharsSaid
<1>9. Fronts(sh, u \o w, after, t \o q)
  BY ONLY <1>1, <1>2, <1>5, <1>6, <1>8, FrontsThen
<1>10. t \o q \in Seq(CChars) /\ Len(t \o q) = Len(t) + Len(q)
  BY ONLY <1>1
<1>11. kind = "fixed" => Len(t \o q) = c - a
  BY ONLY <1>1, <1>2, <1>10
<1>12. QED  BY ONLY <1>1, <1>4, <1>7, <1>9, <1>10, <1>11 DEF Reached

(* What a round reads, and what is at the front of what it leaves. *)
LEMMA RoundReaches ==
  ASSUME cFile \in Seq(CUnits), NEW r \in Code!Rounds, NEW u, NEW h, NEW g, RoundStep(r, u, h, g)
  PROVE  /\ Reached(r.sh, r.from, g.from, g.sh, h.chars)
         /\ SubSeq(u, h.used + 1, Len(u)) = SubSeq(cFile, g.from + 1, g.from + g.kept)
         /\ ~h.ok => g.from < Len(cFile) /\ g.from < g.fetched /\ NoChar(g.sh, RestOf(cFile, g.from))
<1>1. PICK a \in Nat, b \in Nat, s \in BOOLEAN, o \in Seq(CChars), l \in Nat, k \in Nat, c \in Nat :
         r = Round(a, b, s, o, l, k, c) /\ a + k <= b /\ b <= Len(cFile)
  BY RoundsAre
<1>2. r.from = a /\ r.sh = s
  BY ONLY <1>1 DEF Round
<1>3. PICK a2 \in Nat, b2 \in Nat, s2 \in BOOLEAN, o2 \in Seq(CChars), l2 \in Nat, k2 \in Nat, c2 \in Nat :
         g = Round(a2, b2, s2, o2, l2, k2, c2) /\ a2 + k2 <= b2 /\ b2 <= Len(cFile)
  BY RoundsAre DEF RoundStep
<1>4. g.from = a2 /\ g.fetched = b2 /\ g.sh = s2 /\ g.kept = k2
  BY ONLY <1>3 DEF Round
<1>5. PICK n \in Nat, z \in Nat, y \in Nat, w \in Seq(CChars) :
         n = Len(cFile) /\ z = Len(u) /\ y = h.used /\ w = h.chars
  BY ONLY cFile \in Seq(CUnits), RoundStep(r, u, h, g) DEF RoundStep, HelpIs, Helps
<1>6. /\ u \in Seq(CUnits) /\ u = SubSeq(cFile, a + 1, a + z) /\ a + z <= n /\ y <= z
      /\ a2 = a + y /\ k2 = z - y /\ s2 = h.sh
      /\ Fronts(s, SubSeq(u, 1, y), s2, w) /\ (kind = "fixed" => Len(w) = y)
      /\ ~h.ok => y < z /\ NoChar(s2, RestOf(u, y))
  BY ONLY <1>2, <1>4, <1>5, RoundStep(r, u, h, g) DEF RoundStep, HelpIs
<1>7. PICK e \in Nat : e = a + z /\ a <= e /\ e <= n /\ e - a = z /\ a2 + k2 = e /\ a2 <= n /\ a <= a2
  BY ONLY <1>6, a \in Nat, z \in Nat, n \in Nat, a2 \in Nat, k2 \in Nat, y \in Nat
<1>8. SubSeq(u, 1, y) = SubSeq(cFile, a + 1, a2)
  <2>1. a <= e /\ e <= Len(cFile) /\ y <= e - a
    BY ONLY <1>5, <1>6, <1>7
  <2>2. SubSeq(SubSeq(cFile, a + 1, e), 1, y) = SubSeq(cFile, a + 1, a + y)
    BY ONLY <2>1, a \in Nat, e \in Nat, y \in Nat, cFile \in Seq(CUnits), PrefixOfPiece
  <2>3. QED  BY ONLY <1>6, <1>7, <2>2
<1>9. Reached(s, a, a2, s2, w)
  <2>1. kind = "fixed" => Len(w) = a2 - a
    BY ONLY <1>6, a \in Nat, y \in Nat
  <2>2. QED  BY ONLY <1>5, <1>6, <1>7, <1>8, <2>1, s \in BOOLEAN, s2 \in BOOLEAN, w \in Seq(CChars),
                     a \in Nat, a2 \in Nat DEF Reached
<1>10. SubSeq(u, y + 1, z) = SubSeq(cFile, a2 + 1, e)
  <2>1. a <= e /\ e <= Len(cFile) /\ y <= z /\ z <= e - a
    BY ONLY <1>5, <1>6, <1>7, z \in Nat
  <2>2. SubSeq(SubSeq(cFile, a + 1, e), y + 1, z) = SubSeq(cFile, (a + y) + 1, a + z)
    BY ONLY <2>1, a \in Nat, e \in Nat, y \in Nat, z \in Nat, cFile \in Seq(CUnits), PieceOfPiece
  <2>3. QED  BY ONLY <1>6, <1>7, <2>2
<1>11. ASSUME ~h.ok PROVE a2 < n /\ a2 < b2 /\ NoChar(s2, RestOf(cFile, a2))
  <2>1. a2 < e /\ a2 < n /\ e <= b2
    BY ONLY <1>3, <1>6, <1>7, <1>11, a2 \in Nat, k2 \in Nat, e \in Nat, n \in Nat, z \in Nat, y \in Nat, b2 \in Nat
  <2>2. PICK x \in Seq(CUnits) : x = SubSeq(cFile, a2 + 1, e) /\ Len(x) = e - a2
                                  /\ \A i \in 1..(e - a2) : x[i] = cFile[a2 + i]
    <3>1. a2 <= e /\ e <= Len(cFile)
      BY ONLY <1>5, <1>7, <2>1, a2 \in Nat, e \in Nat
    <3>2. /\ SubSeq(cFile, a2 + 1, e) \in Seq(CUnits) /\ Len(SubSeq(cFile, a2 + 1, e)) = e - a2
          /\ \A i \in 1..(e - a2) : SubSeq(cFile, a2 + 1, e)[i] = cFile[a2 + i]
      BY ONLY <3>1, a2 \in Nat, e \in Nat, cFile \in Seq(CUnits), PieceElements
    <3>3. QED  BY ONLY <3>2
  <2>3. PICK v \in Seq(CUnits) : v = RestOf(cFile, a2) /\ Len(v) = n - a2
                                  /\ \A i \in 1..(n - a2) : v[i] = cFile[a2 + i]
    <3>1. a2 <= Len(cFile)
      BY ONLY <1>5, <1>7
    <3>2. /\ SubSeq(cFile, a2 + 1, Len(cFile)) \in Seq(CUnits)
          /\ Len(SubSeq(cFile, a2 + 1, Len(cFile))) = Len(cFile) - a2
          /\ \A i \in 1..(Len(cFile) - a2) : SubSeq(cFile, a2 + 1, Len(cFile))[i] = cFile[a2 + i]
      BY ONLY <3>1, a2 \in Nat, cFile \in Seq(CUnits), SuffixElements
    <3>3. QED  BY ONLY <1>5, <3>2 DEF RestOf
  <2>4. NoChar(s2, x)
    BY ONLY <1>5, <1>6, <1>10, <1>11, <2>2 DEF RestOf
  <2>5. Len(x) # 0 /\ Len(x) <= Len(v)
    <3>1. e - a2 # 0 /\ e - a2 <= n - a2
      BY ONLY <1>7, <2>1, a2 \in Nat, e \in Nat, n \in Nat
    <3>2. Len(x) = e - a2 /\ Len(v) = n - a2
      BY ONLY <2>2, <2>3
    <3>3. QED  BY ONLY <3>1, <3>2
  <2>6. \A i \in 1..Len(x) : v[i] = x[i]
    <3>1. \A i \in 1..(e - a2) : i \in 1..(n - a2)
      BY ONLY <1>7, a2 \in Nat, e \in Nat, n \in Nat
    <3>2. QED  BY ONLY <2>2, <2>3, <3>1
  <2>7. NoChar(s2, v)
    BY ONLY <2>4, <2>5, <2>6, x \in Seq(CUnits), v \in Seq(CUnits), NoCharLonger
  <2>8. QED  BY ONLY <2>1, <2>3, <2>7
<1>12. QED  BY ONLY <1>2, <1>4, <1>5, <1>7, <1>9, <1>10, <1>11

(* What get_main() ends with: where it has come to, a bad unit that it     *)
(* skips left out, the characters on the way, and why it ended there.      *)
GotTo(g) == IF g.end = "bad" THEN g.from - 1 ELSE g.from

GetsTo(r, g, t) ==
    /\ Reached(r.sh, r.from, GotTo(g), g.sh, t)
    /\ g.from \in Nat /\ g.fetched \in Nat /\ g.from <= g.fetched /\ g.fetched <= Len(cFile)
    /\ g.out = r.out \o t
    /\ g.end \in {"full", "fails", "end", "part", "stop", "bad"}
    /\ g.end = "full" => Len(t) = r.left
    /\ g.end \in {"bad", "part"} => g.out = <<>>
    /\ g.end \in {"bad", "stop"} => GotTo(g) < Len(cFile) /\ NoChar(g.sh, RestOf(cFile, GotTo(g)))
    /\ g.end \in {"end", "part"} => GotTo(g) = Len(cFile) \/ Parted(g.sh, RestOf(cFile, GotTo(g)))

(* The units that a round leaves to the next are a part of a character. *)
KeptOk(r) == r.left # 0 => r.kept = 0 \/ Parted(r.sh, SubSeq(cFile, r.from + 1, r.from + r.kept))

LEMMA EndingIs ==
  ASSUME cFile \in Seq(CUnits), NEW r \in Code!Rounds, KeptOk(r), ~GoesRound(r)
  PROVE  \E t : GetsTo(r, Ending(r), t)
<1>1. PICK a \in Nat, b \in Nat, s \in BOOLEAN, o \in Seq(CChars), l \in Nat, k \in Nat, c \in Nat :
         r = Round(a, b, s, o, l, k, c) /\ a + k <= b /\ b <= Len(cFile)
  BY RoundsAre
<1>2. r.from = a /\ r.fetched = b /\ r.sh = s /\ r.out = o /\ r.left = l /\ r.kept = k /\ r.calls = c
  BY ONLY <1>1 DEF Round
<1>3. PICK n \in Nat : n = Len(cFile) /\ a <= b /\ b <= n /\ a <= n
  BY ONLY <1>1, a \in Nat, b \in Nat, k \in Nat, cFile \in Seq(CUnits)
<1>4. Reached(s, a, a, s, <<>>)
  BY ONLY <1>3, s \in BOOLEAN, a \in Nat, ReachedNone
<1>5. o \o <<>> = o /\ Len(<<>>) = 0
  BY ONLY o \in Seq(CChars), ConcatOfNone
<1>6. PICK g : g = Ending(r)
  OBVIOUS
<1>7. CASE l = 0 \/ (Code!Fetches(r) /\ c = 0)
  <2>1. PICK e \in {"full", "fails"} : g = [r EXCEPT !.end = e] /\ (e = "full" => l = 0)
    BY ONLY <1>2, <1>6, <1>7 DEF Ending
  <2>2. g.from = a /\ g.fetched = b /\ g.sh = s /\ g.out = o /\ g.end = e
    BY ONLY <1>1, <2>1 DEF Round
  <2>3. e # "bad" /\ e # "stop" /\ e # "end" /\ e # "part" /\ GotTo(g) = a
    BY ONLY <2>2, e \in {"full", "fails"} DEF GotTo
  <2>4. GetsTo(r, g, <<>>)
    BY ONLY <1>2, <1>3, <1>4, <1>5, <2>1, <2>2, <2>3, a \in Nat, b \in Nat, e \in {"full", "fails"} DEF GetsTo
  <2>5. QED  BY ONLY <1>6, <2>4
<1>8. CASE l # 0 /\ ~(Code!Fetches(r) /\ c = 0)
  <2>1. PICK f \in Nat, e \in Nat, z \in Nat :
            /\ Code!Filled(r) = Round(a, f, s, o, l, k, e) /\ Code!Size(r) = z
            /\ b <= f /\ f <= Len(cFile)
            /\ z = k => a + k = Len(cFile)
    BY ONLY <1>1, <1>8, cFile \in Seq(CUnits), a \in Nat, b \in Nat, l \in Nat, k \in Nat, c \in Nat, FilledIs
  <2>2. CASE z = k
    <3>1. PICK x \in {"end", "part"} : g = [Round(a, f, s, o, l, k, e) EXCEPT !.end = x] /\ (x = "part" => o = <<>>)
      BY ONLY <1>2, <1>6, <1>8, <2>1, <2>2 DEF Ending
    <3>2. g.from = a /\ g.fetched = f /\ g.sh = s /\ g.out = o /\ g.end = x
      BY ONLY <3>1 DEF Round
    <3>3. x # "bad" /\ x # "stop" /\ x # "full" /\ GotTo(g) = a
      BY ONLY <3>2, x \in {"end", "part"} DEF GotTo
    <3>4. a = Len(cFile) \/ Parted(s, RestOf(cFile, a))
      <4>1. a + k = Len(cFile)
        BY ONLY <2>1, <2>2
      <4>2. k = 0 \/ Parted(s, SubSeq(cFile, a + 1, Len(cFile)))
        BY ONLY <1>2, <1>8, <4>1, KeptOk(r) DEF KeptOk
      <4>3. k = 0 => a = Len(cFile)
        BY ONLY <4>1, a \in Nat
      <4>4. QED  BY ONLY <4>2, <4>3 DEF RestOf
    <3>5. a <= f
      BY ONLY <1>3, <2>1, a \in Nat, b \in Nat, f \in Nat
    <3>6. GetsTo(r, g, <<>>)
      BY ONLY <1>2, <1>4, <1>5, <2>1, <3>1, <3>2, <3>3, <3>4, <3>5, a \in Nat, f \in Nat, x \in {"end", "part"} DEF GetsTo
    <3>7. QED  BY ONLY <1>6, <3>6
  <2>3. CASE z # k
    <3>1. PICK h : h = Code!Helped(r)
      OBVIOUS
    <3>2. PICK d : d = Code!Decoded(r, h)
      OBVIOUS
    <3>3. Steps(r)
      BY ONLY <1>2, <1>8, <2>1, <2>3 DEF Steps
    <3>4. ~h.ok
      BY ONLY <3>1, <3>3, ~GoesRound(r) DEF GoesRound
    <3>5. PICK u : RoundStep(r, u, h, d)
      BY <3>1, <3>2, <3>3, RoundSteps
    <3>6. /\ Reached(r.sh, r.from, d.from, d.sh, h.chars)
          /\ d.from < Len(cFile) /\ d.from < d.fetched /\ NoChar(d.sh, RestOf(cFile, d.from))
      BY <3>4, <3>5, RoundReaches
    <3>7. d \in Code!Rounds /\ d.out = o \o h.chars
      BY ONLY <1>2, <3>5 DEF RoundStep
    <3>8. PICK a2 \in Nat, b2 \in Nat, s2 \in BOOLEAN, o2 \in Seq(CChars), l2 \in Nat, k2 \in Nat, c2 \in Nat :
             d = Round(a2, b2, s2, o2, l2, k2, c2) /\ a2 + k2 <= b2 /\ b2 <= Len(cFile)
      BY <3>7, RoundsAre
    <3>9. d.from = a2 /\ d.fetched = b2 /\ d.sh = s2 /\ d.out = o2
      BY ONLY <3>8 DEF Round
    <3>10. g = Code!Rejected(d)
      BY ONLY <1>2, <1>6, <1>8, <2>1, <2>3, <3>1, <3>2 DEF Ending, Further
    <3>11. PICK t : t = h.chars
      OBVIOUS
    <3>12. Reached(s, a, a2, s2, t) /\ o2 = o \o t /\ a2 < Len(cFile) /\ a2 < b2
           /\ NoChar(s2, RestOf(cFile, a2))
      BY ONLY <1>2, <3>6, <3>7, <3>9, <3>11
    <3>13. CASE o2 # <<>>
      <4>1. g = [d EXCEPT !.end = "stop"]
        BY ONLY <3>9, <3>10, <3>13 DEF Code!Rejected
      <4>2. g.from = a2 /\ g.fetched = b2 /\ g.sh = s2 /\ g.out = o2 /\ g.end = "stop"
        BY ONLY <3>8, <4>1 DEF Round
      <4>3. GotTo(g) = a2
        BY ONLY <4>2 DEF GotTo
      <4>4. a2 <= b2
        BY ONLY <3>12, a2 \in Nat, b2 \in Nat
      <4>5. GetsTo(r, g, t)
        BY ONLY <1>2, <3>8, <3>12, <4>2, <4>3, <4>4, a2 \in Nat, b2 \in Nat DEF GetsTo
      <4>6. QED  BY ONLY <1>6, <4>5
    <3>14. CASE o2 = <<>>
      <4>1. PICK y \in Nat : y = a2 + 1 /\ y <= b2 /\ y - 1 = a2
        BY ONLY <3>12, a2 \in Nat, b2 \in Nat
      <4>2. g = [d EXCEPT !.end = "bad", !.from = y]
        BY ONLY <3>9, <3>10, <3>14, <4>1 DEF Code!Rejected, Code!SkipOne
      <4>3. g.from = y /\ g.fetched = b2 /\ g.sh = s2 /\ g.out = o2 /\ g.end = "bad"
        BY ONLY <3>8, <4>2 DEF Round
      <4>4. GotTo(g) = a2
        BY ONLY <4>1, <4>3 DEF GotTo
      <4>5. GetsTo(r, g, t)
        BY ONLY <1>2, <3>8, <3>12, <3>14, <4>1, <4>3, <4>4, y \in Nat, b2 \in Nat DEF GetsTo
      <4>6. QED  BY ONLY <1>6, <4>5
    <3>15. QED  BY ONLY <3>13, <3>14
  <2>4. QED  BY ONLY <2>2, <2>3
<1>9. QED  BY ONLY <1>7, <1>8

(* A round that went on, and what came of the rest. *)
LEMMA RoundThen ==
  ASSUME cFile \in Seq(CUnits), NEW r \in Code!Rounds, NEW u, NEW h, NEW d, RoundStep(r, u, h, d),
         NEW g, NEW q, GetsTo(d, g, q)
  PROVE  GetsTo(r, g, h.chars \o q)
<1>1. PICK t : t = h.chars
  OBVIOUS
<1>2. Reached(r.sh, r.from, d.from, d.sh, t)
  BY <1>1, RoundReaches
<1>3. Reached(d.sh, d.from, GotTo(g), g.sh, q)
  BY ONLY GetsTo(d, g, q) DEF GetsTo
<1>4. Reached(r.sh, r.from, GotTo(g), g.sh, t \o q)
  BY ONLY <1>2, <1>3, cFile \in Seq(CUnits), ReachedThen
<1>5. t \in Seq(CChars) /\ q \in Seq(CChars)
  BY ONLY <1>2, <1>3 DEF Reached
<1>6. PICK o \in Seq(CChars), l \in Nat : o = r.out /\ l = r.left
  <2>1. PICK a \in Nat, b \in Nat, s \in BOOLEAN, o \in Seq(CChars), l \in Nat, k \in Nat, c \in Nat :
         r = Round(a, b, s, o, l, k, c) /\ a + k <= b /\ b <= Len(cFile)
    BY RoundsAre
  <2>2. r.out = o /\ r.left = l
    BY ONLY <2>1 DEF Round
  <2>3. QED  BY ONLY <2>2, o \in Seq(CChars), l \in Nat
<1>7. d.out = o \o t /\ d.left = l - Len(t)
  BY ONLY <1>1, <1>6, RoundStep(r, u, h, d) DEF RoundStep
<1>8. (o \o t) \o q = o \o (t \o q)
  BY ONLY <1>5, o \in Seq(CChars), ConcatThree
<1>9. g.out = o \o (t \o q)
  BY ONLY <1>7, <1>8, GetsTo(d, g, q) DEF GetsTo
<1>10. Len(q) = l - Len(t) => Len(t \o q) = l
  <2>1. PICK x \in Nat, y \in Nat : x = Len(t) /\ y = Len(q) /\ Len(t \o q) = x + y
    BY ONLY <1>5
  <2>2. y = l - x => x + y = l
    BY ONLY x \in Nat, y \in Nat, l \in Nat
  <2>3. QED  BY ONLY <2>1, <2>2
<1>11. GetsTo(r, g, t \o q)
  BY ONLY <1>4, <1>6, <1>7, <1>9, <1>10, GetsTo(d, g, q) DEF GetsTo
<1>12. QED  BY ONLY <1>1, <1>11

LEMMA KeptFurther ==
  ASSUME NEW r, NEW u, NEW h, NEW d, RoundStep(r, u, h, d), h.ok, r.left \in Nat,
         SubSeq(u, h.used + 1, Len(u)) = SubSeq(cFile, d.from + 1, d.from + d.kept)
  PROVE  KeptOk(d)
<1>1. h.used = Len(u) \/ Len(h.chars) = r.left \/ Parted(h.sh, RestOf(u, h.used))
  BY ONLY h.ok, RoundStep(r, u, h, d) DEF RoundStep, HelpIs
<1>2. d.left = r.left - Len(h.chars) /\ d.kept = Len(u) - h.used /\ d.sh = h.sh
  BY ONLY RoundStep(r, u, h, d) DEF RoundStep
<1>3. h.used = Len(u) => d.kept = 0
  <2>1. Len(u) \in Nat
    BY ONLY RoundStep(r, u, h, d) DEF RoundStep
  <2>2. QED  BY ONLY <1>2, <2>1
<1>4. Len(h.chars) = r.left => d.left = 0
  BY ONLY <1>2, r.left \in Nat
<1>5. Parted(h.sh, RestOf(u, h.used)) => Parted(d.sh, SubSeq(cFile, d.from + 1, d.from + d.kept))
  BY ONLY <1>2, SubSeq(u, h.used + 1, Len(u)) = SubSeq(cFile, d.from + 1, d.from + d.kept) DEF RestOf
<1>6. QED  BY ONLY <1>1, <1>3, <1>4, <1>5 DEF KeptOk

LEMMA GetMainIs ==
  ASSUME cFile \in Seq(CUnits)
  PROVE  \A r \in Code!Rounds : KeptOk(r) => \E t : GetsTo(r, Code!GetMain[r], t)
<1>1. PICK f : f = Code!GetMain
  OBVIOUS
<1>2. f = GetMain0(f)
  BY <1>1, GetMainUnfolds
<1>a. PICK D : D = Code!Rounds
  OBVIOUS
<1>b. PICK n \in Nat : n = Len(cFile)
  OBVIOUS
<1>3. PICK m : m = [x \in D |-> IF Steps(x) THEN n - (x.from + x.kept) + 1 ELSE 0]
  OBVIOUS
<1>4. PICK S : S = {r \in D : KeptOk(r) => \E t : GetsTo(r, f[r], t)}
  OBVIOUS
<1>5. \A x \in D : Steps(x) => /\ x.from + x.kept \in 0..n /\ Further(x) \in D
                               /\ Further(x).from + Further(x).kept \in 0..n
                               /\ x.from + x.kept < Further(x).from + Further(x).kept
  <2>1. ASSUME NEW x \in Code!Rounds, Steps(x)
        PROVE  /\ x.from + x.kept \in 0..Len(cFile) /\ Further(x) \in Code!Rounds
               /\ Further(x).from + Further(x).kept \in 0..Len(cFile)
               /\ x.from + x.kept < Further(x).from + Further(x).kept
    BY <2>1, FurtherIs
  <2>2. QED  BY ONLY <1>a, <1>b, <2>1
<1>6. m \in [D -> Nat]
  <2>1. \A x \in D : (IF Steps(x) THEN n - (x.from + x.kept) + 1 ELSE 0) \in Nat
    BY ONLY <1>5, n \in Nat
  <2>2. QED  BY ONLY <1>3, <2>1
<1>7. ASSUME NEW r \in D, \A z \in D : m[z] < m[r] => z \in S PROVE r \in S
  <2>1. r \in Code!Rounds
    BY ONLY <1>a, r \in D
  <2>2. f[r] = IF GoesRound(r) THEN f[Further(r)] ELSE Ending(r)
    BY ONLY <1>2, <2>1, GetMainEnds
  <2>3. SUFFICES ASSUME KeptOk(r) PROVE \E t : GetsTo(r, f[r], t)
    BY <1>4
  <2>4. CASE ~GoesRound(r)
    <3>1. \E t : GetsTo(r, Ending(r), t)
      BY <2>1, <2>3, <2>4, EndingIs
    <3>2. QED  BY ONLY <2>2, <2>4, <3>1
  <2>5. CASE GoesRound(r)
    <3>1. PICK h : h = Code!Helped(r)
      OBVIOUS
    <3>2. PICK d : d = Code!Decoded(r, h)
      OBVIOUS
    <3>3. Steps(r) /\ h.ok /\ d = Further(r)
      BY ONLY <2>5, <3>1, <3>2 DEF GoesRound, Further
    <3>4. PICK u : RoundStep(r, u, h, d)
      BY <2>1, <3>1, <3>2, <3>3, RoundSteps
    <3>5. KeptOk(d)
      <4>1. SubSeq(u, h.used + 1, Len(u)) = SubSeq(cFile, d.from + 1, d.from + d.kept)
        BY <2>1, <3>4, RoundReaches
      <4>2. r.left \in Nat
        BY ONLY <2>1 DEF Code!Rounds
      <4>3. QED  BY ONLY <3>3, <3>4, <4>1, <4>2, KeptFurther
    <3>6. m[d] < m[r] /\ d \in D
      <4>1. PICK i \in 0..n, j \in 0..n : i = r.from + r.kept /\ j = d.from + d.kept /\ i < j /\ d \in D
        BY ONLY <1>5, <3>3, r \in D
      <4>2. m[r] = n - i + 1 /\ (m[d] = n - j + 1 \/ m[d] = 0)
        BY ONLY <1>3, <3>3, <4>1, r \in D
      <4>3. QED  BY ONLY <4>1, <4>2, i \in 0..n, j \in 0..n, n \in Nat
    <3>7. PICK q : GetsTo(d, f[d], q)
      BY ONLY <1>4, <1>7, <3>5, <3>6
    <3>8. GetsTo(r, f[d], h.chars \o q)
      BY <2>1, <3>4, <3>7, RoundThen
    <3>9. QED  BY ONLY <2>2, <2>5, <3>3, <3>8
  <2>6. QED  BY <2>4, <2>5
<1>8. \A r \in D : (\A z \in D : m[z] < m[r] => z \in S) => r \in S
  BY ONLY <1>7
<1>9. \A r \in D : r \in S
  BY ONLY <1>6, <1>8, ByMeasure
<1>10. QED  BY ONLY <1>1, <1>4, <1>9, <1>a

(* What code_cvt has counted.  The units before p are n characters and     *)
(* leave a state behind, whatever comes at p that does not make another    *)
(* character of the units before it.                                       *)
Joins(f, p, v) == v = <<>> \/ v[1] # "t" \/ (p < Len(f) /\ v[1] = f[p + 1])
CountedWith(m, f, p, n, sh, v) ==
    /\ m[[sh |-> FALSE, units |-> SubSeq(f, 1, p) \o v]].count = n + m[[sh |-> sh, units |-> v]].count
    /\ m[[sh |-> FALSE, units |-> SubSeq(f, 1, p) \o v]].sh = m[[sh |-> sh, units |-> v]].sh
Counted(m, f, p, n, sh) == \A v \in Seq(CUnits) : Joins(f, p, v) => CountedWith(m, f, p, n, sh, v)

LEMMA CountedStart ==
  ASSUME NEW f \in Seq(CUnits)
  PROVE  Counted(Code!Meaning, f, 0, 0, FALSE)
<1>1. PICK m : m = Code!Meaning
  OBVIOUS
<1>2. ASSUME NEW v \in Seq(CUnits) PROVE CountedWith(m, f, 0, 0, FALSE, v)
  <2>1. SubSeq(f, 1, 0) = <<>> /\ <<>> \o v = v
    BY RestNone, ConcatOfNone
  <2>2. PICK x : x = m[[sh |-> FALSE, units |-> v]]
    OBVIOUS
  <2>3. x \in Meanings
    BY <1>1, <2>2, SaysType DEF Code!Says
  <2>4. x.count \in Nat
    BY ONLY <2>3 DEF Meanings
  <2>5. x.count = 0 + x.count
    BY ONLY <2>4
  <2>6. QED  BY ONLY <2>1, <2>2, <2>5 DEF CountedWith
<1>3. QED  BY ONLY <1>1, <1>2 DEF Counted

(* Some more units, w, that are t. *)
Longer(f, p, g, b, w) ==
    /\ p <= Len(f) /\ SubSeq(g, 1, b) = SubSeq(f, 1, p) \o w
    /\ \A v \in Seq(CUnits) : Joins(g, b, v) => Joins(f, p, w \o v)

LEMMA CountedMore ==
  ASSUME NEW f \in Seq(CUnits), NEW p \in Nat, NEW g \in Seq(CUnits), NEW b \in Nat,
         NEW n \in Nat, NEW sh \in BOOLEAN, NEW s \in BOOLEAN, NEW w \in Seq(CUnits), NEW t \in Seq(Said),
         Longer(f, p, g, b, w), Counted(Code!Meaning, f, p, n, sh), Fronts(sh, w, s, t)
  PROVE  Counted(Code!Meaning, g, b, n + Len(t), s)
<1>0. /\ p <= Len(f) /\ SubSeq(g, 1, b) = SubSeq(f, 1, p) \o w
      /\ \A v \in Seq(CUnits) : Joins(g, b, v) => Joins(f, p, w \o v)
  BY DEF Longer
<1>1. PICK m : m = Code!Meaning
  OBVIOUS
<1>2. ASSUME NEW v \in Seq(CUnits), Joins(g, b, v) PROVE CountedWith(m, g, b, n + Len(t), s, v)
  <2>1. PICK z \in Seq(CUnits) : z = w \o v
    BY ONLY w \in Seq(CUnits), v \in Seq(CUnits), BehindFirst
  <2>2. Joins(f, p, z)
    BY ONLY <1>0, <1>2, <2>1, v \in Seq(CUnits)
  <2>3. PICK a \in Seq(CUnits) : a = SubSeq(f, 1, p)
    BY ONLY <1>0, f \in Seq(CUnits), p \in Nat, PrefixElements
  <2>4. (a \o w) \o v = a \o z
    <3>1. \A i, j, k \in Seq(CUnits) : Regroups(i, j, k)
      BY ConcatThree
    <3>2. Regroups(a, w, v)
      BY ONLY <3>1, w \in Seq(CUnits), v \in Seq(CUnits), a \in Seq(CUnits), Zenon
    <3>3. QED  BY ONLY <2>1, <3>2 DEF Regroups
  <2>5. CountedWith(m, f, p, n, sh, z)
    BY ONLY <1>1, <2>2, z \in Seq(CUnits), Counted(Code!Meaning, f, p, n, sh) DEF Counted
  <2>6. PICK x : x = m[[sh |-> FALSE, units |-> a \o z]]
    OBVIOUS
  <2>7. PICK y : y = m[[sh |-> s, units |-> v]]
    OBVIOUS
  <2>8. m[[sh |-> sh, units |-> z]] = Added(t, y)
    BY ONLY <1>1, <2>1, <2>7, v \in Seq(CUnits), Fronts(sh, w, s, t) DEF Fronts, Code!Says
  <2>9. x.count = n + Added(t, y).count /\ x.sh = Added(t, y).sh
    BY ONLY <2>3, <2>5, <2>6, <2>8 DEF CountedWith
  <2>10. Added(t, y).count = y.count + Len(t) /\ Added(t, y).sh = y.sh
    BY ONLY DEF Added
  <2>11. y.count \in Nat
    <3>1. y \in Meanings
      BY <1>1, <2>7, SaysType DEF Code!Says
    <3>2. QED  BY ONLY <3>1 DEF Meanings
  <2>12. x.count = (n + Len(t)) + y.count
    <3>1. PICK i \in Nat, j \in Nat : i = Len(t) /\ j = y.count
      BY ONLY <2>11, t \in Seq(Said)
    <3>2. x.count = n + (j + i)
      BY ONLY <2>9, <2>10, <3>1
    <3>3. n + (j + i) = (n + i) + j
      BY ONLY i \in Nat, j \in Nat, n \in Nat
    <3>4. QED  BY ONLY <3>1, <3>2, <3>3
  <2>13. SubSeq(g, 1, b) \o v = a \o z
    BY ONLY <1>0, <2>3, <2>4
  <2>14. QED  BY ONLY <2>6, <2>7, <2>9, <2>10, <2>12, <2>13 DEF CountedWith
<1>3. QED  BY ONLY <1>1, <1>2 DEF Counted

LEMMA CountedRead ==
  ASSUME cFile \in Seq(CUnits), NEW p, NEW n \in Nat, NEW sh, NEW b, NEW s, NEW t,
         Counted(Code!Meaning, cFile, p, n, sh), Reached(sh, p, b, s, t)
  PROVE  Counted(Code!Meaning, cFile, b, n + Len(t), s)
<1>1. /\ p \in Nat /\ b \in Nat /\ p <= b /\ b <= Len(cFile)
      /\ sh \in BOOLEAN /\ s \in BOOLEAN /\ t \in Seq(CChars)
      /\ Fronts(sh, SubSeq(cFile, p + 1, b), s, t)
  BY DEF Reached
<1>2. PICK w \in Seq(CUnits) : /\ w = SubSeq(cFile, p + 1, b) /\ Len(w) = b - p
                              /\ \A i \in 1..(b - p) : w[i] = cFile[p + i]
  <2>1. /\ SubSeq(cFile, p + 1, b) \in Seq(CUnits) /\ Len(SubSeq(cFile, p + 1, b)) = b - p
        /\ \A i \in 1..(b - p) : SubSeq(cFile, p + 1, b)[i] = cFile[p + i]
    BY ONLY <1>1, cFile \in Seq(CUnits), PieceElements
  <2>2. QED  BY ONLY <2>1
<1>3. SubSeq(cFile, 1, b) = SubSeq(cFile, 1, p) \o w
  BY ONLY <1>1, <1>2, cFile \in Seq(CUnits), PrefixAndPiece
<1>4. ASSUME NEW v \in Seq(CUnits), Joins(cFile, b, v) PROVE Joins(cFile, p, w \o v)
  <2>1. CASE b = p
    <3>1. w = <<>>
      BY ONLY <1>1, <1>2, <2>1, w \in Seq(CUnits)
    <3>2. w \o v = v
      BY ONLY <3>1, v \in Seq(CUnits), ConcatOfNone
    <3>3. QED  BY ONLY <1>4, <2>1, <3>2
  <2>2. CASE b # p
    <3>1. \A i \in 1..Len(w) : (w \o v)[i] = w[i]
      BY ONLY w \in Seq(CUnits), v \in Seq(CUnits), BehindFirst
    <3>2. 1 \in 1..(b - p) /\ p < b
      BY ONLY <1>1, <2>2
    <3>3. (w \o v)[1] = cFile[p + 1]
      BY ONLY <1>2, <3>1, <3>2
    <3>4. p < Len(cFile)
      <4>1. PICK l \in Nat : l = Len(cFile)
        BY ONLY cFile \in Seq(CUnits)
      <4>2. b <= l
        BY ONLY <1>1, <4>1
      <4>3. p < l
        BY ONLY <1>1, <3>2, <4>2, l \in Nat
      <4>4. QED  BY ONLY <4>1, <4>3
    <3>5. QED  BY ONLY <3>3, <3>4 DEF Joins
  <2>3. QED  BY ONLY <2>1, <2>2
<1>5. t \in Seq(Said)
  BY ONLY <1>1, CharsSaid
<1>6. p <= Len(cFile)
  BY ONLY <1>1, cFile \in Seq(CUnits)
<1>7. Fronts(sh, w, s, t)
  BY ONLY <1>1, <1>2
<1>8. \A v \in Seq(CUnits) : Joins(cFile, b, v) => Joins(cFile, p, w \o v)
  BY ONLY <1>4
<1>9. Longer(cFile, p, cFile, b, w)
  BY ONLY <1>3, <1>6, <1>8 DEF Longer
<1>10. QED  BY ONLY <1>1, <1>5, <1>7, <1>9, cFile \in Seq(CUnits), w \in Seq(CUnits), n \in Nat,
                   Counted(Code!Meaning, cFile, p, n, sh), CountedMore

(* What a unit that is no character says is that it is bad, or cut off.    *)
Unread(sh, z) == z # <<>> /\ z[1] \notin Code!Shifts /\ z[1] \notin {"a", "z"} /\ ~Paired(sh, z)
SaysOne(sh, z, e) ==
    LET y == Code!Says(sh, RestOf(z, 1))
    IN Code!Says(sh, z) = [text |-> <<e>> \o y.text, count |-> y.count, sh |-> y.sh]

LEMMA NoCharSays ==
  ASSUME NEW sh \in BOOLEAN, NEW z \in Seq(CUnits), Unread(sh, z)
  PROVE  SaysOne(sh, z, IF Parted(sh, z) THEN "part" ELSE "bad")
<1>a. PICK x : x = z[1]
  OBVIOUS
<1>b. z # <<>> /\ x \notin Code!Shifts /\ x \notin {"a", "z"} /\ ~Paired(sh, z)
  BY ONLY <1>a, Unread(sh, z) DEF Unread
<1>c. PICK v : v = RestOf(z, 1)
  OBVIOUS
<1>d. v = SubSeq(z, 2, Len(z)) /\ v \in Seq(CUnits)
  <2>1. 1 + 1 = 2
    OBVIOUS
  <2>2. v = SubSeq(z, 2, Len(z))
    BY ONLY <1>c, <2>1 DEF RestOf
  <2>3. QED  BY <1>b, <2>2
<1>e. PICK y : y = Code!Says(sh, v)
  OBVIOUS
<1>1. PICK r : r = Code!Plain(sh, z)
  OBVIOUS
<1>2. ~IsChar(sh, z, r)
  BY <1>a, <1>b DEF IsChar
<1>3. PICK e \in {"bad", "part"} : r = [is |-> e, len |-> 1, sh |-> sh] /\ (e = "part" <=> Parted(sh, z))
  <2>1. \/ Parted(sh, z) /\ r = [is |-> "part", len |-> 1, sh |-> sh]
        \/ ~Parted(sh, z) /\ r = [is |-> "bad", len |-> 1, sh |-> sh]
    BY <1>1, <1>2, <1>b, PlainIs
  <2>2. QED  BY ONLY <2>1
<1>4. r.is = e /\ r.is # "char" /\ r.len = 1 /\ r.sh = sh
  BY ONLY <1>3, e \in {"bad", "part"}
<1>5. Head(z) = x
  BY <1>a, <1>b
<1>6. PICK p : p = Piece(sh, z)
  OBVIOUS
<1>7. p = [text |-> <<e>>, took |-> 0, len |-> 1, sh |-> sh]
  BY ONLY <1>1, <1>4, <1>5, <1>6, <1>b DEF Piece
<1>8. p.text = <<e>> /\ p.took = 0 /\ p.len + 1 = 2 /\ p.sh = sh
  BY ONLY <1>7
<1>9. Code!Says(sh, z) = Joined(p, Code!Says(p.sh, SubSeq(z, p.len + 1, Len(z))))
  BY <1>6, <1>b, SaysPiece
<1>10. Code!Says(sh, z) = Joined(p, y)
  BY ONLY <1>8, <1>9, <1>d, <1>e
<1>11. y.count + 0 = y.count
  <2>2. y \in Meanings
    BY <1>d, <1>e, SaysType
  <2>3. y.count \in Nat
    BY ONLY <2>2 DEF Meanings
  <2>4. QED  BY ONLY <2>3
<1>12. Joined(p, y) = [text |-> <<e>> \o y.text, count |-> y.count, sh |-> y.sh]
  BY ONLY <1>8, <1>11 DEF Joined
<1>13. e = IF Parted(sh, z) THEN "part" ELSE "bad"
  BY ONLY <1>3, e \in {"bad", "part"}
<1>14. QED  BY ONLY <1>10, <1>12, <1>13, <1>c, <1>e DEF SaysOne

(* One bad unit, which counts as no character. *)
LEMMA CountedBad ==
  ASSUME cFile \in Seq(CUnits), NEW p \in Nat, NEW n \in Nat, NEW sh \in BOOLEAN,
         p < Len(cFile), NoChar(sh, RestOf(cFile, p)), Counted(Code!Meaning, cFile, p, n, sh)
  PROVE  Counted(Code!Meaning, cFile, p + 1, n, sh)
<1>1. PICK m : m = Code!Meaning
  OBVIOUS
<1>2. PICK l \in Nat : l = Len(cFile) /\ p < l /\ p + 1 <= l
  OBVIOUS
<1>3. PICK b \in Nat : b = p + 1
  OBVIOUS
<1>4. PICK x \in CUnits : x = cFile[b]
  <2>1. b \in 1..Len(cFile)
    BY ONLY <1>2, <1>3, p \in Nat
  <2>2. QED  BY ONLY <2>1, cFile \in Seq(CUnits)
<1>5. PICK w : w = RestOf(cFile, p)
  OBVIOUS
<1>6. w \in Seq(CUnits) /\ Len(w) = l - p /\ w[1] = x /\ (b < l => Len(w) > 1 /\ w[2] = cFile[b + 1])
  <2>1. /\ SubSeq(cFile, p + 1, Len(cFile)) \in Seq(CUnits)
        /\ Len(SubSeq(cFile, p + 1, Len(cFile))) = Len(cFile) - p
        /\ \A i \in 1..(Len(cFile) - p) : SubSeq(cFile, p + 1, Len(cFile))[i] = cFile[p + i]
    <3>1. p <= Len(cFile)
      BY ONLY <1>2, p \in Nat
    <3>2. QED  BY ONLY <3>1, p \in Nat, cFile \in Seq(CUnits), SuffixElements
  <2>2. w \in Seq(CUnits) /\ Len(w) = l - p /\ \A i \in 1..(l - p) : w[i] = cFile[p + i]
    BY ONLY <1>2, <1>5, <2>1 DEF RestOf
  <2>3. 1 \in 1..(l - p) /\ (b < l => 2 \in 1..(l - p) /\ p + 2 = b + 1 /\ l - p > 1)
    BY ONLY <1>2, <1>3, p \in Nat, l \in Nat
  <2>4. QED  BY ONLY <1>3, <1>4, <2>2, <2>3
<1>7. x \notin Code!Shifts /\ x \notin {"a", "z"} /\ ~Paired(sh, w)
  BY ONLY <1>5, <1>6, NoChar(sh, RestOf(cFile, p)) DEF NoChar
<1>8. PICK a \in Seq(CUnits) : a = SubSeq(cFile, 1, p)
  <2>1. p <= Len(cFile)
    BY ONLY <1>2, p \in Nat
  <2>2. QED  BY ONLY <2>1, p \in Nat, cFile \in Seq(CUnits), PrefixElements
<1>9. PICK d : d = SubSeq(cFile, p + 1, b)
  OBVIOUS
<1>10. d \in Seq(CUnits) /\ Len(d) = 1 /\ d[1] = x /\ SubSeq(cFile, 1, b) = a \o d
  <2>1. p <= b /\ b <= Len(cFile) /\ b - p = 1 /\ 1 \in 1..(b - p) /\ p + 1 = b
    BY ONLY <1>2, <1>3, p \in Nat
  <2>2. /\ SubSeq(cFile, p + 1, b) \in Seq(CUnits) /\ Len(SubSeq(cFile, p + 1, b)) = b - p
        /\ \A i \in 1..(b - p) : SubSeq(cFile, p + 1, b)[i] = cFile[p + i]
    BY ONLY <2>1, p \in Nat, b \in Nat, cFile \in Seq(CUnits), PieceElements
  <2>3. SubSeq(cFile, 1, p) \o SubSeq(cFile, p + 1, b) = SubSeq(cFile, 1, b)
    BY ONLY <2>1, p \in Nat, b \in Nat, cFile \in Seq(CUnits), PrefixAndPiece
  <2>4. SubSeq(cFile, p + 1, b)[1] = cFile[p + 1]
    BY ONLY <2>1, <2>2
  <2>5. QED  BY ONLY <1>3, <1>4, <1>8, <1>9, <2>1, <2>2, <2>3, <2>4
<1>11. ASSUME NEW v \in Seq(CUnits), Joins(cFile, b, v) PROVE CountedWith(m, cFile, b, n, sh, v)
  <2>1. PICK z : z = d \o v
    OBVIOUS
  <2>2. /\ z \in Seq(CUnits) /\ Len(z) = 1 + Len(v) /\ z[1] = x /\ z # <<>>
        /\ SubSeq(z, 2, Len(z)) = v
    <3>1. /\ z \in Seq(CUnits) /\ Len(z) = Len(d) + Len(v)
          /\ \A i \in 1..Len(d) : z[i] = d[i]
          /\ SubSeq(z, Len(d) + 1, Len(z)) = v
          /\ Len(d) > 0 => z # <<>> /\ Head(z) = d[1]
      <4>1. d \in Seq(CUnits)
        BY ONLY <1>10
      <4>2. QED  BY ONLY <2>1, <4>1, v \in Seq(CUnits), BehindFirst
    <3>2. 1 \in 1..1
      OBVIOUS
    <3>3. QED  BY ONLY <1>10, <3>1, <3>2
  <2>3. Joins(cFile, p, z)
    BY ONLY <1>2, <1>3, <1>4, <2>2 DEF Joins
  <2>4. ~Paired(sh, z)
    <3>1. SUFFICES ASSUME Paired(sh, z) PROVE FALSE
      OBVIOUS
    <3>2. x = "l" /\ Pairs(sh) /\ Len(z) > 1 /\ z[2] = "t"
      BY ONLY <2>2, <3>1 DEF Paired
    <3>3. v # <<>> /\ v[1] = "t"
      <4>1. v # <<>>
        BY ONLY <2>2, <3>2, v \in Seq(CUnits)
      <4>2. d \in Seq(CUnits) /\ Len(d) = 1
        BY ONLY <1>10
      <4>3. (d \o v)[2] = v[1]
        <5>1. d \in Seq(CUnits)
          BY ONLY <4>2
        <5>2. (d \o v)[Len(d) + 1] = v[1]
          BY ONLY <4>1, <5>1, v \in Seq(CUnits), ConcatElements
        <5>3. Len(d) + 1 = 2
          BY ONLY <4>2
        <5>4. QED  BY ONLY <5>2, <5>3
      <4>4. QED  BY ONLY <2>1, <3>2, <4>1, <4>3
    <3>4. b < Len(cFile) /\ v[1] = cFile[b + 1]
      BY ONLY <1>11, <3>3 DEF Joins
    <3>5. Paired(sh, w)
      BY ONLY <1>2, <1>6, <3>2, <3>3, <3>4 DEF Paired
    <3>6. QED  BY ONLY <1>7, <3>5
  <2>5. PICK y : y = Code!Says(sh, v)
    OBVIOUS
  <2>6. Code!Says(sh, z).count = y.count /\ Code!Says(sh, z).sh = y.sh
    <3>1. Unread(sh, z)
      BY ONLY <1>7, <2>2, <2>4 DEF Unread
    <3>2. z \in Seq(CUnits)
      BY ONLY <2>2
    <3>3. PICK e : SaysOne(sh, z, e)
      BY ONLY <3>1, <3>2, sh \in BOOLEAN, NoCharSays
    <3>4. RestOf(z, 1) = v
      <4>1. 1 + 1 = 2
        OBVIOUS
      <4>2. QED  BY ONLY <2>2, <4>1 DEF RestOf
    <3>5. QED  BY ONLY <2>5, <3>3, <3>4 DEF SaysOne
  <2>7. CountedWith(m, cFile, p, n, sh, z)
    BY ONLY <1>1, <2>2, <2>3, Counted(Code!Meaning, cFile, p, n, sh) DEF Counted
  <2>8. (a \o d) \o v = a \o z
    <3>1. \A i, j, k \in Seq(CUnits) : Regroups(i, j, k)
      BY ConcatThree
    <3>2. Regroups(a, d, v)
      BY ONLY <1>10, <3>1, v \in Seq(CUnits), a \in Seq(CUnits), Zenon
    <3>3. QED  BY ONLY <2>1, <3>2 DEF Regroups
  <2>9. SubSeq(cFile, 1, b) \o v = a \o z
    BY ONLY <1>10, <2>8
  <2>10. QED  BY ONLY <1>1, <1>8, <2>5, <2>6, <2>7, <2>9 DEF CountedWith, Code!Says
<1>12. QED  BY ONLY <1>1, <1>3, <1>11 DEF Counted

(* What is written at the end. *)
LEMMA CountedPut ==
  ASSUME cFile \in Seq(CUnits), NEW p, p = Len(cFile), NEW n \in Nat, NEW sh \in BOOLEAN, NEW s \in BOOLEAN,
         NEW w \in Seq(CUnits), w = <<>> \/ w[1] # "t", NEW t \in Seq(CChars),
         Counted(Code!Meaning, cFile, p, n, sh), Fronts(sh, w, s, t),
         NEW g, g = cFile \o w, NEW b, b = p + Len(w)
  PROVE  Counted(Code!Meaning, g, b, n + Len(t), s)
<1>1. p \in Nat /\ b \in Nat /\ g \in Seq(CUnits) /\ Len(g) = b
  OBVIOUS
<1>2. SubSeq(g, 1, b) = g /\ SubSeq(cFile, 1, p) = cFile
  BY ONLY <1>1, p = Len(cFile), cFile \in Seq(CUnits), WholePiece
<1>3. ASSUME NEW v \in Seq(CUnits), Joins(g, b, v) PROVE Joins(cFile, p, w \o v)
  <2>1. v = <<>> \/ v[1] # "t"
    BY ONLY <1>1, <1>3 DEF Joins
  <2>2. CASE w = <<>>
    <3>1. w \o v = v
      BY ONLY <2>2, v \in Seq(CUnits), ConcatOfNone
    <3>2. QED  BY ONLY <2>1, <3>1 DEF Joins
  <2>3. CASE w # <<>>
    <3>1. \A i \in 1..Len(w) : (w \o v)[i] = w[i]
      BY ONLY w \in Seq(CUnits), v \in Seq(CUnits), BehindFirst
    <3>2. 1 \in 1..Len(w)
      BY ONLY <2>3, w \in Seq(CUnits)
    <3>3. (w \o v)[1] # "t"
      BY ONLY <2>3, <3>1, <3>2, w = <<>> \/ w[1] # "t"
    <3>4. QED  BY ONLY <3>3 DEF Joins
  <2>4. QED  BY ONLY <2>2, <2>3
<1>4. \A v \in Seq(CUnits) : Joins(g, b, v) => Joins(cFile, p, w \o v)
  BY ONLY <1>3
<1>5. Longer(cFile, p, g, b, w)
  BY ONLY <1>1, <1>2, <1>4, g = cFile \o w, p = Len(cFile) DEF Longer
<1>6. t \in Seq(Said)
  BY CharsSaid
<1>7. p \in Nat
  BY ONLY <1>1
<1>8. b \in Nat
  BY ONLY <1>1
<1>9. g \in Seq(CUnits)
  BY ONLY <1>1
<1>10. QED  BY ONLY <1>5, <1>6, <1>7, <1>8, <1>9, SMTT(60), cFile \in Seq(CUnits), n \in Nat, sh \in BOOLEAN, s \in BOOLEAN,
                   w \in Seq(CUnits), Counted(Code!Meaning, cFile, p, n, sh), Fronts(sh, w, s, t), CountedMore

(* Only one kind of encoding has a shift state to be in. *)
LEMMA NoShiftState ==
  ASSUME kind # "shift", NEW f \in BOOLEAN, f = FALSE
  PROVE  \A u \in Seq(CUnits) : Code!Says(f, u).sh = f
<1>1. PICK D : D = Seq(CUnits)
  OBVIOUS
<1>2. PICK S : S = {u \in D : Code!Says(f, u).sh = f}
  OBVIOUS
<1>3. PICK m : m = [u \in D |-> Len(u)]
  OBVIOUS
<1>4. m \in [D -> Nat]
  BY <1>1, <1>3
<1>5. ASSUME NEW u \in D, \A z \in D : m[z] < m[u] => z \in S PROVE u \in S
  <2>1. u \in Seq(CUnits)
    BY ONLY <1>1, u \in D
  <2>2. CASE u = <<>>
    <3>1. Code!Says(f, <<>>) = [text |-> <<>>, count |-> 0, sh |-> f]
      BY SaysNothing
    <3>2. Code!Says(f, u).sh = f
      BY ONLY <2>2, <3>1
    <3>3. QED  BY ONLY <1>2, <3>2, u \in D
  <2>3. CASE u # <<>>
    <3>1. PICK p : p = Piece(f, u)
      OBVIOUS
    <3>2. p \in Pieces /\ p.len \in 1..Len(u)
      BY <2>1, <2>3, <3>1, PieceType
    <3>3. p.sh = f
      <4>1. Head(u) \notin Code!Shifts
        BY DEF Code!Shifts
      <4>2. PICK r : r = Code!Plain(f, u)
        OBVIOUS
      <4>3. p.sh = r.sh
        BY ONLY <3>1, <4>1, <4>2 DEF Piece
      <4>4. \/ IsChar(f, u, r)
            \/ r = [is |-> "part", len |-> 1, sh |-> f]
            \/ r = [is |-> "bad", len |-> 1, sh |-> f]
        BY <2>1, <2>3, <4>2, PlainIs
      <4>5. CASE IsChar(f, u, r)
        <5>1. r.sh = f \/ r.sh = FALSE
          BY ONLY <4>5 DEF IsChar
        <5>2. QED  BY ONLY <4>3, <5>1, f = FALSE
      <4>7. CASE r = [is |-> "part", len |-> 1, sh |-> f] \/ r = [is |-> "bad", len |-> 1, sh |-> f]
        <5>1. r.sh = f
          BY ONLY <4>7
        <5>2. QED  BY ONLY <4>3, <5>1
      <4>8. QED  BY ONLY <4>4, <4>5, <4>7
    <3>4. PICK k \in Nat : k = p.len /\ k > 0 /\ k <= Len(u)
      BY ONLY <2>1, <3>2
    <3>5. PICK z : z = SubSeq(u, k + 1, Len(u))
      OBVIOUS
    <3>6. z \in Seq(CUnits) /\ Len(z) = Len(u) - k
      <4>1. SubSeq(u, k + 1, Len(u)) \in Seq(CUnits) /\ Len(SubSeq(u, k + 1, Len(u))) = Len(u) - k
        BY ONLY <2>1, <3>4, k \in Nat, SuffixElements
      <4>2. QED  BY ONLY <3>5, <4>1
    <3>7. Len(z) < Len(u)
      BY ONLY <2>1, <3>4, <3>6
    <3>8. z \in S
      <4>1. z \in D
        BY ONLY <1>1, <3>6
      <4>2. m[z] = Len(z) /\ m[u] = Len(u)
        BY ONLY <1>3, <4>1, u \in D
      <4>3. QED  BY ONLY <1>5, <3>7, <4>1, <4>2
    <3>9. Code!Says(f, z).sh = f
      BY ONLY <1>2, <3>8
    <3>10. PICK y : y = Code!Says(f, z)
      OBVIOUS
    <3>11. Code!Says(f, u) = Joined(p, Code!Says(p.sh, SubSeq(u, p.len + 1, Len(u))))
      BY <2>1, <2>3, <3>1, SaysPiece
    <3>12. Code!Says(f, u) = Joined(p, y)
      BY ONLY <3>3, <3>4, <3>5, <3>10, <3>11
    <3>13. Code!Says(f, u).sh = f
      BY ONLY <3>9, <3>10, <3>12 DEF Joined
    <3>14. QED  BY ONLY <1>2, <3>13, u \in D
  <2>4. QED  BY ONLY <2>2, <2>3
<1>6. \A u \in D : (\A z \in D : m[z] < m[u] => z \in S) => u \in S
  BY ONLY <1>5
<1>7. \A u \in D : u \in S
  BY ONLY <1>4, <1>6, ByMeasure
<1>8. QED  BY ONLY <1>1, <1>2, <1>7

LEMMA NoShiftReached ==
  ASSUME cFile \in Seq(CUnits), kind # "shift", NEW f \in BOOLEAN, f = FALSE,
         NEW p, NEW b, NEW s, NEW t, Reached(f, p, b, s, t)
  PROVE  s = f
<1>1. /\ p \in Nat /\ b \in Nat /\ p <= b /\ b <= Len(cFile) /\ s \in BOOLEAN
      /\ Fronts(f, SubSeq(cFile, p + 1, b), s, t)
  BY DEF Reached
<1>2. PICK w \in Seq(CUnits) : w = SubSeq(cFile, p + 1, b)
  <2>1. SubSeq(cFile, p + 1, b) \in Seq(CUnits)
    BY ONLY <1>1, cFile \in Seq(CUnits), PieceElements
  <2>2. QED  BY ONLY <2>1
<1>3. <<>> \in Seq(CUnits) /\ w \o <<>> = w
  BY ONLY w \in Seq(CUnits), ConcatOfNone
<1>4. PICK y : y = Code!Says(s, <<>>)
  OBVIOUS
<1>5. y.sh = s
  <2>1. Code!Says(s, <<>>) = [text |-> <<>>, count |-> 0, sh |-> s]
    BY <1>1, SaysNothing
  <2>2. QED  BY ONLY <1>4, <2>1
<1>6. Code!Says(f, w) = Added(t, y)
  BY ONLY <1>1, <1>2, <1>3, <1>4 DEF Fronts
<1>7. Code!Says(f, w).sh = f
  BY NoShiftState
<1>8. QED  BY ONLY <1>5, <1>6, <1>7 DEF Added

(* The meaning of units depends on the kind of encoding only. *)
LEMMA SameMeaning ==
  ASSUME kind' = kind
  PROVE  Code!Meaning' = Code!Meaning
<1>1. QED  BY DEF Code!Meaning, Code!Shifts, Code!Plain, Code!Took

(* The invariant of code_cvt: what its variables are, and what tell() has  *)
(* counted.  CountInStep alone is not inductive: that the units so far are *)
(* so many characters must hold whatever comes next, and a put of a text   *)
(* must start at the end.                                                  *)
CTypes ==
    /\ kind \in {"fixed", "multi", "shift"}
    /\ cFile \in Seq(CUnits) /\ cPos \in Nat /\ cPos <= Len(cFile)
    /\ cUnread \in Nat /\ cUnread <= cPos
    /\ cStatus \in {"input", "output", "closed"} /\ cTainted \in BOOLEAN
    /\ shifted \in BOOLEAN /\ accu \in Nat /\ skipped \in Nat
    /\ shifted = TRUE => kind = "shift"

CRests ==
    /\ cStatus = "output" => cUnread = 0
    /\ cStatus = "closed" => shifted = FALSE /\ accu = 0 /\ skipped = 0 /\ cUnread = 0 /\ cTainted = FALSE

CTells(p) ==
    IF kind = "fixed" THEN p = accu + skipped
    ELSE /\ Counted(Code!Meaning, cFile, p, accu, shifted)
         /\ cStatus = "output" => p = Len(cFile)

CCount == cStatus # "closed" /\ cTainted = FALSE => CTells(cPos - cUnread)

CInv == CTypes /\ CRests /\ CCount

(* The code's constants. *)
LEMMA CodeConstants ==
  /\ DOMAIN CodeContents = {"fixed", "multi", "shift"}
  /\ \A k \in {"fixed", "multi", "shift"} : CodeContents[k] \in SUBSET Seq(CUnits)
  /\ \A text \in Texts : text \in Seq(CChars)
  /\ MaxAsk \in Nat /\ MaxLen \in Nat
  BY MCCodeAssumption DEF Code!CodeAssumption, CUnits, CChars

LEMMA CInitInv == Code!Init => CInv
<1> SUFFICES ASSUME Code!Init PROVE CInv
  OBVIOUS
<1>1. /\ kind \in {"fixed", "multi", "shift"} /\ cFile \in Seq(CUnits) /\ cPos = 0
      /\ cStatus \in {"input", "output"} /\ cUnread = 0 /\ cTainted = FALSE /\ shifted = FALSE
      /\ accu = 0 /\ skipped = 0
      /\ cStatus = "output" => cFile = <<>>
  BY CodeConstants DEF Code!Init
<1>2. CTypes /\ CRests
  <2>1. cPos \in Nat /\ cPos <= Len(cFile) /\ cUnread \in Nat /\ cUnread <= cPos
    BY ONLY <1>1
  <2>2. cTainted \in BOOLEAN /\ shifted \in BOOLEAN /\ accu \in Nat /\ skipped \in Nat
    BY ONLY <1>1
  <2>3. ~(shifted = TRUE)
    BY ONLY <1>1
  <2>4. QED  BY ONLY <1>1, <2>1, <2>2, <2>3 DEF CTypes, CRests
<1>3. Counted(Code!Meaning, cFile, 0, accu, shifted)
  <2>1. Counted(Code!Meaning, cFile, 0, 0, FALSE)
    BY <1>1, CountedStart
  <2>2. accu = 0 /\ shifted = FALSE
    BY ONLY <1>1
  <2>3. QED  BY ONLY <2>1, <2>2, Zenon
<1>4. CTells(0)
  <2>1. cStatus = "output" => 0 = Len(cFile)
    BY <1>1
  <2>2. 0 = accu + skipped
    BY ONLY <1>1
  <2>3. QED  BY ONLY <1>3, <2>1, <2>2 DEF CTells
<1>5. QED  BY ONLY <1>1, <1>2, <1>4 DEF CInv, CCount

(* A call that leaves the count and the kernel's position as they are. *)
LEMMA CTellsStays ==
  ASSUME NEW p, CTells(p), kind' = kind, cFile' = cFile, accu' = accu, skipped' = skipped,
         shifted' = shifted, cStatus' = cStatus
  PROVE  CTells(p)'
<1>1. Code!Meaning' = Code!Meaning
  BY SameMeaning
<1>2. QED  BY ONLY <1>1, CTells(p), kind' = kind, cFile' = cFile, accu' = accu, skipped' = skipped,
                   shifted' = shifted, cStatus' = cStatus DEF CTells

LEMMA CCountThere ==
  ASSUME NEW p, p = cPos' - cUnread', CTells(p)'
  PROVE  CCount'
  BY ONLY p = cPos' - cUnread', CTells(p)' DEF CCount, CTells

(* What get() has of get_main(). *)
GetStep(n, r) ==
    /\ cPos' = r.fetched /\ cUnread' = r.fetched - r.from
    /\ shifted' = r.sh
    /\ accu' = accu + Len(r.out)
    /\ skipped' = IF r.end = "bad" THEN skipped + 1 ELSE skipped
    /\ cGetError' = (r.end = "fails" /\ r.out # <<>>)
    /\ cGot' = IF r.end = "bad" THEN <<"bad">> ELSE r.out
    /\ threw' = (r.end \in {"bad", "part"} \/ (r.end = "fails" /\ r.out = <<>>))
    /\ cShort' = (Len(r.out) < n /\ ~threw')

LEMMA GetReads ==
  ASSUME CTypes, NEW n \in Nat, Code!Get(n)
  PROVE  \E c, r, t : /\ GetStep(n, r)
                      /\ GetsTo(Round(cPos - cUnread, cPos, shifted, <<>>, n, 0, c), r, t)
<1>1. /\ cFile \in Seq(CUnits) /\ cPos \in Nat /\ cPos <= Len(cFile)
      /\ cUnread \in Nat /\ cUnread <= cPos /\ shifted \in BOOLEAN
  BY DEF CTypes
<1>2. PICK a \in Nat : a = cPos - cUnread /\ a + 0 <= cPos
  BY ONLY <1>1
<1>3. a = Code!KernelTell
  BY ONLY <1>2 DEF Code!KernelTell
<1>4. PICK c \in 0..(2 * MaxAsk) :
         GetStep(n, Code!GetMain[[from |-> a, fetched |-> cPos, sh |-> shifted, out |-> <<>>, left |-> n,
                                  kept |-> 0, calls |-> c, end |-> "on"]])
  BY ONLY <1>3, Code!Get(n), ZenonT(30) DEF Code!Get, GetStep
<1>5. c \in Nat
  BY CodeConstants
<1>6. PICK q : q = Round(a, cPos, shifted, <<>>, n, 0, c)
  OBVIOUS
<1>7. q \in Code!Rounds
  <2>1. <<>> \in Seq(CChars) /\ 0 \in Nat
    OBVIOUS
  <2>2. QED  BY ONLY <1>1, <1>2, <1>5, <1>6, <2>1, a \in Nat, n \in Nat, AreRounds
<1>8. KeptOk(q)
  BY ONLY <1>6 DEF KeptOk, Round
<1>9. PICK r : r = Code!GetMain[q]
  OBVIOUS
<1>10. PICK t : GetsTo(q, r, t)
  BY <1>1, <1>7, <1>8, <1>9, GetMainIs
<1>11. GetStep(n, r)
  BY ONLY <1>4, <1>6, <1>9 DEF Round
<1>12. QED  BY ONLY <1>2, <1>6, <1>10, <1>11

LEMMA CGetKeeps ==
  ASSUME CInv, NEW n \in Nat, Code!Get(n)
  PROVE  CInv'
<1>1. /\ kind' = kind /\ cFile' = cFile /\ cTainted' = cTainted /\ cStatus' = "input"
      /\ cTainted = FALSE /\ cStatus # "closed" /\ (cStatus = "input" \/ (cStatus = "output" /\ shifted = FALSE))
  <2>1. kind' = kind /\ cFile' = cFile /\ cTainted' = cTainted /\ cStatus' = "input"
    BY ONLY Code!Get(n) DEF Code!Get
  <2>2. ~cTainted /\ (cStatus = "input" \/ (cStatus = "output" /\ ~shifted))
    BY ONLY Code!Get(n) DEF Code!Get
  <2>3. cTainted \in BOOLEAN /\ shifted \in BOOLEAN
    BY DEF CInv, CTypes
  <2>4. QED  BY ONLY <2>1, <2>2, <2>3
<1>2. CTypes /\ CTells(cPos - cUnread)
  BY <1>1 DEF CInv, CCount
<1>3. PICK c, r, t : /\ GetStep(n, r)
                     /\ GetsTo(Round(cPos - cUnread, cPos, shifted, <<>>, n, 0, c), r, t)
  BY <1>2, GetReads
<1>4. PICK p : p = cPos - cUnread
  OBVIOUS
<1>5. PICK b : b = GotTo(r)
  OBVIOUS
<1>6. /\ Reached(shifted, p, b, r.sh, t) /\ r.from \in Nat /\ r.fetched \in Nat
      /\ r.from <= r.fetched /\ r.fetched <= Len(cFile) /\ r.out = <<>> \o t
      /\ r.end = "bad" => r.out = <<>> /\ b < Len(cFile) /\ NoChar(r.sh, RestOf(cFile, b))
  BY ONLY <1>3, <1>4, <1>5 DEF GetsTo, Round
<1>7. b \in Nat /\ p \in Nat /\ t \in Seq(CChars) /\ r.sh \in BOOLEAN /\ (kind = "fixed" => Len(t) = b - p) /\ p <= b
  BY ONLY <1>6 DEF Reached
<1>8. r.out = t
  BY ONLY <1>6, <1>7, ConcatOfNone
<1>9. PICK s \in BOOLEAN : s = r.sh
  BY ONLY <1>7
<1>10. PICK x \in Nat : x = Len(t)
  BY ONLY <1>7
<1>11. PICK y \in Nat : y = r.from /\ y = IF r.end = "bad" THEN b + 1 ELSE b
  <2>1. b = IF r.end = "bad" THEN r.from - 1 ELSE r.from
    BY ONLY <1>5 DEF GotTo
  <2>2. QED  BY ONLY <1>6, <1>7, <2>1
<1>12. shifted' = s /\ accu' = accu + x /\ skipped' = (IF r.end = "bad" THEN skipped + 1 ELSE skipped)
       /\ cPos' = r.fetched /\ cUnread' = r.fetched - r.from
  BY ONLY <1>3, <1>8, <1>9, <1>10 DEF GetStep
<1>13. s = TRUE => kind = "shift"
  <2>1. SUFFICES ASSUME kind # "shift" PROVE s = FALSE
    BY s \in BOOLEAN
  <2>2. PICK f \in BOOLEAN : f = FALSE
    OBVIOUS
  <2>3. shifted = f
    BY <1>2, <2>1, <2>2 DEF CTypes
  <2>4. Reached(f, p, b, s, t)
    BY ONLY <1>6, <1>9, <2>3
  <2>5. cFile \in Seq(CUnits)
    BY ONLY <1>2 DEF CTypes
  <2>6. s = f
    BY ONLY <2>1, <2>2, <2>4, <2>5, f \in BOOLEAN, NoShiftReached
  <2>7. QED  BY ONLY <2>2, <2>6
<1>14. /\ cPos' \in Nat /\ cUnread' \in Nat /\ cUnread' <= cPos' /\ cPos' - cUnread' = y
  <2>1. PICK i \in Nat, j \in Nat : i = r.from /\ j = r.fetched /\ i <= j
    BY ONLY <1>6
  <2>2. j \in Nat /\ j - i \in Nat /\ j - i <= j /\ j - (j - i) = i
    BY ONLY <2>1, i \in Nat, j \in Nat
  <2>3. QED  BY ONLY <1>11, <1>12, <2>1, <2>2
<1>15. CTypes'
  <2>1. /\ kind \in {"fixed", "multi", "shift"} /\ cFile \in Seq(CUnits) /\ accu \in Nat /\ skipped \in Nat
    BY ONLY <1>2 DEF CTypes
  <2>2. accu' \in Nat /\ skipped' \in Nat
    BY ONLY <1>12, <2>1, x \in Nat
  <2>3. cPos' <= Len(cFile')
    BY ONLY <1>1, <1>6, <1>12
  <2>4. shifted' \in BOOLEAN /\ (shifted' = TRUE => kind' = "shift")
    BY ONLY <1>1, <1>12, <1>13, s \in BOOLEAN
  <2>5. cTainted' \in BOOLEAN
    BY ONLY <1>1
  <2>6. QED  BY ONLY <1>1, <1>14, <2>1, <2>2, <2>3, <2>4, <2>5 DEF CTypes
<1>16. CRests'
  BY ONLY <1>1 DEF CRests
<1>17. CTells(y)'
  <2>1. CASE kind = "fixed"
    <3>1. p = accu + skipped
      BY ONLY <1>2, <1>4, <2>1 DEF CTells
    <3>2. x = b - p /\ (r.end = "bad" => x = 0)
      <4>1. r.end = "bad" => Len(t) = 0
        BY ONLY <1>6, <1>8
      <4>2. QED  BY ONLY <1>7, <1>10, <2>1, <4>1
    <3>3. PICK ac \in Nat, sk \in Nat : ac = accu /\ sk = skipped
      BY ONLY <1>2 DEF CTypes
    <3>4. y = accu' + skipped'
      <4>1. CASE r.end = "bad"
        <5>1. y = b + 1 /\ accu' = ac + x /\ skipped' = sk + 1
          BY ONLY <1>11, <1>12, <3>3, <4>1
        <5>2. QED  BY ONLY <1>7, <3>1, <3>2, <3>3, <5>1, x \in Nat, ac \in Nat, sk \in Nat
      <4>2. CASE r.end # "bad"
        <5>1. y = b /\ accu' = ac + x /\ skipped' = sk
          BY ONLY <1>11, <1>12, <3>3, <4>2
        <5>2. QED  BY ONLY <1>7, <3>1, <3>2, <3>3, <5>1, x \in Nat, ac \in Nat, sk \in Nat
      <4>3. QED  BY ONLY <4>1, <4>2
    <3>5. QED  BY ONLY <1>1, <2>1, <3>4 DEF CTells
  <2>2. CASE kind # "fixed"
    <3>1. Counted(Code!Meaning, cFile, p, accu, shifted)
      BY ONLY <1>2, <1>4, <2>2 DEF CTells
    <3>2. cFile \in Seq(CUnits) /\ accu \in Nat
      BY ONLY <1>2 DEF CTypes
    <3>3. Reached(shifted, p, b, s, t)
      BY ONLY <1>6, <1>9
    <3>4. Counted(Code!Meaning, cFile, b, accu + Len(t), s)
      BY ONLY <3>1, <3>2, <3>3, CountedRead
    <3>5. PICK m \in Nat : m = accu + x /\ accu' = m
      BY ONLY <1>12, <3>2, x \in Nat
    <3>6. Counted(Code!Meaning, cFile, b, m, s)
      BY ONLY <1>10, <3>4, <3>5
    <3>7. Counted(Code!Meaning, cFile, y, m, s)
      <4>1. CASE r.end = "bad"
        <5>1. b < Len(cFile) /\ NoChar(s, RestOf(cFile, b)) /\ b \in Nat /\ y = b + 1
          BY ONLY <1>6, <1>7, <1>9, <1>11, <4>1
        <5>2. Counted(Code!Meaning, cFile, b + 1, m, s)
          BY ONLY <3>2, <3>6, <5>1, m \in Nat, s \in BOOLEAN, CountedBad
        <5>3. QED  BY ONLY <5>1, <5>2
      <4>2. CASE r.end # "bad"
        BY ONLY <1>11, <3>6, <4>2
      <4>3. QED  BY ONLY <4>1, <4>2
    <3>8. Code!Meaning' = Code!Meaning
      BY ONLY <1>1, SameMeaning
    <3>9. Counted(Code!Meaning', cFile', y, accu', shifted')
      BY ONLY <1>1, <1>12, <3>5, <3>7, <3>8
    <3>10. QED  BY ONLY <1>1, <2>2, <3>9 DEF CTells
  <2>3. QED  BY ONLY <2>1, <2>2
<1>18. CCount'
  BY ONLY <1>14, <1>17, CCountThere
<1>19. QED  BY ONLY <1>15, <1>16, <1>18 DEF CInv

(* What a put leaves in the file. *)
LEMMA StoredIs ==
  ASSUME cFile \in Seq(CUnits), NEW p \in Nat, p <= Len(cFile), NEW w \in Seq(CUnits), NEW g,
         g = Code!Stored(p, w)
  PROVE  /\ g \in Seq(CUnits) /\ p + Len(w) <= Len(g) /\ SubSeq(g, p + 1, p + Len(w)) = w
         /\ p = Len(cFile) => g = cFile \o w /\ Len(g) = p + Len(w)
<1>1. PICK a \in Seq(CUnits) : a = SubSeq(cFile, 1, p) /\ Len(a) = p
  BY ONLY cFile \in Seq(CUnits), p \in Nat, p <= Len(cFile), PrefixElements
<1>2. PICK l \in Nat : l = Len(w)
  OBVIOUS
<1>3. PICK k \in Nat : k = p + l
  BY ONLY p \in Nat, l \in Nat
<1>4. PICK z : z = SubSeq(cFile, k + 1, Len(cFile))
  OBVIOUS
<1>5. z \in Seq(CUnits)
  <2>1. SubSeq(cFile, k + 1, Len(cFile)) \in Seq(CUnits)
    BY ONLY cFile \in Seq(CUnits), k \in Nat, RestElements
  <2>2. QED  BY ONLY <1>4, <2>1
<1>6. g = (a \o w) \o z
  BY ONLY <1>1, <1>2, <1>3, <1>4, g = Code!Stored(p, w) DEF Code!Stored
<1>7. PICK y : y = a \o w
  OBVIOUS
<1>8. y \in Seq(CUnits) /\ Len(y) = k
  <2>1. a \o w \in Seq(CUnits) /\ Len(a \o w) = Len(a) + Len(w)
    BY ONLY a \in Seq(CUnits), w \in Seq(CUnits), BehindFirst
  <2>2. QED  BY ONLY <1>1, <1>2, <1>3, <1>7, <2>1
<1>9. y \o z \in Seq(CUnits) /\ Len(y \o z) = Len(y) + Len(z)
  BY ONLY <1>5, <1>8, BehindFirst
<1>10. g \in Seq(CUnits) /\ k <= Len(g)
  <2>1. Len(z) \in Nat
    BY ONLY <1>5
  <2>2. QED  BY ONLY <1>6, <1>7, <1>8, <1>9, <2>1, k \in Nat
<1>11. SubSeq(g, p + 1, k) = w
  <2>1. PICK h : h = SubSeq(g, p + 1, k)
    OBVIOUS
  <2>2. p <= k /\ k - p = l
    BY ONLY <1>3, p \in Nat, l \in Nat
  <2>3. h \in Seq(CUnits) /\ Len(h) = l /\ \A i \in 1..l : h[i] = g[p + i]
    <3>1. /\ SubSeq(g, p + 1, k) \in Seq(CUnits) /\ Len(SubSeq(g, p + 1, k)) = k - p
          /\ \A i \in 1..(k - p) : SubSeq(g, p + 1, k)[i] = g[p + i]
      BY ONLY <1>10, <2>2, p \in Nat, k \in Nat, PieceElements
    <3>2. QED  BY ONLY <2>1, <2>2, <3>1
  <2>4. \A i \in 1..k : g[i] = y[i]
    BY ONLY <1>5, <1>6, <1>7, <1>8, BehindFirst
  <2>5. \A i \in 1..l : y[p + i] = w[i]
    BY ONLY <1>1, <1>2, <1>7, a \in Seq(CUnits), w \in Seq(CUnits), p \in Nat, l \in Nat
  <2>6. \A i \in 1..l : h[i] = w[i]
    <3>1. \A i \in 1..l : p + i \in 1..k
      BY ONLY <1>3, p \in Nat, l \in Nat
    <3>2. QED  BY ONLY <2>3, <2>4, <2>5, <3>1
  <2>7. h = w
    BY ONLY <1>2, <2>3, <2>6, w \in Seq(CUnits)
  <2>8. QED  BY ONLY <2>1, <2>7
<1>12. ASSUME p = Len(cFile) PROVE g = cFile \o w /\ Len(g) = k
  <2>1. a = cFile
    BY ONLY <1>1, <1>12, cFile \in Seq(CUnits)
  <2>2. z = <<>>
    BY ONLY <1>3, <1>4, <1>12, cFile \in Seq(CUnits), p \in Nat, l \in Nat
  <2>3. y \o <<>> = y
    BY ONLY <1>8, ConcatOfNone
  <2>4. QED  BY ONLY <1>6, <1>7, <1>8, <2>1, <2>2, <2>3
<1>13. QED  BY ONLY <1>2, <1>3, <1>10, <1>11, <1>12

(* Where a put starts. *)
LEMMA CTurnsAt ==
  ASSUME CInv, Code!Turned, NEW p, p = Code!TurnAt
  PROVE  /\ p \in Nat /\ p <= Len(cFile) /\ cTainted = FALSE /\ cStatus # "closed" /\ cStatus' = "output"
         /\ CTells(cPos - cUnread) /\ kind' = kind /\ cUnread' = 0
         /\ kind = "fixed" => accu <= p /\ skipped' = p - accu
         /\ kind # "fixed" => p = Len(cFile) /\ p = cPos - cUnread /\ skipped' = skipped
<1>1. /\ cTainted = FALSE /\ cStatus # "closed" /\ cStatus' = "output" /\ kind' = kind /\ cUnread' = 0
      /\ kind = "fixed" => skipped' = p - accu
      /\ kind # "fixed" => skipped' = skipped
  <2>1. cTainted \in BOOLEAN
    BY DEF CInv, CTypes
  <2>2. QED  BY <2>1 DEF Code!Turned, Code!VarLength
<1>2. CTells(cPos - cUnread)
  BY <1>1 DEF CInv, CCount
<1>3. PICK x \in Nat, u \in Nat, l \in Nat, ac \in Nat, sk \in Nat :
         x = cPos /\ u = cUnread /\ l = Len(cFile) /\ ac = accu /\ sk = skipped /\ u <= x /\ x <= l
  <2>1. /\ cFile \in Seq(CUnits) /\ cPos \in Nat /\ cPos <= Len(cFile)
        /\ cUnread \in Nat /\ cUnread <= cPos /\ accu \in Nat /\ skipped \in Nat
    BY DEF CInv, CTypes
  <2>2. PICK l \in Nat : l = Len(cFile)
    BY ONLY <2>1
  <2>3. cPos <= l
    BY ONLY <2>1, <2>2
  <2>4. QED  BY ONLY <2>1, <2>2, <2>3
<1>4. CASE kind = "fixed"
  <2>1. x - u = ac + sk
    BY ONLY <1>2, <1>3, <1>4 DEF CTells
  <2>2. p = x \/ p = ac
    BY ONLY <1>3, <1>4, p = Code!TurnAt DEF Code!TurnAt, Code!VarLength
  <2>3. p \in Nat /\ p <= l /\ ac <= p
    BY ONLY <1>3, <2>1, <2>2, x \in Nat, u \in Nat, l \in Nat, ac \in Nat, sk \in Nat
  <2>4. QED  BY ONLY <1>1, <1>2, <1>3, <1>4, <2>3
<1>5. CASE kind # "fixed"
  <2>1. cStatus = "output" => x - u = l /\ u = 0
    BY <1>2, <1>3, <1>5 DEF CTells, CInv, CRests
  <2>2. cStatus # "output" => x - u = l
    BY ONLY <1>1, <1>3, <1>5, Code!Turned DEF Code!Turned, Code!CanTurn, Code!VarLength, Code!KernelTell
  <2>3. p = IF cStatus = "output" THEN x ELSE x - u
    BY ONLY <1>3, <1>5, p = Code!TurnAt DEF Code!TurnAt, Code!VarLength, Code!KernelTell
  <2>4. p = l /\ p = x - u
    BY ONLY <2>1, <2>2, <2>3, x \in Nat, u \in Nat, l \in Nat
  <2>5. QED  BY ONLY <1>1, <1>2, <1>3, <1>5, <2>4
<1>6. QED  BY ONLY <1>4, <1>5

LEMMA CodedIs ==
  ASSUME CTypes, NEW text \in Seq(CChars)
  PROVE  PutIs(shifted, text, Code!Coded(text))
<1>1. kind \in {"fixed", "multi", "shift"} /\ shifted \in BOOLEAN /\ (shifted = TRUE => kind = "shift")
  BY DEF CTypes
<1>2. PICK q : q = [sh |-> shifted, text |-> text]
  OBVIOUS
<1>3. q \in Writings /\ q.sh = shifted /\ q.text = text
  BY ONLY <1>1, <1>2, text \in Seq(CChars) DEF Writings
<1>4. PutIs(q.sh, q.text, Code!PutMain[q])
  BY <1>1, <1>3, PutMainIs
<1>5. QED  BY ONLY <1>2, <1>3, <1>4 DEF Code!Coded

LEMMA CPutKeeps ==
  ASSUME CInv, NEW text \in Seq(CChars), Code!Put(text)
  PROVE  CInv'
<1>1. PICK c : c = Code!Coded(text)
  OBVIOUS
<1>2. PICK p : p = Code!TurnAt
  OBVIOUS
<1>3. /\ Code!Turned /\ c.ok /\ cFile' = Code!Stored(p, c.units) /\ cPos' = p + Len(c.units)
      /\ shifted' = c.sh /\ accu' = accu + Len(text) /\ cTainted' = cTainted
  BY ONLY <1>1, <1>2, Code!Put(text) DEF Code!Put
<1>4. /\ p \in Nat /\ p <= Len(cFile) /\ cTainted = FALSE /\ cStatus # "closed" /\ cStatus' = "output"
      /\ CTells(cPos - cUnread) /\ kind' = kind /\ cUnread' = 0
      /\ kind = "fixed" => accu <= p /\ skipped' = p - accu
      /\ kind # "fixed" => p = Len(cFile) /\ p = cPos - cUnread /\ skipped' = skipped
  BY <1>2, <1>3, CTurnsAt
<1>5. CTypes
  BY DEF CInv
<1>6. PutIs(shifted, text, c)
  BY <1>1, <1>5, CodedIs
<1>7. c.units \in Seq(CUnits) /\ c.sh \in BOOLEAN /\ (c.sh = TRUE => kind = "shift")
      /\ (c.units = <<>> \/ c.units[1] # "t")
      /\ Fronts(shifted, c.units, c.sh, text) /\ (kind = "fixed" => Len(c.units) = Len(text))
  <2>1. c \in Puts
    BY ONLY <1>6 DEF PutIs
  <2>2. c.ok = TRUE
    BY ONLY <1>3, <2>1 DEF Puts
  <2>3. QED  BY ONLY <1>6, <2>1, <2>2 DEF PutIs, Puts
<1>8. PICK w \in Seq(CUnits) : w = c.units
  BY ONLY <1>7
<1>9. PICK s \in BOOLEAN : s = c.sh
  BY ONLY <1>7
<1>10. PICK g : g = cFile'
  OBVIOUS
<1>11. cFile \in Seq(CUnits) /\ accu \in Nat /\ skipped \in Nat /\ shifted \in BOOLEAN
       /\ kind \in {"fixed", "multi", "shift"}
  BY ONLY <1>5 DEF CTypes
<1>12. PICK b \in Nat : b = p + Len(w)
  BY ONLY <1>4
<1>13. /\ g \in Seq(CUnits) /\ b <= Len(g)
       /\ p = Len(cFile) => g = cFile \o w /\ Len(g) = b
  <2>1. g = Code!Stored(p, w)
    BY ONLY <1>3, <1>8, <1>10
  <2>2. QED  BY ONLY <1>4, <1>11, <1>12, <2>1, w \in Seq(CUnits), StoredIs
<1>14. PICK x \in Nat : x = Len(text)
  OBVIOUS
<1>15. PICK m \in Nat : m = accu + x /\ accu' = m
  BY ONLY <1>3, <1>11, <1>14, x \in Nat
<1>16. cPos' = b /\ shifted' = s /\ skipped' \in Nat
  BY ONLY <1>3, <1>4, <1>8, <1>9, <1>11, <1>12
<1>17. CTypes'
  <2>1. cPos' \in Nat /\ cPos' <= Len(cFile') /\ cUnread' \in Nat /\ cUnread' <= cPos'
    BY ONLY <1>4, <1>10, <1>13, <1>16, b \in Nat
  <2>2. shifted' \in BOOLEAN /\ (shifted' = TRUE => kind' = "shift")
    BY ONLY <1>4, <1>7, <1>9, <1>16, s \in BOOLEAN
  <2>3. cTainted' \in BOOLEAN /\ kind' \in {"fixed", "multi", "shift"} /\ cFile' \in Seq(CUnits)
    BY ONLY <1>3, <1>4, <1>10, <1>11, <1>13
  <2>4. QED  BY ONLY <1>4, <1>15, <1>16, <2>1, <2>2, <2>3 DEF CTypes
<1>18. CRests'
  BY ONLY <1>4 DEF CRests
<1>19. CTells(b)'
  <2>1. CASE kind = "fixed"
    <3>1. Len(w) = x
      BY ONLY <1>7, <1>8, <1>14, <2>1
    <3>2. PICK ac \in Nat : ac = accu
      BY ONLY <1>11
    <3>3. b = m + (p - ac) /\ skipped' = p - ac
      BY ONLY <1>4, <1>12, <1>15, <2>1, <3>1, <3>2, ac \in Nat, x \in Nat
    <3>4. b = accu' + skipped'
      BY ONLY <1>15, <3>3
    <3>5. QED  BY ONLY <1>4, <2>1, <3>4 DEF CTells
  <2>2. CASE kind # "fixed"
    <3>1. p = Len(cFile)
      BY ONLY <1>4, <2>2
    <3>2. Counted(Code!Meaning, cFile, p, accu, shifted)
      BY ONLY <1>4, <2>2 DEF CTells
    <3>3. w = <<>> \/ w[1] # "t"
      BY ONLY <1>7, <1>8
    <3>4. Fronts(shifted, w, s, text)
      BY ONLY <1>7, <1>8, <1>9
    <3>5. g = cFile \o w
      BY ONLY <1>13, <3>1
    <3>6. Counted(Code!Meaning, g, b, accu + Len(text), s)
      BY ONLY <1>11, <1>12, <3>1, <3>2, <3>3, <3>4, <3>5, w \in Seq(CUnits), s \in BOOLEAN,
              text \in Seq(CChars), CountedPut
    <3>7. Counted(Code!Meaning, g, b, m, s)
      BY ONLY <1>14, <1>15, <3>6
    <3>8. Code!Meaning' = Code!Meaning
      BY ONLY <1>4, SameMeaning
    <3>9. Counted(Code!Meaning', cFile', b, accu', shifted')
      BY ONLY <1>10, <1>15, <1>16, <3>7, <3>8
    <3>10. b = Len(cFile')
      BY ONLY <1>10, <1>13, <3>1
    <3>11. QED  BY ONLY <1>4, <2>2, <3>9, <3>10 DEF CTells
  <2>3. QED  BY ONLY <2>1, <2>2
<1>20. CCount'
  <2>1. b = cPos' - cUnread'
    BY ONLY <1>4, <1>16, b \in Nat
  <2>2. QED  BY ONLY <1>19, <2>1, CCountThere
<1>21. QED  BY ONLY <1>17, <1>18, <1>20 DEF CInv

LEMMA CPutFailsKeeps ==
  ASSUME CInv, NEW text \in Seq(CChars), Code!PutFails(text)
  PROVE  CInv'
<1>1. PICK c : c = Code!Coded(text)
  OBVIOUS
<1>2. PICK p : p = Code!TurnAt
  OBVIOUS
<1>3. Code!Turned /\ cTainted' = TRUE /\ accu' = accu
  BY ONLY Code!PutFails(text) DEF Code!PutFails
<1>4. PICK k, n, d :
         /\ k \in 0..Len(c.units) /\ n \in 0..Len(text) /\ d = Code!Coded(SubSeq(text, 1, n)) /\ shifted' = d.sh
         /\ cFile' = Code!Stored(p, SubSeq(c.units, 1, k)) /\ cPos' = p + k
  BY ONLY <1>1, <1>2, Code!PutFails(text) DEF Code!PutFails
<1>5. /\ p \in Nat /\ p <= Len(cFile) /\ cStatus' = "output" /\ kind' = kind /\ cUnread' = 0
      /\ kind = "fixed" => accu <= p /\ skipped' = p - accu
      /\ kind # "fixed" => skipped' = skipped
  BY <1>2, <1>3, CTurnsAt
<1>6. CTypes
  BY DEF CInv
<1>7. cFile \in Seq(CUnits) /\ accu \in Nat /\ skipped \in Nat /\ kind \in {"fixed", "multi", "shift"}
  BY ONLY <1>6 DEF CTypes
<1>8. c.units \in Seq(CUnits)
  <2>1. PutIs(shifted, text, c)
    BY <1>1, <1>6, CodedIs
  <2>2. QED  BY ONLY <2>1 DEF PutIs, Puts
<1>9. d.sh \in BOOLEAN /\ (d.sh = TRUE => kind = "shift")
  <2>1. PICK t : t = SubSeq(text, 1, n)
    OBVIOUS
  <2>2. t \in Seq(CChars)
    <3>1. n \in Nat /\ n <= Len(text)
      BY ONLY <1>4, text \in Seq(CChars)
    <3>2. SubSeq(text, 1, n) \in Seq(CChars)
      BY ONLY <3>1, text \in Seq(CChars), PrefixElements
    <3>3. QED  BY ONLY <2>1, <3>2
  <2>3. PutIs(shifted, t, d)
    BY <1>4, <1>6, <2>1, <2>2, CodedIs
  <2>4. QED  BY ONLY <2>3 DEF PutIs, Puts
<1>10. PICK w \in Seq(CUnits) : w = SubSeq(c.units, 1, k) /\ Len(w) = k
  <2>1. PICK z \in Seq(CUnits) : z = c.units
    BY ONLY <1>8
  <2>2. k \in Nat /\ k <= Len(z)
    BY ONLY <1>4, <2>1
  <2>3. SubSeq(z, 1, k) \in Seq(CUnits) /\ Len(SubSeq(z, 1, k)) = k
    BY ONLY <2>2, z \in Seq(CUnits), PrefixElements
  <2>4. QED  BY ONLY <2>1, <2>3
<1>11. PICK g : g = cFile'
  OBVIOUS
<1>12. g \in Seq(CUnits) /\ p + Len(w) <= Len(g)
  <2>1. g = Code!Stored(p, w)
    BY ONLY <1>4, <1>10, <1>11
  <2>2. QED  BY ONLY <1>5, <1>7, <2>1, w \in Seq(CUnits), StoredIs
<1>13. cPos' \in Nat /\ cPos' <= Len(cFile') /\ cUnread' \in Nat /\ cUnread' <= cPos'
  <2>1. PICK b \in Nat : b = p + k
    BY ONLY <1>5, <1>10, w \in Seq(CUnits)
  <2>2. QED  BY ONLY <1>4, <1>5, <1>10, <1>11, <1>12, <2>1, b \in Nat
<1>14. skipped' \in Nat /\ accu' \in Nat
  BY ONLY <1>3, <1>5, <1>7
<1>15. CTypes'
  <2>1. shifted' \in BOOLEAN /\ (shifted' = TRUE => kind' = "shift")
    BY ONLY <1>4, <1>5, <1>9
  <2>2. cFile' \in Seq(CUnits) /\ cTainted' \in BOOLEAN /\ kind' \in {"fixed", "multi", "shift"}
    BY ONLY <1>3, <1>5, <1>7, <1>11, <1>12
  <2>3. QED  BY ONLY <1>5, <1>13, <1>14, <2>1, <2>2 DEF CTypes
<1>16. CRests' /\ CCount'
  <2>1. ~(cTainted' = FALSE)
    BY ONLY <1>3
  <2>2. QED  BY ONLY <1>5, <2>1 DEF CRests, CCount
<1>17. QED  BY ONLY <1>15, <1>16 DEF CInv

(* A seek: the text is counted from the start again, or a character is a   *)
(* unit.                                                                   *)
LEMMA CSeekKeeps ==
  ASSUME CInv, NEW p \in Nat, Code!Seek(p) \/ Code!Rseek(p)
  PROVE  CInv'
<1>1. PICK l \in Nat : l = Len(cFile)
  BY DEF CInv, CTypes
<1>2. /\ cFile' = cFile /\ kind' = kind /\ cStatus' = cStatus /\ cTainted' = cTainted
      /\ shifted' = FALSE /\ cUnread' = 0 /\ skipped' = 0 /\ accu' = cPos' /\ p <= l
      /\ cPos' = p \/ (kind = "fixed" /\ cPos' = l - p)
      /\ kind # "fixed" => p = 0 /\ cStatus = "input" /\ cPos' = p
      /\ cStatus # "closed"
  BY ONLY <1>1, Code!Seek(p) \/ Code!Rseek(p)
     DEF Code!Seek, Code!Rseek, Code!Quiet, Code!VarLength, Code!SeekState
<1>3. PICK b \in Nat : b = cPos' /\ b <= l
  <2>1. p \in Nat /\ l - p \in Nat /\ l - p <= l
    BY ONLY <1>2, p \in Nat, l \in Nat
  <2>2. QED  BY ONLY <1>2, <2>1
<1>4. /\ cFile \in Seq(CUnits) /\ kind \in {"fixed", "multi", "shift"} /\ cTainted \in BOOLEAN
      /\ cStatus \in {"input", "output", "closed"}
  BY DEF CInv, CTypes
<1>5. CTypes'
  <2>1. cUnread' \in Nat /\ cUnread' <= cPos' /\ cPos' <= Len(cFile')
    BY ONLY <1>1, <1>2, <1>3, b \in Nat
  <2>2. shifted' \in BOOLEAN /\ ~(shifted' = TRUE)
    BY ONLY <1>2
  <2>3. accu' \in Nat /\ skipped' \in Nat /\ cPos' \in Nat
    BY ONLY <1>2, <1>3, b \in Nat
  <2>4. QED  BY ONLY <1>2, <1>4, <2>1, <2>2, <2>3 DEF CTypes
<1>6. CRests'
  BY ONLY <1>2 DEF CRests
<1>7. CTells(b)'
  <2>1. CASE kind = "fixed"
    <3>1. b = accu' + skipped'
      <4>1. accu' = b /\ skipped' = 0
        BY ONLY <1>2, <1>3
      <4>2. QED  BY ONLY <4>1, b \in Nat
    <3>2. QED  BY ONLY <1>2, <2>1, <3>1 DEF CTells
  <2>2. CASE kind # "fixed"
    <3>1. b = 0 /\ accu' = 0 /\ shifted' = FALSE /\ cStatus' # "output"
      BY ONLY <1>2, <1>3, <2>2
    <3>2. Counted(Code!Meaning, cFile, 0, 0, FALSE)
      BY ONLY <1>4, CountedStart
    <3>3. Code!Meaning' = Code!Meaning
      BY ONLY <1>2, SameMeaning
    <3>4. Counted(Code!Meaning', cFile', b, accu', shifted')
      BY ONLY <1>2, <3>1, <3>2, <3>3, Zenon
    <3>5. QED  BY ONLY <1>2, <2>2, <3>1, <3>4 DEF CTells
  <2>3. QED  BY ONLY <2>1, <2>2
<1>8. CCount'
  <2>0. cPos' = b /\ cUnread' = 0
    BY ONLY <1>2, <1>3
  <2>1. b = cPos' - cUnread'
    BY ONLY <2>0, b \in Nat
  <2>2. QED  BY ONLY <1>7, <2>1, CCountThere
<1>9. QED  BY ONLY <1>5, <1>6, <1>8 DEF CInv

(* A call that reads nothing and throws: the kernel may have gone back to  *)
(* where the reader is.                                                    *)
LEMMA CFailsKeeps ==
  ASSUME CInv, Code!TurnFails \/ Code!FlushFails \/ Code!Refused \/ Code!GetHeld
  PROVE  CInv'
<1>1. CTypes /\ CRests /\ CCount
  BY DEF CInv
<1>2. /\ cFile' = cFile /\ kind' = kind /\ cStatus' = cStatus /\ shifted' = shifted /\ accu' = accu
      /\ cTainted' = cTainted \/ (cTainted' = TRUE /\ cStatus = "output")
      /\ \/ cPos' = cPos /\ cUnread' = cUnread /\ skipped' = skipped
         \/ cPos' = cPos - cUnread /\ cUnread' = 0 /\ skipped' = skipped /\ cStatus = "input"
         \/ kind = "fixed" /\ cPos' = accu /\ cUnread' = 0 /\ skipped' = 0 /\ cStatus = "input" /\ ~cTainted
  BY DEF Code!TurnFails, Code!FlushFails, Code!Refused, Code!GetHeld, Code!Quiet, Code!VarLength,
         Code!KernelTell, Code!kernel, Code!state
<1>3. PICK x \in Nat, u \in Nat, l \in Nat, ac \in Nat, sk \in Nat :
         x = cPos /\ u = cUnread /\ l = Len(cFile) /\ ac = accu /\ sk = skipped /\ u <= x /\ x <= l
  <2>1. /\ cFile \in Seq(CUnits) /\ cPos \in Nat /\ cPos <= Len(cFile)
        /\ cUnread \in Nat /\ cUnread <= cPos /\ accu \in Nat /\ skipped \in Nat
    BY ONLY <1>1 DEF CTypes
  <2>2. PICK l \in Nat : l = Len(cFile)
    BY ONLY <2>1
  <2>3. cPos <= l
    BY ONLY <2>1, <2>2
  <2>4. QED  BY ONLY <2>1, <2>2, <2>3
<1>4. cTainted \in BOOLEAN /\ cStatus \in {"input", "output", "closed"} /\ shifted \in BOOLEAN
  BY ONLY <1>1 DEF CTypes
<1>5. cTainted' = FALSE => cTainted = FALSE
  BY ONLY <1>2, <1>4
<1>6. CASE cPos' = cPos /\ cUnread' = cUnread /\ skipped' = skipped
  <2>1. CTypes' /\ CRests'
    BY ONLY <1>1, <1>2, <1>4, <1>6 DEF CTypes, CRests
  <2>2. CCount'
    <3>1. CASE cStatus = "closed" \/ ~(cTainted = FALSE)
      BY ONLY <1>2, <1>5, <3>1 DEF CCount
    <3>2. CASE cStatus # "closed" /\ cTainted = FALSE
      <4>1. PICK p : p = cPos - cUnread
        OBVIOUS
      <4>2. CTells(p)
        BY ONLY <1>1, <3>2, <4>1 DEF CCount
      <4>3. CTells(p)'
        BY ONLY <1>2, <1>6, <4>2, CTellsStays
      <4>4. p = cPos' - cUnread'
        BY ONLY <1>6, <4>1
      <4>5. QED  BY ONLY <4>3, <4>4, CCountThere
    <3>3. QED  BY ONLY <3>1, <3>2
  <2>3. QED  BY ONLY <2>1, <2>2 DEF CInv
<1>7. CASE cPos' = cPos - cUnread /\ cUnread' = 0 /\ skipped' = skipped /\ cStatus = "input"
  <2>1. PICK p \in Nat : p = cPos - cUnread /\ p <= l /\ p = cPos' - cUnread'
    <3>1. x - u \in Nat /\ x - u <= l /\ (x - u) - 0 = x - u
      BY ONLY <1>3, x \in Nat, u \in Nat, l \in Nat
    <3>2. QED  BY ONLY <1>3, <1>7, <3>1
  <2>2. CTypes'
    <3>1. cPos' \in Nat /\ cPos' <= Len(cFile') /\ cUnread' \in Nat /\ cUnread' <= cPos'
      BY ONLY <1>2, <1>3, <1>7, <2>1, p \in Nat
    <3>2. cTainted' \in BOOLEAN
      BY ONLY <1>2, <1>4
    <3>3. QED  BY ONLY <1>1, <1>2, <1>7, <3>1, <3>2 DEF CTypes
  <2>3. CRests'
    BY ONLY <1>2, <1>7 DEF CRests
  <2>4. CCount'
    <3>1. CASE ~(cTainted = FALSE)
      BY ONLY <1>5, <3>1 DEF CCount
    <3>2. CASE cTainted = FALSE
      <4>1. CTells(p)
        BY ONLY <1>1, <1>7, <2>1, <3>2 DEF CCount
      <4>2. CTells(p)'
        BY ONLY <1>2, <1>7, <4>1, CTellsStays
      <4>3. QED  BY ONLY <2>1, <4>2, CCountThere
    <3>3. QED  BY ONLY <3>1, <3>2
  <2>5. QED  BY ONLY <2>2, <2>3, <2>4 DEF CInv
<1>8. CASE kind = "fixed" /\ cPos' = accu /\ cUnread' = 0 /\ skipped' = 0 /\ cStatus = "input" /\ ~cTainted
  <2>1. cTainted = FALSE /\ cStatus # "closed"
    BY ONLY <1>4, <1>8
  <2>2. cPos - cUnread = accu + skipped
    BY ONLY <1>1, <1>8, <2>1 DEF CCount, CTells
  <2>3. ac <= l
    BY ONLY <1>3, <2>2, x \in Nat, u \in Nat, l \in Nat, ac \in Nat, sk \in Nat
  <2>4. CTypes'
    <3>1. cPos' \in Nat /\ cPos' <= Len(cFile') /\ cUnread' \in Nat /\ cUnread' <= cPos' /\ skipped' \in Nat
      BY ONLY <1>2, <1>3, <1>8, <2>3, ac \in Nat
    <3>2. cTainted' \in BOOLEAN
      BY ONLY <1>2, <1>4
    <3>3. QED  BY ONLY <1>1, <1>2, <3>1, <3>2 DEF CTypes
  <2>5. CRests'
    BY ONLY <1>2, <1>8 DEF CRests
  <2>6. CTells(ac)'
    <3>1. ac = accu' + skipped'
      BY ONLY <1>2, <1>3, <1>8, ac \in Nat
    <3>2. QED  BY ONLY <1>2, <1>8, <3>1 DEF CTells
  <2>7. ac = cPos' - cUnread'
    BY ONLY <1>3, <1>8, ac \in Nat
  <2>8. CCount'
    BY ONLY <2>6, <2>7, CCountThere
  <2>9. QED  BY ONLY <2>4, <2>5, <2>8 DEF CInv
<1>9. QED  BY ONLY <1>2, <1>6, <1>7, <1>8

LEMMA CCloseKeeps ==
  ASSUME CInv, Code!Close
  PROVE  CInv'
<1>1. /\ kind \in {"fixed", "multi", "shift"} /\ cFile \in Seq(CUnits) /\ cPos \in Nat
      /\ cPos <= Len(cFile) /\ shifted \in BOOLEAN
  BY DEF CInv, CTypes
<1>2. /\ cStatus' = "closed" /\ cUnread' = 0 /\ cTainted' = FALSE /\ shifted' = FALSE
      /\ accu' = 0 /\ skipped' = 0
  BY DEF Code!Close
<1>3. kind' = kind
  BY DEF Code!Close, Code!Quiet
<1>4. PICK k \in 0..Len(Code!Unshift) :
         \/ cFile' = Code!Stored(cPos, SubSeq(Code!Unshift, 1, k)) /\ cPos' = cPos + k
         \/ cFile' = cFile /\ cPos' = cPos
  BY DEF Code!Close, Code!kernel
<1>5. PICK y \in Seq(CUnits) : y = Code!Unshift
  <2>1. "i" \in CUnits
    BY DEF CUnits, Code!Units
  <2>2. <<"i">> \in Seq(CUnits) /\ <<>> \in Seq(CUnits)
    BY ONLY <2>1
  <2>3. Code!Unshift = <<"i">> \/ Code!Unshift = <<>>
    BY ONLY DEF Code!Unshift
  <2>4. QED  BY ONLY <2>2, <2>3
<1>6. k \in Nat /\ k <= Len(y)
  BY ONLY <1>5, k \in 0..Len(Code!Unshift)
<1>7. PICK w \in Seq(CUnits) : w = SubSeq(y, 1, k) /\ Len(w) = k
  <2>1. SubSeq(y, 1, k) \in Seq(CUnits) /\ Len(SubSeq(y, 1, k)) = k
    BY ONLY <1>6, y \in Seq(CUnits), PrefixElements
  <2>2. QED  BY ONLY <2>1
<1>8. cFile' \in Seq(CUnits) /\ cPos' \in Nat /\ cPos' <= Len(cFile')
  <2>1. PICK g : g = Code!Stored(cPos, w)
    OBVIOUS
  <2>2. g \in Seq(CUnits) /\ cPos + Len(w) <= Len(g)
    BY ONLY <1>1, <2>1, w \in Seq(CUnits), StoredIs
  <2>3. CASE cFile' = Code!Stored(cPos, SubSeq(Code!Unshift, 1, k)) /\ cPos' = cPos + k
    <3>1. cFile' = g
      BY ONLY <1>5, <1>7, <2>1, <2>3
    <3>2. cPos + k \in Nat
      BY ONLY <1>1, <1>6
    <3>3. QED  BY ONLY <1>7, <2>2, <2>3, <3>1, <3>2
  <2>4. CASE cFile' = cFile /\ cPos' = cPos
    BY ONLY <1>1, <2>4
  <2>5. QED  BY ONLY <1>4, <2>3, <2>4
<1>9. CTypes'
  <2>1. cUnread' \in Nat /\ cUnread' <= cPos' /\ accu' \in Nat /\ skipped' \in Nat
    BY ONLY <1>2, <1>8
  <2>2. shifted' \in BOOLEAN /\ ~(shifted' = TRUE)
    BY ONLY <1>2
  <2>3. QED  BY ONLY <1>1, <1>2, <1>3, <1>8, <2>1, <2>2 DEF CTypes
<1>10. CRests' /\ CCount'
  BY ONLY <1>2 DEF CRests, CCount
<1>11. QED  BY ONLY <1>9, <1>10 DEF CInv

LEMMA COpenKeeps ==
  ASSUME CInv, NEW f \in CodeContents[kind], Code!Open(f)
  PROVE  CInv'
<1>1. /\ cStatus = "closed" /\ cFile' = f /\ cPos' = 0
      /\ cStatus' = IF f = <<>> THEN "output" ELSE "input"
      /\ kind' = kind /\ cUnread' = cUnread /\ cTainted' = cTainted /\ shifted' = shifted
      /\ accu' = accu /\ skipped' = skipped
  BY DEF Code!Open, Code!Opens, Code!Quiet
<1>2. kind \in {"fixed", "multi", "shift"}
  BY DEF CInv, CTypes
<1>3. f \in Seq(CUnits)
  BY <1>2, CodeConstants
<1>4. shifted = FALSE /\ accu = 0 /\ skipped = 0 /\ cUnread = 0 /\ cTainted = FALSE
  BY <1>1 DEF CInv, CRests
<1>5. cStatus' \in {"input", "output"} /\ (cStatus' = "output" => f = <<>>)
  BY ONLY <1>1
<1>6. CTypes'
  <2>1. cUnread' \in Nat /\ cPos' \in Nat /\ cUnread' <= cPos' /\ accu' \in Nat /\ skipped' \in Nat
    BY ONLY <1>1, <1>4
  <2>2. cPos' <= Len(cFile')
    BY ONLY <1>1, <1>3
  <2>3. shifted' \in BOOLEAN /\ ~(shifted' = TRUE) /\ cTainted' \in BOOLEAN
    BY ONLY <1>1, <1>4
  <2>4. QED  BY ONLY <1>1, <1>2, <1>3, <1>5, <2>1, <2>2, <2>3 DEF CTypes
<1>7. CRests'
  BY ONLY <1>1, <1>4, <1>5 DEF CRests
<1>8. CTells(0)'
  <2>1. Counted(Code!Meaning, f, 0, 0, FALSE)
    BY ONLY <1>3, CountedStart
  <2>2. Code!Meaning' = Code!Meaning
    BY ONLY <1>1, SameMeaning
  <2>3. accu' = 0 /\ shifted' = FALSE /\ cFile' = f /\ skipped' = 0
    BY ONLY <1>1, <1>4
  <2>4. Counted(Code!Meaning', cFile', 0, accu', shifted')
    BY ONLY <2>1, <2>2, <2>3, Zenon
  <2>5. cStatus' = "output" => 0 = Len(cFile')
    BY ONLY <1>5, <2>3
  <2>6. 0 = accu' + skipped'
    BY ONLY <2>3
  <2>7. QED  BY ONLY <2>4, <2>5, <2>6 DEF CTells
<1>9. 0 = cPos' - cUnread'
  BY ONLY <1>1, <1>4
<1>10. CCount'
  BY ONLY <1>8, <1>9, CCountThere
<1>11. QED  BY ONLY <1>6, <1>7, <1>10 DEF CInv

LEMMA CNextKeeps ==
  ASSUME CInv, Code!Next \/ UNCHANGED code
  PROVE  CInv'
<1>1. CASE UNCHANGED code
  BY <1>1, SameMeaning DEF code, CInv, CTypes, CRests, CCount, CTells
<1>2. CASE Code!Next
  <2>1. ASSUME NEW n \in 0..MaxAsk, Code!Get(n) PROVE CInv'
    <3>1. n \in Nat
      BY CodeConstants
    <3>2. QED  BY <2>1, <3>1, CGetKeeps
  <2>2. ASSUME NEW text \in Texts, Code!Put(text) \/ Code!PutFails(text) PROVE CInv'
    <3>1. text \in Seq(CChars)
      BY CodeConstants
    <3>2. QED  BY <2>2, <3>1, CPutKeeps, CPutFailsKeeps
  <2>3. ASSUME NEW p \in 0..MaxLen, Code!Seek(p) \/ Code!Rseek(p) PROVE CInv'
    <3>1. p \in Nat
      BY CodeConstants
    <3>2. QED  BY <2>3, <3>1, CSeekKeeps
  <2>4. ASSUME NEW f \in CodeContents[kind], Code!Open(f) PROVE CInv'
    BY <2>4, COpenKeeps
  <2>5. QED  BY <1>2, <2>1, <2>2, <2>3, <2>4, CFailsKeeps, CCloseKeeps DEF Code!Next
<1>3. QED  BY <1>1, <1>2

LEMMA CInvKept == MCSpec => []CInv
<1>1. MCInit => CInv
  BY CInitInv DEF MCInit
<1>2. CInv /\ [MCNext]_<<part, vars, code, zlib>> => CInv'
  <2>1. SUFFICES ASSUME CInv, [MCNext]_<<part, vars, code, zlib>> PROVE CInv'
    OBVIOUS
  <2>2. Code!Next \/ UNCHANGED code
    BY <2>1 DEF MCNext
  <2>3. QED  BY <2>1, <2>2, CNextKeeps
<1>3. QED  BY <1>1, <1>2, PTL DEF MCSpec

(* code_cvt: what tell() says agrees with the units below: it is the       *)
(* number of characters in them, in the shift state they leave behind, or, *)
(* where every character is one unit, the units less those skipped.        *)
THEOREM CountIsTrue == MCSpec => []CountInStep
<1>1. CInv => CountInStep
  <2>1. SUFFICES ASSUME CInv, cStatus # "closed", ~cTainted
                 PROVE  IF Code!VarLength
                        THEN /\ accu = Code!Upto(Code!KernelTell).count
                             /\ shifted = Code!Upto(Code!KernelTell).sh
                        ELSE Code!KernelTell = accu + skipped
    BY DEF CountInStep, Code!CountsInStep
  <2>2. PICK p : p = cPos - cUnread
    OBVIOUS
  <2>3. cTainted = FALSE /\ accu \in Nat /\ shifted \in BOOLEAN /\ cFile \in Seq(CUnits) /\ p \in Nat
        /\ p <= Len(cFile)
    <3>1. /\ cTainted \in BOOLEAN /\ accu \in Nat /\ shifted \in BOOLEAN /\ cFile \in Seq(CUnits)
          /\ cPos \in Nat /\ cUnread \in Nat /\ cUnread <= cPos /\ cPos <= Len(cFile)
      BY <2>1 DEF CInv, CTypes
    <3>2. PICK l \in Nat : l = Len(cFile) /\ cPos <= l
      BY ONLY <3>1
    <3>3. p \in Nat /\ p <= l
      BY ONLY <2>2, <3>1, <3>2
    <3>4. QED  BY ONLY <2>1, <3>1, <3>2, <3>3
  <2>4. CTells(p)
    BY <2>1, <2>2, <2>3 DEF CInv, CCount
  <2>5. CASE kind = "fixed"
    BY ONLY <2>2, <2>4, <2>5 DEF CTells, Code!VarLength, Code!KernelTell
  <2>6. CASE kind # "fixed"
    <3>1. Counted(Code!Meaning, cFile, p, accu, shifted)
      BY ONLY <2>4, <2>6 DEF CTells
    <3>2. Joins(cFile, p, <<>>) /\ <<>> \in Seq(CUnits)
      BY DEF Joins
    <3>3. CountedWith(Code!Meaning, cFile, p, accu, shifted, <<>>)
      BY ONLY <3>1, <3>2 DEF Counted
    <3>4. PICK w : w = SubSeq(cFile, 1, p)
      OBVIOUS
    <3>5. w \o <<>> = w
      <4>1. SubSeq(cFile, 1, p) \in Seq(CUnits)
        BY ONLY <2>3, PrefixElements
      <4>2. QED  BY ONLY <3>4, <4>1, ConcatOfNone
    <3>6. Code!Says(shifted, <<>>) = [text |-> <<>>, count |-> 0, sh |-> shifted]
      BY <2>3, SaysNothing
    <3>7. PICK m : m = Code!Meaning
      OBVIOUS
    <3>8. m[[sh |-> shifted, units |-> <<>>]] = [text |-> <<>>, count |-> 0, sh |-> shifted]
      BY ONLY <3>6, <3>7 DEF Code!Says
    <3>9. PICK y : y = m[[sh |-> FALSE, units |-> w]]
      OBVIOUS
    <3>10. y.count = accu + 0 /\ y.sh = shifted
      BY ONLY <3>3, <3>4, <3>5, <3>7, <3>8, <3>9 DEF CountedWith
    <3>11. Code!Upto(p) = y
      BY ONLY <3>4, <3>7, <3>9 DEF Code!Upto, Code!Says
    <3>12. accu = Code!Upto(p).count /\ shifted = Code!Upto(p).sh
      BY ONLY <2>3, <3>10, <3>11
    <3>13. QED  BY ONLY <2>2, <2>6, <3>12 DEF Code!VarLength, Code!KernelTell
  <2>7. QED  BY ONLY <2>5, <2>6
<1>2. QED  BY <1>1, CInvKept, PTL

(* What is put and closed. *)
LEMMA SaysText ==
  ASSUME NEW sh \in BOOLEAN, NEW w \in Seq(CUnits), NEW s \in BOOLEAN, NEW t \in Seq(CChars),
         Fronts(sh, w, s, t)
  PROVE  Code!Says(sh, w).text = t /\ Code!Says(sh, w).sh = s
<1>1. <<>> \in Seq(CUnits) /\ w \o <<>> = w
  BY ONLY w \in Seq(CUnits), ConcatOfNone
<1>2. PICK y : y = Code!Says(s, <<>>)
  OBVIOUS
<1>3. y.text = <<>> /\ y.sh = s
  <2>1. Code!Says(s, <<>>) = [text |-> <<>>, count |-> 0, sh |-> s]
    BY SaysNothing
  <2>2. QED  BY ONLY <1>2, <2>1
<1>4. Code!Says(sh, w) = Added(t, y)
  BY ONLY <1>1, <1>2, Fronts(sh, w, s, t) DEF Fronts
<1>5. t \o <<>> = t
  BY ONLY t \in Seq(CChars), ConcatOfNone
<1>6. QED  BY ONLY <1>3, <1>4, <1>5 DEF Added

LEMMA PutReadsBack ==
  ASSUME CInv, NEW text \in Seq(CChars), Code!Put(text), NEW y,
         y = Code!Says(shifted, SubSeq(cFile', Code!Start + 1, cPos'))
  PROVE  y.text = put' /\ y.sh = shifted'
<1>1. PICK c : c = Code!Coded(text)
  OBVIOUS
<1>2. PICK p : p = Code!TurnAt
  OBVIOUS
<1>3. /\ Code!Turned /\ c.ok /\ cFile' = Code!Stored(p, c.units) /\ cPos' = p + Len(c.units)
      /\ shifted' = c.sh /\ put' = text
  BY ONLY <1>1, <1>2, Code!Put(text) DEF Code!Put
<1>4. p \in Nat /\ p <= Len(cFile) /\ (kind # "fixed" => p = Len(cFile))
  BY <1>2, <1>3, CTurnsAt
<1>5. CTypes
  BY DEF CInv
<1>6. c.units \in Seq(CUnits) /\ c.sh \in BOOLEAN /\ Fronts(shifted, c.units, c.sh, text)
  <2>1. PutIs(shifted, text, c)
    BY <1>1, <1>5, CodedIs
  <2>2. c \in Puts
    BY ONLY <2>1 DEF PutIs
  <2>3. c.ok = TRUE
    BY ONLY <1>3, <2>2 DEF Puts
  <2>4. QED  BY ONLY <2>1, <2>2, <2>3 DEF PutIs, Puts
<1>7. PICK w \in Seq(CUnits) : w = c.units
  BY ONLY <1>6
<1>8. cFile \in Seq(CUnits) /\ shifted \in BOOLEAN
  BY ONLY <1>5 DEF CTypes
<1>9. SubSeq(cFile', p + 1, cPos') = w
  <2>1. PICK g : g = cFile'
    OBVIOUS
  <2>2. g = Code!Stored(p, w)
    BY ONLY <1>3, <1>7, <2>1
  <2>3. SubSeq(g, p + 1, p + Len(w)) = w
    BY ONLY <1>4, <1>8, <2>2, w \in Seq(CUnits), StoredIs
  <2>4. QED  BY ONLY <1>3, <1>7, <2>1, <2>3
<1>10. Code!Start = p
  BY ONLY <1>2, <1>4 DEF Code!Start, Code!TurnAt, Code!VarLength
<1>11. y = Code!Says(shifted, w)
  BY ONLY <1>9, <1>10, y = Code!Says(shifted, SubSeq(cFile', Code!Start + 1, cPos'))
<1>12. Code!Says(shifted, w).text = text /\ Code!Says(shifted, w).sh = c.sh
  <2>1. Fronts(shifted, w, c.sh, text) /\ c.sh \in BOOLEAN
    BY ONLY <1>6, <1>7
  <2>2. QED  BY <1>8, <2>1, SaysText
<1>13. QED  BY ONLY <1>3, <1>11, <1>12

LEMMA ClosesUnshifted ==
  ASSUME CInv, Code!Close, cStatus = "output", cTainted = FALSE, ~threw', NEW f \in BOOLEAN, f = FALSE
  PROVE  Code!Says(f, SubSeq(cFile', 1, cPos')).sh = f
<1>1. /\ kind \in {"fixed", "multi", "shift"} /\ cFile \in Seq(CUnits) /\ cPos \in Nat
      /\ cPos <= Len(cFile) /\ shifted \in BOOLEAN /\ accu \in Nat
  BY DEF CInv, CTypes
<1>2. cUnread = 0 /\ CTells(cPos)
  <2>1. cUnread = 0
    BY DEF CInv, CRests
  <2>2. CTells(cPos - cUnread)
    BY DEF CInv, CCount
  <2>3. cPos - cUnread = cPos
    BY ONLY <1>1, <2>1
  <2>4. QED  BY ONLY <2>1, <2>2, <2>3
<1>3. PICK y \in Seq(CUnits) : /\ y = Code!Unshift
                                /\ ((y = <<"i">> /\ shifted = TRUE) \/ (y = <<>> /\ shifted = f))
  <2>1. "i" \in CUnits
    BY DEF CUnits, Code!Units
  <2>2. <<"i">> \in Seq(CUnits) /\ <<>> \in Seq(CUnits)
    BY ONLY <2>1
  <2>3. (Code!Unshift = <<"i">> /\ shifted = TRUE) \/ (Code!Unshift = <<>> /\ shifted = f)
    BY ONLY <1>1, f = FALSE DEF Code!Unshift
  <2>4. QED  BY ONLY <2>2, <2>3
<1>4. cFile' = Code!Stored(cPos, y) /\ cPos' = cPos + Len(y)
  <2>1. PICK k \in 0..Len(y) : /\ cFile' = Code!Stored(cPos, SubSeq(y, 1, k)) /\ cPos' = cPos + k
                              /\ threw' = (k < Len(y))
    BY ONLY <1>3, Code!Close, cStatus = "output" DEF Code!Close, Code!Quiet
  <2>2. k = Len(y)
    <3>1. PICK j \in Nat : j = Len(y)
      BY ONLY y \in Seq(CUnits)
    <3>2. ~(k < j) /\ k \in 0..j
      BY ONLY <2>1, <3>1, ~threw'
    <3>3. k = j
      BY ONLY <3>2, j \in Nat
    <3>4. QED  BY ONLY <3>1, <3>3
  <2>3. SubSeq(y, 1, Len(y)) = y
    BY ONLY y \in Seq(CUnits)
  <2>4. QED  BY ONLY <2>1, <2>2, <2>3
<1>5. PICK g : g = cFile'
  OBVIOUS
<1>6. PICK b \in Nat : b = cPos + Len(y)
  BY ONLY <1>1
<1>7. g \in Seq(CUnits) /\ b <= Len(g) /\ (cPos = Len(cFile) => g = cFile \o y /\ Len(g) = b)
  <2>1. g = Code!Stored(cPos, y)
    BY ONLY <1>4, <1>5
  <2>2. QED  BY ONLY <1>1, <1>6, <2>1, y \in Seq(CUnits), StoredIs
<1>8. PICK u \in Seq(CUnits) : u = SubSeq(g, 1, b)
  <2>1. SubSeq(g, 1, b) \in Seq(CUnits)
    BY ONLY <1>7, b \in Nat, PrefixElements
  <2>2. QED  BY ONLY <2>1
<1>9. CASE kind # "shift"
  <2>1. Code!Says(f, u).sh = f
    BY <1>9, NoShiftState
  <2>2. QED  BY ONLY <1>4, <1>5, <1>6, <1>8, <2>1
<1>10. CASE kind = "shift"
  <2>1. cPos = Len(cFile) /\ Counted(Code!Meaning, cFile, cPos, accu, shifted)
    BY ONLY <1>2, <1>10, cStatus = "output" DEF CTells
  <2>2. u = SubSeq(cFile, 1, cPos) \o y
    <3>1. SubSeq(cFile, 1, cPos) = cFile
      BY ONLY <1>1, <2>1
    <3>2. SubSeq(g, 1, b) = g
      BY ONLY <1>7, <2>1
    <3>3. QED  BY ONLY <1>7, <1>8, <2>1, <3>1, <3>2
  <2>3. Joins(cFile, cPos, y)
    BY ONLY <1>3 DEF Joins
  <2>4. CountedWith(Code!Meaning, cFile, cPos, accu, shifted, y)
    BY ONLY <2>1, <2>3, y \in Seq(CUnits) DEF Counted
  <2>5. Code!Says(FALSE, u).sh = Code!Says(shifted, y).sh
    BY ONLY <2>2, <2>4 DEF CountedWith, Code!Says
  <2>6. Code!Says(f, u).sh = Code!Says(shifted, y).sh
    BY ONLY <2>5, f = FALSE, Zenon
  <2>7. Code!Says(shifted, y).sh = f
    <3>1. CASE y = <<>> /\ shifted = f
      <4>1. Code!Says(f, <<>>) = [text |-> <<>>, count |-> 0, sh |-> f]
        BY SaysNothing
      <4>2. PICK z : z = Code!Says(f, <<>>)
        OBVIOUS
      <4>3. z.sh = f
        BY ONLY <4>1, <4>2
      <4>4. Code!Says(shifted, y) = z
        BY ONLY <3>1, <4>2
      <4>5. QED  BY ONLY <4>3, <4>4
    <3>2. CASE y = <<"i">> /\ shifted = TRUE
      <4>1. PICK q : q = Piece(shifted, y)
        OBVIOUS
      <4>2. Head(y) = "i" /\ y # <<>> /\ Len(y) = 1
        BY ONLY <3>2
      <4>3. "i" \in Code!Shifts
        BY ONLY <1>10 DEF Code!Shifts
      <4>4. q = [text |-> <<>>, took |-> 0, len |-> 1, sh |-> "i" = "o"]
        BY ONLY <4>1, <4>2, <4>3 DEF Piece
      <4>5. q.len = 1 /\ q.sh = f
        <5>1. q.sh = ("i" = "o") /\ q.len = 1
          BY ONLY <4>4
        <5>2. QED  BY ONLY <5>1, f \in BOOLEAN, f = FALSE
      <4>6. Code!Says(shifted, y) = Joined(q, Code!Says(q.sh, SubSeq(y, q.len + 1, Len(y))))
        BY <1>1, <4>1, <4>2, SaysPiece
      <4>7. SubSeq(y, q.len + 1, Len(y)) = <<>>
        BY ONLY <4>2, <4>5, y \in Seq(CUnits)
      <4>8. PICK z : z = Code!Says(f, <<>>)
        OBVIOUS
      <4>9. z.sh = f
        <5>1. Code!Says(f, <<>>) = [text |-> <<>>, count |-> 0, sh |-> f]
          BY SaysNothing
        <5>2. QED  BY ONLY <4>8, <5>1
      <4>10. Code!Says(shifted, y) = Joined(q, z)
        BY ONLY <4>5, <4>6, <4>7, <4>8
      <4>11. QED  BY ONLY <4>9, <4>10 DEF Joined
    <3>3. QED  BY ONLY <1>3, <3>1, <3>2
  <2>8. QED  BY ONLY <1>4, <1>5, <1>6, <1>8, <2>6, <2>7
<1>11. QED  BY ONLY <1>9, <1>10

(* code_cvt: the units a put leaves are read back as the text it was       *)
(* given, and a stream closed without an error ends unshifted, so that     *)
(* text put behind it is read as what it is.                               *)
THEOREM WrittenIsReadBack == MCSpec => WritesReadBack
<1>1. CInv /\ [MCNext]_<<part, vars, code, zlib>> => [Code!ReadsBackAs]_code
  <2>1. SUFFICES ASSUME CInv, [MCNext]_<<part, vars, code, zlib>>, code' # code PROVE Code!ReadsBackAs
    OBVIOUS
  <2>2. Code!Next
    BY <2>1 DEF MCNext
  <2>3. ASSUME put' # <<>>, NEW y, y = Code!Says(shifted, SubSeq(cFile', Code!Start + 1, cPos'))
        PROVE  y.text = put' /\ y.sh = shifted'
    <3>1. PICK text \in Texts : Code!Put(text)
      BY ONLY <2>2, <2>3 DEF Code!Next, Code!Get, Code!GetHeld, Code!PutFails, Code!TurnFails, Code!FlushFails,
         Code!Seek, Code!Rseek, Code!Refused, Code!Close, Code!Open, Code!Quiet
    <3>2. text \in Seq(CChars)
      BY CodeConstants
    <3>3. QED  BY <2>1, <2>3, <3>1, <3>2, PutReadsBack
  <2>4. ASSUME cStatus = "output", ~cTainted, cStatus' = "closed", ~threw'
        PROVE  ~Code!Says(FALSE, SubSeq(cFile', 1, cPos')).sh
    <3>1. Code!Close
      BY ONLY <2>2, <2>4 DEF Code!Next, Code!Get, Code!GetHeld, Code!Put, Code!PutFails, Code!Turned,
         Code!TurnFails, Code!FlushFails, Code!Seek, Code!Rseek, Code!Refused, Code!Open, Code!Quiet, Code!state
    <3>2. cTainted = FALSE
      BY <2>1, <2>4 DEF CInv, CTypes
    <3>3. PICK f \in BOOLEAN : f = FALSE
      OBVIOUS
    <3>4. Code!Says(f, SubSeq(cFile', 1, cPos')).sh = f
      BY <2>1, <2>4, <3>1, <3>2, <3>3, ClosesUnshifted
    <3>5. QED  BY ONLY <3>3, <3>4, Zenon
  <2>5. QED  BY ONLY <2>3, <2>4 DEF Code!ReadsBackAs
<1>2. QED  BY <1>1, CInvKept, PTL DEF MCSpec, WritesReadBack

(* What a get() has read, and what is left to read. *)
LEMMA SaysRest ==
  ASSUME cFile \in Seq(CUnits), NEW p, NEW b, NEW sh, NEW s, NEW t, Reached(sh, p, b, s, t)
  PROVE  Code!Says(sh, RestOf(cFile, p)).text = t \o Code!Says(s, RestOf(cFile, b)).text
<1>a. PICK x : x = Code!Says(sh, RestOf(cFile, p))
  OBVIOUS
<1>b. PICK y : y = Code!Says(s, RestOf(cFile, b))
  OBVIOUS
<1>1. p \in Nat /\ b \in Nat /\ p <= b /\ b <= Len(cFile) /\ Fronts(sh, SubSeq(cFile, p + 1, b), s, t)
  BY DEF Reached
<1>2. PICK w : w = SubSeq(cFile, p + 1, b)
  OBVIOUS
<1>3. PICK z : z = RestOf(cFile, b)
  OBVIOUS
<1>4. z \in Seq(CUnits)
  <2>1. SubSeq(cFile, b + 1, Len(cFile)) \in Seq(CUnits)
    BY ONLY <1>1, cFile \in Seq(CUnits), RestElements
  <2>2. QED  BY ONLY <1>3, <2>1 DEF RestOf
<1>5. RestOf(cFile, p) = w \o z
  <2>1. PICK l \in Nat : l = Len(cFile) /\ b <= l
    BY ONLY <1>1, cFile \in Seq(CUnits)
  <2>2. SubSeq(cFile, p + 1, b) \o SubSeq(cFile, b + 1, l) = SubSeq(cFile, p + 1, l)
    <3>1. l <= Len(cFile)
      BY ONLY <2>1, l \in Nat
    <3>2. QED  BY ONLY <1>1, <2>1, <3>1, l \in Nat, cFile \in Seq(CUnits), AdjacentPieces, ZenonT(30)
  <2>3. QED  BY ONLY <1>2, <1>3, <2>1, <2>2 DEF RestOf
<1>6. x = Added(t, y)
  <2>1. Fronts(sh, w, s, t)
    BY ONLY <1>1, <1>2
  <2>2. Code!Says(sh, w \o z) = Added(t, Code!Says(s, z))
    BY ONLY <1>4, <2>1 DEF Fronts
  <2>3. QED  BY ONLY <1>a, <1>b, <1>3, <1>5, <2>2
<1>7. x.text = t \o y.text
  BY ONLY <1>6 DEF Added
<1>8. QED  BY ONLY <1>a, <1>b, <1>7

LEMMA SaysNoMore ==
  ASSUME cFile \in Seq(CUnits), NEW b \in Nat, NEW s \in BOOLEAN, NEW y, y = Code!Says(s, RestOf(cFile, b)),
         NEW v, v = Code!Says(s, RestOf(cFile, b + 1))
  PROVE  /\ b = Len(cFile) => y.text = <<>>
         /\ b < Len(cFile) /\ Parted(s, RestOf(cFile, b)) => y.text # <<>> /\ Head(y.text) = "part"
         /\ b < Len(cFile) /\ NoChar(s, RestOf(cFile, b)) =>
               y.text = <<"bad">> \o v.text /\ y.text # <<>> /\ Head(y.text) = "bad"
<1>1. PICK z : z = RestOf(cFile, b)
  OBVIOUS
<1>2. PICK l \in Nat : l = Len(cFile)
  OBVIOUS
<1>3. ASSUME b = l PROVE y.text = <<>>
  <2>1. z = <<>>
    BY ONLY <1>1, <1>2, <1>3, b \in Nat, cFile \in Seq(CUnits) DEF RestOf
  <2>2. Code!Says(s, <<>>) = [text |-> <<>>, count |-> 0, sh |-> s]
    BY SaysNothing
  <2>3. y = [text |-> <<>>, count |-> 0, sh |-> s]
    BY ONLY <1>1, <2>1, <2>2, y = Code!Says(s, RestOf(cFile, b))
  <2>4. QED  BY ONLY <2>3
<1>4. ASSUME b < l, Parted(s, z) \/ NoChar(s, z), NEW e, e = IF Parted(s, z) THEN "part" ELSE "bad"
      PROVE  y.text = <<e>> \o v.text /\ y.text # <<>> /\ Head(y.text) = e
  <2>1. /\ z \in Seq(CUnits) /\ Len(z) = l - b /\ l - b # 0
    <3>1. b <= Len(cFile)
      BY ONLY <1>2, <1>4, b \in Nat
    <3>2. /\ SubSeq(cFile, b + 1, Len(cFile)) \in Seq(CUnits)
          /\ Len(SubSeq(cFile, b + 1, Len(cFile))) = Len(cFile) - b
      BY ONLY <3>1, b \in Nat, cFile \in Seq(CUnits), SuffixElements
    <3>3. l - b # 0
      BY ONLY <1>4, b \in Nat, l \in Nat
    <3>4. QED  BY ONLY <1>1, <1>2, <3>2, <3>3 DEF RestOf
  <2>2. z # <<>>
    BY ONLY <2>1
  <2>3. Unread(s, z)
    <3>1. CASE NoChar(s, z)
      BY ONLY <2>2, <3>1 DEF NoChar, Unread
    <3>2. CASE Parted(s, z)
      <4>1. z[1] = "l" /\ Len(z) = 1
        BY ONLY <3>2 DEF Parted
      <4>2. "l" \notin Code!Shifts
        BY ONLY DEF Code!Shifts
      <4>3. ~Paired(s, z)
        BY ONLY <4>1 DEF Paired
      <4>4. QED  BY ONLY <2>2, <4>1, <4>2, <4>3 DEF Unread
    <3>3. QED  BY ONLY <1>4, <3>1, <3>2
  <2>4. SaysOne(s, z, e)
    BY <1>4, <2>1, <2>3, NoCharSays
  <2>5. RestOf(z, 1) = RestOf(cFile, b + 1)
    <3>1. PICK i \in Nat : i = 1
      OBVIOUS
    <3>2. b <= Len(cFile) /\ i <= Len(z)
      BY ONLY <1>2, <1>4, <2>1, <3>1, b \in Nat, l \in Nat
    <3>3. z = SubSeq(cFile, b + 1, Len(cFile))
      BY ONLY <1>1 DEF RestOf
    <3>4. SubSeq(z, i + 1, Len(z)) = SubSeq(cFile, (b + i) + 1, Len(cFile))
      BY ONLY <3>2, <3>3, b \in Nat, i \in Nat, cFile \in Seq(CUnits), RestOfRest
    <3>5. QED  BY ONLY <3>1, <3>4 DEF RestOf
  <2>6. y = [text |-> <<e>> \o v.text, count |-> v.count, sh |-> v.sh]
    BY ONLY <1>1, <2>4, <2>5, y = Code!Says(s, RestOf(cFile, b)), v = Code!Says(s, RestOf(cFile, b + 1))
       DEF SaysOne
  <2>7. v.text \in Seq(Said)
    <3>1. RestOf(cFile, b + 1) \in Seq(CUnits)
      <4>1. PICK j \in Nat : j = b + 1
        OBVIOUS
      <4>2. SubSeq(cFile, j + 1, Len(cFile)) \in Seq(CUnits)
        BY ONLY j \in Nat, cFile \in Seq(CUnits), RestElements
      <4>3. QED  BY ONLY <4>1, <4>2 DEF RestOf
    <3>2. v \in Meanings
      BY <3>1, SaysType
    <3>3. QED  BY ONLY <3>2 DEF Meanings
  <2>8. PICK h \in Seq(Said) : h = v.text
    BY ONLY <2>7
  <2>9. PICK k \in Seq(Said) : k = <<e>> \o h /\ k # <<>> /\ Head(k) = e
    <3>1. e \in Said
      BY ONLY <1>4 DEF Said
    <3>2. <<e>> \o h \in Seq(Said) /\ <<e>> \o h # <<>> /\ Head(<<e>> \o h) = e
      BY ONLY <3>1, h \in Seq(Said)
    <3>3. QED  BY ONLY <3>2
  <2>10. y.text = k
    BY ONLY <2>6, <2>8, <2>9
  <2>11. QED  BY ONLY <2>8, <2>9, <2>10
<1>5. NoChar(s, z) => ~Parted(s, z)
  BY ONLY DEF NoChar
<1>6. ASSUME b < l, Parted(s, z) PROVE y.text # <<>> /\ Head(y.text) = "part"
  <2>1. PICK e : e = IF Parted(s, z) THEN "part" ELSE "bad"
    OBVIOUS
  <2>2. y.text # <<>> /\ Head(y.text) = e
    BY ONLY <1>4, <1>6, <2>1
  <2>3. QED  BY ONLY <1>6, <2>1, <2>2
<1>7. ASSUME b < l, NoChar(s, z) PROVE y.text = <<"bad">> \o v.text /\ y.text # <<>> /\ Head(y.text) = "bad"
  <2>1. PICK e : e = IF Parted(s, z) THEN "part" ELSE "bad"
    OBVIOUS
  <2>2. y.text = <<e>> \o v.text /\ y.text # <<>> /\ Head(y.text) = e
    BY ONLY <1>4, <1>7, <2>1
  <2>3. e = "bad"
    BY ONLY <1>5, <1>7, <2>1
  <2>4. QED  BY ONLY <2>2, <2>3
<1>8. QED  BY ONLY <1>1, <1>2, <1>3, <1>6, <1>7

LEMMA GetReadsOn ==
  ASSUME CInv, NEW n \in Nat, Code!Get(n)
  PROVE  Code!ReadOn
<1>1. CTypes /\ cFile \in Seq(CUnits) /\ cPos \in Nat /\ cUnread \in Nat
  BY DEF CInv, CTypes
<1>2. PICK c, r, t : /\ GetStep(n, r)
                     /\ GetsTo(Round(cPos - cUnread, cPos, shifted, <<>>, n, 0, c), r, t)
  BY <1>1, GetReads
<1>3. kind' = kind /\ cFile' = cFile
  BY ONLY Code!Get(n) DEF Code!Get
<1>4. PICK p : p = cPos - cUnread
  OBVIOUS
<1>5. PICK b : b = GotTo(r)
  OBVIOUS
<1>6. /\ Reached(shifted, p, b, r.sh, t) /\ r.from \in Nat /\ r.fetched \in Nat /\ r.out = <<>> \o t
      /\ r.end \in {"full", "fails", "end", "part", "stop", "bad"}
      /\ r.end = "full" => Len(t) = n
      /\ r.end \in {"bad", "part"} => r.out = <<>>
      /\ r.end \in {"bad", "stop"} => b < Len(cFile) /\ NoChar(r.sh, RestOf(cFile, b))
      /\ r.end \in {"end", "part"} => b = Len(cFile) \/ Parted(r.sh, RestOf(cFile, b))
  BY ONLY <1>2, <1>4, <1>5 DEF GetsTo, Round
<1>7. b \in Nat /\ b <= Len(cFile) /\ t \in Seq(CChars) /\ r.sh \in BOOLEAN
  BY ONLY <1>6 DEF Reached
<1>8. r.out = t
  BY ONLY <1>6, <1>7, ConcatOfNone
<1>9. PICK s \in BOOLEAN : s = r.sh
  BY ONLY <1>7
<1>10. PICK x : x = Code!Says(shifted, RestOf(cFile, p))
  OBVIOUS
<1>11. PICK y : y = Code!Says(s, RestOf(cFile, b))
  OBVIOUS
<1>12. PICK v : v = Code!Says(s, RestOf(cFile, b + 1))
  OBVIOUS
<1>13. x.text = t \o y.text
  <2>1. Reached(shifted, p, b, s, t)
    BY ONLY <1>6, <1>9
  <2>2. Code!Says(shifted, RestOf(cFile, p)).text = t \o Code!Says(s, RestOf(cFile, b)).text
    BY ONLY <1>1, <2>1, SaysRest
  <2>3. QED  BY ONLY <1>10, <1>11, <2>2
<1>14. /\ b = Len(cFile) => y.text = <<>>
       /\ b < Len(cFile) /\ Parted(s, RestOf(cFile, b)) => y.text # <<>> /\ Head(y.text) = "part"
       /\ b < Len(cFile) /\ NoChar(s, RestOf(cFile, b)) =>
             y.text = <<"bad">> \o v.text /\ y.text # <<>> /\ Head(y.text) = "bad"
  BY <1>1, <1>7, <1>11, <1>12, SaysNoMore
<1>15. Code!View = x.text
  BY ONLY <1>4, <1>10 DEF Code!View, Code!KernelTell, RestOf
<1>16. Code!View' = Code!Says(s, RestOf(cFile, r.from)).text
  <2>1. Code!Meaning' = Code!Meaning
    BY <1>3, SameMeaning
  <2>2. PICK i \in Nat, j \in Nat : i = r.from /\ j = r.fetched
    BY ONLY <1>6
  <2>3. cPos' - cUnread' = r.from
    <3>1. cPos' = j /\ cUnread' = j - i
      BY ONLY <1>2, <2>2 DEF GetStep
    <3>2. j - (j - i) = i
      BY ONLY i \in Nat, j \in Nat
    <3>3. QED  BY ONLY <2>2, <3>1, <3>2
  <2>4. shifted' = s
    BY ONLY <1>2, <1>9 DEF GetStep
  <2>5. QED  BY ONLY <1>3, <2>1, <2>3, <2>4 DEF Code!View, Code!Says, Code!KernelTell, RestOf
<1>17. CASE r.end = "bad"
  <2>1. r.from = b + 1
    <3>1. PICK i \in Nat : i = r.from
      BY ONLY <1>6
    <3>2. b = i - 1
      BY ONLY <1>5, <1>17, <3>1 DEF GotTo
    <3>3. i = b + 1
      BY ONLY <3>2, i \in Nat
    <3>4. QED  BY ONLY <3>1, <3>3
  <2>2. Code!View' = v.text
    BY ONLY <1>12, <1>16, <2>1
  <2>3. t = <<>>
    BY ONLY <1>6, <1>8, <1>17
  <2>4. y.text = <<"bad">> \o v.text
    <3>1. b < Len(cFile) /\ NoChar(s, RestOf(cFile, b))
      BY ONLY <1>6, <1>9, <1>17
    <3>2. QED  BY ONLY <1>14, <3>1
  <2>5. y.text \in Seq(Said)
    <3>1. RestOf(cFile, b) \in Seq(CUnits)
      <4>1. SubSeq(cFile, b + 1, Len(cFile)) \in Seq(CUnits)
        BY ONLY <1>1, <1>7, RestElements
      <4>2. QED  BY ONLY <4>1 DEF RestOf
    <3>2. y \in Meanings
      BY <1>11, <3>1, SaysType
    <3>3. QED  BY ONLY <3>2 DEF Meanings
  <2>6. x.text = y.text
    <3>1. <<>> \o y.text = y.text
      BY ONLY <2>5, ConcatOfNone
    <3>2. QED  BY ONLY <1>13, <2>3, <3>1
  <2>7. cGot' = <<"bad">> /\ ~cShort'
    BY ONLY <1>2, <1>17 DEF GetStep
  <2>8. QED  BY ONLY <1>15, <2>2, <2>4, <2>6, <2>7 DEF Code!ReadOn
<1>18. CASE r.end # "bad"
  <2>1. r.from = b
    BY ONLY <1>5, <1>18 DEF GotTo
  <2>2. Code!View' = y.text
    BY ONLY <1>11, <1>16, <2>1
  <2>3. cGot' = t
    BY ONLY <1>2, <1>8, <1>18 DEF GetStep
  <2>4. ASSUME cShort', ~cGetError' PROVE y.text = <<>> \/ Head(y.text) \in {"bad", "part"}
    <3>1. r.end \in {"end", "stop"}
      <4>1. Len(t) < n /\ ~(r.end \in {"bad", "part"}) /\ ~(r.end = "fails")
        BY ONLY <1>2, <1>8, <2>4 DEF GetStep
      <4>2. r.end # "full"
        <5>1. PICK i \in Nat : i = Len(t)
          BY ONLY <1>7
        <5>2. i # n
          BY ONLY <4>1, <5>1, i \in Nat, n \in Nat
        <5>3. QED  BY ONLY <1>6, <5>1, <5>2
      <4>3. QED  BY ONLY <1>6, <4>1, <4>2
    <3>2. b = Len(cFile) \/ b < Len(cFile)
      BY ONLY <1>1, <1>7
    <3>3. b = Len(cFile) \/ (b < Len(cFile) /\ (Parted(s, RestOf(cFile, b)) \/ NoChar(s, RestOf(cFile, b))))
      BY ONLY <1>6, <1>9, <3>1, <3>2
    <3>4. QED  BY ONLY <1>14, <3>3
  <2>5. QED  BY ONLY <1>13, <1>15, <2>2, <2>3, <2>4 DEF Code!ReadOn
<1>19. QED  BY ONLY <1>17, <1>18

(* code_cvt: what a get() hands over, characters and bad units, is what    *)
(* the units from where it started say, and the next one starts behind it; *)
(* one that comes back short is at the end or in front of an error.        *)
THEOREM ReadInOrder == MCSpec => ReadsInOrder
<1>1. CInv /\ [MCNext]_<<part, vars, code, zlib>> => [Code!ReadOn]_code
  <2>1. SUFFICES ASSUME CInv, [MCNext]_<<part, vars, code, zlib>>, code' # code PROVE Code!ReadOn
    OBVIOUS
  <2>2. Code!Next
    BY <2>1 DEF MCNext
  <2>3. ASSUME NEW n \in 0..MaxAsk, Code!Get(n) PROVE Code!ReadOn
    <3>1. n \in Nat
      BY CodeConstants
    <3>2. QED  BY <2>1, <2>3, <3>1, GetReadsOn
  <2>4. CASE Code!GetHeld
    <3>1. /\ kind' = kind /\ cFile' = cFile /\ cPos' = cPos /\ cUnread' = cUnread /\ shifted' = shifted
          /\ cGot' = <<>> /\ cShort' = FALSE
      BY ONLY <2>4 DEF Code!GetHeld, Code!kernel
    <3>2. Code!Meaning' = Code!Meaning
      BY ONLY <3>1, SameMeaning
    <3>3. Code!View' = Code!View
      BY ONLY <3>1, <3>2 DEF Code!View, Code!Says, Code!KernelTell
    <3>4. <<>> \o Code!View = Code!View
      <4>1. /\ cFile \in Seq(CUnits) /\ cPos \in Nat /\ cUnread \in Nat /\ cUnread <= cPos /\ shifted \in BOOLEAN
        BY <2>1 DEF CInv, CTypes
      <4>2. PICK p \in Nat : p = cPos - cUnread
        BY ONLY <4>1
      <4>3. SubSeq(cFile, p + 1, Len(cFile)) \in Seq(CUnits)
        BY ONLY <4>1, p \in Nat, RestElements
      <4>4. PICK y : y = Code!Says(shifted, SubSeq(cFile, p + 1, Len(cFile)))
        OBVIOUS
      <4>5. y \in Meanings
        BY <4>1, <4>3, <4>4, SaysType
      <4>6. y.text \in Seq(Said)
        BY ONLY <4>5 DEF Meanings
      <4>7. Code!View = y.text
        BY ONLY <4>2, <4>4 DEF Code!View, Code!KernelTell
      <4>8. QED  BY ONLY <4>6, <4>7, ConcatOfNone
    <3>5. QED  BY ONLY <3>1, <3>3, <3>4 DEF Code!ReadOn
  <2>5. ASSUME ~Code!GetHeld, \A n \in 0..MaxAsk : ~Code!Get(n) PROVE Code!ReadOn
    <3>1. reads' = FALSE
      BY ONLY <2>2, <2>5 DEF Code!Next, Code!Put, Code!PutFails, Code!Turned, Code!TurnFails, Code!FlushFails,
         Code!Seek, Code!Rseek, Code!Refused, Code!Close, Code!Open, Code!Quiet
    <3>2. QED  BY ONLY <3>1 DEF Code!ReadOn
  <2>6. QED  BY ONLY <2>3, <2>4, <2>5
<1>2. QED  BY <1>1, CInvKept, PTL DEF MCSpec, ReadsInOrder
=============================================================================
