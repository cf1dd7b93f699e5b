--------------------------- MODULE SequenceFacts ----------------------------
(***************************************************************************)
(* What the pieces of a sequence are, place by place: those of two put     *)
(* together, of a slice, of a sequence with an element more or fewer, and  *)
(* of sequences put together from the first to the last.  The proofs about *)
(* buffers, files, lists and streams of this development rest on them.     *)
(***************************************************************************)
EXTENDS Integers, Sequences, SequencesExt, SequenceTheorems, FiniteSetTheorems, TLAPS

LEMMA ConcatElements ==
  ASSUME NEW S, NEW p \in Seq(S), NEW r \in Seq(S)
  PROVE  /\ p \o r \in Seq(S) /\ Len(p \o r) = Len(p) + Len(r)
         /\ \A i \in 1..(Len(p) + Len(r)) :
               (p \o r)[i] = IF i <= Len(p) THEN p[i] ELSE r[i - Len(p)]
  OBVIOUS

LEMMA SliceElements ==
  ASSUME NEW S, NEW q \in Seq(S), NEW a \in Nat \ {0}, NEW b \in Nat, b <= Len(q), a <= b + 1
  PROVE  /\ SubSeq(q, a, b) \in Seq(S) /\ Len(SubSeq(q, a, b)) = b + 1 - a
         /\ \A i \in 1..(b + 1 - a) : SubSeq(q, a, b)[i] = q[a + i - 1]
  OBVIOUS

LEMMA PrefixElements ==
  ASSUME NEW S, NEW q \in Seq(S), NEW n \in Nat, n <= Len(q)
  PROVE  /\ SubSeq(q, 1, n) \in Seq(S) /\ Len(SubSeq(q, 1, n)) = n
         /\ \A i \in 1..n : SubSeq(q, 1, n)[i] = q[i]
  OBVIOUS

LEMMA SuffixElements ==
  ASSUME NEW S, NEW q \in Seq(S), NEW n \in Nat, n <= Len(q)
  PROVE  /\ SubSeq(q, n + 1, Len(q)) \in Seq(S) /\ Len(SubSeq(q, n + 1, Len(q))) = Len(q) - n
         /\ \A i \in 1..(Len(q) - n) : SubSeq(q, n + 1, Len(q))[i] = q[n + i]
  OBVIOUS

LEMMA ConsElements ==
  ASSUME NEW S, NEW q \in Seq(S), NEW x \in S
  PROVE  /\ <<x>> \o q \in Seq(S) /\ Len(<<x>> \o q) = Len(q) + 1
         /\ (<<x>> \o q)[1] = x
         /\ \A i \in 1..Len(q) : (<<x>> \o q)[i + 1] = q[i]
         /\ Tail(<<x>> \o q) = q
  OBVIOUS

LEMMA RemoveElements ==
  ASSUME NEW S, NEW q \in Seq(S), NEW n \in 1..Len(q)
  PROVE  /\ RemoveAt(q, n) \in Seq(S) /\ Len(RemoveAt(q, n)) = Len(q) - 1
         /\ \A i \in 1..(Len(q) - 1) :
               RemoveAt(q, n)[i] = IF i < n THEN q[i] ELSE q[i + 1]
<1> DEFINE p == SubSeq(q, 1, n - 1)
           r == SubSeq(q, n + 1, Len(q))
<1>1. Len(q) \in Nat /\ n \in Nat \ {0} /\ n - 1 \in Nat /\ n <= Len(q)
  OBVIOUS
<1>2. p \in Seq(S) /\ Len(p) = n - 1 /\ \A i \in 1..(n - 1) : p[i] = q[i]
  <2>1. Len(p) = n - 1 + 1 - 1 /\ \A i \in 1..(n - 1 + 1 - 1) : p[i] = q[1 + i - 1]
    BY <1>1, SliceElements
  <2>2. QED  BY <1>1, <2>1, SliceElements
<1>3. r \in Seq(S) /\ Len(r) = Len(q) - n /\ \A i \in 1..(Len(q) - n) : r[i] = q[n + i]
  <2>1. /\ Len(r) = Len(q) + 1 - (n + 1)
        /\ \A i \in 1..(Len(q) + 1 - (n + 1)) : r[i] = q[n + 1 + i - 1]
    BY <1>1, SliceElements
  <2>2. QED  BY <1>1, <2>1, SliceElements
<1> HIDE DEF p, r
<1>4. /\ p \o r \in Seq(S) /\ Len(p \o r) = Len(q) - 1
      /\ \A i \in 1..(Len(p) + Len(r)) :
            (p \o r)[i] = IF i <= Len(p) THEN p[i] ELSE r[i - Len(p)]
  <2>1. p \o r \in Seq(S) /\ Len(p \o r) = Len(p) + Len(r)
    BY <1>2, <1>3, ConcatElements
  <2>2. Len(p) + Len(r) = Len(q) - 1
    BY <1>1, <1>2, <1>3
  <2>3. QED  BY <1>2, <1>3, <2>1, <2>2, ConcatElements
<1>5. ASSUME NEW i \in 1..(Len(q) - 1)
      PROVE  (p \o r)[i] = IF i < n THEN q[i] ELSE q[i + 1]
  <2>1. i \in 1..(Len(p) + Len(r))
    BY <1>1, <1>2, <1>3
  <2>2. CASE i < n
    <3>1. i \in 1..(n - 1) /\ i <= Len(p)
      BY <1>1, <1>2, <2>2
    <3>2. QED  BY <1>2, <1>4, <2>1, <2>2, <3>1
  <2>3. CASE ~(i < n)
    <3>1. i - Len(p) \in 1..(Len(q) - n) /\ n + (i - Len(p)) = i + 1 /\ ~(i <= Len(p))
      BY <1>1, <1>2, <2>3
    <3>2. QED  BY <1>3, <1>4, <2>1, <2>3, <3>1
  <2>4. QED  BY <2>2, <2>3
<1>6. QED  BY <1>4, <1>5 DEF RemoveAt, p, r

LEMMA FrontElements ==
  ASSUME NEW S, NEW q \in Seq(S), Len(q) > 0
  PROVE  /\ Front(q) \in Seq(S) /\ Len(Front(q)) = Len(q) - 1
         /\ \A i \in 1..(Len(q) - 1) : Front(q)[i] = q[i]
         /\ Last(q) = q[Len(q)] /\ Last(q) \in S
<1>1. Len(q) - 1 \in Nat /\ Len(q) - 1 <= Len(q) /\ q[Len(q)] \in S
  OBVIOUS
<1>2. \A n \in Nat : n <= Len(q) =>
        /\ SubSeq(q, 1, n) \in Seq(S) /\ Len(SubSeq(q, 1, n)) = n
        /\ \A i \in 1..n : SubSeq(q, 1, n)[i] = q[i]
  OBVIOUS
<1>3. QED  BY <1>1, <1>2 DEF Front, Last

LEMMA SpliceElements ==
  ASSUME NEW S, NEW x \in Seq(S), NEW y \in Seq(S), NEW z \in Seq(S)
  PROVE  /\ x \o y \o z \in Seq(S) /\ Len(x \o y \o z) = Len(x) + Len(y) + Len(z)
         /\ \A i \in 1..(Len(x) + Len(y) + Len(z)) :
               (x \o y \o z)[i] = IF i <= Len(x) THEN x[i]
                                 ELSE IF i <= Len(x) + Len(y) THEN y[i - Len(x)]
                                 ELSE z[i - (Len(x) + Len(y))]
  OBVIOUS

LEMMA RestElements ==
  ASSUME NEW S, NEW q \in Seq(S), NEW n \in Nat
  PROVE  /\ SubSeq(q, n + 1, Len(q)) \in Seq(S)
         /\ n <= Len(q) => /\ Len(SubSeq(q, n + 1, Len(q))) = Len(q) - n
                           /\ \A i \in 1..(Len(q) - n) : SubSeq(q, n + 1, Len(q))[i] = q[n + i]
         /\ Len(q) < n => Len(SubSeq(q, n + 1, Len(q))) = 0
<1>1. CASE n <= Len(q)
  BY <1>1, SuffixElements
<1>2. CASE Len(q) < n
  OBVIOUS
<1>3. QED  BY <1>1, <1>2

(* A slice in terms of how many elements are before it and before its end. *)
LEMMA PieceElements ==
  ASSUME NEW S, NEW q \in Seq(S), NEW a \in Nat, NEW b \in Nat, a <= b, b <= Len(q)
  PROVE  /\ SubSeq(q, a + 1, b) \in Seq(S) /\ Len(SubSeq(q, a + 1, b)) = b - a
         /\ \A i \in 1..(b - a) : SubSeq(q, a + 1, b)[i] = q[a + i]
  OBVIOUS

LEMMA AdjacentPieces ==
  ASSUME NEW S, NEW q \in Seq(S), NEW a \in Nat, NEW b \in Nat, NEW c \in Nat,
         a <= b, b <= c, c <= Len(q)
  PROVE  SubSeq(q, a + 1, b) \o SubSeq(q, b + 1, c) = SubSeq(q, a + 1, c)
<1>1. PICK x : x = SubSeq(q, a + 1, b)
  OBVIOUS
<1>2. PICK y : y = SubSeq(q, b + 1, c)
  OBVIOUS
<1>3. PICK z : z = SubSeq(q, a + 1, c)
  OBVIOUS
<1>4. x \in Seq(S) /\ Len(x) = b - a /\ \A i \in 1..(b - a) : x[i] = q[a + i]
  <2>1. b <= Len(q)
    OBVIOUS
  <2>2. QED  BY <1>1, <2>1, PieceElements
<1>5. y \in Seq(S) /\ Len(y) = c - b /\ \A i \in 1..(c - b) : y[i] = q[b + i]
  BY <1>2, PieceElements
<1>6. z \in Seq(S) /\ Len(z) = c - a /\ \A i \in 1..(c - a) : z[i] = q[a + i]
  <2>1. a <= c
    OBVIOUS
  <2>2. QED  BY <1>3, <2>1, PieceElements
<1>7. /\ x \o y \in Seq(S) /\ Len(x \o y) = Len(x) + Len(y)
      /\ \A i \in 1..(Len(x) + Len(y)) :
            (x \o y)[i] = IF i <= Len(x) THEN x[i] ELSE y[i - Len(x)]
  BY ONLY <1>4, <1>5, ConcatElements
<1>8. Len(x) + Len(y) = c - a /\ c - a \in Nat /\ Len(x) \in Nat
  BY <1>4, <1>5
<1>9. ASSUME NEW i \in 1..(c - a) PROVE (x \o y)[i] = z[i]
  <2>1. CASE i <= b - a
    <3>1. i \in 1..(b - a) /\ i \in 1..(Len(x) + Len(y)) /\ i <= Len(x)
      BY <1>4, <1>8, <2>1
    <3>2. QED  BY <1>4, <1>6, <1>7, <3>1
  <2>2. CASE ~(i <= b - a)
    <3>1. /\ i - (b - a) \in 1..(c - b) /\ i \in 1..(Len(x) + Len(y)) /\ ~(i <= Len(x))
          /\ b + (i - (b - a)) = a + i /\ i - Len(x) = i - (b - a)
      BY <1>4, <1>8, <2>2
    <3>2. QED  BY <1>5, <1>6, <1>7, <3>1
  <2>3. QED  BY <2>1, <2>2
<1>10. x \o y = z
  BY <1>6, <1>7, <1>8, <1>9, SeqEqual
<1>11. QED  BY <1>1, <1>2, <1>3, <1>10

LEMMA PrefixAndPiece ==
  ASSUME NEW S, NEW q \in Seq(S), NEW a \in Nat, NEW b \in Nat, a <= b, b <= Len(q)
  PROVE  SubSeq(q, 1, a) \o SubSeq(q, a + 1, b) = SubSeq(q, 1, b)
<1>1. SubSeq(q, 0 + 1, a) \o SubSeq(q, a + 1, b) = SubSeq(q, 0 + 1, b)
  <2>1. \A o \in Nat : o <= a =>
           SubSeq(q, o + 1, a) \o SubSeq(q, a + 1, b) = SubSeq(q, o + 1, b)
    BY AdjacentPieces
  <2>2. QED  BY <2>1
<1>2. QED  BY <1>1

LEMMA PieceOfPiece ==
  ASSUME NEW S, NEW q \in Seq(S), NEW a \in Nat, NEW b \in Nat, a <= b, b <= Len(q),
         NEW i \in Nat, NEW j \in Nat, i <= j, j <= b - a
  PROVE  SubSeq(SubSeq(q, a + 1, b), i + 1, j) = SubSeq(q, (a + i) + 1, a + j)
<1>1. PICK x : x = SubSeq(q, a + 1, b)
  OBVIOUS
<1>2. PICK y : y = SubSeq(x, i + 1, j)
  OBVIOUS
<1>3. PICK z : z = SubSeq(q, (a + i) + 1, a + j)
  OBVIOUS
<1>4. x \in Seq(S) /\ Len(x) = b - a /\ \A k \in 1..(b - a) : x[k] = q[a + k]
  BY <1>1, PieceElements
<1>5. y \in Seq(S) /\ Len(y) = j - i /\ \A k \in 1..(j - i) : y[k] = x[i + k]
  BY <1>2, <1>4, PieceElements
<1>6. /\ z \in Seq(S) /\ Len(z) = (a + j) - (a + i)
      /\ \A k \in 1..((a + j) - (a + i)) : z[k] = q[(a + i) + k]
  <2>1. a + i \in Nat /\ a + j \in Nat /\ a + i <= a + j /\ a + j <= Len(q)
    OBVIOUS
  <2>2. QED  BY <1>3, <2>1, PieceElements
<1>7. Len(y) = Len(z) /\ (a + j) - (a + i) = j - i /\ Len(y) = j - i
  BY <1>5, <1>6
<1>8. ASSUME NEW k \in 1..(j - i) PROVE y[k] = z[k]
  <2>1. i + k \in 1..(b - a) /\ a + (i + k) = (a + i) + k
    OBVIOUS
  <2>2. QED  BY <1>4, <1>5, <1>6, <1>7, <2>1
<1>9. y = z
  BY <1>5, <1>6, <1>7, <1>8, SeqEqual
<1>10. QED  BY <1>1, <1>2, <1>3, <1>9

LEMMA PrefixOfPiece ==
  ASSUME NEW S, NEW q \in Seq(S), NEW a \in Nat, NEW b \in Nat, a <= b, b <= Len(q),
         NEW j \in Nat, j <= b - a
  PROVE  SubSeq(SubSeq(q, a + 1, b), 1, j) = SubSeq(q, a + 1, a + j)
<1>1. \A i \in Nat : i <= j =>
         SubSeq(SubSeq(q, a + 1, b), i + 1, j) = SubSeq(q, (a + i) + 1, a + j)
  BY PieceOfPiece
<1>2. QED  BY <1>1

LEMMA WholePiece ==
  ASSUME NEW S, NEW q \in Seq(S)
  PROVE  SubSeq(q, 1, Len(q)) = q
  OBVIOUS

LEMMA NoPiece ==
  ASSUME NEW q, NEW a \in Nat
  PROVE  SubSeq(q, a + 1, a) = <<>>
  BY SubSeqEmpty

LEMMA PiecesOfConcat ==
  ASSUME NEW S, NEW x \in Seq(S), NEW y \in Seq(S), NEW k \in Nat, k <= Len(y)
  PROVE  /\ SubSeq(x \o y, 1, Len(x) + k) = x \o SubSeq(y, 1, k)
         /\ SubSeq(x \o y, Len(x) + 1, Len(x) + k) = SubSeq(y, 1, k)
<1>1. PICK w : w = x \o y
  OBVIOUS
<1>2. /\ w \in Seq(S) /\ Len(w) = Len(x) + Len(y) /\ Len(x) \in Nat /\ Len(y) \in Nat
      /\ \A i \in 1..(Len(x) + Len(y)) : w[i] = IF i <= Len(x) THEN x[i] ELSE y[i - Len(x)]
  BY <1>1, ConcatElements
<1>3. PICK p : p = SubSeq(y, 1, k)
  OBVIOUS
<1>4. p \in Seq(S) /\ Len(p) = k /\ \A i \in 1..k : p[i] = y[i]
  BY <1>3, PrefixElements
<1>5. PICK l \in Nat : l = Len(x)
  BY <1>2
<1>6. SubSeq(w, l + 1, l + k) = p
  <2>1. PICK z : z = SubSeq(w, l + 1, l + k)
    OBVIOUS
  <2>2. l + k \in Nat /\ l <= l + k /\ l + k <= Len(w) /\ (l + k) - l = k
    BY <1>2, <1>5
  <2>3. z \in Seq(S) /\ Len(z) = k /\ \A i \in 1..k : z[i] = w[l + i]
    BY <1>2, <1>5, <2>1, <2>2, PieceElements
  <2>4. ASSUME NEW i \in 1..k PROVE z[i] = p[i]
    <3>1. /\ l + i \in 1..(Len(x) + Len(y)) /\ ~(l + i <= Len(x)) /\ (l + i) - Len(x) = i
      BY <1>2, <1>5
    <3>2. QED  BY <1>2, <1>4, <2>3, <3>1
  <2>5. z = p
    BY <1>4, <2>3, <2>4, SeqEqual
  <2>6. QED  BY <2>1, <2>5
<1>7. SubSeq(w, 1, l) = x
  <2>1. PICK z : z = SubSeq(w, 1, l)
    OBVIOUS
  <2>2. l <= Len(w)
    BY <1>2, <1>5
  <2>3. z \in Seq(S) /\ Len(z) = l /\ \A i \in 1..l : z[i] = w[i]
    BY <1>2, <1>5, <2>1, <2>2, PrefixElements
  <2>4. ASSUME NEW i \in 1..l PROVE z[i] = x[i]
    <3>1. i \in 1..(Len(x) + Len(y)) /\ i <= Len(x)
      BY <1>2, <1>5
    <3>2. QED  BY <1>2, <2>3, <3>1
  <2>5. z = x
    BY <1>5, <2>3, <2>4, SeqEqual
  <2>6. QED  BY <2>1, <2>5
<1>8. SubSeq(w, 1, l) \o SubSeq(w, l + 1, l + k) = SubSeq(w, 1, l + k)
  <2>1. l + k \in Nat /\ l <= l + k /\ l + k <= Len(w)
    BY <1>2, <1>5
  <2> w \in Seq(S)
    BY <1>2
  <2>2. PICK o \in Nat : o = 0 /\ o <= l /\ o + 1 = 1
    OBVIOUS
  <2>3. SubSeq(w, o + 1, l) \o SubSeq(w, l + 1, l + k) = SubSeq(w, o + 1, l + k)
    BY ONLY w \in Seq(S), l \in Nat, o \in Nat, <2>1, <2>2, AdjacentPieces
  <2>4. QED  BY <2>2, <2>3
<1>9. SubSeq(w, 1, l + k) = x \o p
  BY ONLY <1>6, <1>7, <1>8
<1>10. QED  BY ONLY <1>1, <1>3, <1>5, <1>6, <1>9

LEMMA PiecesBeforeConcat ==
  ASSUME NEW S, NEW x \in Seq(S), NEW y \in Seq(S), NEW a \in Nat, NEW b \in Nat,
         a <= b, b <= Len(x)
  PROVE  SubSeq(x \o y, a + 1, b) = SubSeq(x, a + 1, b)
<1>1. PICK w : w = x \o y
  OBVIOUS
<1>2. /\ w \in Seq(S) /\ Len(w) = Len(x) + Len(y) /\ Len(x) \in Nat /\ Len(y) \in Nat
      /\ \A i \in 1..(Len(x) + Len(y)) : w[i] = IF i <= Len(x) THEN x[i] ELSE y[i - Len(x)]
  BY <1>1, ConcatElements
<1>3. PICK p : p = SubSeq(w, a + 1, b)
  OBVIOUS
<1>4. PICK r : r = SubSeq(x, a + 1, b)
  OBVIOUS
<1>5. b <= Len(w)
  BY <1>2
<1>6. p \in Seq(S) /\ Len(p) = b - a /\ \A i \in 1..(b - a) : p[i] = w[a + i]
  BY <1>2, <1>3, <1>5, PieceElements
<1>7. r \in Seq(S) /\ Len(r) = b - a /\ \A i \in 1..(b - a) : r[i] = x[a + i]
  BY <1>4, PieceElements
<1>8. ASSUME NEW i \in 1..(b - a) PROVE p[i] = r[i]
  <2>1. a + i \in 1..(Len(x) + Len(y)) /\ a + i <= Len(x)
    BY <1>2
  <2>2. QED  BY <1>2, <1>6, <1>7, <2>1
<1>9. p = r
  BY <1>6, <1>7, <1>8, SeqEqual
<1>10. QED  BY <1>1, <1>3, <1>4, <1>9

(* What r is when it is f with `data` laid over it from its place p + 1 on. *)
IsLaidOver(r, S, f, p, data) ==
    /\ r \in Seq(S)
    /\ Len(r) = IF Len(f) < p + Len(data) THEN p + Len(data) ELSE Len(f)
    /\ \A i \in Nat \ {0} :
          /\ i <= p => r[i] = f[i]
          /\ p < i /\ i <= p + Len(data) => r[i] = data[i - p]
          /\ p + Len(data) < i /\ i <= Len(f) => r[i] = f[i]

LEMMA LaidOverElements ==
  ASSUME NEW S, NEW f \in Seq(S), NEW p \in Nat, p <= Len(f), NEW data \in Seq(S)
  PROVE  IsLaidOver(SubSeq(f, 1, p) \o data \o SubSeq(f, p + Len(data) + 1, Len(f)), S, f, p, data)
<1>1. PICK x : x = SubSeq(f, 1, p)
  OBVIOUS
<1>2. PICK n : n = p + Len(data)
  OBVIOUS
<1>3. PICK z : z = SubSeq(f, n + 1, Len(f))
  OBVIOUS
<1>4. x \in Seq(S) /\ Len(x) = p /\ \A i \in 1..p : x[i] = f[i]
  BY <1>1, PrefixElements
<1>5. n \in Nat
  BY <1>2
<1>6. /\ z \in Seq(S)
      /\ n <= Len(f) => Len(z) = Len(f) - n /\ \A i \in 1..(Len(f) - n) : z[i] = f[n + i]
      /\ Len(f) < n => Len(z) = 0
  BY <1>3, <1>5, RestElements
<1>7. SubSeq(f, 1, p) \o data \o SubSeq(f, p + Len(data) + 1, Len(f)) = x \o data \o z
  BY <1>1, <1>2, <1>3
<1>8. /\ p + Len(data) <= Len(f) =>
            /\ Len(z) = Len(f) - (p + Len(data))
            /\ \A i \in 1..(Len(f) - (p + Len(data))) : z[i] = f[p + Len(data) + i]
      /\ Len(f) < p + Len(data) => Len(z) = 0
  BY <1>2, <1>6
<1>9. x \in Seq(S) /\ z \in Seq(S)
  BY <1>4, <1>6
<1>10. /\ Len(f) \in Nat /\ Len(data) \in Nat /\ Len(z) \in Nat
       /\ x \in Seq(S) /\ z \in Seq(S) /\ Len(x) = p
  BY <1>4, <1>6
<1>11. /\ x \o data \o z \in Seq(S) /\ Len(x \o data \o z) = Len(x) + Len(data) + Len(z)
      /\ \A i \in 1..(Len(x) + Len(data) + Len(z)) :
            (x \o data \o z)[i] = IF i <= Len(x) THEN x[i]
                              ELSE IF i <= Len(x) + Len(data) THEN data[i - Len(x)]
                              ELSE z[i - (Len(x) + Len(data))]
  BY ONLY SpliceElements, <1>9, x \in Seq(S), data \in Seq(S), z \in Seq(S)
<1>12. Len(x \o data \o z) = IF Len(f) < p + Len(data) THEN p + Len(data) ELSE Len(f)
  <2>1. Len(x \o data \o z) = p + Len(data) + Len(z)
    BY <1>4, <1>11
  <2>2. CASE p + Len(data) <= Len(f)
    <3>1. Len(z) = Len(f) - (p + Len(data))
      BY <1>8, <2>2
    <3>2. QED  BY ONLY <1>10, <2>1, <2>2, <3>1, p \in Nat
  <2>3. CASE Len(f) < p + Len(data)
    <3>1. Len(z) = 0
      BY <1>8, <2>3
    <3>2. QED  BY ONLY <1>10, <2>1, <2>3, <3>1, p \in Nat
  <2>4. QED  BY <1>10, <2>2, <2>3
<1>13. ASSUME NEW i \in Nat \ {0}, i <= p PROVE (x \o data \o z)[i] = f[i]
  <2>1. i \in 1..(Len(x) + Len(data) + Len(z)) /\ i \in 1..p /\ i <= Len(x)
    BY <1>10, <1>13
  <2>2. QED  BY <1>4, <1>11, <2>1
<1>14. ASSUME NEW i \in Nat \ {0}, p < i, i <= p + Len(data) PROVE (x \o data \o z)[i] = data[i - p]
  <2>1. /\ i \in 1..(Len(x) + Len(data) + Len(z)) /\ ~(i <= Len(x))
        /\ i <= Len(x) + Len(data) /\ i - Len(x) = i - p
    BY <1>10, <1>14
  <2>2. QED  BY <1>11, <2>1
<1>15. ASSUME NEW i \in Nat \ {0}, p + Len(data) < i, i <= Len(f) PROVE (x \o data \o z)[i] = f[i]
  <2>1. /\ i - (p + Len(data)) \in 1..(Len(f) - (p + Len(data))) /\ i \in 1..(Len(x) + Len(data) + Len(z))
        /\ p + Len(data) + (i - (p + Len(data))) = i /\ ~(i <= Len(x)) /\ ~(i <= Len(x) + Len(data))
        /\ p + Len(data) <= Len(f)
    BY <1>10, <1>8, <1>15
  <2>2. (x \o data \o z)[i] = z[i - (p + Len(data))]
    BY <1>4, <1>11, <2>1
  <2>3. QED  BY <1>8, <2>1, <2>2
<1>16. QED  BY <1>7, <1>11, <1>12, <1>13, <1>14, <1>15 DEF IsLaidOver

(* The least of some numbers: what an induction over them needs.           *)
NatBelow == {p \in Nat \X Nat : p[1] < p[2]}

LEMMA LeastElement ==
  ASSUME NEW T \in SUBSET Nat, T # {}
  PROVE  \E x \in T : \A y \in T : x <= y
<1>1. IsWellFoundedOn(NatBelow, Nat)
  BY NatLessThanWellFounded DEF OpToRel, NatBelow
<1>2. PICK x \in T : \A y \in T : ~(<<y, x>> \in NatBelow)
  BY <1>1, WFMin
<1>3. ASSUME NEW y \in T PROVE x <= y
  <2>1. ~(y < x)
    BY <1>2 DEF NatBelow
  <2>2. QED  BY <2>1
<1>4. QED  BY <1>3

LEMMA ConcatOfNone ==
  ASSUME NEW S, NEW x \in Seq(S)
  PROVE  x \o <<>> = x /\ <<>> \o x = x
  OBVIOUS

(* What two sequences hold together. *)
LEMMA ElementsOfConcat ==
  ASSUME NEW S, NEW x \in Seq(S), NEW y \in Seq(S)
  PROVE  ToSet(x \o y) = ToSet(x) \cup ToSet(y)
<1>1. PICK w : w = x \o y
  OBVIOUS
<1>2. PICK m : m = Len(x)
  OBVIOUS
<1>3. PICK n : n = Len(y)
  OBVIOUS
<1>4. m \in Nat /\ n \in Nat /\ w \in Seq(S) /\ Len(w) = m + n
  BY <1>1, <1>2, <1>3, ConcatElements
<1>5. \A i \in 1..(m + n) : w[i] = IF i <= m THEN x[i] ELSE y[i - m]
  BY <1>1, <1>2, <1>3, ConcatElements
<1>6. /\ ToSet(w) = {w[i] : i \in 1..(m + n)}
      /\ ToSet(x) = {x[i] : i \in 1..m} /\ ToSet(y) = {y[i] : i \in 1..n}
  <2>1. DOMAIN w = 1..(m + n) /\ DOMAIN x = 1..m /\ DOMAIN y = 1..n
    BY <1>2, <1>3, <1>4
  <2>2. QED  BY ONLY <2>1 DEF ToSet
<1>7. ASSUME NEW e \in ToSet(w) PROVE e \in ToSet(x) \cup ToSet(y)
  <2>1. PICK i \in 1..(m + n) : e = w[i]
    BY <1>6
  <2>2. CASE i <= m
    BY <1>4, <1>5, <1>6, <2>1, <2>2
  <2>3. CASE ~(i <= m)
    <3>1. i - m \in 1..n /\ w[i] = y[i - m]
      BY <1>4, <1>5, <2>3
    <3>2. QED  BY <1>6, <2>1, <3>1
  <2>4. QED  BY <2>2, <2>3
<1>8. ASSUME NEW e \in ToSet(x) PROVE e \in ToSet(w)
  <2>1. PICK i \in 1..m : e = x[i]
    BY <1>6
  <2>2. i \in 1..(m + n) /\ w[i] = x[i]
    BY <1>4, <1>5
  <2>3. QED  BY <1>6, <2>1, <2>2
<1>9. ASSUME NEW e \in ToSet(y) PROVE e \in ToSet(w)
  <2>1. PICK i \in 1..n : e = y[i]
    BY <1>6
  <2>2. i + m \in 1..(m + n) /\ ~(i + m <= m) /\ (i + m) - m = i
    BY <1>4
  <2>3. w[i + m] = y[i]
    BY <1>5, <2>2
  <2>4. QED  BY <1>6, <2>1, <2>2, <2>3
<1>10. QED  BY <1>1, <1>7, <1>8, <1>9

(* They are no more than it is long. *)
LEMMA ElementsAreFew ==
  ASSUME NEW S, NEW x \in Seq(S)
  PROVE  IsFiniteSet(ToSet(x)) /\ Cardinality(ToSet(x)) <= Len(x)
<1>1. PICK n \in Nat : n = Len(x)
  OBVIOUS
<1>2. PICK f : f = [i \in 1..n |-> x[i]]
  OBVIOUS
<1>3. ToSet(x) = {x[i] : i \in 1..n}
  BY <1>1 DEF ToSet
<1>4. f \in Surjection(1..n, ToSet(x))
  BY <1>2, <1>3 DEF Surjection
<1>5. IsFiniteSet(1..n) /\ Cardinality(1..n) = n
  BY FS_Interval
<1>6. IsFiniteSet(ToSet(x)) /\ Cardinality(ToSet(x)) <= Cardinality(1..n)
  BY <1>4, <1>5, FS_Surjection
<1>7. QED  BY <1>1, <1>5, <1>6

(* FlattenSeq() puts the sequences of s together from the first on; f has  *)
(* what it has come to after each of them.                                 *)
Comes(s, n, f) == [i \in 1..n |-> IF i = 1 THEN s[i] ELSE f[i - 1] \o s[i]]

LEMMA FlatteningExists ==
  ASSUME NEW s, NEW n \in Nat
  PROVE  \E f : f = Comes(s, n, f)
<1> DEFINE Lacks == {m \in Nat : ~ \E f : f = Comes(s, m, f)}
<1>1. SUFFICES ASSUME Lacks # {} PROVE FALSE
  OBVIOUS
<1>2. PICK x \in Lacks : \A y \in Lacks : x <= y
  <2>1. Lacks \in SUBSET Nat
    OBVIOUS
  <2>2. QED  BY ONLY <1>1, <2>1, LeastElement
<1>3. x # 0
  <2>1. PICK f : f = [i \in 1..0 |-> 0]
    OBVIOUS
  <2>2. f = Comes(s, 0, f)
    BY <2>1 DEF Comes
  <2>3. QED  BY <2>2
<1>4. x - 1 \in Nat /\ ~(x <= x - 1)
  BY <1>3
<1>5. PICK g : g = Comes(s, x - 1, g)
  BY <1>2, <1>4
<1>6. PICK f : f = [i \in 1..x |-> IF i < x THEN g[i] ELSE IF i = 1 THEN s[i] ELSE g[i - 1] \o s[i]]
  OBVIOUS
<1>7. ASSUME NEW i \in 1..x
      PROVE  f[i] = IF i = 1 THEN s[i] ELSE f[i - 1] \o s[i]
  <2>1. i # 1 => i - 1 \in 1..x /\ i - 1 < x
    OBVIOUS
  <2>2. i # 1 => f[i - 1] = g[i - 1]
    BY ONLY <1>6, <2>1
  <2>3. CASE i < x
    <3>1. i \in 1..(x - 1)
      BY <2>3
    <3>2. g[i] = IF i = 1 THEN s[i] ELSE g[i - 1] \o s[i]
      BY ONLY <1>5, <3>1 DEF Comes
    <3>3. f[i] = g[i]
      BY ONLY <1>6, <2>3, <1>7
    <3>4. QED  BY ONLY <2>2, <3>2, <3>3
  <2>4. CASE ~(i < x)
    <3>1. f[i] = IF i = 1 THEN s[i] ELSE g[i - 1] \o s[i]
      BY ONLY <1>6, <2>4, <1>7
    <3>2. QED  BY ONLY <2>2, <3>1
  <2>5. QED  BY <2>3, <2>4
<1>8. f = Comes(s, x, f)
  <2>1. f = [i \in 1..x |-> f[i]]
    BY ONLY <1>6
  <2>2. QED  BY ONLY <1>7, <2>1 DEF Comes
<1>9. QED  BY <1>2, <1>8

LEMMA FlattenIs ==
  ASSUME NEW S, NEW s \in Seq(S), Len(s) # 0
  PROVE  \E f : f = Comes(s, Len(s), f) /\ FlattenSeq(s) = f[Len(s)]
<1>1. PICK g : g = CHOOSE f : f = Comes(s, Len(s), f)
  OBVIOUS
<1>2. g = Comes(s, Len(s), g)
  <2>1. Len(s) \in Nat
    OBVIOUS
  <2>2. \E f : f = Comes(s, Len(s), f)
    BY <2>1, FlatteningExists
  <2>3. QED  BY ONLY <1>1, <2>2
<1>3. FlattenSeq(s) = g[Len(s)]
  BY <1>1 DEF FlattenSeq, Comes
<1>4. QED  BY <1>2, <1>3

SameUpTo(s, t, m) == \A i \in 1..m : s[i] = t[i]

LEMMA ComesAlike ==
  ASSUME NEW s, NEW t, NEW f, NEW g, NEW m \in Nat, NEW n \in Nat,
         f = Comes(s, m, f), g = Comes(t, n, g), m <= n, SameUpTo(s, t, m)
  PROVE  SameUpTo(f, g, m)
<1> DEFINE Differ == {i \in 1..m : f[i] # g[i]}
<1>1. SUFFICES ASSUME Differ # {} PROVE FALSE
  BY DEF SameUpTo
<1>2. PICK x \in Differ : \A y \in Differ : x <= y
  <2>1. Differ \in SUBSET Nat
    OBVIOUS
  <2>2. QED  BY ONLY <1>1, <2>1, LeastElement
<1>3. x \in 1..m /\ x \in 1..n /\ f[x] # g[x]
  BY <1>2
<1>4. f[x] = IF x = 1 THEN s[x] ELSE f[x - 1] \o s[x]
  BY ONLY f = Comes(s, m, f), <1>3 DEF Comes
<1>5. g[x] = IF x = 1 THEN t[x] ELSE g[x - 1] \o t[x]
  BY ONLY g = Comes(t, n, g), <1>3 DEF Comes
<1>6. s[x] = t[x]
  BY <1>3 DEF SameUpTo
<1>7. x # 1 => f[x - 1] = g[x - 1]
  <2>1. x # 1 => x - 1 \in 1..m /\ ~(x <= x - 1)
    BY ONLY <1>3
  <2>2. x # 1 => x - 1 \notin Differ
    BY ONLY <1>2, <2>1
  <2>3. QED  BY ONLY <2>1, <2>2
<1>8. QED  BY ONLY <1>3, <1>4, <1>5, <1>6, <1>7

(* What FlattenSeq() does, from the left: of none, of one, of one more.    *)
LEMMA FlattenNone ==
  FlattenSeq(<<>>) = <<>>
  BY DEF FlattenSeq

LEMMA FlattenOne ==
  ASSUME NEW S, NEW e \in S
  PROVE  FlattenSeq(<<e>>) = e
<1>1. PICK s : s = <<e>>
  OBVIOUS
<1>2. s \in Seq(S) /\ Len(s) = 1 /\ s[1] = e
  BY <1>1
<1>3. PICK f : f = Comes(s, Len(s), f) /\ FlattenSeq(s) = f[Len(s)]
  BY <1>2, FlattenIs
<1>4. f[1] = s[1]
  BY <1>2, <1>3 DEF Comes
<1>5. QED  BY <1>1, <1>2, <1>3, <1>4

LEMMA FlattenNext ==
  ASSUME NEW T, NEW s \in Seq(Seq(T)), NEW e \in Seq(T)
  PROVE  FlattenSeq(Append(s, e)) = FlattenSeq(s) \o e
<1>1. CASE s = <<>>
  <2>1. Append(s, e) = <<e>>
    BY <1>1
  <2>2. FlattenSeq(<<e>>) = e
    BY FlattenOne
  <2>3. <<>> \o e = e
    BY ConcatOfNone
  <2>4. QED  BY <1>1, <2>1, <2>2, <2>3, FlattenNone
<1>2. CASE s # <<>>
  <2>1. PICK n \in Nat : n = Len(s)
    OBVIOUS
  <2>2. n # 0 /\ n + 1 \in Nat
    BY <1>2, <2>1
  <2>3. PICK t : t = Append(s, e)
    OBVIOUS
  <2>4. t \in Seq(Seq(T)) /\ Len(t) = n + 1 /\ t[n + 1] = e /\ \A i \in 1..n : s[i] = t[i]
    BY <2>1, <2>3
  <2>5. PICK f : f = Comes(s, n, f) /\ FlattenSeq(s) = f[n]
    BY <2>1, <2>2, FlattenIs
  <2>6. PICK g : g = Comes(t, n + 1, g) /\ FlattenSeq(t) = g[n + 1]
    <3>1. PICK S : S = Seq(T)
      OBVIOUS
    <3>2. PICK m \in Nat : m = n + 1 /\ m # 0
      BY ONLY <2>2, n \in Nat
    <3>3. t \in Seq(S) /\ Len(t) = m
      BY ONLY <2>4, <3>1, <3>2
    <3>4. \E h : h = Comes(t, Len(t), h) /\ FlattenSeq(t) = h[Len(t)]
      BY ONLY <3>2, <3>3, FlattenIs
    <3>5. QED  BY ONLY <3>2, <3>3, <3>4
  <2>7. f[n] = g[n]
    <3>1. SameUpTo(f, g, n)
      <4>1. PICK m \in Nat : m = n + 1
        BY <2>2
      <4>2. n <= m
        BY <4>1
      <4>3. f = Comes(s, n, f) /\ g = Comes(t, m, g)
        BY <2>5, <2>6, <4>1
      <4>4. SameUpTo(s, t, n)
        BY <2>4 DEF SameUpTo
      <4>5. QED  BY <4>2, <4>3, <4>4, ComesAlike
    <3>2. QED  BY <2>2, <3>1 DEF SameUpTo
  <2>8. g[n + 1] = g[n] \o t[n + 1]
    <3>1. n + 1 \in 1..(n + 1) /\ n + 1 # 1 /\ (n + 1) - 1 = n
      BY <2>2
    <3>2. g[n + 1] = IF n + 1 = 1 THEN t[n + 1] ELSE g[(n + 1) - 1] \o t[n + 1]
      BY ONLY <2>6, <3>1 DEF Comes
    <3>3. QED  BY ONLY <3>1, <3>2
  <2>9. QED  BY <2>3, <2>4, <2>5, <2>6, <2>7, <2>8
<1>3. QED  BY <1>1, <1>2

(* Two sequences are put together, or one is built up, element by element. *)
LEMMA PrefixGrows ==
  ASSUME NEW S, NEW y \in Seq(S), NEW k \in Nat, k + 1 <= Len(y)
  PROVE  /\ SubSeq(y, 1, k) \in Seq(S) /\ y[k + 1] \in S
         /\ SubSeq(y, 1, k + 1) = Append(SubSeq(y, 1, k), y[k + 1])
  OBVIOUS

LEMMA FlattenTyped ==
  ASSUME NEW T, NEW s \in Seq(Seq(T))
  PROVE  FlattenSeq(s) \in Seq(T)
<1>1. PICK n \in Nat : n = Len(s)
  OBVIOUS
<1> DEFINE Bad == {k \in Nat : k <= n /\ FlattenSeq(SubSeq(s, 1, k)) \notin Seq(T)}
<1>2. Bad = {}
  <2>1. SUFFICES ASSUME Bad # {} PROVE FALSE
    OBVIOUS
  <2>2. PICK x \in Bad : \A y \in Bad : x <= y
    <3>1. Bad \in SUBSET Nat
      OBVIOUS
    <3>2. QED  BY ONLY <2>1, <3>1, LeastElement
  <2>3. x # 0
    <3>1. SubSeq(s, 1, 0) = <<>>
      <4>1. SubSeq(s, 0 + 1, 0) = <<>>
        BY NoPiece
      <4>2. QED  BY <4>1
    <3>2. <<>> \in Seq(T)
      OBVIOUS
    <3>3. QED  BY <2>2, <3>1, <3>2, FlattenNone
  <2>4. PICK k \in Nat : x = k + 1
    <3>1. x - 1 \in Nat /\ x = (x - 1) + 1
      BY <2>2, <2>3
    <3>2. QED  BY <3>1
  <2>5. k + 1 <= Len(s) /\ FlattenSeq(SubSeq(s, 1, k)) \in Seq(T)
    <3>1. k + 1 <= n /\ k <= n /\ ~(x <= k)
      BY <2>2, <2>4
    <3>2. k \notin Bad
      BY <2>2, <3>1
    <3>3. QED  BY <1>1, <3>1, <3>2
  <2>6. PICK p : p = SubSeq(s, 1, k)
    OBVIOUS
  <2>7. p \in Seq(Seq(T)) /\ s[k + 1] \in Seq(T) /\ SubSeq(s, 1, k + 1) = Append(p, s[k + 1])
    BY <2>5, <2>6, PrefixGrows
  <2>8. FlattenSeq(SubSeq(s, 1, k + 1)) = FlattenSeq(p) \o s[k + 1]
    BY <2>7, FlattenNext
  <2>9. FlattenSeq(p) \o s[k + 1] \in Seq(T)
    <3>1. FlattenSeq(p) \in Seq(T)
      BY <2>5, <2>6
    <3>2. QED  BY <2>7, <3>1, ConcatElements
  <2>10. QED  BY <2>2, <2>4, <2>8, <2>9
<1>3. FlattenSeq(SubSeq(s, 1, n)) \in Seq(T)
  BY <1>2
<1>4. QED  BY <1>1, <1>3, WholePiece

(* Three sequences may be put together from either side.                   *)
Regroups(x, y, z) == (x \o y) \o z = x \o (y \o z)

LEMMA ConcatThree ==
  ASSUME NEW S
  PROVE  \A x, y, z \in Seq(S) : Regroups(x, y, z)
<1>1. ASSUME NEW x \in Seq(S), NEW y \in Seq(S), NEW z \in Seq(S) PROVE Regroups(x, y, z)
  BY DEF Regroups
<1>2. QED  BY ONLY <1>1, Zenon

LEMMA FlattenConcat ==
  ASSUME NEW T, NEW x \in Seq(Seq(T)), NEW y \in Seq(Seq(T))
  PROVE  FlattenSeq(x \o y) = FlattenSeq(x) \o FlattenSeq(y)
<1>1. PICK n \in Nat : n = Len(y)
  OBVIOUS
<1> DEFINE Part(k) == SubSeq(y, 1, k)
           Holds(k) == FlattenSeq(x \o Part(k)) = FlattenSeq(x) \o FlattenSeq(Part(k))
           Bad == {k \in Nat : k <= n /\ ~Holds(k)}
<1>2. Bad = {}
  <2>1. SUFFICES ASSUME Bad # {} PROVE FALSE
    OBVIOUS
  <2>2. PICK b \in Bad : \A c \in Bad : b <= c
    <3>1. Bad \in SUBSET Nat
      OBVIOUS
    <3>2. QED  BY ONLY <2>1, <3>1, LeastElement
  <2>3. b # 0
    <3>1. Part(0) = <<>>
      <4>1. SubSeq(y, 0 + 1, 0) = <<>>
        BY NoPiece
      <4>2. QED  BY <4>1
    <3>2. FlattenSeq(x) \in Seq(T)
      BY FlattenTyped
    <3>3. FlattenSeq(x) \o <<>> = FlattenSeq(x)
      BY <3>2, ConcatOfNone
    <3>4. x \o <<>> = x
      BY ConcatOfNone
    <3>5. Holds(0)
      BY ONLY <3>1, <3>3, <3>4, FlattenNone
    <3>6. QED  BY ONLY <2>2, <3>5
  <2>4. PICK k \in Nat : b = k + 1
    <3>1. b - 1 \in Nat /\ b = (b - 1) + 1
      BY <2>2, <2>3
    <3>2. QED  BY <3>1
  <2>5. k + 1 <= Len(y) /\ Holds(k)
    <3>1. k + 1 <= n /\ k <= n /\ ~(b <= k)
      BY <2>2, <2>4
    <3>2. k \notin Bad
      BY <2>2, <3>1
    <3>3. QED  BY <1>1, <3>1, <3>2
  <2>6. PICK p : p = Part(k)
    OBVIOUS
  <2>7. PICK e : e = y[k + 1]
    OBVIOUS
  <2>8. p \in Seq(Seq(T)) /\ e \in Seq(T) /\ Part(k + 1) = Append(p, e)
    BY <2>5, <2>6, <2>7, PrefixGrows
  <2>9. x \o Append(p, e) = Append(x \o p, e) /\ x \o p \in Seq(Seq(T))
    <3>1. PICK o : o = <<e>>
      OBVIOUS
    <3>2. o \in Seq(Seq(T)) /\ x \o p \in Seq(Seq(T))
      BY <2>8, <3>1, ConcatElements
    <3>3. Append(p, e) = p \o o /\ Append(x \o p, e) = (x \o p) \o o
      BY <2>8, <3>1, <3>2, AppendIsConcat
    <3>4. (x \o p) \o o = x \o (p \o o)
      <4>1. \A i, j, l \in Seq(Seq(T)) : Regroups(i, j, l)
        BY ConcatThree
      <4>2. QED  BY <2>8, <3>2, <4>1, Zenon DEF Regroups
    <3>5. QED  BY <3>2, <3>3, <3>4
  <2>10. /\ FlattenSeq(Append(x \o p, e)) = FlattenSeq(x \o p) \o e
         /\ FlattenSeq(Append(p, e)) = FlattenSeq(p) \o e
    BY <2>8, <2>9, FlattenNext
  <2>11. FlattenSeq(x) \o (FlattenSeq(p) \o e) = (FlattenSeq(x) \o FlattenSeq(p)) \o e
    <3>1. FlattenSeq(x) \in Seq(T) /\ FlattenSeq(p) \in Seq(T)
      BY <2>8, FlattenTyped
    <3>2. PICK u \in Seq(T), v \in Seq(T) : u = FlattenSeq(x) /\ v = FlattenSeq(p)
      BY <3>1
    <3>3. (u \o v) \o e = u \o (v \o e)
      <4>1. \A i, j, l \in Seq(T) : Regroups(i, j, l)
        BY ConcatThree
      <4>2. QED  BY <2>8, <3>2, <4>1, Zenon DEF Regroups
    <3>4. QED  BY <3>2, <3>3
  <2>12. FlattenSeq(x \o p) = FlattenSeq(x) \o FlattenSeq(p)
    BY <2>5, <2>6
  <2>13. Holds(b)
    BY ONLY <2>4, <2>8, <2>9, <2>10, <2>11, <2>12
  <2>14. QED  BY ONLY <2>2, <2>13
<1>3. Holds(n)
  <2>1. n \notin Bad
    BY <1>2
  <2>2. n <= n
    OBVIOUS
  <2>3. QED  BY <2>1, <2>2
<1>4. QED  BY <1>1, <1>3, WholePiece

(* A sequence spelled out element by element is that sequence.             *)
LEMMA FlattenSingles ==
  ASSUME NEW T, NEW q \in Seq(T)
  PROVE  FlattenSeq([i \in 1..Len(q) |-> <<q[i]>>]) = q
<1>1. PICK n \in Nat : n = Len(q)
  OBVIOUS
<1>2. PICK s : s = [i \in 1..n |-> <<q[i]>>]
  OBVIOUS
<1>3. s \in Seq(Seq(T)) /\ Len(s) = n /\ \A i \in 1..n : s[i] = <<q[i]>>
  BY <1>1, <1>2
<1> DEFINE Bad == {k \in Nat : k <= n /\ FlattenSeq(SubSeq(s, 1, k)) # SubSeq(q, 1, k)}
<1>4. Bad = {}
  <2>1. SUFFICES ASSUME Bad # {} PROVE FALSE
    OBVIOUS
  <2>2. PICK b \in Bad : \A c \in Bad : b <= c
    <3>1. Bad \in SUBSET Nat
      OBVIOUS
    <3>2. QED  BY ONLY <2>1, <3>1, LeastElement
  <2>3. b # 0
    <3>1. SubSeq(s, 1, 0) = <<>> /\ SubSeq(q, 1, 0) = <<>>
      <4>1. SubSeq(s, 0 + 1, 0) = <<>> /\ SubSeq(q, 0 + 1, 0) = <<>>
        BY NoPiece
      <4>2. QED  BY <4>1
    <3>2. QED  BY ONLY <2>2, <3>1, FlattenNone
  <2>4. PICK k \in Nat : b = k + 1
    <3>1. b - 1 \in Nat /\ b = (b - 1) + 1
      BY <2>2, <2>3
    <3>2. QED  BY <3>1
  <2>5. k + 1 <= n /\ FlattenSeq(SubSeq(s, 1, k)) = SubSeq(q, 1, k)
    <3>1. k + 1 <= n /\ k <= n /\ ~(b <= k)
      BY <2>2, <2>4
    <3>2. k \notin Bad
      BY <2>2, <3>1
    <3>3. QED  BY <3>1, <3>2
  <2>6. PICK p : p = SubSeq(s, 1, k)
    OBVIOUS
  <2>7. /\ p \in Seq(Seq(T)) /\ s[k + 1] \in Seq(T)
        /\ SubSeq(s, 1, k + 1) = Append(p, s[k + 1])
    BY <1>3, <2>5, <2>6, PrefixGrows
  <2>8. FlattenSeq(SubSeq(s, 1, k + 1)) = FlattenSeq(p) \o s[k + 1]
    BY <2>7, FlattenNext
  <2>9. /\ SubSeq(q, 1, k) \in Seq(T) /\ q[k + 1] \in T
        /\ SubSeq(q, 1, k + 1) = Append(SubSeq(q, 1, k), q[k + 1])
    BY <1>1, <2>5, PrefixGrows
  <2>10. s[k + 1] = <<q[k + 1]>>
    BY <1>3, <2>5
  <2>11. Append(SubSeq(q, 1, k), q[k + 1]) = SubSeq(q, 1, k) \o <<q[k + 1]>>
    BY <2>9
  <2>12. QED  BY ONLY <2>2, <2>4, <2>5, <2>6, <2>8, <2>9, <2>10, <2>11
<1>5. FlattenSeq(SubSeq(s, 1, n)) = SubSeq(q, 1, n)
  BY <1>4
<1>6. SubSeq(s, 1, n) = s /\ SubSeq(q, 1, n) = q
  BY <1>1, <1>3, WholePiece
<1>7. QED  BY <1>1, <1>2, <1>5, <1>6

(* Among some things there is one of which a measure is least.             *)
LEMMA LeastOf ==
  ASSUME NEW D, NEW m \in [D -> Nat], NEW B \in SUBSET D, B # {}
  PROVE  \E x \in B : \A y \in B : m[x] <= m[y]
<1>1. PICK T : T = {m[x] : x \in B}
  OBVIOUS
<1>2. T \in SUBSET Nat /\ T # {}
  BY <1>1
<1>3. PICK n \in T : \A k \in T : n <= k
  BY ONLY <1>2, LeastElement
<1>4. PICK x \in B : n = m[x]
  BY <1>1
<1>5. QED  BY <1>1, <1>3, <1>4

(* A recursive definition that comes to an end: at the elements of G it    *)
(* goes on with the next, of which the measure m is less, and makes `on`   *)
(* of what it has there; everywhere else it is val.  There is a function   *)
(* that it defines.                                                        *)
Unfolds(f, x, G, next, val, on) == IF x \in G THEN on[x][f[next[x]]] ELSE val[x]

Recursion(D, V, G, m, next, val, on) ==
    /\ G \in SUBSET D /\ m \in [D -> Nat] /\ next \in [D -> D]
    /\ val \in [D -> V] /\ on \in [D -> [V -> V]]
    /\ \A x \in G : m[next[x]] < m[x]

LEMMA RecursionEnds ==
  ASSUME NEW D, NEW V, NEW G, NEW m, NEW next, NEW val, NEW on,
         Recursion(D, V, G, m, next, val, on)
  PROVE  \E f \in [D -> V] : \A x \in D : f[x] = Unfolds(f, x, G, next, val, on)
<1> /\ G \in SUBSET D /\ m \in [D -> Nat] /\ next \in [D -> D]
    /\ val \in [D -> V] /\ on \in [D -> [V -> V]]
    /\ \A x \in G : m[next[x]] < m[x]
  BY DEF Recursion
<1> DEFINE Does(f, x) == Unfolds(f, x, G, next, val, on)
           Below(n, f) == f \in [D -> V] /\ \A x \in D : m[x] < n => f[x] = Does(f, x)
<1>1. ASSUME NEW f \in [D -> V], NEW x \in D PROVE Does(f, x) \in V
  <2>1. next[x] \in D /\ f[next[x]] \in V /\ on[x] \in [V -> V] /\ val[x] \in V
    OBVIOUS
  <2>2. on[x][f[next[x]]] \in V
    BY ONLY <2>1
  <2>3. QED  BY ONLY <2>1, <2>2 DEF Unfolds
<1>2. \A n \in Nat : \E f : Below(n, f)
  <2> DEFINE Lacks == {n \in Nat : ~ \E f : Below(n, f)}
  <2>1. SUFFICES ASSUME Lacks # {} PROVE FALSE
    OBVIOUS
  <2>2. PICK n \in Lacks : \A k \in Lacks : n <= k
    <3>1. Lacks \in SUBSET Nat
      OBVIOUS
    <3>2. QED  BY ONLY <2>1, <3>1, LeastElement
  <2>3. n # 0
    <3>1. \A x \in D : ~(m[x] < 0)
      OBVIOUS
    <3>2. Below(0, val)
      BY <3>1
    <3>3. QED  BY <2>2, <3>2
  <2>4. n - 1 \in Nat /\ ~(n <= n - 1)
    BY <2>3
  <2>5. PICK g : Below(n - 1, g)
    BY <2>2, <2>4
  <2>6. PICK f : f = [x \in D |-> Does(g, x)]
    OBVIOUS
  <2>7. f \in [D -> V]
    BY ONLY <1>1, <2>5, <2>6
  <2>8. ASSUME NEW x \in D, m[x] < n PROVE f[x] = Does(f, x)
    <3>1. f[x] = Does(g, x)
      BY ONLY <2>6, x \in D
    <3>2. CASE x \in G
      <4>1. next[x] \in D /\ m[next[x]] < n - 1
        <5>1. m[next[x]] \in Nat /\ m[x] \in Nat /\ n \in Nat /\ next[x] \in D
          OBVIOUS
        <5>2. m[next[x]] < m[x]
          BY <3>2
        <5>3. QED  BY ONLY <2>8, <5>1, <5>2
      <4>2. f[next[x]] = g[next[x]]
        BY ONLY <2>5, <2>6, <4>1
      <4>3. QED  BY ONLY <3>1, <4>2 DEF Unfolds
    <3>3. CASE x \notin G
      BY ONLY <3>1, <3>3 DEF Unfolds
    <3>4. QED  BY <3>2, <3>3
  <2>9. Below(n, f)
    BY ONLY <2>7, <2>8
  <2>10. QED  BY <2>2, <2>9
<1>3. ASSUME NEW n \in Nat, NEW k \in Nat, NEW f, NEW g, Below(n, f), Below(k, g),
             NEW x \in D, m[x] < n, m[x] < k
      PROVE  f[x] = g[x]
  <2> DEFINE Differ == {y \in D : m[y] < n /\ m[y] < k /\ f[y] # g[y]}
  <2>1. SUFFICES ASSUME Differ # {} PROVE FALSE
    BY <1>3
  <2>2. PICK y \in Differ : \A z \in Differ : m[y] <= m[z]
    <3>1. Differ \in SUBSET D
      OBVIOUS
    <3>2. QED  BY ONLY <2>1, <3>1, m \in [D -> Nat], LeastOf
  <2>3. y \in D /\ m[y] < n /\ m[y] < k /\ f[y] # g[y]
    BY ONLY <2>2
  <2>4. f[y] = Does(f, y) /\ g[y] = Does(g, y)
    BY ONLY <1>3, <2>3
  <2>5. CASE y \in G
    <3>1. next[y] \in D /\ m[next[y]] < m[y] /\ m[next[y]] \in Nat /\ m[y] \in Nat
      BY <2>3, <2>5
    <3>2. m[next[y]] < n /\ m[next[y]] < k /\ ~(m[y] <= m[next[y]])
      BY ONLY <2>3, <3>1, n \in Nat, k \in Nat
    <3>3. f[next[y]] = g[next[y]]
      BY ONLY <2>2, <3>1, <3>2
    <3>4. QED  BY ONLY <2>3, <2>4, <3>3 DEF Unfolds
  <2>6. CASE y \notin G
    BY ONLY <2>3, <2>4, <2>6 DEF Unfolds
  <2>7. QED  BY <2>5, <2>6
<1>4. PICK p : p = [n \in Nat |-> CHOOSE f : Below(n, f)]
  OBVIOUS
<1>5. \A n \in Nat : Below(n, p[n])
  BY ONLY <1>2, <1>4
<1>6. PICK f : f = [x \in D |-> p[m[x] + 1][x]]
  OBVIOUS
<1> HIDE DEF Below
<1>7. \A x \in D : m[x] \in Nat /\ m[x] + 1 \in Nat /\ m[x] < m[x] + 1
  OBVIOUS
<1>8. ASSUME NEW x \in D PROVE f[x] \in V /\ f[x] = Does(f, x)
  <2>1. Below(m[x] + 1, p[m[x] + 1])
    BY ONLY <1>5, <1>7, x \in D
  <2>2. PICK g : g = p[m[x] + 1]
    OBVIOUS
  <2>3. f[x] = g[x] /\ g \in [D -> V] /\ g[x] = Does(g, x)
    BY ONLY <1>6, <1>7, <2>1, <2>2, x \in D DEF Below
  <2>4. CASE x \in G
    <3>1. next[x] \in D /\ m[next[x]] < m[x]
      BY <2>4
    <3>2. PICK y \in D : y = next[x]
      BY <3>1
    <3>3. m[y] \in Nat /\ m[y] + 1 \in Nat /\ m[y] < m[y] + 1 /\ m[y] < m[x] + 1 /\ m[x] + 1 \in Nat
      BY ONLY <1>7, <3>1, <3>2, x \in D, y \in D
    <3>4. Below(m[y] + 1, p[m[y] + 1]) /\ Below(m[x] + 1, g)
      BY ONLY <1>5, <2>1, <2>2, <3>3
    <3>5. p[m[y] + 1][y] = g[y]
      BY ONLY <1>3, <3>3, <3>4, y \in D
    <3>6. f[y] = g[y]
      BY ONLY <1>6, <3>5, y \in D
    <3>7. QED  BY ONLY <2>3, <3>2, <3>6, x \in D DEF Unfolds
  <2>5. CASE x \notin G
    BY ONLY <2>3, <2>5, x \in D DEF Unfolds
  <2>6. QED  BY <2>4, <2>5
<1>9. f \in [D -> V]
  BY ONLY <1>6, <1>8
<1>10. QED  BY <1>8, <1>9

(* What holds of a thing if it holds of all of which the measure is less,  *)
(* holds of all.                                                           *)
LEMMA ByMeasure ==
  ASSUME NEW D, NEW m \in [D -> Nat], NEW S,
         \A x \in D : (\A z \in D : m[z] < m[x] => z \in S) => x \in S
  PROVE  \A x \in D : x \in S
<1>1. SUFFICES ASSUME D \ S # {} PROVE FALSE
  OBVIOUS
<1>2. PICK x \in D \ S : \A y \in D \ S : m[x] <= m[y]
  BY <1>1, LeastOf
<1>3. \A z \in D : m[z] < m[x] => z \in S
  <2>1. SUFFICES ASSUME NEW z \in D, m[z] < m[x], z \notin S PROVE FALSE
    OBVIOUS
  <2>2. m[x] <= m[z] /\ m[x] \in Nat /\ m[z] \in Nat
    BY <1>2, <2>1
  <2>3. QED  BY ONLY <2>1, <2>2
<1>4. QED  BY <1>2, <1>3

(* What comes behind the first of two sequences is the second.             *)
LEMMA BehindFirst ==
  ASSUME NEW S, NEW x \in Seq(S), NEW y \in Seq(S)
  PROVE  /\ x \o y \in Seq(S) /\ Len(x \o y) = Len(x) + Len(y)
         /\ \A i \in 1..Len(x) : (x \o y)[i] = x[i]
         /\ SubSeq(x \o y, Len(x) + 1, Len(x \o y)) = y
         /\ Len(x) > 0 => x \o y # <<>> /\ Head(x \o y) = x[1]
<1>1. PICK z : z = x \o y
  OBVIOUS
<1>2. /\ z \in Seq(S) /\ Len(z) = Len(x) + Len(y)
      /\ \A i \in 1..(Len(x) + Len(y)) : z[i] = IF i <= Len(x) THEN x[i] ELSE y[i - Len(x)]
  BY ONLY <1>1, x \in Seq(S), y \in Seq(S), ConcatElements
<1>3. Len(x) \in Nat /\ Len(y) \in Nat
  OBVIOUS
<1>4. \A i \in 1..Len(x) : z[i] = x[i]
  BY ONLY <1>2, <1>3
<1>5. SubSeq(z, Len(x) + 1, Len(z)) = y
  <2>1. SubSeq(x \o y, Len(x) + 1, Len(x) + Len(y)) = SubSeq(y, 1, Len(y))
    BY <1>3, PiecesOfConcat
  <2>2. SubSeq(y, 1, Len(y)) = y
    BY WholePiece
  <2>3. QED  BY ONLY <1>1, <1>2, <2>1, <2>2
<1>6. Len(x) > 0 => z # <<>> /\ Head(z) = x[1]
  BY ONLY <1>2, <1>3, <1>4
<1>7. QED  BY ONLY <1>1, <1>2, <1>4, <1>5, <1>6

(* A rest of a rest is a rest, and a prefix followed by one of the rest is *)
(* a longer prefix.                                                        *)
LEMMA RestOfRest ==
  ASSUME NEW S, NEW q \in Seq(S), NEW n \in Nat, n <= Len(q), NEW w, w = SubSeq(q, n + 1, Len(q)),
         NEW k \in Nat, k <= Len(w)
  PROVE  /\ w \in Seq(S) /\ Len(w) = Len(q) - n /\ n + k <= Len(q)
         /\ SubSeq(w, k + 1, Len(w)) = SubSeq(q, (n + k) + 1, Len(q))
         /\ SubSeq(w, 1, k) \in Seq(S)
         /\ SubSeq(w, 1, k) = SubSeq(q, n + 1, n + k)
         /\ SubSeq(q, 1, n) \in Seq(S)
         /\ SubSeq(q, 1, n) \o SubSeq(w, 1, k) = SubSeq(q, 1, n + k)
<1>1. PICK l \in Nat : l = Len(q) /\ n <= l
  OBVIOUS
<1>2. w \in Seq(S) /\ Len(w) = l - n
  <2>1. SubSeq(q, n + 1, Len(q)) \in Seq(S) /\ Len(SubSeq(q, n + 1, Len(q))) = Len(q) - n
    BY ONLY n \in Nat, n <= Len(q), q \in Seq(S), SuffixElements
  <2>2. QED  BY ONLY <1>1, <2>1, w = SubSeq(q, n + 1, Len(q))
<1>3. k <= l - n /\ n + k \in Nat /\ n <= n + k /\ n + k <= l /\ n + (l - n) = l /\ l - n \in Nat
  BY ONLY <1>1, <1>2, k <= Len(w), k \in Nat, n \in Nat
<1>4. w = SubSeq(q, n + 1, l)
  BY <1>1
<1>5. SubSeq(w, k + 1, l - n) = SubSeq(q, (n + k) + 1, n + (l - n))
  <2>1. l - n <= l - n
    BY ONLY <1>3
  <2>2. SubSeq(SubSeq(q, n + 1, l), k + 1, l - n) = SubSeq(q, (n + k) + 1, n + (l - n))
    BY ONLY <1>1, <1>3, <2>1, q \in Seq(S), k \in Nat, n \in Nat, PieceOfPiece
  <2>3. QED  BY ONLY <1>4, <2>2
<1>6. SubSeq(w, 1, k) = SubSeq(q, n + 1, n + k)
  <2>1. SubSeq(SubSeq(q, n + 1, l), 1, k) = SubSeq(q, n + 1, n + k)
    BY ONLY <1>1, <1>3, q \in Seq(S), k \in Nat, n \in Nat, PrefixOfPiece
  <2>2. QED  BY ONLY <1>4, <2>1
<1>7. SubSeq(w, 1, k) \in Seq(S)
  BY ONLY <1>2, <1>3, k \in Nat, PrefixElements
<1>8. SubSeq(q, 1, n) \in Seq(S)
  BY ONLY <1>1, n \in Nat, q \in Seq(S), PrefixElements
<1>9. SubSeq(q, 1, n) \o SubSeq(q, n + 1, n + k) = SubSeq(q, 1, n + k)
  BY ONLY <1>1, <1>3, n \in Nat, q \in Seq(S), PrefixAndPiece
<1>10. QED  BY ONLY <1>1, <1>2, <1>3, <1>5, <1>6, <1>7, <1>8, <1>9
=============================================================================
