--------------------------- MODULE RootCvtProofs ----------------------------
(***************************************************************************)
(* root_cvt of cvt/root_cvt.h is a plain file with a position, over a      *)
(* device that fails or stops half-way and over a mem_device, for every    *)
(* length of the buffer and of the chunks.  And the root of standard input *)
(* loses and repeats no byte.                                              *)
(*                                                                         *)
(* Every call of the buffered root is brought into one of four shapes: a   *)
(* put of n bytes of which k are taken and the first a of what then waits  *)
(* reach the device; a read of c more bytes of which k are consumed; a     *)
(* move; a change of the device.  What is shown of a shape holds for all   *)
(* calls that have it.                                                     *)
(*                                                                         *)
(* The bytes of standard input are numbered, and where they are is counted:*)
(* a step keeps what is due as it is, takes some from its front, switches, *)
(* or is a getchar(); none changes how many there are or which.            *)
(***************************************************************************)
EXTENDS MCRootCvt, SequenceFacts

(* What r is when it is f with `data` laid over it from its place p + 1 on. *)
IsOverwrite(r, f, p, data) ==
    /\ r \in Seq(Nat)
    /\ Len(r) = IF Len(f) < p + Len(data) THEN p + Len(data) ELSE Len(f)
    /\ \A i \in Nat \ {0} :
          /\ i <= p => r[i] = f[i]
          /\ p < i /\ i <= p + Len(data) => r[i] = data[i - p]
          /\ p + Len(data) < i /\ i <= Len(f) => r[i] = f[i]

LEMMA OverwriteElements ==
  ASSUME NEW f \in Seq(Nat), NEW p \in Nat, p <= Len(f), NEW data \in Seq(Nat)
  PROVE  IsOverwrite(Bytes!Overwrite(f, p, data), f, p, data)
<1>1. IsLaidOver(SubSeq(f, 1, p) \o data \o SubSeq(f, p + Len(data) + 1, Len(f)), Nat, f, p, data)
  BY LaidOverElements
<1>2. QED  BY <1>1 DEF IsLaidOver, IsOverwrite, Bytes!Overwrite

(* A file written at the same place twice over, ...                        *)
LEMMA OverwriteTwice ==
  ASSUME NEW f \in Seq(Nat), NEW p \in Nat, p <= Len(f),
         NEW a \in Seq(Nat), NEW b \in Seq(Nat)
  PROVE  Bytes!Overwrite(Bytes!Overwrite(f, p, a), p + Len(a), b)
         = Bytes!Overwrite(f, p, a \o b)
<1>1. PICK g : g = Bytes!Overwrite(f, p, a)
  OBVIOUS
<1>2. PICK n : n = p + Len(a)
  OBVIOUS
<1>3. PICK h : h = Bytes!Overwrite(g, n, b)
  OBVIOUS
<1>4. PICK c : c = a \o b
  OBVIOUS
<1>5. PICK k : k = Bytes!Overwrite(f, p, c)
  OBVIOUS
<1>6. Len(f) \in Nat /\ Len(a) \in Nat /\ Len(b) \in Nat
  OBVIOUS
<1>7. /\ c \in Seq(Nat) /\ Len(c) = Len(a) + Len(b)
      /\ \A i \in 1..(Len(a) + Len(b)) :
            c[i] = IF i <= Len(a) THEN a[i] ELSE b[i - Len(a)]
  BY <1>4, ConcatElements
<1>8. IsOverwrite(g, f, p, a)
  BY <1>1, OverwriteElements
<1>9. /\ g \in Seq(Nat) /\ Len(g) \in Nat /\ n \in Nat
      /\ Len(g) = IF Len(f) < n THEN n ELSE Len(f)
  BY <1>2, <1>6, <1>8 DEF IsOverwrite
<1>10. IsOverwrite(h, g, n, b)
  <2>1. n <= Len(g)
    BY <1>6, <1>9
  <2>2. QED  BY <1>3, <1>9, <2>1, OverwriteElements
<1>11. IsOverwrite(k, f, p, c)
  BY <1>5, <1>7, OverwriteElements
<1>12. Len(h) \in Nat /\ Len(h) = Len(k) /\ h \in Seq(Nat) /\ k \in Seq(Nat)
  <2>1. Len(h) = IF Len(g) < n + Len(b) THEN n + Len(b) ELSE Len(g)
    BY <1>10 DEF IsOverwrite
  <2>2. Len(k) = IF Len(f) < p + Len(c) THEN p + Len(c) ELSE Len(f)
    BY <1>11 DEF IsOverwrite
  <2>3. p + Len(c) = n + Len(b)
    BY <1>2, <1>6, <1>7
  <2>4. Len(h) = Len(k)
    <3>1. CASE Len(f) < n
      <4>1. Len(g) = n
        BY <1>9, <3>1
      <4>2. Len(k) = n + Len(b)
        BY ONLY <1>6, <1>9, <2>2, <2>3, <3>1
      <4>3. Len(h) = n + Len(b)
        BY ONLY <1>6, <1>9, <2>1, <4>1
      <4>4. QED  BY <4>2, <4>3
    <3>2. CASE n <= Len(f)
      BY ONLY <1>6, <1>9, <2>1, <2>2, <2>3, <3>2
    <3>3. QED  BY <1>6, <1>9, <3>1, <3>2
  <2>5. h \in Seq(Nat) /\ k \in Seq(Nat)
    BY <1>10, <1>11 DEF IsOverwrite
  <2>6. QED  BY <2>4, <2>5
<1>13. ASSUME NEW i \in 1..Len(h) PROVE h[i] = k[i]
  <2>1. i \in Nat \ {0} /\ i <= Len(h)
    BY <1>12
  <2>2. CASE i <= p
    <3>1. i <= n
      BY <1>2, <1>6, <2>1, <2>2
    <3>2. QED  BY <1>8, <1>10, <1>11, <2>1, <2>2, <3>1 DEF IsOverwrite
  <2>3. CASE p < i /\ i <= n
    <3>1. /\ i - p \in 1..(Len(a) + Len(b)) /\ i - p <= Len(a)
          /\ i <= p + Len(a) /\ i <= p + Len(c)
      BY <1>2, <1>6, <1>7, <2>1, <2>3
    <3>2. h[i] = a[i - p]
      BY <1>8, <1>10, <2>1, <2>3, <3>1 DEF IsOverwrite
    <3>3. k[i] = c[i - p]
      BY <1>11, <2>1, <2>3, <3>1 DEF IsOverwrite
    <3>4. QED  BY <1>7, <3>1, <3>2, <3>3
  <2>4. CASE n < i /\ i <= n + Len(b)
    <3>1. /\ i - p \in 1..(Len(a) + Len(b)) /\ ~(i - p <= Len(a)) /\ p < i
          /\ i <= p + Len(c) /\ (i - p) - Len(a) = i - n
      BY <1>2, <1>6, <1>7, <2>1, <2>4
    <3>2. h[i] = b[i - n]
      BY <1>10, <2>1, <2>4 DEF IsOverwrite
    <3>3. k[i] = c[i - p]
      BY <1>11, <2>1, <3>1 DEF IsOverwrite
    <3>4. QED  BY <1>7, <3>1, <3>2, <3>3
  <2>5. CASE n + Len(b) < i
    <3>1. /\ p + Len(a) < i /\ p + Len(c) < i /\ i <= Len(g) /\ i <= Len(f)
      <4>1. Len(h) = IF Len(g) < n + Len(b) THEN n + Len(b) ELSE Len(g)
        BY <1>10 DEF IsOverwrite
      <4>2. p + Len(c) = n + Len(b) /\ p + Len(a) = n
        BY <1>2, <1>6, <1>7
      <4>3. QED  BY ONLY <1>6, <1>9, <2>1, <2>5, <4>1, <4>2
    <3>2. h[i] = g[i] /\ g[i] = f[i] /\ k[i] = f[i]
      BY <1>8, <1>10, <1>11, <2>1, <2>5, <3>1 DEF IsOverwrite
    <3>3. QED  BY <3>2
  <2>6. QED  BY <1>2, <1>6, <2>1, <2>2, <2>3, <2>4, <2>5
<1>14. h = k
  BY <1>12, <1>13, SeqEqual
<1>15. QED  BY <1>1, <1>2, <1>3, <1>4, <1>5, <1>14

(* ... with nothing, ...                                                   *)
LEMMA OverwriteNothing ==
  ASSUME NEW f \in Seq(Nat), NEW p \in Nat, p <= Len(f)
  PROVE  Bytes!Overwrite(f, p, <<>>) = f
<1>1. PICK r : r = Bytes!Overwrite(f, p, <<>>)
  OBVIOUS
<1>2. PICK e \in Seq(Nat) : e = <<>> /\ Len(e) = 0
  <2>1. <<>> \in Seq(Nat) /\ Len(<<>>) = 0
    OBVIOUS
  <2>2. QED  BY <2>1
<1>3. IsOverwrite(r, f, p, e)
  BY <1>1, <1>2, OverwriteElements
<1>4. Len(f) \in Nat /\ Len(r) = Len(f)
  BY <1>2, <1>3 DEF IsOverwrite
<1>5. ASSUME NEW i \in 1..Len(r) PROVE r[i] = f[i]
  <2>1. i \in Nat \ {0} /\ i <= Len(f) /\ (i <= p \/ p + Len(e) < i)
    BY <1>2, <1>4
  <2>2. QED  BY <1>3, <2>1 DEF IsOverwrite
<1>6. r = f
  BY <1>3, <1>4, <1>5, SeqEqual DEF IsOverwrite
<1>7. QED  BY <1>1, <1>6

(* ... and what is before that place.                                      *)
LEMMA OverwriteBefore ==
  ASSUME NEW f \in Seq(Nat), NEW p \in Nat, p <= Len(f), NEW data \in Seq(Nat),
         NEW n \in Nat, n <= p
  PROVE  SubSeq(Bytes!Overwrite(f, p, data), 1, n) = SubSeq(f, 1, n)
<1>1. PICK r : r = Bytes!Overwrite(f, p, data)
  OBVIOUS
<1>2. IsOverwrite(r, f, p, data)
  BY <1>1, OverwriteElements
<1>3. r \in Seq(Nat) /\ n <= Len(r) /\ n <= Len(f)
  BY <1>2 DEF IsOverwrite
<1>4. /\ SubSeq(r, 1, n) \in Seq(Nat) /\ Len(SubSeq(r, 1, n)) = n
      /\ \A i \in 1..n : SubSeq(r, 1, n)[i] = r[i]
  BY <1>3, PrefixElements
<1>5. /\ SubSeq(f, 1, n) \in Seq(Nat) /\ Len(SubSeq(f, 1, n)) = n
      /\ \A i \in 1..n : SubSeq(f, 1, n)[i] = f[i]
  BY <1>3, PrefixElements
<1>6. ASSUME NEW i \in 1..n PROVE SubSeq(r, 1, n)[i] = SubSeq(f, 1, n)[i]
  <2>1. i \in Nat \ {0} /\ i <= p
    OBVIOUS
  <2>2. QED  BY <1>2, <1>4, <1>5, <2>1 DEF IsOverwrite
<1>7. SubSeq(r, 1, n) = SubSeq(f, 1, n)
  BY <1>4, <1>5, <1>6, SeqEqual
<1>8. QED  BY <1>1, <1>7
-----------------------------------------------------------------------------
(* The device, and what is put on it. *)
IsDevice(d) == d \in [data : Seq(Nat), pos : Nat] /\ d.pos <= Len(d.data)

LEMMA NumberedElements ==
  ASSUME NEW m \in Nat \ {0}, NEW n \in Nat
  PROVE  /\ Bytes!Numbered(m, n) \in Seq(Nat) /\ Len(Bytes!Numbered(m, n)) = n
         /\ \A i \in 1..n : Bytes!Numbered(m, n)[i] = m + i - 1
<1>1. \A i \in 1..n : m + i - 1 \in Nat
  OBVIOUS
<1>2. [i \in 1..n |-> m + i - 1] \in Seq(Nat) /\ Len([i \in 1..n |-> m + i - 1]) = n
  BY <1>1
<1>3. QED  BY <1>2 DEF Bytes!Numbered

LEMMA StoredSound ==
  ASSUME NEW d, IsDevice(d), NEW data \in Seq(Nat)
  PROVE  /\ IsDevice(Stored(d, data))
         /\ Stored(d, data).pos = d.pos + Len(data)
         /\ Stored(d, data).data = Bytes!Overwrite(d.data, d.pos, data)
         /\ Len(Stored(d, data).data) >= Len(d.data)
         /\ \A n \in Nat : n <= d.pos =>
               SubSeq(Stored(d, data).data, 1, n) = SubSeq(d.data, 1, n)
<1>1. PICK f \in Seq(Nat) : f = d.data
  BY DEF IsDevice
<1>2. PICK p \in Nat : p = d.pos /\ p <= Len(f)
  BY <1>1 DEF IsDevice
<1>3. PICK r : r = Bytes!Overwrite(f, p, data)
  OBVIOUS
<1>4. Stored(d, data) = [data |-> r, pos |-> p + Len(data)]
  BY <1>1, <1>2, <1>3 DEF Stored, Bytes!Overwrite
<1>5. IsOverwrite(r, f, p, data)
  BY <1>2, <1>3, OverwriteElements
<1>6. /\ r \in Seq(Nat) /\ Len(data) \in Nat
      /\ Len(r) = IF Len(f) < p + Len(data) THEN p + Len(data) ELSE Len(f)
  BY <1>5 DEF IsOverwrite
<1>7. p + Len(data) \in Nat /\ p + Len(data) <= Len(r) /\ Len(r) >= Len(f)
  BY <1>2, <1>6
<1>8. \A n \in Nat : n <= p => SubSeq(r, 1, n) = SubSeq(f, 1, n)
  BY <1>2, <1>3, OverwriteBefore
<1>9. QED  BY <1>1, <1>2, <1>3, <1>4, <1>6, <1>7, <1>8 DEF IsDevice

(* Nothing put on a device leaves it as it is. *)
LEMMA StoredNothing ==
  ASSUME NEW d, IsDevice(d)
  PROVE  Stored(d, <<>>) = d
<1>1. PICK f \in Seq(Nat) : f = d.data
  BY DEF IsDevice
<1>2. PICK p \in Nat : p = d.pos /\ p <= Len(f)
  BY <1>1 DEF IsDevice
<1>3. Bytes!Overwrite(f, p, <<>>) = f
  BY <1>2, OverwriteNothing
<1>4. p + Len(<<>>) = p
  BY <1>2
<1>5. Stored(d, <<>>) = [data |-> f, pos |-> p]
  BY <1>1, <1>2, <1>3, <1>4 DEF Stored, Bytes!Overwrite
<1>6. QED  BY <1>1, <1>2, <1>5 DEF IsDevice

LEMMA StoredTwice ==
  ASSUME NEW d, IsDevice(d), NEW x \in Seq(Nat), NEW y \in Seq(Nat)
  PROVE  Stored(Stored(d, x), y) = Stored(d, x \o y)
<1>1. PICK f \in Seq(Nat) : f = d.data
  BY DEF IsDevice
<1>2. PICK p \in Nat : p = d.pos /\ p <= Len(f)
  BY <1>1 DEF IsDevice
<1>3. Stored(d, x) = [data |-> Bytes!Overwrite(f, p, x), pos |-> p + Len(x)]
  BY <1>1, <1>2 DEF Stored, Bytes!Overwrite
<1>4. Stored(d, x \o y) = [data |-> Bytes!Overwrite(f, p, x \o y), pos |-> p + Len(x \o y)]
  BY <1>1, <1>2 DEF Stored, Bytes!Overwrite
<1>5. PICK g : g = Bytes!Overwrite(f, p, x)
  OBVIOUS
<1>6. Stored([data |-> g, pos |-> p + Len(x)], y)
        = [data |-> Bytes!Overwrite(g, p + Len(x), y), pos |-> (p + Len(x)) + Len(y)]
  BY DEF Stored, Bytes!Overwrite
<1>7. Bytes!Overwrite(g, p + Len(x), y) = Bytes!Overwrite(f, p, x \o y)
  BY <1>2, <1>5, OverwriteTwice
<1>8. (p + Len(x)) + Len(y) = p + Len(x \o y)
  <2>1. Len(x \o y) = Len(x) + Len(y) /\ Len(x) \in Nat /\ Len(y) \in Nat
    BY ConcatElements
  <2>2. QED  BY <2>1
<1>9. QED  BY <1>3, <1>4, <1>5, <1>6, <1>7, <1>8

LEMMA DputBufferEnds ==
  ASSUME NEW d, NEW data \in Seq(Nat), NEW old \in 0..Len(data), NEW left,
         DputBuffer(d, data, old, left)
  PROVE  /\ status' = "output" /\ got' = <<>> /\ handed' = NoDevice /\ era' = era
         /\ \/ /\ threw' = FALSE
               /\ dev' = Stored(d, data) /\ buf' = left
            \/ /\ threw' = TRUE
               /\ \E done \in 0..Len(data) :
                     /\ dev' = Stored(d, SubSeq(data, 1, done))
                     /\ buf' = SubSeq(data, done + 1, IF done > old THEN Len(data) ELSE old)
<1>1. PICK end \in DputEnds(data) :
        /\ dev' = Stored(d, SubSeq(data, 1, end.done))
        /\ Output(IF end.how = "ok" THEN left ELSE LeftBuffered(data, old, end))
        /\ Returns(end.how # "ok")
  BY DEF DputBuffer
<1>2. SubSeq(data, 1, Len(data)) = data
  BY WholePiece
<1>3. CASE end = [how |-> "ok", done |-> Len(data)]
  BY <1>1, <1>2, <1>3 DEF Output, Returns
<1>4. CASE end.how # "ok" /\ end.done \in 0..Len(data)
  BY <1>1, <1>4 DEF Output, Returns, LeftBuffered
<1>5. end = [how |-> "ok", done |-> Len(data)] \/ (end.how # "ok" /\ end.done \in 0..Len(data))
  <2>1. Len(data) \in Nat
    OBVIOUS
  <2>2. QED  BY <2>1 DEF DputEnds, DputFailures
<1>6. QED  BY <1>3, <1>4, <1>5
-----------------------------------------------------------------------------
(* In input the buffer is what the device read last; bytes that wait have  *)
(* been numbered already.                                                  *)
ReadAhead == status = "input" => buf = SubSeq(dev.data, (dev.pos - Len(buf)) + 1, dev.pos)
Given == status = "output" => \A i \in 1..Len(buf) : buf[i] < nextByte

RootInv == TypeOK /\ ReadAhead /\ Given

(* Where the stream stands, in a device of its own: what is waiting has    *)
(* gone out, what is read ahead has been put back.                         *)
Standing == Stored(OutDevice, Pending)

LEMMA StandingIsTheFile ==
  ASSUME TypeOK
  PROVE  /\ IsDevice(dev) /\ IsDevice(OutDevice) /\ IsDevice(Standing)
         /\ Pending \in Seq(Nat) /\ Unread \in Seq(Nat)
         /\ Len(Pending) \in 0..BufLen /\ Len(Unread) \in 0..BufLen
         /\ OutDevice.pos >= bosLen /\ OutDevice.data = dev.data
         /\ Standing.data = Stored(dev, Pending).data /\ Standing.pos = Where
<1>1. IsDevice(dev)
  BY DEF TypeOK, IsDevice
<1>2. /\ Pending \in Seq(Nat) /\ Unread \in Seq(Nat)
      /\ Len(Pending) \in 0..BufLen /\ Len(Unread) \in 0..BufLen
      /\ Pending = <<>> \/ Unread = <<>>
  BY RootAssumption DEF TypeOK, RootAssumption, Pending, Unread
<1>3. /\ dev.pos \in Nat /\ bosLen \in Nat /\ dev.pos >= bosLen + Len(Unread)
      /\ dev.pos <= Len(dev.data) /\ dev.data \in Seq(Nat) /\ Len(Unread) \in Nat
  BY <1>2 DEF TypeOK
<1>4. dev.pos - Len(Unread) \in Nat /\ dev.pos - Len(Unread) >= bosLen
      /\ dev.pos - Len(Unread) <= dev.pos
  BY <1>3
<1>5. IsDevice(OutDevice) /\ OutDevice.data = dev.data /\ OutDevice.pos = dev.pos - Len(Unread)
  BY <1>3, <1>4 DEF OutDevice, DeviceAt, IsDevice
<1>6. /\ IsDevice(Standing) /\ Standing.pos = OutDevice.pos + Len(Pending)
  BY <1>2, <1>5, StoredSound DEF Standing
<1>7. Standing.pos = Where
  BY <1>2, <1>3, <1>5, <1>6 DEF Where
<1>8. Standing.data = Stored(dev, Pending).data
  <2>1. CASE Pending = <<>>
    <3>1. Standing = OutDevice /\ Stored(dev, Pending) = dev
      BY <1>1, <1>5, <2>1, StoredNothing DEF Standing
    <3>2. QED  BY <1>5, <3>1
  <2>2. CASE Unread = <<>>
    <3>1. dev.pos - Len(Unread) = dev.pos
      BY <1>3, <2>2
    <3>2. OutDevice = dev
      BY <1>3, <3>1, TypeOK DEF OutDevice, DeviceAt, TypeOK
    <3>3. QED  BY <3>2 DEF Standing
  <2>3. QED  BY <1>2, <2>1, <2>2
<1>9. QED  BY <1>1, <1>2, <1>4, <1>5, <1>6, <1>7, <1>8
-----------------------------------------------------------------------------
(* What every put comes to: of the bytes w that wait or are handed in, the *)
(* first a land on the device and the buffer keeps those up to the k-th    *)
(* new one; when it throws and keeps new ones, one of them has landed.     *)
PutShape(n) ==
    /\ n <= MaxByte
    /\ nextByte' = nextByte + n
    /\ bosLen' = bosLen /\ got' = <<>> /\ handed' = NoDevice /\ era' = era
    /\ status' = "output"
    /\ threw' \in BOOLEAN
    /\ \E k \in 0..n : \E a \in 0..(Len(Pending) + k) :
          LET w == Pending \o BytesAfter(n)
          IN /\ dev' = Stored(OutDevice, SubSeq(w, 1, a))
             /\ buf' = SubSeq(w, a + 1, Len(Pending) + k)
             /\ (Len(Pending) + k) - a <= BufLen
             /\ threw' /\ k > 0 => a > Len(Pending)

LEMMA BytesAfterElements ==
  ASSUME TypeOK, NEW n \in Nat
  PROVE  /\ BytesAfter(n) = Bytes!Numbered(nextByte, n)
         /\ BytesAfter(n) \in Seq(Nat) /\ Len(BytesAfter(n)) = n
         /\ \A i \in 1..n : BytesAfter(n)[i] = nextByte + i - 1
<1>1. nextByte \in Nat \ {0}
  BY DEF TypeOK
<1>2. BytesAfter(n) = Bytes!Numbered(nextByte, n)
  BY DEF BytesAfter, Bytes!Numbered
<1>3. QED  BY <1>1, <1>2, NumberedElements

LEMMA WritesSome ==
  ASSUME TypeOK, NEW n \in Nat, Writes(n)
  PROVE  n <= MaxByte /\ nextByte' = nextByte + n /\ bosLen' = bosLen
<1>1. nextByte \in Nat \ {0} /\ MaxByte \in Nat
  BY RootAssumption DEF TypeOK, RootAssumption
<1>2. QED  BY <1>1 DEF Writes

LEMMA PutShapeFrom ==
  ASSUME TypeOK, NEW n \in Nat, n <= MaxByte, nextByte' = nextByte + n,
         bosLen' = bosLen, got' = <<>>, handed' = NoDevice, era' = era, status' = "output",
         threw' \in BOOLEAN, NEW k \in 0..n, NEW a \in 0..(Len(Pending) + k),
         dev' = Stored(OutDevice, SubSeq(Pending \o BytesAfter(n), 1, a)),
         buf' = SubSeq(Pending \o BytesAfter(n), a + 1, Len(Pending) + k),
         (Len(Pending) + k) - a <= BufLen,
         threw' /\ k > 0 => a > Len(Pending)
  PROVE  PutShape(n)
  BY DEF PutShape

LEMMA FlushFirst ==
  ASSUME TypeOK, NEW n \in Nat, Writes(n), NEW left,
         (left = BytesAfter(n) /\ n <= BufLen) \/ (left = <<>> /\ threw'),
         DputBuffer(OutDevice, Pending, Len(Pending), left)
  PROVE  PutShape(n)
<1>1. PICK P \in Seq(Nat) : P = Pending /\ Len(P) \in 0..BufLen
  BY StandingIsTheFile
<1>2. PICK N \in Seq(Nat) : N = BytesAfter(n) /\ Len(N) = n
  BY BytesAfterElements
<1>3. Len(P) \in Nat /\ BufLen \in Nat /\ Len(P) \in 0..Len(P) /\ n \in 0..n
  BY <1>1, RootAssumption DEF RootAssumption
<1>4. /\ n <= MaxByte /\ nextByte' = nextByte + n /\ bosLen' = bosLen
  BY WritesSome
<1>5. PICK w \in Seq(Nat) : w = P \o N /\ Len(w) = Len(P) + n
  <2>1. P \o N \in Seq(Nat) /\ Len(P \o N) = Len(P) + Len(N)
    BY ONLY P \in Seq(Nat), N \in Seq(Nat), ConcatElements
  <2>2. QED  BY <1>2, <2>1
<1>6. /\ status' = "output" /\ got' = <<>> /\ handed' = NoDevice /\ era' = era
      /\ \/ /\ threw' = FALSE
            /\ dev' = Stored(OutDevice, P) /\ buf' = left
         \/ /\ threw' = TRUE
            /\ \E done \in 0..Len(P) :
                  /\ dev' = Stored(OutDevice, SubSeq(P, 1, done))
                  /\ buf' = SubSeq(P, done + 1, IF done > Len(P) THEN Len(P) ELSE Len(P))
  BY <1>1, <1>3, DputBufferEnds
<1>7. CASE threw' = FALSE
  <2>1. dev' = Stored(OutDevice, P) /\ buf' = N /\ n <= BufLen
    BY <1>2, <1>6, <1>7
  <2>2. /\ SubSeq(w, 1, Len(P) + 0) = P \o SubSeq(N, 1, 0)
        /\ SubSeq(w, Len(P) + 1, Len(P) + n) = SubSeq(N, 1, n)
    BY <1>2, <1>3, <1>5, PiecesOfConcat
  <2>3. Len(P) + 0 = Len(P) /\ SubSeq(N, 1, 0) = <<>> /\ P \o <<>> = P /\ SubSeq(N, 1, n) = N
    BY <1>1, <1>2, <1>3
  <2>4. SubSeq(w, 1, Len(P)) = P /\ SubSeq(w, Len(P) + 1, Len(P) + n) = N
    BY <2>2, <2>3
  <2>5. PICK k \in 0..n : k = n
    BY <1>3
  <2>6. Len(P) \in 0..(Len(P) + k) /\ (Len(P) + k) - Len(P) <= BufLen /\ ~threw'
    BY <1>3, <1>7, <2>1, <2>5
  <2>7. PICK a \in 0..(Len(P) + k) : a = Len(P)
    BY <2>6
  <2>8. /\ dev' = Stored(OutDevice, SubSeq(P \o N, 1, a))
        /\ buf' = SubSeq(P \o N, a + 1, Len(P) + k)
        /\ (Len(P) + k) - a <= BufLen
    BY <1>5, <2>1, <2>4, <2>5, <2>6, <2>7
  <2>9. /\ a \in 0..(Len(Pending) + k)
        /\ dev' = Stored(OutDevice, SubSeq(Pending \o BytesAfter(n), 1, a))
        /\ buf' = SubSeq(Pending \o BytesAfter(n), a + 1, Len(Pending) + k)
        /\ (Len(Pending) + k) - a <= BufLen
    BY <1>1, <1>2, <2>8
  <2>10. QED  BY ONLY <1>4, <1>6, <1>7, <2>9, k \in 0..n DEF PutShape
<1>8. CASE threw' = TRUE
  <2>1. PICK done \in 0..Len(P) :
          dev' = Stored(OutDevice, SubSeq(P, 1, done)) /\ buf' = SubSeq(P, done + 1, Len(P))
    BY <1>6, <1>8
  <2>2. SubSeq(w, 1, done) = SubSeq(P, 1, done)
    <3>1. PICK o \in Nat : o = 0 /\ o + 1 = 1 /\ o <= done
      OBVIOUS
    <3>2. done \in Nat /\ done <= Len(P)
      BY <1>3
    <3>3. SubSeq(w, o + 1, done) = SubSeq(P, o + 1, done)
      BY ONLY <1>5, P \in Seq(Nat), N \in Seq(Nat), o \in Nat, <3>1, <3>2, PiecesBeforeConcat
    <3>4. QED  BY <3>1, <3>3
  <2>3. SubSeq(w, done + 1, Len(P)) = SubSeq(P, done + 1, Len(P))
    <3>1. done \in Nat /\ done <= Len(P) /\ Len(P) <= Len(P) /\ Len(P) \in Nat
      BY <1>3
    <3>2. QED
      BY ONLY <1>5, P \in Seq(Nat), N \in Seq(Nat), <3>1, PiecesBeforeConcat
  <2>4. PICK k \in 0..n : k = 0 /\ Len(P) + k = Len(P)
    BY <1>3
  <2>5. done \in 0..(Len(P) + k) /\ (Len(P) + k) - done <= BufLen /\ ~(k > 0)
    BY <1>1, <1>3, <2>4
  <2>6. QED  BY <1>1, <1>2, <1>3, <1>4, <1>5, <1>6, <1>8, <2>1, <2>2, <2>3, <2>4, <2>5, PutShapeFrom
<1>9. QED  BY <1>6, <1>7, <1>8

(* Into a buffer with room for it. *)
LEMMA Buffered ==
  ASSUME TypeOK, NEW n \in Nat, n < BufLen - Len(Pending), Writes(n),
         dev' = OutDevice, Output(Pending \o BytesAfter(n)), Returns(FALSE)
  PROVE  PutShape(n)
<1>1. PICK P \in Seq(Nat) : P = Pending /\ Len(P) \in 0..BufLen
  BY StandingIsTheFile
<1>2. PICK N \in Seq(Nat) : N = BytesAfter(n) /\ Len(N) = n
  BY BytesAfterElements
<1>3. PICK w \in Seq(Nat) : w = P \o N /\ Len(w) = Len(P) + n
  <2>1. P \o N \in Seq(Nat) /\ Len(P \o N) = Len(P) + Len(N)
    BY ONLY P \in Seq(Nat), N \in Seq(Nat), ConcatElements
  <2>2. QED  BY <1>2, <2>1
<1>4. /\ n <= MaxByte /\ nextByte' = nextByte + n /\ bosLen' = bosLen
      /\ status' = "output" /\ got' = <<>> /\ handed' = NoDevice /\ era' = era
      /\ threw' = FALSE /\ buf' = w
  BY <1>1, <1>2, <1>3, WritesSome DEF Output, Returns
<1>5. PICK k \in 0..n : k = n
  OBVIOUS
<1>6. PICK a \in 0..(Len(P) + k) : a = 0
  BY <1>1
<1>7. SubSeq(w, 1, a) = <<>> /\ SubSeq(w, a + 1, Len(P) + k) = w
  <2>1. SubSeq(w, 1, Len(w)) = w
    BY ONLY w \in Seq(Nat), WholePiece
  <2>2. a + 1 = 1
    BY <1>6
  <2>3. SubSeq(w, 1, 0) = <<>>
    BY SubSeqEmpty
  <2>4. QED  BY <1>3, <1>5, <1>6, <2>1, <2>2, <2>3
<1>8. dev' = Stored(OutDevice, SubSeq(w, 1, a))
  BY <1>7, StandingIsTheFile, StoredNothing
<1>9. (Len(P) + k) - a <= BufLen
  BY <1>1, <1>5, <1>6, RootAssumption DEF RootAssumption
<1>10. /\ a \in 0..(Len(Pending) + k)
       /\ dev' = Stored(OutDevice, SubSeq(Pending \o BytesAfter(n), 1, a))
       /\ buf' = SubSeq(Pending \o BytesAfter(n), a + 1, Len(Pending) + k)
       /\ (Len(Pending) + k) - a <= BufLen
  BY <1>1, <1>2, <1>3, <1>4, <1>7, <1>8, <1>9
<1>11. QED  BY ONLY <1>4, <1>10, k \in 0..n DEF PutShape

(* A buffer that is filled exactly goes out with the chunk. *)
LEMMA Filled ==
  ASSUME TypeOK, NEW n \in Nat, PutFills(n), Writes(n)
  PROVE  PutShape(n)
<1>1. PICK P \in Seq(Nat) : P = Pending /\ Len(P) \in 0..BufLen
  BY StandingIsTheFile
<1>2. PICK N \in Seq(Nat) : N = BytesAfter(n) /\ Len(N) = n
  BY BytesAfterElements
<1>3. PICK w \in Seq(Nat) : w = P \o N /\ Len(w) = Len(P) + n
  <2>1. P \o N \in Seq(Nat) /\ Len(P \o N) = Len(P) + Len(N)
    BY ONLY P \in Seq(Nat), N \in Seq(Nat), ConcatElements
  <2>2. QED  BY <1>2, <2>1
<1>4. BufLen \in Nat /\ n = BufLen - Len(P) /\ Len(P) \in 0..Len(w) /\ Len(P) + n = BufLen
  <2>1. BufLen \in Nat /\ n = BufLen - Len(P)
    BY <1>1, RootAssumption DEF RootAssumption, PutFills
  <2>2. QED  BY <1>1, <1>3, <2>1
<1>5. /\ n <= MaxByte /\ nextByte' = nextByte + n /\ bosLen' = bosLen
  BY WritesSome
<1>6. /\ status' = "output" /\ got' = <<>> /\ handed' = NoDevice /\ era' = era
      /\ \/ /\ threw' = FALSE
            /\ dev' = Stored(OutDevice, w) /\ buf' = <<>>
         \/ /\ threw' = TRUE
            /\ \E done \in 0..Len(w) :
                  /\ dev' = Stored(OutDevice, SubSeq(w, 1, done))
                  /\ buf' = SubSeq(w, done + 1, IF done > Len(P) THEN Len(w) ELSE Len(P))
  <2>1. DputBuffer(OutDevice, w, Len(P), <<>>)
    BY <1>1, <1>2, <1>3 DEF PutFills
  <2>2. QED  BY <1>4, <2>1, DputBufferEnds
<1>7. \E k \in 0..n : \E a \in 0..(Len(P) + k) :
         /\ dev' = Stored(OutDevice, SubSeq(w, 1, a))
         /\ buf' = SubSeq(w, a + 1, Len(P) + k)
         /\ (Len(P) + k) - a <= BufLen
         /\ threw' /\ k > 0 => a > Len(P)
  <2>1. CASE threw' = FALSE
    <3>1. SubSeq(w, 1, Len(w)) = w /\ SubSeq(w, Len(w) + 1, Len(w)) = <<>>
      BY ONLY w \in Seq(Nat), WholePiece, SubSeqEmpty
    <3>2. n \in 0..n /\ Len(w) \in 0..(Len(P) + n) /\ (Len(P) + n) - Len(w) <= BufLen
      BY <1>3, <1>4
    <3>3. dev' = Stored(OutDevice, w) /\ buf' = <<>>
      BY <1>6, <2>1
    <3>4. QED  BY <1>3, <2>1, <3>1, <3>2, <3>3
  <2>2. CASE threw' = TRUE
    <3>1. PICK a \in 0..Len(w) :
            /\ dev' = Stored(OutDevice, SubSeq(w, 1, a))
            /\ buf' = SubSeq(w, a + 1, IF a > Len(P) THEN Len(w) ELSE Len(P))
      BY <1>6, <2>2
    <3>2. CASE a > Len(P)
      <4>1. n \in 0..n /\ a \in 0..(Len(P) + n) /\ (Len(P) + n) - a <= BufLen
        BY <1>1, <1>3, <1>4, <3>2
      <4>2. QED  BY <1>3, <3>1, <3>2, <4>1
    <3>3. CASE ~(a > Len(P))
      <4>1. PICK k \in 0..n : k = 0
        OBVIOUS
      <4>2. /\ Len(P) + k = Len(P) /\ a \in 0..(Len(P) + k) /\ (Len(P) + k) - a <= BufLen
            /\ ~(k > 0)
        BY <1>1, <1>4, <3>3, <4>1
      <4>3. QED  BY <3>1, <3>3, <4>2
    <3>4. QED  BY <3>2, <3>3
  <2>3. QED  BY <1>6, <2>1, <2>2
<1>8. QED  BY ONLY <1>1, <1>2, <1>3, <1>5, <1>6, <1>7 DEF PutShape

(* Past the buffer. *)
LEMMA Direct ==
  ASSUME TypeOK, NEW n \in Nat, Writes(n),
         NEW end \in DputEnds(BytesAfter(n)),
         dev' = Stored(Stored(OutDevice, Pending), SubSeq(BytesAfter(n), 1, end.done)),
         Output(<<>>), Returns(end.how # "ok")
  PROVE  PutShape(n)
<1>1. PICK P \in Seq(Nat) : P = Pending /\ Len(P) \in 0..BufLen
  BY StandingIsTheFile
<1>2. PICK N \in Seq(Nat) : N = BytesAfter(n) /\ Len(N) = n
  BY BytesAfterElements
<1>3. PICK w \in Seq(Nat) : w = P \o N /\ Len(w) = Len(P) + n
  <2>1. P \o N \in Seq(Nat) /\ Len(P \o N) = Len(P) + Len(N)
    BY ONLY P \in Seq(Nat), N \in Seq(Nat), ConcatElements
  <2>2. QED  BY <1>2, <2>1
<1>4. PICK k \in 0..n : k = end.done
  BY <1>2 DEF DputEnds, DputFailures
<1>5. k \in Nat /\ k <= Len(N) /\ Len(P) \in Nat /\ BufLen \in Nat
  BY <1>1, <1>2, <1>4, RootAssumption DEF RootAssumption
<1>6. PICK x \in Seq(Nat) : x = SubSeq(N, 1, k)
  BY <1>5, PrefixElements
<1>7. SubSeq(w, 1, Len(P) + k) = P \o x
  BY ONLY <1>3, <1>5, <1>6, P \in Seq(Nat), N \in Seq(Nat), PiecesOfConcat
<1>8. dev' = Stored(OutDevice, SubSeq(w, 1, Len(P) + k))
  <2>1. dev' = Stored(Stored(OutDevice, P), x)
    BY <1>1, <1>2, <1>4, <1>6
  <2>2. Stored(Stored(OutDevice, P), x) = Stored(OutDevice, P \o x)
    BY StandingIsTheFile, StoredTwice
  <2>3. QED  BY <1>7, <2>1, <2>2
<1>9. PICK a \in 0..(Len(P) + k) : a = Len(P) + k
  <2>1. Len(P) + k \in 0..(Len(P) + k)
    BY ONLY <1>5
  <2>2. QED  BY <2>1
<1>10. buf' = SubSeq(w, a + 1, Len(P) + k)
  BY <1>5, <1>9, SubSeqEmpty DEF Output
<1>11. /\ n <= MaxByte /\ nextByte' = nextByte + n /\ bosLen' = bosLen
       /\ status' = "output" /\ got' = <<>> /\ handed' = NoDevice /\ era' = era
       /\ threw' \in BOOLEAN
  BY WritesSome DEF Output, Returns
<1>12. (Len(P) + k) - a <= BufLen /\ (k > 0 => a > Len(P))
  BY <1>5, <1>9
<1>13. /\ a \in 0..(Len(Pending) + k)
       /\ dev' = Stored(OutDevice, SubSeq(Pending \o BytesAfter(n), 1, a))
       /\ buf' = SubSeq(Pending \o BytesAfter(n), a + 1, Len(Pending) + k)
       /\ (Len(Pending) + k) - a <= BufLen
       /\ k > 0 => a > Len(Pending)
  BY <1>1, <1>2, <1>3, <1>8, <1>9, <1>10, <1>12
<1>14. QED  BY ONLY <1>11, <1>13, k \in 0..n DEF PutShape

LEMMA PutTaken ==
  ASSUME TypeOK, PutStep
  PROVE  \E n \in Nat : PutShape(n)
<1>1. BufLen \in Nat \ {0}
  BY RootAssumption DEF RootAssumption
<1>2. ASSUME NEW n \in PutSizes, Put(n) PROVE \E m \in Nat : PutShape(m)
  <2>1. n \in Nat /\ Writes(n)
    BY <1>2, RootAssumption DEF RootAssumption, Put
  <2>2. CASE PutFits(n)
    BY <2>1, <2>2, Buffered DEF PutFits
  <2>3. CASE PutFills(n)
    BY <2>1, <2>3, Filled
  <2>4. CASE PutAfterFlush(n)
    <3>1. n <= BufLen
      <4>1. n < BufLen \div 2 /\ BufLen \div 2 <= BufLen
        BY <1>1, <2>4 DEF PutAfterFlush
      <4>2. QED  BY <1>1, <2>1, <4>1
    <3>2. QED  BY <2>1, <2>4, <3>1, FlushFirst DEF PutAfterFlush
  <2>5. CASE PutDirect(n)
    <3>1. CASE DputBuffer(OutDevice, Pending, Len(Pending), <<>>) /\ threw'
      <4>1. PICK left : left = <<>>
        OBVIOUS
      <4>2. /\ (left = BytesAfter(n) /\ n <= BufLen) \/ (left = <<>> /\ threw')
            /\ DputBuffer(OutDevice, Pending, Len(Pending), left)
        BY <3>1, <4>1
      <4>3. QED  BY <2>1, <4>2, FlushFirst
    <3>2. CASE \E end \in DputEnds(BytesAfter(n)) :
             /\ dev' = Stored(Stored(OutDevice, Pending),
                              SubSeq(BytesAfter(n), 1, end.done))
             /\ Output(<<>>)
             /\ Returns(end.how # "ok")
      BY <2>1, <3>2, Direct
    <3>3. QED  BY <2>5, <3>1, <3>2 DEF PutDirect
  <2>6. QED  BY <1>2, <2>2, <2>3, <2>4, <2>5 DEF Put
<1>3. ASSUME NEW len \in 1..BufLen, NEW n \in {1, len}, PutBuf(len, n)
      PROVE  \E m \in Nat : PutShape(m)
  <2>1. n \in Nat /\ n <= len /\ n <= BufLen /\ Writes(n)
    BY <1>1, <1>3 DEF PutBuf
  <2>2. CASE len < BufLen - Len(Pending)
    <3>1. n < BufLen - Len(Pending)
      BY <1>1, <2>1, <2>2, StandingIsTheFile
    <3>2. QED  BY <1>3, <2>1, <2>2, <3>1, Buffered DEF PutBuf
  <2>3. CASE ~(len < BufLen - Len(Pending))
    BY <1>3, <2>1, <2>3, FlushFirst DEF PutBuf
  <2>4. QED  BY <2>2, <2>3
<1>4. QED  BY <1>2, <1>3 DEF PutStep
-----------------------------------------------------------------------------
(* What a step keeps: the invariant, the file below, what precedes the     *)
(* start of the stream.                                                    *)
HeaderKept == era' = era => SubSeq(dev'.data, 1, bosLen) = SubSeq(dev.data, 1, bosLen)
PutsTakenBack ==
    threw' => \A i \in DOMAIN Pending' : buf'[i] >= nextByte =>
                 \E j \in DOMAIN dev'.data : dev'.data[j] \in nextByte..(nextByte' - 1)

LEMMA PutSound ==
  ASSUME RootInv, NEW n \in Nat, PutShape(n)
  PROVE  RootInv' /\ Bytes!Next /\ HeaderKept /\ PutsTakenBack
<1>1. TypeOK /\ nextByte \in Nat \ {0} /\ bosLen \in Nat
  BY DEF RootInv, TypeOK
<1>2. PICK D : D = OutDevice /\ IsDevice(D) /\ D.data = dev.data /\ D.pos >= bosLen
  BY <1>1, StandingIsTheFile
<1>3. PICK P \in Seq(Nat) : P = Pending
  BY <1>1, StandingIsTheFile
<1>4. PICK N \in Seq(Nat) : /\ N = BytesAfter(n) /\ Len(N) = n /\ N = Bytes!Numbered(nextByte, n)
                            /\ \A i \in 1..n : N[i] = nextByte + i - 1
  BY <1>1, BytesAfterElements
<1>5. PICK l \in Nat : l = Len(P)
  OBVIOUS
<1>6. PICK w \in Seq(Nat) : /\ w = P \o N /\ Len(w) = l + n
                            /\ \A i \in 1..(l + n) : w[i] = IF i <= l THEN P[i] ELSE N[i - l]
  <2>1. /\ P \o N \in Seq(Nat) /\ Len(P \o N) = Len(P) + Len(N)
        /\ \A i \in 1..(Len(P) + Len(N)) :
              (P \o N)[i] = IF i <= Len(P) THEN P[i] ELSE N[i - Len(P)]
    BY ONLY P \in Seq(Nat), N \in Seq(Nat), ConcatElements
  <2>2. QED  BY <1>4, <1>5, <2>1
<1>6a. PICK k \in 0..n : \E a \in 0..(l + k) :
        /\ dev' = Stored(D, SubSeq(w, 1, a))
        /\ buf' = SubSeq(w, a + 1, l + k)
        /\ (l + k) - a <= BufLen
        /\ threw' /\ k > 0 => a > l
  BY <1>2, <1>3, <1>4, <1>5, <1>6 DEF PutShape
<1>7. PICK a \in 0..(l + k) :
        /\ dev' = Stored(D, SubSeq(w, 1, a))
        /\ buf' = SubSeq(w, a + 1, l + k)
        /\ (l + k) - a <= BufLen
        /\ threw' /\ k > 0 => a > l
  BY <1>6a
<1>8. /\ n <= MaxByte /\ nextByte' = nextByte + n /\ bosLen' = bosLen
      /\ got' = <<>> /\ handed' = NoDevice /\ era' = era /\ status' = "output" /\ threw' \in BOOLEAN
  BY DEF PutShape
<1>9. PICK e \in Nat : e = l + k
  OBVIOUS
<1>9a. /\ k \in Nat /\ a \in Nat /\ a <= e /\ e <= Len(w) /\ a <= Len(w)
       /\ k <= n /\ l <= Len(w) /\ n \in Nat /\ l \in Nat
  BY ONLY <1>6, <1>9, k \in 0..n, a \in 0..(l + k), l \in Nat, n \in Nat
<1>9b. PICK x : x = SubSeq(w, 1, a)
  OBVIOUS
<1>9c. a \in Nat /\ a <= e /\ e <= Len(w)
  BY <1>9a
<1>9d. k \in Nat /\ k <= Len(N)
  BY <1>4, <1>9a
<1>10. x \in Seq(Nat) /\ Len(x) = a /\ \A i \in 1..a : x[i] = w[i]
  BY ONLY w \in Seq(Nat), <1>9a, <1>9b, PrefixElements
<1>10a. PICK y : y = SubSeq(w, a + 1, e)
  OBVIOUS
<1>11. /\ y \in Seq(Nat) /\ Len(y) = e - a
       /\ \A i \in 1..(e - a) : y[i] = w[a + i]
  <2>1. SubSeq(w, a + 1, e) \in Seq(Nat)
    BY ONLY w \in Seq(Nat), e \in Nat, <1>9c, PieceElements
  <2>2. Len(SubSeq(w, a + 1, e)) = e - a
    BY ONLY w \in Seq(Nat), e \in Nat, <1>9c, PieceElements
  <2>3. \A i \in 1..(e - a) : SubSeq(w, a + 1, e)[i] = w[a + i]
    BY ONLY w \in Seq(Nat), e \in Nat, <1>9c, PieceElements
  <2>4. QED  BY ONLY <1>10a, <2>1, <2>2, <2>3
<1>11a. Len(y) = e - a /\ a \in Nat /\ a <= e
  BY <1>9a, <1>11
<1>12. PICK z \in Seq(Nat) : z = SubSeq(N, 1, k) /\ z = Bytes!Numbered(nextByte, k)
  <2>1. /\ SubSeq(N, 1, k) \in Seq(Nat) /\ Len(SubSeq(N, 1, k)) = k
        /\ \A i \in 1..k : SubSeq(N, 1, k)[i] = N[i]
    BY ONLY N \in Seq(Nat), <1>4, <1>9a, PrefixElements
  <2>2. /\ Bytes!Numbered(nextByte, k) \in Seq(Nat) /\ Len(Bytes!Numbered(nextByte, k)) = k
        /\ \A i \in 1..k : Bytes!Numbered(nextByte, k)[i] = nextByte + i - 1
    BY ONLY <1>1, <1>9a, NumberedElements
  <2>3. \A i \in 1..k : i \in 1..n
    BY <1>9a
  <2>4. \A i \in 1..k : SubSeq(N, 1, k)[i] = Bytes!Numbered(nextByte, k)[i]
    BY ONLY <1>4, <2>1, <2>2, <2>3
  <2>5. SubSeq(N, 1, k) = Bytes!Numbered(nextByte, k)
    BY ONLY <2>1, <2>2, <2>4, SeqEqual
  <2>6. QED  BY <2>1, <2>5
<1>13. x \o y = P \o z
  <2>1. SubSeq(w, 1, a) \o SubSeq(w, a + 1, e) = SubSeq(w, 1, e)
    BY ONLY w \in Seq(Nat), e \in Nat, <1>9c, PrefixAndPiece
  <2>2. SubSeq(P \o N, 1, Len(P) + k) = P \o SubSeq(N, 1, k)
    BY ONLY P \in Seq(Nat), N \in Seq(Nat), <1>9d, PiecesOfConcat
  <2>3. QED  BY ONLY <1>5, <1>6, <1>9, <1>9b, <1>10a, <1>12, <2>1, <2>2
<1>14. /\ dev' = Stored(D, x) /\ IsDevice(dev') /\ dev'.pos = D.pos + a
       /\ dev'.data = Bytes!Overwrite(D.data, D.pos, x)
       /\ SubSeq(dev'.data, 1, bosLen) = SubSeq(dev.data, 1, bosLen)
  <2>1. dev' = Stored(D, x)
    BY <1>7, <1>9b
  <2>2. /\ IsDevice(Stored(D, x)) /\ Stored(D, x).pos = D.pos + Len(x)
        /\ Stored(D, x).data = Bytes!Overwrite(D.data, D.pos, x)
        /\ \A m \in Nat : m <= D.pos => SubSeq(Stored(D, x).data, 1, m) = SubSeq(D.data, 1, m)
    BY <1>2, <1>10, StoredSound
  <2>3. QED  BY ONLY <1>1, <1>2, <1>10, <2>1, <2>2
<1>15. Pending' = y /\ Unread' = <<>> /\ buf' = y
  BY <1>7, <1>8, <1>9, <1>10a DEF Pending, Unread
<1>16. D.pos \in Nat /\ D.data \in Seq(Nat) /\ D.pos <= Len(D.data)
  BY <1>2 DEF IsDevice
<1>17. TypeOK'
  <2>1. dev' \in [data : Seq(Nat), pos : Nat] /\ dev'.pos <= Len(dev'.data)
    BY <1>14 DEF IsDevice
  <2>2. buf' \in Seq(Nat) /\ Len(buf') <= BufLen
    BY <1>7, <1>9, <1>11, <1>15
  <2>3. dev'.pos >= bosLen' + Len(Unread')
    <3>1. Len(Unread') = 0 /\ bosLen' = bosLen
      BY <1>8, <1>15
    <3>2. QED  BY ONLY <1>1, <1>2, <1>9a, <1>14, <1>16, <3>1
  <2>4. nextByte' \in Nat \ {0} /\ bosLen' \in Nat /\ era' \in 0..MaxEra
    BY <1>1, <1>8 DEF TypeOK
  <2>5. QED  BY <1>8, <2>1, <2>2, <2>3, <2>4 DEF TypeOK
<1>18. ASSUME NEW i \in 1..e
       PROVE  /\ w[i] < nextByte + n
              /\ w[i] >= nextByte => i > l /\ k > 0
  <2>1. i \in 1..(l + n) /\ w[i] \in Nat
    BY <1>6, <1>9, <1>9a
  <2>2. CASE i <= l
    <3>1. i \in 1..Len(P) /\ P[i] \in Nat
      BY <1>5, <2>2
    <3>2. P = buf /\ status = "output"
      BY <1>3, <1>5, <2>2 DEF Pending
    <3>3. P[i] < nextByte
      BY <3>1, <3>2 DEF RootInv, Given
    <3>4. w[i] = P[i]
      BY <1>6, <2>1, <2>2
    <3>5. QED  BY <1>1, <3>1, <3>3, <3>4
  <2>3. CASE ~(i <= l)
    <3>1. i - l \in 1..n /\ k > 0
      BY <1>9, <1>9a, <2>1, <2>3
    <3>2. w[i] = nextByte + (i - l) - 1
      BY <1>4, <1>6, <2>1, <2>3, <3>1
    <3>3. QED  BY <1>1, <2>3, <3>1, <3>2
  <2>4. QED  BY <2>2, <2>3
<1>19. ASSUME NEW i \in 1..Len(y)
       PROVE  \E m \in 1..e : y[i] = w[m]
  <2>1. i \in 1..(e - a) /\ a + i \in 1..e
    BY ONLY <1>11a, e \in Nat, i \in 1..Len(y)
  <2>2. QED  BY <1>11, <2>1
<1>20. ReadAhead' /\ Given'
  <2>1. ASSUME NEW i \in 1..Len(y) PROVE y[i] < nextByte'
    <3>1. PICK m \in 1..e : y[i] = w[m]
      BY <1>19
    <3>2. w[m] < nextByte + n
      BY ONLY <1>18, m \in 1..e
    <3>3. QED  BY ONLY <1>8, <3>1, <3>2
  <2>2. QED  BY <1>8, <1>15, <2>1 DEF ReadAhead, Given
<1>21. HeaderKept
  BY <1>14 DEF HeaderKept
<1>22. PutsTakenBack
  <2>1. SUFFICES ASSUME threw', NEW i \in DOMAIN Pending', buf'[i] >= nextByte
                 PROVE  \E j \in DOMAIN dev'.data : dev'.data[j] \in nextByte..(nextByte' - 1)
    BY DEF PutsTakenBack
  <2>2. i \in 1..Len(y) /\ y[i] >= nextByte
    BY <1>15, <2>1
  <2>3. k > 0 /\ a > l
    <3>1. PICK m \in 1..e : y[i] = w[m]
      BY <1>19, <2>2
    <3>2. k > 0
      <4>1. w[m] >= nextByte
        BY ONLY <2>2, <3>1
      <4>2. QED  BY ONLY <1>18, <4>1, m \in 1..e
    <3>3. QED  BY <1>7, <2>1, <3>2
  <2>4. l + 1 \in 1..a /\ l + 1 \in 1..(l + n) /\ ~(l + 1 <= l) /\ (l + 1) - l = 1 /\ 1 \in 1..n
    BY <1>9a, <2>3
  <2>5. x[l + 1] = nextByte
    <3>1. x[l + 1] = w[l + 1]
      BY ONLY <1>10, <2>4
    <3>2. w[l + 1] = N[(l + 1) - l]
      BY ONLY <1>6, <2>4
    <3>3. N[1] = nextByte + 1 - 1
      BY ONLY <1>4, <2>4
    <3>4. QED  BY <1>1, <2>4, <3>1, <3>2, <3>3
  <2>6. IsOverwrite(dev'.data, D.data, D.pos, x)
    BY <1>10, <1>14, <1>16, OverwriteElements
  <2>7. PICK j \in Nat \ {0} : j = D.pos + (l + 1)
    BY <1>16
  <2>8. D.pos < j /\ j <= D.pos + Len(x) /\ j - D.pos = l + 1
    <3>1. D.pos \in Nat /\ Len(x) \in Nat /\ l + 1 <= Len(x)
      BY <1>10, <1>16, <2>4
    <3>2. QED  BY ONLY <2>7, <3>1, l \in Nat
  <2>9. dev'.data[j] = nextByte
    BY <2>5, <2>6, <2>8 DEF IsOverwrite
  <2>10. j \in DOMAIN dev'.data
    <3>1. dev'.data \in Seq(Nat) /\ dev'.pos <= Len(dev'.data) /\ dev'.pos = D.pos + Len(x)
      BY <1>10, <1>14 DEF IsDevice
    <3>2. PICK h \in Nat, g \in Nat : h = Len(dev'.data) /\ g = D.pos + Len(x)
      BY <1>10, <1>16, <3>1
    <3>3. g <= h /\ j <= g
      BY ONLY <2>8, <3>1, <3>2
    <3>4. j \in 1..h
      BY ONLY <3>3, j \in Nat \ {0}, h \in Nat, g \in Nat
    <3>5. DOMAIN dev'.data = 1..Len(dev'.data)
      BY ONLY <3>1
    <3>6. QED  BY ONLY <3>2, <3>4, <3>5
  <2>11. nextByte \in nextByte..(nextByte' - 1)
    BY <1>1, <1>8, <2>4
  <2>12. QED  BY <2>9, <2>10, <2>11
<1>23. Bytes!Write(n, k)
  <2>1. /\ IsDevice(Standing) /\ Standing = Stored(D, P) /\ Standing.pos = Where
        /\ Standing.data = Stored(dev, Pending).data
    BY <1>1, <1>2, <1>3, StandingIsTheFile DEF Standing
  <2>2. Stored(dev', Pending') = Stored(Standing, z)
    <3>1. Stored(dev', y) = Stored(D, x \o y)
      BY <1>2, <1>10, <1>11, <1>14, StoredTwice
    <3>2. Stored(D, P \o z) = Stored(Stored(D, P), z)
      BY <1>2, StoredTwice
    <3>3. QED  BY ONLY <1>13, <1>15, <2>1, <3>1, <3>2
  <2>3. Stored(dev', Pending').data
          = Bytes!Overwrite(Stored(dev, Pending).data, Where, Bytes!Numbered(nextByte, k))
    <3>1. Stored(Standing, z).data = Bytes!Overwrite(Standing.data, Standing.pos, z)
      BY ONLY <2>1, z \in Seq(Nat), StoredSound
    <3>2. QED  BY ONLY <1>12, <2>1, <2>2, <3>1
  <2>4. Where' = Where + k
    <3>1. Where = D.pos + l
      BY <1>2, <1>5, <2>1, StoredSound
    <3>2. Where' = (D.pos + a) + Len(y) - Len(<<>>)
      BY <1>14, <1>15 DEF Where
    <3>3. Where' = (D.pos + a) + (e - a)
      BY ONLY <1>9a, <1>11, <1>16, <3>2, e \in Nat
    <3>4. QED  BY ONLY <1>9, <1>9a, <1>16, <3>1, <3>3
  <2>5. QED  BY <1>8, <2>3, <2>4 DEF Bytes!Write
<1>24. Bytes!Next
  <2>1. n \in 0..MaxByte
    BY <1>8, RootAssumption DEF RootAssumption
  <2>2. QED  BY <1>23, <2>1 DEF Bytes!Next
<1>25. QED  BY <1>17, <1>20, <1>21, <1>22, <1>24 DEF RootInv
-----------------------------------------------------------------------------
(* What every read comes to: the device reads c more bytes after those that *)
(* are unread, the caller gets the first k and the buffer keeps the rest.  *)
ReadShape(c, k) ==
    LET all == Unread \o Ahead(Flushed, c)
        m == Len(Unread) + c
    IN /\ Flushed.pos + c <= Len(Flushed.data)
       /\ k <= m /\ m - k <= BufLen
       /\ dev' = DeviceAt(Flushed, Flushed.pos + c)
       /\ status' = "input"
       /\ buf' = SubSeq(all, k + 1, m)
       /\ got' = SubSeq(all, 1, k)
       /\ bosLen' = bosLen /\ nextByte' = nextByte /\ era' = era
       /\ threw' \in BOOLEAN

(* The device with what was waiting put on it, and what is unread in it. *)
LEMMA UnreadIsThere ==
  ASSUME RootInv
  PROVE  /\ IsDevice(Flushed) /\ Flushed.pos = Where + Len(Unread)
         /\ Where \in Nat /\ Where >= bosLen /\ Where <= Len(Flushed.data)
         /\ Flushed.pos >= bosLen
         /\ Unread = SubSeq(Flushed.data, Where + 1, Flushed.pos)
         /\ SubSeq(Flushed.data, 1, bosLen) = SubSeq(dev.data, 1, bosLen)
<1>1. /\ TypeOK /\ IsDevice(dev) /\ dev.pos \in Nat /\ bosLen \in Nat
      /\ dev.pos >= bosLen + Len(Unread)
  BY DEF RootInv, TypeOK, IsDevice
<1>2. /\ Pending \in Seq(Nat) /\ Unread \in Seq(Nat)
      /\ Len(Unread) \in Nat /\ Len(Pending) \in Nat
  BY <1>1, StandingIsTheFile
<1>3. /\ IsDevice(Flushed) /\ Flushed.pos = dev.pos + Len(Pending)
      /\ \A n \in Nat : n <= dev.pos =>
            SubSeq(Flushed.data, 1, n) = SubSeq(dev.data, 1, n)
  BY <1>1, <1>2, StoredSound DEF Flushed
<1>4. Flushed.pos \in Nat /\ Flushed.pos <= Len(Flushed.data) /\ Len(Flushed.data) \in Nat
  BY <1>3 DEF IsDevice
<1>5. /\ Flushed.pos = Where + Len(Unread) /\ Where \in Nat /\ Where >= bosLen
      /\ Where <= Len(Flushed.data) /\ Flushed.pos >= bosLen /\ bosLen <= dev.pos
  <2>1. Where = dev.pos + (Len(Pending) - Len(Unread))
    BY DEF Where
  <2>2. PICK d \in Nat, q \in Nat, u \in Nat, f \in Nat, h \in Nat, b \in Nat :
           /\ d = dev.pos /\ q = Len(Pending) /\ u = Len(Unread)
           /\ f = Flushed.pos /\ h = Len(Flushed.data) /\ b = bosLen
    BY <1>1, <1>2, <1>4
  <2>3. f = d + q /\ f <= h /\ d >= b + u /\ Where = d + (q - u)
    BY <1>1, <1>3, <1>4, <2>1, <2>2
  <2>4. /\ f = Where + u /\ Where \in Nat /\ Where >= b
        /\ Where <= h /\ f >= b /\ b <= d
    BY ONLY <2>3, d \in Nat, q \in Nat, u \in Nat, f \in Nat, h \in Nat, b \in Nat
  <2>5. QED  BY ONLY <2>2, <2>4
<1>6. Unread = SubSeq(Flushed.data, Where + 1, Flushed.pos)
  <2>1. CASE status = "input"
    <3>1. Unread = buf /\ Pending = <<>>
      BY <2>1 DEF Unread, Pending
    <3>2. Flushed = dev
      BY <1>1, <3>1, StoredNothing DEF Flushed
    <3>3. buf = SubSeq(dev.data, (dev.pos - Len(buf)) + 1, dev.pos)
      BY <2>1 DEF RootInv, ReadAhead
    <3>4. Where = dev.pos - Len(buf)
      BY <1>1, <1>2, <1>5, <3>1, <3>2
    <3>5. QED  BY <3>1, <3>2, <3>3, <3>4
  <2>2. CASE status # "input"
    <3>1. Unread = <<>>
      BY <2>2 DEF Unread
    <3>2. Flushed.pos = Where
      BY <1>5, <3>1
    <3>3. QED  BY <1>5, <3>1, <3>2, NoPiece
  <2>3. QED  BY <2>1, <2>2
<1>7. QED  BY <1>1, <1>3, <1>5, <1>6

LEMMA ReadSound ==
  ASSUME RootInv, NEW c \in Nat, NEW k \in Nat, ReadShape(c, k)
  PROVE  RootInv' /\ Bytes!Next /\ HeaderKept
<1>1. TypeOK /\ bosLen \in Nat
  BY DEF RootInv, TypeOK
<1>2. Unread \in Seq(Nat) /\ Len(Unread) \in Nat
  BY <1>1, StandingIsTheFile
<1>3. PICK F \in Seq(Nat) : F = Flushed.data
  BY UnreadIsThere DEF IsDevice
<1>4. PICK p \in Nat : p = Where
  BY UnreadIsThere
<1>5. PICK q \in Nat : q = Flushed.pos /\ q = p + Len(Unread) /\ q <= Len(F) /\ p >= bosLen
  BY <1>3, <1>4, UnreadIsThere DEF IsDevice
<1>6. PICK m \in Nat : m = Len(Unread) + c
  BY <1>2
<1>7. PICK e \in Nat : e = q + c
  OBVIOUS
<1>8. PICK all : all = Unread \o Ahead(Flushed, c)
  OBVIOUS
<1>9. /\ e <= Len(F) /\ k <= m /\ m - k <= BufLen
      /\ dev' = [data |-> F, pos |-> e]
      /\ status' = "input"
      /\ buf' = SubSeq(all, k + 1, m) /\ got' = SubSeq(all, 1, k)
      /\ bosLen' = bosLen /\ nextByte' = nextByte /\ era' = era
      /\ threw' \in BOOLEAN
  BY <1>3, <1>5, <1>6, <1>7, <1>8 DEF ReadShape, DeviceAt
<1>10. e = p + m /\ p <= q /\ q <= e /\ p <= e /\ e - p = m /\ p + k <= e /\ p + k \in Nat
  BY ONLY <1>2, <1>5, <1>6, <1>7, <1>9, p \in Nat, q \in Nat, m \in Nat, e \in Nat, k \in Nat, c \in Nat
<1>11. all = SubSeq(F, p + 1, e)
  <2>1. Unread = SubSeq(F, p + 1, q)
    BY <1>3, <1>4, <1>5, UnreadIsThere
  <2>2. Ahead(Flushed, c) = SubSeq(F, q + 1, e)
    BY <1>3, <1>5, <1>7 DEF Ahead
  <2>3. SubSeq(F, p + 1, q) \o SubSeq(F, q + 1, e) = SubSeq(F, p + 1, e)
    BY ONLY F \in Seq(Nat), p \in Nat, q \in Nat, e \in Nat, <1>9, <1>10, AdjacentPieces
  <2>4. QED  BY ONLY <1>8, <2>1, <2>2, <2>3
<1>12. buf' = SubSeq(F, (p + k) + 1, e)
  <2>1. SubSeq(SubSeq(F, p + 1, e), k + 1, m) = SubSeq(F, (p + k) + 1, p + m)
    <3>1. k <= m /\ m <= e - p
      BY <1>9, <1>10
    <3>2. QED
      BY ONLY F \in Seq(Nat), p \in Nat, e \in Nat, k \in Nat, m \in Nat, <1>9, <1>10, <3>1, PieceOfPiece
  <2>2. QED  BY ONLY <1>9, <1>10, <1>11, <2>1
<1>13. got' = SubSeq(F, p + 1, p + k)
  <2>1. SubSeq(SubSeq(F, p + 1, e), 1, k) = SubSeq(F, p + 1, p + k)
    <3>1. k <= e - p
      BY <1>9, <1>10
    <3>2. QED
      BY ONLY F \in Seq(Nat), p \in Nat, e \in Nat, k \in Nat, <1>9, <1>10, <3>1, PrefixOfPiece
  <2>2. QED  BY ONLY <1>9, <1>11, <2>1
<1>14. buf' \in Seq(Nat) /\ Len(buf') = e - (p + k)
  <2>1. PICK f \in Nat : f = p + k
    BY <1>10
  <2>2. f <= e
    BY <1>10, <2>1
  <2>3. /\ SubSeq(F, f + 1, e) \in Seq(Nat) /\ Len(SubSeq(F, f + 1, e)) = e - f
    BY ONLY F \in Seq(Nat), e \in Nat, f \in Nat, <1>9, <2>2, PieceElements
  <2>4. QED  BY ONLY <1>12, <2>1, <2>3
<1>15. got' \in Seq(Nat)
  <2>1. p <= p + k /\ p + k <= Len(F)
    BY <1>9, <1>10
  <2>2. QED  BY ONLY F \in Seq(Nat), p \in Nat, <1>10, <1>13, <2>1, PieceElements
<1>16. /\ IsDevice(dev') /\ dev'.data = F /\ dev'.pos = e
  BY <1>9 DEF IsDevice
<1>17. Unread' = buf' /\ Pending' = <<>>
  BY <1>9 DEF Unread, Pending
<1>18. Len(buf') = m - k /\ dev'.pos - Len(buf') = p + k /\ Len(buf') \in Nat
  BY ONLY <1>9, <1>10, <1>14, <1>16, p \in Nat, k \in Nat, m \in Nat, e \in Nat
<1>19. TypeOK'
  <2>1. dev'.pos >= bosLen + Len(buf')
    BY ONLY <1>1, <1>5, <1>9, <1>10, <1>14, <1>16, p \in Nat, k \in Nat, m \in Nat, e \in Nat
  <2>2. nextByte' \in Nat \ {0} /\ era' \in 0..MaxEra /\ bosLen' \in Nat
    BY <1>1, <1>9 DEF TypeOK
  <2>3. dev' \in [data : Seq(Nat), pos : Nat] /\ dev'.pos <= Len(dev'.data)
    BY <1>16 DEF IsDevice
  <2>4. QED  BY <1>9, <1>14, <1>15, <1>17, <1>18, <2>1, <2>2, <2>3 DEF TypeOK
<1>20. ReadAhead' /\ Given'
  BY <1>9, <1>12, <1>16, <1>18 DEF ReadAhead, Given
<1>21. HeaderKept
  BY <1>3, <1>16, UnreadIsThere DEF HeaderKept
<1>22. Bytes!Read(k) /\ k \in 0..(Len(Stored(dev, Pending).data) - Where)
  <2>1. Stored(dev, Pending).data = F
    BY <1>3 DEF Flushed
  <2>2. Stored(dev', Pending').data = F
    BY <1>16, <1>17, StoredNothing
  <2>3. Where' = Where + k
    <3>1. Where' = dev'.pos + Len(<<>>) - Len(buf')
      BY <1>17 DEF Where
    <3>2. QED  BY <1>4, <1>16, <1>18, <3>1
  <2>4. k \in 0..(Len(F) - p)
    BY <1>9, <1>10
  <2>5. QED  BY <1>4, <1>9, <1>13, <2>1, <2>2, <2>3, <2>4 DEF Bytes!Read
<1>23. Bytes!Next
  BY <1>22 DEF Bytes!Next
<1>24. QED  BY <1>19, <1>20, <1>21, <1>23 DEF RootInv
-----------------------------------------------------------------------------
(* The other calls keep the bytes: they leave the buffer empty, or leave it *)
(* alone.                                                                  *)
Emptied ==
    /\ dev'.data = Flushed.data /\ IsDevice(dev')
    /\ status' \in {"neutral", "input", "output"} /\ buf' = <<>>
    /\ bosLen' \in Nat /\ bosLen' <= dev'.pos

Left ==
    /\ dev' = dev /\ status' = status /\ buf' = buf
    /\ bosLen' \in Nat /\ bosLen' + Len(Unread) <= dev.pos

SeekShape ==
    /\ Emptied \/ Left
    /\ nextByte' = nextByte /\ era' = era /\ got' = <<>> /\ threw' \in BOOLEAN

LEMMA NothingWaits ==
  ASSUME TypeOK, Pending = <<>>
  PROVE  Flushed = dev
  BY StandingIsTheFile, StoredNothing DEF Flushed

LEMMA SeekSound ==
  ASSUME RootInv, SeekShape
  PROVE  RootInv' /\ Bytes!Next /\ HeaderKept
<1>1. /\ TypeOK /\ nextByte' = nextByte /\ era' = era /\ got' = <<>> /\ threw' \in BOOLEAN
      /\ nextByte' \in Nat \ {0} /\ era' \in 0..MaxEra
  BY DEF RootInv, TypeOK, SeekShape
<1>2. <<>> \in Seq(Nat) /\ Len(<<>>) = 0 /\ BufLen \in Nat
  BY RootAssumption DEF RootAssumption
<1>3. CASE Emptied
  <2>1. Pending' = <<>> /\ Unread' = <<>>
    BY <1>3 DEF Emptied, Pending, Unread
  <2>2. /\ dev' \in [data : Seq(Nat), pos : Nat] /\ dev'.pos <= Len(dev'.data)
        /\ bosLen' \in Nat /\ bosLen' <= dev'.pos
    BY <1>3 DEF Emptied, IsDevice
  <2>3. TypeOK'
    <3>1. dev'.pos >= bosLen' + Len(Unread')
      BY <1>2, <2>1, <2>2
    <3>2. QED  BY <1>1, <1>2, <1>3, <2>2, <3>1 DEF TypeOK, Emptied
  <2>4. ReadAhead' /\ Given'
    <3>1. PICK p \in Nat : p = dev'.pos
      BY <2>2
    <3>2. SubSeq(dev'.data, p + 1, p) = <<>> /\ p - Len(<<>>) = p
      BY <1>2, NoPiece
    <3>3. buf' = <<>>
      BY <1>3 DEF Emptied
    <3>4. ReadAhead'
      BY <3>1, <3>2, <3>3 DEF ReadAhead
    <3>5. Given'
      BY <1>2, <3>3 DEF Given
    <3>6. QED  BY <3>4, <3>5
  <2>5. HeaderKept
    BY <1>3, UnreadIsThere DEF HeaderKept, Emptied
  <2>6. Bytes!Seek
    <3>1. Stored(dev', Pending').data = Stored(dev, Pending).data
      BY <1>3, <2>1, StoredNothing DEF Emptied, Flushed
    <3>2. Where' = dev'.pos
      <4>1. Where' = dev'.pos + Len(<<>>) - Len(<<>>)
        BY <2>1 DEF Where
      <4>2. QED  BY <1>2, <2>2, <4>1
    <3>3. dev'.data = Stored(dev, Pending).data
      BY <1>3 DEF Emptied, Flushed
    <3>4. Where' \in 0..Len(Stored(dev, Pending).data)
      BY <2>2, <3>2, <3>3
    <3>5. QED  BY <1>1, <3>1, <3>4 DEF Bytes!Seek
  <2>7. QED  BY <2>3, <2>4, <2>5, <2>6 DEF RootInv, Bytes!Next
<1>4. CASE Left
  <2>1. Pending' = Pending /\ Unread' = Unread /\ Where' = Where /\ Stored(dev', Pending') = Stored(dev, Pending)
    BY <1>4 DEF Left, Pending, Unread, Where
  <2>2. dev'.pos >= bosLen' + Len(Unread')
    <3>1. dev' = dev /\ bosLen' \in Nat /\ bosLen' + Len(Unread) <= dev.pos /\ dev.pos \in Nat
      BY <1>1, <1>4 DEF Left, TypeOK
    <3>2. Len(Unread) \in Nat
      BY <1>1, StandingIsTheFile
    <3>3. QED  BY <2>1, <3>1, <3>2
  <2>3. TypeOK'
    BY <1>1, <1>2, <1>4, <2>2 DEF TypeOK, Left
  <2>4. ReadAhead' /\ Given'
    BY <1>1, <1>4 DEF RootInv, ReadAhead, Given, Left
  <2>5. HeaderKept
    BY <1>4 DEF HeaderKept, Left
  <2>6. Bytes!Seek
    <3>1. Where \in 0..Len(Stored(dev, Pending).data)
      BY UnreadIsThere DEF Flushed, IsDevice
    <3>2. Where' \in 0..Len(Stored(dev, Pending).data)
      BY <2>1, <3>1
    <3>3. QED  BY <1>1, <2>1, <3>2 DEF Bytes!Seek
  <2>7. QED  BY <2>3, <2>4, <2>5, <2>6 DEF RootInv, Bytes!Next
<1>5. QED  BY <1>3, <1>4 DEF SeekShape
-----------------------------------------------------------------------------
(* Which call comes to what. *)
LEMMA FlushFailsIsPut ==
  ASSUME RootInv, FlushFails
  PROVE  PutShape(0)
<1>1. TypeOK /\ nextByte \in Nat /\ MaxByte \in Nat
  BY RootAssumption DEF RootInv, TypeOK, RootAssumption
<1>2. PICK P \in Seq(Nat) : P = Pending /\ Len(P) \in 0..BufLen /\ BufLen \in Nat
  BY <1>1, StandingIsTheFile, RootAssumption DEF RootAssumption
<1>3. PICK end \in DputFailures(P) :
         /\ dev' = Stored(dev, SubSeq(P, 1, end.done))
         /\ Output(LeftBuffered(P, Len(P), end))
  BY <1>2 DEF FlushFails
<1>4. PICK a \in 0..Len(P) : a = end.done
  <2>1. end.done \in 0..Len(P)
    BY <1>2, <1>3 DEF DputFailures
  <2>2. QED  BY <2>1
<1>5. buf' = SubSeq(P, a + 1, Len(P)) /\ status' = "output"
  BY <1>2, <1>3, <1>4 DEF LeftBuffered, Output
<1>6. P # <<>>
  BY <1>3 DEF DputFailures
<1>7. OutDevice = dev
  <2>1. Unread = <<>> /\ dev.pos \in Nat
    BY <1>1, <1>2, <1>6 DEF Pending, Unread, TypeOK
  <2>2. dev.pos - Len(Unread) = dev.pos
    BY <2>1
  <2>3. QED  BY <1>1, <2>2 DEF OutDevice, DeviceAt, TypeOK
<1>8. P \o BytesAfter(0) = P
  <2>1. BytesAfter(0) = <<>>
    BY DEF BytesAfter
  <2>2. QED  BY <2>1
<1>9. /\ nextByte' = nextByte + 0 /\ 0 <= MaxByte
      /\ bosLen' = bosLen /\ got' = <<>> /\ handed' = NoDevice /\ era' = era
      /\ threw' \in BOOLEAN
  BY <1>1 DEF FlushFails, Returns
<1>10. PICK k \in 0..0 : k = 0
  OBVIOUS
<1>11. /\ Len(P) + k = Len(P) /\ a \in 0..(Len(P) + k)
       /\ (Len(P) + k) - a <= BufLen /\ ~(k > 0)
  BY <1>2, <1>10
<1>12. /\ a \in 0..(Len(Pending) + k)
       /\ dev' = Stored(OutDevice, SubSeq(Pending \o BytesAfter(0), 1, a))
       /\ buf' = SubSeq(Pending \o BytesAfter(0), a + 1, Len(Pending) + k)
       /\ (Len(Pending) + k) - a <= BufLen /\ ~(k > 0)
  BY <1>2, <1>3, <1>4, <1>5, <1>7, <1>8, <1>11
<1>13. QED  BY ONLY <1>5, <1>9, <1>12, k \in 0..0 DEF PutShape

(* What was read ahead is enough: no byte more is read. *)
LEMMA TakenAhead ==
  ASSUME RootInv, Reads, NEW k \in Nat, k <= Len(Unread), Unread # <<>>, TakeAhead(k)
  PROVE  ReadShape(0, k)
<1>1. TypeOK
  BY DEF RootInv
<1>2. PICK u \in Seq(Nat) : u = Unread /\ Len(u) \in 0..BufLen
  BY <1>1, StandingIsTheFile
<1>3. status = "input" /\ buf = u /\ Pending = <<>>
  BY <1>2 DEF Unread, Pending
<1>4. Flushed = dev /\ dev.pos \in Nat /\ dev.pos <= Len(dev.data)
  BY <1>1, <1>3, NothingWaits DEF TypeOK
<1>5. Ahead(Flushed, 0) = <<>>
  BY <1>4, NoPiece DEF Ahead
<1>6. PICK m \in Nat : m = Len(u) + 0 /\ m = Len(u) /\ k <= m /\ m - k <= BufLen
  BY <1>2, RootAssumption DEF RootAssumption
<1>7. u \o <<>> = u
  OBVIOUS
<1>8. DeviceAt(Flushed, Flushed.pos + 0) = dev
  BY <1>1, <1>4 DEF DeviceAt, TypeOK
<1>9. buf' = SubSeq(u, k + 1, m) /\ got' = SubSeq(u, 1, k) /\ dev' = dev /\ status' = "input"
  BY <1>2, <1>3, <1>6 DEF TakeAhead, Input
<1>10. bosLen' = bosLen /\ nextByte' = nextByte /\ era' = era /\ threw' = FALSE
  BY DEF Reads
<1>11. Flushed.pos + 0 <= Len(Flushed.data)
  BY <1>4
<1>12. QED  BY ONLY <1>2, <1>5, <1>6, <1>7, <1>8, <1>9, <1>10, <1>11 DEF ReadShape

LEMMA CountsOf ==
  ASSUME RootInv, NEW max \in Nat, NEW c \in DgetCounts(Flushed, max)
  PROVE  c \in Nat /\ c <= max /\ Flushed.pos + c <= Len(Flushed.data)
<1>1. Flushed.pos \in Nat /\ Flushed.pos <= Len(Flushed.data) /\ Len(Flushed.data) \in Nat
  BY UnreadIsThere DEF IsDevice
<1>2. QED  BY <1>1 DEF DgetCounts, AtMost

LEMMA GetReads ==
  ASSUME RootInv, NEW n \in GetSizes, Get(n)
  PROVE  \E c \in Nat : \E k \in Nat : ReadShape(c, k)
<1>1. TypeOK /\ Reads /\ n \in Nat /\ BufLen \in Nat
  BY RootAssumption DEF RootInv, RootAssumption, Get
<1>2. Unread \in Seq(Nat) /\ Len(Unread) \in Nat /\ Len(<<>>) = 0
  BY <1>1, StandingIsTheFile
<1>3. CASE Unread # <<>>
  <2>1. PICK k \in Nat : k = AtMost(Len(Unread), n) /\ k <= Len(Unread)
    BY <1>1, <1>2 DEF AtMost
  <2>2. TakeAhead(k)
    BY <1>3, <2>1 DEF Get
  <2>3. QED  BY <1>1, <1>3, <2>1, <2>2, TakenAhead
<1>4. CASE Unread = <<>>
  <2>1. PICK c \in DgetCounts(Flushed, BufLen) : Refill(<<>>, c, AtMost(c, n))
    BY <1>4 DEF Get
  <2>2. c \in Nat /\ c <= BufLen /\ Flushed.pos + c <= Len(Flushed.data)
    BY <1>1, CountsOf
  <2>3. PICK k \in Nat : k = AtMost(c, n) /\ k <= c
    BY <1>1, <2>2 DEF AtMost
  <2>4. 0 + c = c /\ c - k <= BufLen
    BY <1>1, <2>2, <2>3
  <2>5. /\ k <= Len(Unread) + c /\ (Len(Unread) + c) - k <= BufLen
    BY <1>2, <1>4, <2>2, <2>3, <2>4
  <2>6. ReadShape(c, k)
    BY <1>1, <1>4, <2>1, <2>2, <2>3, <2>5 DEF ReadShape, Refill, Reads, Input
  <2>7. QED  BY <2>2, <2>6
<1>5. QED  BY <1>3, <1>4

LEMMA GetBufReads ==
  ASSUME RootInv, NEW n \in GetSizes, NEW back \in 0..n, GetBuf(n, back)
  PROVE  \E c \in Nat : \E k \in Nat : ReadShape(c, k)
<1>1. /\ TypeOK /\ Reads /\ n \in Nat \ {0} /\ n <= BufLen /\ BufLen \in Nat
      /\ back \in Nat /\ back <= n
  BY RootAssumption DEF RootInv, RootAssumption, GetBuf
<1>2. /\ Unread \in Seq(Nat) /\ Len(Unread) \in Nat /\ Len(Unread) <= BufLen /\ Len(<<>>) = 0
  BY <1>1, StandingIsTheFile
<1>3. CASE Len(Unread) >= n
  <2>1. PICK k \in Nat : k = n - back /\ k <= Len(Unread)
    BY <1>1, <1>2, <1>3
  <2>2. TakeAhead(k)
    BY <1>3, <2>1 DEF GetBuf
  <2>3. Unread # <<>>
    BY <1>1, <1>2, <1>3
  <2>4. QED  BY <1>1, <2>1, <2>2, <2>3, TakenAhead
<1>4. CASE ~(Len(Unread) >= n)
  <2>1. PICK room \in Nat : room = BufLen - Len(Unread)
    BY <1>1, <1>2
  <2>2. PICK c \in DgetCounts(Flushed, room) :
           /\ back <= AtMost(Len(Unread) + c, n)
           /\ Refill(Unread, c, AtMost(Len(Unread) + c, n) - back)
    BY <1>4, <2>1 DEF GetBuf
  <2>3. c \in Nat /\ c <= room /\ Flushed.pos + c <= Len(Flushed.data)
    BY <1>1, CountsOf
  <2>4. PICK m \in Nat : m = Len(Unread) + c /\ m <= BufLen
    BY <1>1, <1>2, <2>1, <2>3
  <2>5. AtMost(m, n) \in Nat /\ AtMost(m, n) <= m /\ back <= AtMost(m, n)
    BY <1>1, <2>2, <2>4 DEF AtMost
  <2>6. PICK k \in Nat : k = AtMost(m, n) - back
    BY <1>1, <2>5
  <2>7. k <= m /\ m - k <= BufLen
    BY <1>1, <2>4, <2>5, <2>6
  <2>8. ReadShape(c, k)
    BY <1>1, <2>2, <2>3, <2>4, <2>6, <2>7 DEF ReadShape, Refill, Reads, Input
  <2>9. QED  BY <2>3, <2>8
<1>5. QED  BY <1>3, <1>4

LEMMA GetBufFailsReads ==
  ASSUME RootInv, NEW n \in GetSizes, GetBufFails(n)
  PROVE  \E c \in Nat : ReadShape(c, 0)
<1>1. TypeOK /\ n \in Nat /\ n <= BufLen /\ BufLen \in Nat /\ Len(Unread) < n
  BY RootAssumption DEF RootInv, RootAssumption, GetBufFails
<1>2. Unread \in Seq(Nat) /\ Len(Unread) \in Nat
  BY <1>1, StandingIsTheFile
<1>3. /\ IsDevice(Flushed) /\ Flushed.pos \in Nat /\ Flushed.data \in Seq(Nat)
      /\ Flushed.pos <= Len(Flushed.data) /\ Len(Flushed.data) \in Nat
  BY UnreadIsThere DEF IsDevice
<1>4. PICK c \in 0..AtMost(n - Len(Unread) - 1, Len(Flushed.data) - Flushed.pos) :
         /\ Input(Unread \o Ahead(Flushed, c))
         /\ dev' = DeviceAt(Flushed, Flushed.pos + c)
  BY DEF GetBufFails
<1>5. c \in Nat /\ c <= n - Len(Unread) - 1 /\ c <= Len(Flushed.data) - Flushed.pos
  BY <1>1, <1>2, <1>3 DEF AtMost
<1>6. Flushed.pos + c <= Len(Flushed.data)
  BY <1>3, <1>5
<1>7. PICK m \in Nat : m = Len(Unread) + c /\ m - 0 <= BufLen /\ 0 <= m
  BY <1>1, <1>2, <1>5
<1>8. PICK all : all = Unread \o Ahead(Flushed, c)
  OBVIOUS
<1>9. all \in Seq(Nat) /\ Len(all) = m
  <2>1. PICK p \in Nat, d \in Seq(Nat) : p = Flushed.pos /\ d = Flushed.data
    BY <1>3
  <2>2. PICK e \in Nat : e = p + c
    BY <1>5
  <2>3. p <= e /\ e <= Len(d) /\ e - p = c
    BY <1>5, <1>6, <2>1, <2>2
  <2>4. SubSeq(d, p + 1, e) \in Seq(Nat) /\ Len(SubSeq(d, p + 1, e)) = e - p
    BY ONLY d \in Seq(Nat), p \in Nat, e \in Nat, <2>3, PieceElements
  <2>5. Ahead(Flushed, c) \in Seq(Nat) /\ Len(Ahead(Flushed, c)) = c
    BY <2>1, <2>2, <2>3, <2>4 DEF Ahead
  <2>6. QED  BY ONLY <1>2, <1>7, <1>8, <2>5, ConcatElements
<1>10. SubSeq(all, 0 + 1, m) = all /\ SubSeq(all, 1, 0) = <<>>
  <2>1. SubSeq(all, 1, Len(all)) = all
    BY ONLY <1>9, WholePiece
  <2>2. QED  BY <1>9, <2>1, SubSeqEmpty
<1>11. /\ status' = "input" /\ buf' = all /\ got' = <<>>
       /\ bosLen' = bosLen /\ nextByte' = nextByte /\ era' = era /\ threw' \in BOOLEAN
  BY <1>4, <1>8 DEF GetBufFails, Input, Returns
<1>12. ReadShape(c, 0)
  BY ONLY <1>4, <1>6, <1>7, <1>8, <1>10, <1>11 DEF ReadShape
<1>13. QED  BY <1>5, <1>12

LEMMA SeeksSeek ==
  ASSUME RootInv,
         \/ TurnFails \/ Flush \/ SwitchToGet \/ SwitchToPut \/ GetFails
         \/ \E p \in 0..(MaxByte + BufLen) : Seek(p) \/ Rseek(p)
         \/ SeekFails \/ Bos \/ MainContBeg
  PROVE  SeekShape
<1>1. /\ TypeOK /\ bosLen \in Nat /\ dev.pos \in Nat /\ bosLen + Len(Unread) <= dev.pos
      /\ dev \in [data : Seq(Nat), pos : Nat] /\ dev.pos <= Len(dev.data) /\ dev.data \in Seq(Nat)
  BY DEF RootInv, TypeOK
<1>2. /\ Unread \in Seq(Nat) /\ Len(Unread) \in Nat /\ bosLen <= dev.pos
      /\ IsDevice(OutDevice) /\ OutDevice.data = dev.data /\ OutDevice.pos >= bosLen
      /\ IsDevice(dev)
  <2>1. Len(Unread) \in Nat
    BY <1>1, StandingIsTheFile
  <2>2. bosLen <= dev.pos
    BY <1>1, <2>1
  <2>3. QED  BY <1>1, <2>1, <2>2, StandingIsTheFile
<1>3. /\ IsDevice(Flushed) /\ Flushed.pos \in Nat /\ Flushed.pos >= bosLen
      /\ Flushed.data \in Seq(Nat) /\ Len(Flushed.data) \in Nat
      /\ Flushed.pos = Where + Len(Unread) /\ Where \in Nat
  BY UnreadIsThere DEF IsDevice
<1>4. /\ status # "output" => Pending = <<>> /\ Flushed = dev
      /\ status \in {"neutral", "detached"} => buf = <<>>
  BY <1>1, NothingWaits DEF Pending, TypeOK
<1>5. bosLen + Len(Unread) <= dev.pos
  BY <1>1
<1>6. CASE TurnFails
  BY <1>1, <1>5, <1>6 DEF TurnFails, Returns, SeekShape, Left
<1>7. CASE Flush
  BY <1>1, <1>3, <1>7 DEF Flush, EmptiedOutput, Output, Returns, SeekShape, Emptied
<1>8. CASE SwitchToGet
  BY <1>1, <1>3, <1>8 DEF SwitchToGet, Input, Returns, SeekShape, Emptied
<1>9. CASE SwitchToPut
  BY <1>1, <1>2, <1>4, <1>9 DEF SwitchToPut, Output, Returns, SeekShape, Emptied
<1>10. CASE GetFails
  BY <1>1, <1>3, <1>10 DEF GetFails, Input, Returns, SeekShape, Emptied
<1>11. ASSUME NEW p \in Nat, MoveTo(p), p >= bosLen
       PROVE  SeekShape
  <2>1. dev'.data = Flushed.data /\ dev'.pos = p /\ IsDevice(dev')
    BY <1>3, <1>11 DEF MoveTo, DeviceAt, IsDevice
  <2>2. status' \in {"neutral", "input", "output"} /\ buf' = <<>>
    BY <1>1, <1>4, <1>11 DEF MoveTo, Open, Input, Output, EmptiedOutput, TypeOK
  <2>3. QED  BY <1>1, <1>11, <2>1, <2>2 DEF MoveTo, Returns, SeekShape, Emptied
<1>12. ASSUME NEW p \in 0..(MaxByte + BufLen), Seek(p)
       PROVE  SeekShape
  <2>1. p \in Nat /\ p + bosLen \in Nat /\ p + bosLen >= bosLen
    BY <1>1, RootAssumption DEF RootAssumption
  <2>2. QED  BY <1>11, <1>12, <2>1 DEF Seek
<1>13. ASSUME NEW p \in 0..(MaxByte + BufLen), Rseek(p)
       PROVE  SeekShape
  <2>1. p \in Nat /\ bosLen + p <= Len(Flushed.data)
    BY <1>13, RootAssumption DEF RootAssumption, Rseek
  <2>2. Len(Flushed.data) - p \in Nat /\ Len(Flushed.data) - p >= bosLen
    BY <1>1, <1>3, <2>1
  <2>3. QED  BY <1>11, <1>13, <2>2 DEF Rseek
<1>14. CASE SeekFails
  <2>1. CASE status = "output"
    BY <1>1, <1>3, <1>14, <2>1 DEF SeekFails, EmptiedOutput, Output, Returns, SeekShape, Emptied
  <2>2. CASE status # "output"
    BY <1>1, <1>4, <1>5, <1>14, <2>2 DEF SeekFails, EmptiedOutput, Returns, SeekShape, Left
  <2>3. QED  BY <2>1, <2>2
<1>15. CASE Bos
  <2>1. status # "output" /\ buf = <<>>
    BY <1>4, <1>15 DEF Bos
  <2>2. QED  BY <1>1, <1>2, <1>4, <1>15, <2>1 DEF Bos, Returns, SeekShape, Emptied
<1>16. CASE MainContBeg
  <2>1. CASE status = "output"
    <3>1. Where <= Flushed.pos
      BY <1>2, <1>3
    <3>2. QED
      BY <1>1, <1>3, <1>16, <2>1, <3>1
         DEF MainContBeg, EmptiedOutput, Output, Returns, SeekShape, Emptied
  <2>2. CASE status # "output"
    <3>1. dev' = dev /\ status' = status /\ buf' = buf /\ bosLen' = Where
      BY <1>4, <1>16, <2>2 DEF MainContBeg, EmptiedOutput
    <3>2. Where \in Nat /\ Where + Len(Unread) <= dev.pos
      BY <1>1, <1>3, <1>4, <2>2
    <3>3. QED  BY <1>16, <3>1, <3>2 DEF MainContBeg, Returns, SeekShape, Left
  <2>3. QED  BY <2>1, <2>2
<1>17. QED
  BY <1>6, <1>7, <1>8, <1>9, <1>10, <1>12, <1>13, <1>14, <1>15, <1>16
-----------------------------------------------------------------------------
(* Giving the device up. *)
Delivered ==
    era' # era /\ Open =>
       \E k \in 0..Len(Pending) :
          /\ handed'.data = Stored(dev, SubSeq(Pending, 1, k)).data
          /\ ~threw' => k = Len(Pending) /\ handed'.pos = Where

LEMMA CleanupDelivers ==
  ASSUME RootInv, NEW d, NEW failed \in BOOLEAN, Cleanup(d, failed)
  PROVE  \E k \in 0..Len(Pending) :
            /\ d.data = Stored(dev, SubSeq(Pending, 1, k)).data
            /\ ~failed => k = Len(Pending) /\ d.pos = Where
<1>1. TypeOK /\ IsDevice(dev)
  BY StandingIsTheFile DEF RootInv
<1>2. PICK P \in Seq(Nat) : P = Pending /\ Len(P) \in Nat
  BY <1>1, StandingIsTheFile
<1>3. CASE Unread = <<>>
  <2>1. PICK end \in DputEnds(P) :
           /\ d = Stored(dev, SubSeq(P, 1, end.done))
           /\ failed = (end.how # "ok")
    BY <1>2, <1>3 DEF Cleanup
  <2>2. PICK k \in 0..Len(P) : k = end.done /\ (end.how = "ok" => k = Len(P))
    <3>1. end.done \in 0..Len(P) /\ (end.how = "ok" => end.done = Len(P))
      BY <1>2 DEF DputEnds, DputFailures
    <3>2. QED  BY <3>1
  <2>3. k = Len(P) => d.pos = Where
    <3>1. SUFFICES ASSUME k = Len(P) PROVE d.pos = Where
      OBVIOUS
    <3>2. SubSeq(P, 1, k) = P
      BY <3>1, WholePiece
    <3>3. d.pos = dev.pos + Len(P)
      BY <1>1, <2>1, <2>2, <3>2, StoredSound
    <3>4. Where = dev.pos + Len(P) - Len(<<>>)
      BY <1>2, <1>3 DEF Where
    <3>5. QED  BY <1>1, <1>2, <3>3, <3>4 DEF IsDevice
  <2>4. QED  BY <1>2, <2>1, <2>2, <2>3
<1>4. CASE Unread # <<>>
  <2>1. P = <<>>
    BY <1>2, <1>4 DEF Unread, Pending
  <2>2. d = IF failed THEN dev ELSE OutDevice
    BY <1>4 DEF Cleanup
  <2>3. Stored(dev, SubSeq(P, 1, 0)) = dev
    <3>1. SubSeq(P, 1, 0) = <<>>
      BY ONLY <1>2, <2>1
    <3>2. QED  BY <1>1, <3>1, StoredNothing
  <2>4. /\ OutDevice.data = dev.data
        /\ OutDevice.pos = Where
    <3>1. Standing = OutDevice /\ Standing.pos = Where /\ OutDevice.data = dev.data
      BY <1>1, <1>2, <2>1, StandingIsTheFile, StoredNothing DEF Standing
    <3>2. QED  BY <3>1
  <2>5. 0 \in 0..Len(P) /\ 0 = Len(P)
    BY <1>2, <2>1
  <2>6. d.data = Stored(dev, SubSeq(P, 1, 0)).data /\ (~failed => d.pos = Where)
    BY <2>2, <2>3, <2>4
  <2>7. QED  BY <1>2, <2>5, <2>6
<1>5. QED  BY <1>3, <1>4

LEMMA FreshIsDevice ==
  ASSUME NEW d \in Fresh
  PROVE  IsDevice(d)
<1>1. PICK f \in Files : d = [data |-> f, pos |-> 0] \/ d = [data |-> f, pos |-> Len(f)]
  BY DEF Fresh
<1>2. f \in Seq(Nat) /\ Len(f) \in Nat
  BY RootAssumption DEF RootAssumption
<1>3. QED  BY <1>1, <1>2 DEF IsDevice

LEMMA ReplaceSound ==
  ASSUME RootInv, Detach \/ \E d \in Fresh : Attach(d)
  PROVE  RootInv' /\ Bytes!Next /\ HeaderKept /\ Delivered
<1>1. TypeOK /\ nextByte \in Nat \ {0} /\ era \in Nat /\ MaxEra \in Nat
  BY RootAssumption DEF RootInv, TypeOK, RootAssumption
<1>2. <<>> \in Seq(Nat) /\ Len(<<>>) = 0 /\ BufLen \in Nat
  BY RootAssumption DEF RootAssumption
<1>3. PICK fresh, label :
         /\ Reset(fresh, label) /\ label \in {"neutral", "detached"}
         /\ IsDevice(fresh) /\ threw' \in BOOLEAN /\ era + 1 <= MaxEra
  <2>1. CASE Detach
    <3>1. PICK d : d = [data |-> <<>>, pos |-> 0]
      OBVIOUS
    <3>2. IsDevice(d)
      BY <1>2, <3>1 DEF IsDevice
    <3>3. QED  BY <1>1, <2>1, <3>1, <3>2 DEF Detach
  <2>2. ASSUME NEW d \in Fresh, Attach(d)
        PROVE  Reset(d, "neutral") /\ IsDevice(d) /\ threw' \in BOOLEAN /\ era + 1 <= MaxEra
    <3>1. IsDevice(d)
      BY <2>2, FreshIsDevice
    <3>2. threw' \in BOOLEAN
      <4>1. PICK failed \in BOOLEAN :
               threw' \in (IF failed THEN {TRUE} ELSE IF status = "output" THEN BOOLEAN ELSE {FALSE})
        BY <2>2 DEF Attach
      <4>2. QED  BY <4>1
    <3>3. Reset(d, "neutral") /\ era + 1 <= MaxEra
      BY <1>1, <2>2 DEF Attach
    <3>4. QED  BY <3>1, <3>2, <3>3
  <2>3. QED  BY <2>1, <2>2
<1>4. /\ IsDevice(dev') /\ status' \in {"neutral", "detached"} /\ buf' = <<>>
      /\ bosLen' = 0 /\ era' = era + 1 /\ got' = <<>> /\ nextByte' = nextByte
  BY <1>3 DEF Reset
<1>5. Pending' = <<>> /\ Unread' = <<>>
  BY <1>4 DEF Pending, Unread
<1>6. dev'.pos \in Nat /\ dev' \in [data : Seq(Nat), pos : Nat] /\ dev'.pos <= Len(dev'.data)
  BY <1>4 DEF IsDevice
<1>7. TypeOK'
  <2>1. era' \in 0..MaxEra
    BY <1>1, <1>3, <1>4
  <2>2. dev'.pos >= bosLen' + Len(Unread')
    BY <1>2, <1>4, <1>5, <1>6
  <2>3. QED  BY <1>1, <1>2, <1>3, <1>4, <1>6, <2>1, <2>2 DEF TypeOK
<1>8. RootInv'
  BY <1>4, <1>7 DEF RootInv, ReadAhead, Given
<1>9. Bytes!Next
  <2>1. Stored(dev', Pending') = dev'
    BY <1>4, <1>5, StoredNothing
  <2>2. Where' = dev'.pos
    <3>1. Where' = dev'.pos + Len(<<>>) - Len(<<>>)
      BY <1>5 DEF Where
    <3>2. QED  BY <1>2, <1>6, <3>1
  <2>3. QED  BY <1>4, <1>6, <2>1, <2>2 DEF Bytes!Next, Bytes!Replace
<1>10. HeaderKept
  BY <1>1, <1>4 DEF HeaderKept
<1>11. Delivered
  <2>1. SUFFICES ASSUME Open
                 PROVE  \E k \in 0..Len(Pending) :
                           /\ handed'.data = Stored(dev, SubSeq(Pending, 1, k)).data
                           /\ ~threw' => k = Len(Pending) /\ handed'.pos = Where
    BY DEF Delivered
  <2>2. PICK failed \in BOOLEAN : Cleanup(handed', failed) /\ (failed => threw')
    <3>1. CASE Detach
      BY <3>1 DEF Detach
    <3>2. ASSUME NEW d \in Fresh, Attach(d)
          PROVE  \E failed \in BOOLEAN : Cleanup(handed', failed) /\ (failed => threw')
      BY <2>1, <3>2 DEF Attach
    <3>3. QED  BY <3>1, <3>2
  <2>3. QED  BY <2>2, CleanupDelivers
<1>12. QED  BY <1>8, <1>9, <1>10, <1>11
-----------------------------------------------------------------------------
(* Every step, and where it starts. *)
LEMMA InitSound ==
  ASSUME Init
  PROVE  RootInv /\ Bytes!Init
<1>1. <<>> \in Seq(Nat) /\ Len(<<>>) = 0 /\ BufLen \in Nat /\ MaxEra \in Nat
  BY RootAssumption DEF RootAssumption
<1>2. IsDevice(dev) /\ dev.pos \in Nat
  BY FreshIsDevice DEF Init, IsDevice
<1>3. Pending = <<>> /\ Unread = <<>>
  BY DEF Init, Pending, Unread
<1>4. TypeOK
  <2>1. dev.pos >= bosLen + Len(Unread)
    BY <1>1, <1>2, <1>3 DEF Init
  <2>2. dev \in [data : Seq(Nat), pos : Nat] /\ dev.pos <= Len(dev.data)
    BY <1>2 DEF IsDevice
  <2>3. buf \in Seq(Nat) /\ Len(buf) <= BufLen /\ got \in Seq(Nat) /\ era \in 0..MaxEra
    BY <1>1 DEF Init
  <2>4. /\ status \in {"neutral", "input", "output", "detached"} /\ buf = <<>>
        /\ threw \in BOOLEAN
    BY DEF Init
  <2>5. bosLen \in Nat /\ nextByte \in Nat \ {0}
    <3>1. 0 \in Nat /\ 1 \in Nat \ {0}
      OBVIOUS
    <3>2. QED  BY <3>1 DEF Init
  <2>6. QED  BY ONLY <2>1, <2>2, <2>3, <2>4, <2>5 DEF TypeOK
<1>5. RootInv
  BY <1>4 DEF Init, RootInv, ReadAhead, Given
<1>6. Stored(dev, Pending) = dev
  BY <1>2, <1>3, StoredNothing
<1>7. Where = dev.pos
  <2>1. Where = dev.pos + Len(<<>>) - Len(<<>>)
    BY <1>3 DEF Where
  <2>2. QED  BY <1>1, <1>2, <2>1
<1>8. QED  BY <1>2, <1>5, <1>6, <1>7 DEF Init, Bytes!Init, IsDevice

StepKeeps ==
    /\ Bytes!Next \/ UNCHANGED Bytes!vars
    /\ HeaderKept /\ (PutStep => PutsTakenBack) /\ Delivered

LEMMA StepSound ==
  ASSUME RootInv, [Next]_vars
  PROVE  RootInv' /\ StepKeeps
<1>1. ASSUME era' = era PROVE Delivered
  BY <1>1 DEF Delivered
<1>2. PutStep => PutsTakenBack
  BY PutTaken, PutSound DEF RootInv
<1>3. SUFFICES RootInv' /\ (Bytes!Next \/ UNCHANGED Bytes!vars) /\ HeaderKept /\ Delivered
  BY <1>2 DEF StepKeeps
<1>4. CASE PutStep
  <2>1. PICK n \in Nat : PutShape(n)
    BY <1>4, PutTaken DEF RootInv
  <2>2. QED  BY <1>1, <2>1, PutSound DEF PutShape
<1>5. CASE FlushFails
  BY <1>1, <1>5, FlushFailsIsPut, PutSound DEF PutShape
<1>6. ASSUME NEW c \in Nat, NEW k \in Nat, ReadShape(c, k)
      PROVE  RootInv' /\ Bytes!Next /\ HeaderKept /\ Delivered
  BY <1>1, <1>6, ReadSound DEF ReadShape
<1>7. ASSUME NEW n \in GetSizes, Get(n) \/ GetBufFails(n) \/ \E back \in 0..n : GetBuf(n, back)
      PROVE  RootInv' /\ Bytes!Next /\ HeaderKept /\ Delivered
  <2>1. CASE Get(n)
    BY <1>6, <2>1, GetReads
  <2>2. CASE GetBufFails(n)
    BY <1>6, <2>2, GetBufFailsReads
  <2>3. ASSUME NEW back \in 0..n, GetBuf(n, back)
        PROVE  RootInv' /\ Bytes!Next /\ HeaderKept /\ Delivered
    BY <1>6, <2>3, GetBufReads
  <2>4. QED  BY <1>7, <2>1, <2>2, <2>3
<1>8. CASE \/ TurnFails \/ Flush \/ SwitchToGet \/ SwitchToPut \/ GetFails
           \/ \E p \in 0..(MaxByte + BufLen) : Seek(p) \/ Rseek(p)
           \/ SeekFails \/ Bos \/ MainContBeg
  BY <1>1, <1>8, SeeksSeek, SeekSound DEF SeekShape
<1>9. CASE Detach \/ \E d \in Fresh : Attach(d)
  BY <1>9, ReplaceSound
<1>10. CASE UNCHANGED vars
  <2>1. /\ dev' = dev /\ status' = status /\ buf' = buf /\ bosLen' = bosLen
        /\ nextByte' = nextByte /\ got' = got /\ threw' = threw /\ era' = era
    BY <1>10 DEF vars
  <2>2. Pending' = Pending /\ Unread' = Unread /\ Where' = Where
    BY <2>1 DEF Pending, Unread, Where
  <2>3. RootInv'
    BY <2>1, <2>2 DEF RootInv, TypeOK, ReadAhead, Given
  <2>4. UNCHANGED Bytes!vars
    BY <2>1, <2>2 DEF Bytes!vars
  <2>5. QED  BY <1>1, <2>1, <2>3, <2>4 DEF HeaderKept
<1>11. QED  BY <1>4, <1>5, <1>7, <1>8, <1>9, <1>10 DEF Next

(* A root is typed, what it reads ahead is what precedes the device's      *)
(* position, and what waits in it was handed in: the inductive invariant.  *)
THEOREM RootStaysSound == Spec => []RootInv
<1>1. Init => RootInv
  BY InitSound
<1>2. RootInv /\ [Next]_vars => RootInv'
  BY StepSound
<1>3. QED  BY <1>1, <1>2, PTL DEF Spec

(* No call disturbs what lies before the stream's content, nor takes a byte *)
(* of a put that throws without one of them having landed (dput_buffer()). *)
THEOREM DoesWhatWasAsked == Spec => OnlyWhatWasAsked
<1>1. RootInv /\ [Next]_vars =>
         [/\ era' = era => SubSeq(dev'.data, 1, bosLen) = SubSeq(dev.data, 1, bosLen)
          /\ threw' /\ PutStep =>
                \A i \in DOMAIN Pending' : buf'[i] >= nextByte =>
                   \E j \in DOMAIN dev'.data : dev'.data[j] \in nextByte..(nextByte' - 1)]_vars
  BY StepSound DEF StepKeeps, HeaderKept, PutsTakenBack
<1>2. QED  BY <1>1, RootStaysSound, PTL DEF Spec, OnlyWhatWasAsked

(* A device that is given up without an error has every byte written in it, *)
(* and stands where the stream stood; after an error it has a prefix.      *)
THEOREM GivesUpWholeDevice == Spec => DetachDelivers
<1>1. RootInv /\ [Next]_vars =>
         [era' # era /\ Open =>
             \E k \in 0..Len(Pending) :
                /\ handed'.data = Stored(dev, SubSeq(Pending, 1, k)).data
                /\ ~threw' => k = Len(Pending) /\ handed'.pos = Where]_vars
  BY StepSound DEF StepKeeps, Delivered
<1>2. QED  BY <1>1, RootStaysSound, PTL DEF Spec, DetachDelivers

(* The buffered root is a plain file with a position. *)
THEOREM RootIsAFile == Spec => ImplementsByteStream
<1>1. Init => Bytes!Init
  BY InitSound
<1>2. RootInv /\ [Next]_vars => [Bytes!Next]_(Bytes!vars)
  BY StepSound DEF StepKeeps
<1>3. QED  BY <1>1, <1>2, RootStaysSound, PTL DEF Spec, ImplementsByteStream, Bytes!Spec
-----------------------------------------------------------------------------
(* The root over a mem_device: what is lent, and the file in front of it.  *)
LEMMA OverwriteIsOne ==
  ASSUME NEW f \in Seq(Nat), NEW p \in Nat, NEW data \in Seq(Nat),
         NEW r, IsOverwrite(r, f, p, data), NEW s, IsOverwrite(s, f, p, data)
  PROVE  r = s
<1>1. /\ r \in Seq(Nat) /\ s \in Seq(Nat) /\ Len(f) \in Nat /\ Len(data) \in Nat
      /\ Len(r) = (IF Len(f) < p + Len(data) THEN p + Len(data) ELSE Len(f))
      /\ Len(s) = (IF Len(f) < p + Len(data) THEN p + Len(data) ELSE Len(f))
  BY DEF IsOverwrite
<1>2. Len(r) = Len(s) /\ Len(r) \in Nat
  BY <1>1
<1>3. ASSUME NEW i \in 1..Len(r) PROVE r[i] = s[i]
  <2>1. i \in Nat \ {0} /\ i <= Len(r)
    BY <1>2
  <2>2. CASE i <= p
    BY <2>1, <2>2 DEF IsOverwrite
  <2>3. CASE p < i /\ i <= p + Len(data)
    BY <2>1, <2>3 DEF IsOverwrite
  <2>4. CASE p + Len(data) < i
    <3>1. i <= Len(f)
      BY <1>1, <2>1, <2>4
    <3>2. QED  BY <2>1, <2>4, <3>1 DEF IsOverwrite
  <2>5. QED  BY <1>1, <2>1, <2>2, <2>3, <2>4
<1>4. QED  BY <1>1, <1>2, <1>3, SeqEqual

(* A file of m bytes was grown to hold the l bytes lent at p; what is left *)
(* of it, once data is laid over them, is the file with data in it.        *)
LEMMA FilledIsWritten ==
  ASSUME NEW s \in Seq(Nat), NEW m \in Nat, NEW p \in Nat, p <= m, NEW l \in Nat,
         Len(s) = (IF m < p + l THEN p + l ELSE m),
         NEW data \in Seq(Nat), Len(data) <= l,
         NEW r \in Seq(Nat),
         Len(r) = (IF m < p + Len(data) THEN p + Len(data) ELSE m),
         \A i \in 1..Len(r) : r[i] = Bytes!Overwrite(s, p, data)[i]
  PROVE  r = Bytes!Overwrite(SubSeq(s, 1, m), p, data)
<1>1. PICK f : f = SubSeq(s, 1, m)
  OBVIOUS
<1>2. PICK w : w = Bytes!Overwrite(s, p, data)
  OBVIOUS
<1>3. PICK x : x = Bytes!Overwrite(f, p, data)
  OBVIOUS
<1>4. PICK n \in Nat : n = Len(data)
  OBVIOUS
<1>5. Len(s) \in Nat /\ m <= Len(s) /\ p <= Len(s) /\ p + n <= Len(s)
  BY <1>4
<1>6. f \in Seq(Nat) /\ Len(f) = m /\ \A i \in 1..m : f[i] = s[i]
  BY <1>1, <1>5, PrefixElements
<1>7. IsOverwrite(w, s, p, data)
  BY <1>2, <1>5, OverwriteElements
<1>8. IsOverwrite(x, f, p, data)
  <2>1. p <= Len(f)
    BY <1>6
  <2>2. QED  BY <1>3, <1>6, <2>1, OverwriteElements
<1>9. Len(r) \in Nat /\ Len(r) = (IF Len(f) < p + n THEN p + n ELSE Len(f))
  BY <1>4, <1>6
<1>10. ASSUME NEW i \in Nat \ {0}, i <= Len(r) PROVE r[i] = w[i]
  BY <1>2, <1>9, <1>10
<1>11. ASSUME NEW i \in Nat \ {0}
       PROVE  /\ i <= p => r[i] = f[i]
              /\ p < i /\ i <= p + n => r[i] = data[i - p]
              /\ p + n < i /\ i <= Len(f) => r[i] = f[i]
  <2>1. CASE i <= p
    <3>1. i <= Len(r) /\ i \in 1..m
      <4>1. i \in 1..m
        BY <2>1
      <4>2. m <= Len(r)
        BY ONLY <1>4, <1>6, <1>9, m \in Nat, p \in Nat
      <4>3. QED  BY <1>9, <4>1, <4>2
    <3>2. w[i] = s[i]
      BY <1>7, <2>1 DEF IsOverwrite
    <3>3. r[i] = w[i] /\ f[i] = s[i]
      BY <1>6, <1>10, <3>1
    <3>4. QED  BY ONLY <1>4, <2>1, <3>2, <3>3, i \in Nat, p \in Nat
  <2>2. CASE p < i /\ i <= p + n
    <3>1. i <= Len(r)
      BY <1>4, <1>6, <1>9, <2>2
    <3>2. w[i] = data[i - p]
      BY <1>4, <1>7, <2>2 DEF IsOverwrite
    <3>3. r[i] = w[i]
      BY <1>10, <3>1
    <3>4. QED  BY ONLY <1>4, <2>2, <3>2, <3>3, i \in Nat, p \in Nat
  <2>3. CASE p + n < i /\ i <= Len(f)
    <3>1. i <= Len(r) /\ i \in 1..m /\ i <= Len(s)
      BY <1>4, <1>5, <1>6, <1>9, <2>3
    <3>2. w[i] = s[i]
      BY <1>4, <1>7, <2>3, <3>1 DEF IsOverwrite
    <3>3. r[i] = w[i] /\ f[i] = s[i]
      BY <1>6, <1>10, <3>1
    <3>4. QED  BY ONLY <1>4, <2>3, <3>2, <3>3, i \in Nat, p \in Nat
  <2>4. QED  BY <2>1, <2>2, <2>3
<1>12. IsOverwrite(r, f, p, data)
  BY <1>4, <1>9, <1>11 DEF IsOverwrite
<1>13. r = x
  BY <1>6, <1>8, <1>12, OverwriteIsOne
<1>14. QED  BY <1>1, <1>3, <1>13

LEMMA ResizedElements ==
  ASSUME NEW s \in Seq(Nat), NEW n \in Nat
  PROVE  /\ Mem!Resized(s, n) \in Seq(Nat) /\ Len(Mem!Resized(s, n)) = n
         /\ \A i \in 1..n : Mem!Resized(s, n)[i] = IF i <= Len(s) THEN s[i] ELSE 0
<1>1. \A i \in 1..n : (IF i <= Len(s) THEN s[i] ELSE 0) \in Nat
  OBVIOUS
<1>2. QED  BY <1>1 DEF Mem!Resized

LEMMA GrownKeeps ==
  ASSUME NEW s \in Seq(Nat), NEW n \in Nat, Len(s) <= n
  PROVE  SubSeq(Mem!Resized(s, n), 1, Len(s)) = s
<1>1. PICK r : r = Mem!Resized(s, n)
  OBVIOUS
<1>2. PICK k \in Nat : k = Len(s)
  OBVIOUS
<1>3. r \in Seq(Nat) /\ Len(r) = n /\ \A i \in 1..n : r[i] = IF i <= Len(s) THEN s[i] ELSE 0
  BY <1>1, ResizedElements
<1>4. /\ SubSeq(r, 1, k) \in Seq(Nat) /\ Len(SubSeq(r, 1, k)) = k
      /\ \A i \in 1..k : SubSeq(r, 1, k)[i] = r[i]
  BY <1>2, <1>3, PrefixElements
<1>5. ASSUME NEW i \in 1..k PROVE SubSeq(r, 1, k)[i] = s[i]
  <2>1. i \in 1..n /\ i <= Len(s) /\ i \in 1..k
    BY <1>2
  <2>2. QED  BY <1>3, <1>4, <2>1
<1>6. SubSeq(r, 1, k) = s
  BY <1>2, <1>4, <1>5, SeqEqual
<1>7. QED  BY <1>1, <1>2, <1>6

(* Types, the bounds, and what a lent piece lies in: the file up to the    *)
(* mark, grown if that was too short.                                      *)
MemSound ==
    /\ str \in Seq(Nat) /\ at \in Nat /\ memBosLen \in Nat
    /\ memNext \in Nat \ {0} /\ memEra \in Nat
    /\ lent \in 0..MaxChunk /\ memBosLen + lent <= at /\ at <= Len(str)
    /\ lent > 0 => /\ mark \in Nat /\ at - lent <= mark
                   /\ Len(str) = IF mark < at THEN at ELSE mark

LEMMA NothingLent ==
  ASSUME MemSound, lent = 0
  PROVE  Mem!File = str /\ at - lent = at
  BY DEF MemSound, Mem!File

(* What a call that moves in the file, or nowhere, comes to; ...           *)
MemSeeks ==
    /\ lent = 0 /\ lent' = 0
    /\ str' = str /\ at' \in Nat /\ at' <= Len(str)
    /\ memBosLen' \in Nat /\ memBosLen' <= at'
    /\ memNext' = memNext /\ memEra' = memEra /\ memGot' = <<>>

LEMMA NoneOff ==
  ASSUME NEW a \in Nat, NEW none, none = 0
  PROVE  a - none = a /\ ~(none > 0) /\ \A b \in Nat : b <= a => b + none <= a
  OBVIOUS

LEMMA MemSeekSound ==
  ASSUME MemSound, MemSeeks
  PROVE  MemSound' /\ Mem!Bytes!Next
<1>1. MaxChunk \in Nat
  BY MCMemAssumption DEF Mem!MemAssumption
<1>2. MemSound'
  <2>1. lent' \in 0..MaxChunk /\ memBosLen' + lent' <= at' /\ ~(lent' > 0)
    <3>1. lent' = 0 /\ memBosLen' \in Nat /\ at' \in Nat /\ memBosLen' <= at'
      BY DEF MemSeeks
    <3>2. lent' \in 0..MaxChunk
      BY ONLY <1>1, <3>1
    <3>3. memBosLen' + lent' <= at' /\ ~(lent' > 0)
      BY ONLY <3>1, NoneOff
    <3>4. QED  BY <3>2, <3>3
  <2>2. /\ str' \in Seq(Nat) /\ at' \in Nat /\ memBosLen' \in Nat
        /\ memNext' \in Nat \ {0} /\ memEra' \in Nat /\ at' <= Len(str')
    BY DEF MemSeeks, MemSound
  <2>3. QED  BY <2>1, <2>2 DEF MemSound
<1>3. Mem!File = str /\ Mem!File' = str /\ at' - lent' = at'
  <2>1. lent = 0 /\ lent' = 0 /\ at' \in Nat /\ str' = str
    BY DEF MemSeeks
  <2>2. at' - lent' = at' /\ ~(lent' > 0)
    BY ONLY <2>1, NoneOff
  <2>3. ~(lent > 0)
    BY ONLY <2>1
  <2>4. QED  BY ONLY <2>1, <2>2, <2>3 DEF Mem!File
<1>4. Mem!Bytes!Seek
  <2>1. at' \in 0..Len(str)
    BY DEF MemSeeks, MemSound
  <2>2. QED  BY <1>3, <2>1 DEF MemSeeks, Mem!Bytes!Seek
<1>5. QED  BY <1>2, <1>4 DEF Mem!Bytes!Next

(* ... that reads k bytes; ...                                             *)
MemReads(k) ==
    /\ lent = 0 /\ lent' = 0
    /\ str' = str /\ at' = at + k /\ at + k <= Len(str)
    /\ memGot' = SubSeq(str, at + 1, at + k)
    /\ memBosLen' = memBosLen /\ memNext' = memNext /\ memEra' = memEra

LEMMA MemReadSound ==
  ASSUME MemSound, NEW k \in Nat, MemReads(k)
  PROVE  MemSound' /\ Mem!Bytes!Next
<1>1. MaxChunk \in Nat
  BY MCMemAssumption DEF Mem!MemAssumption
<1>2. MemSound'
  BY <1>1 DEF MemSound, MemReads
<1>3. Mem!File = str /\ Mem!File' = str /\ at' - lent' = at + k /\ at - lent = at
  BY <1>2, NothingLent DEF MemReads, MemSound, Mem!File
<1>4. k \in 0..(Len(Mem!File) - (at - lent))
  BY <1>3 DEF MemReads, MemSound
<1>5. Mem!Bytes!Read(k)
  BY <1>3 DEF MemReads, Mem!Bytes!Read
<1>6. QED  BY <1>2, <1>4, <1>5 DEF Mem!Bytes!Next

(* ... and that writes n, of which k are taken.                            *)
MemWrites(n, k) ==
    /\ n <= MaxChunk /\ k <= n
    /\ lent' = 0 /\ at' = (at - lent) + k
    /\ str' = Bytes!Overwrite(Mem!File, at - lent, [i \in 1..k |-> memNext + i - 1])
    /\ memGot' = <<>> /\ memNext' = memNext + n
    /\ memBosLen' = memBosLen /\ memEra' = memEra

LEMMA MemFile ==
  ASSUME MemSound
  PROVE  Mem!File \in Seq(Nat) /\ at - lent \in Nat /\ at - lent <= Len(Mem!File)
<1>1. CASE lent = 0
  BY <1>1, NothingLent DEF MemSound
<1>2. CASE lent > 0
  <2>1. mark \in Nat /\ mark <= Len(str) /\ at - lent <= mark /\ at - lent \in Nat
    BY <1>2 DEF MemSound
  <2>2. SubSeq(str, 1, mark) \in Seq(Nat) /\ Len(SubSeq(str, 1, mark)) = mark
    BY <2>1, PrefixElements DEF MemSound
  <2>3. QED  BY <1>2, <2>1, <2>2 DEF Mem!File
<1>3. QED  BY <1>1, <1>2 DEF MemSound

LEMMA MemWriteSound ==
  ASSUME MemSound, NEW n \in Nat, NEW k \in Nat, MemWrites(n, k)
  PROVE  MemSound' /\ Mem!Bytes!Next
<1>1. MaxChunk \in Nat /\ memNext \in Nat \ {0}
  BY MCMemAssumption DEF Mem!MemAssumption, MemSound
<1>2. PICK f \in Seq(Nat) : f = Mem!File
  BY MemFile
<1>3. PICK p \in Nat : p = at - lent /\ p <= Len(f) /\ memBosLen <= p
  BY <1>2, MemFile DEF MemSound
<1>4. PICK data \in Seq(Nat) : data = [i \in 1..k |-> memNext + i - 1] /\ Len(data) = k
  BY <1>1, NumberedElements DEF Bytes!Numbered
<1>5. str' = Bytes!Overwrite(f, p, data) /\ lent' = 0 /\ at' = p + k
  BY <1>2, <1>3, <1>4 DEF MemWrites
<1>6. IsOverwrite(str', f, p, data)
  BY <1>3, <1>5, OverwriteElements
<1>7. str' \in Seq(Nat) /\ p + k <= Len(str')
  BY <1>4, <1>6 DEF IsOverwrite
<1>8. MemSound'
  BY <1>1, <1>3, <1>5, <1>7 DEF MemSound, MemWrites
<1>9. Mem!File' = str' /\ at' - lent' = (at - lent) + k
  BY <1>3, <1>5 DEF Mem!File
<1>10. str' = Mem!Bytes!Overwrite(Mem!File, at - lent, Mem!Bytes!Numbered(memNext, k))
  BY DEF MemWrites, Bytes!Overwrite, Mem!Bytes!Overwrite, Mem!Bytes!Numbered
<1>11. Mem!Bytes!Write(n, k)
  BY <1>9, <1>10 DEF MemWrites, Mem!Bytes!Write
<1>12. n \in 0..MaxChunk /\ k \in 0..n
  BY <1>1 DEF MemWrites
<1>13. QED  BY <1>8, <1>11, <1>12 DEF Mem!Bytes!Next
-----------------------------------------------------------------------------
(* Lending memory of the device, and giving back what was not filled. *)
LEMMA LendSound ==
  ASSUME MemSound, NEW n \in 1..MaxChunk, Mem!PutBuf(n)
  PROVE  MemSound' /\ Mem!Bytes!Next
<1>1. /\ str \in Seq(Nat) /\ at \in Nat /\ memBosLen \in Nat /\ Len(str) \in Nat /\ MaxChunk \in Nat
      /\ memBosLen <= at /\ at <= Len(str) /\ lent = 0 /\ n \in Nat \ {0} /\ n <= MaxChunk
  BY MCMemAssumption DEF Mem!MemAssumption, Mem!PutBuf, MemSound
<1>2. Mem!File = str /\ at - lent = at
  BY <1>1, NothingLent
<1>3. CASE Mem!Returns(TRUE) /\ UNCHANGED <<str, at, lent>>
  BY <1>1, <1>3, MemSeekSound DEF Mem!PutBuf, Mem!Returns, MemSeeks, MemSound
<1>4. CASE /\ str' = Mem!Resized(str, Mem!AtLeast(Len(str), at + n))
           /\ at' = at + n /\ lent' = n
           /\ Mem!Returns(FALSE)
  <2>1. PICK big \in Nat : /\ big = Mem!AtLeast(Len(str), at + n)
                           /\ big = (IF Len(str) < at + n THEN at + n ELSE Len(str))
                           /\ Len(str) <= big /\ at + n <= big
    <3>1. Mem!AtLeast(Len(str), at + n) = (IF Len(str) < at + n THEN at + n ELSE Len(str))
      BY DEF Mem!AtLeast
    <3>2. QED  BY ONLY <1>1, <3>1
  <2>2. str' \in Seq(Nat) /\ Len(str') = big
    BY <1>1, <1>4, <2>1, ResizedElements
  <2>3. SubSeq(str', 1, Len(str)) = str
    BY <1>1, <1>4, <2>1, GrownKeeps
  <2>4. /\ at' = at + n /\ lent' = n /\ mark' = Len(str) /\ memBosLen' = memBosLen
        /\ memNext' = memNext /\ memEra' = memEra /\ memGot' = <<>>
    BY <1>4 DEF Mem!PutBuf, Mem!Returns
  <2>5. at' - lent' = at /\ at' \in Nat /\ lent' \in 0..MaxChunk /\ lent' > 0
    <3>1. (at + n) - n = at /\ at + n \in Nat /\ n \in 0..MaxChunk /\ n > 0
      BY ONLY <1>1
    <3>2. QED  BY <2>4, <3>1
  <2>6. MemSound'
    <3>1. memBosLen' + lent' <= at'
      <4>1. memBosLen + n <= at + n
        BY ONLY <1>1
      <4>2. QED  BY <2>4, <4>1
    <3>2. at' <= Len(str') /\ Len(str') = (IF mark' < at' THEN at' ELSE mark')
      BY <2>1, <2>2, <2>4
    <3>3. QED  BY <1>1, <2>2, <2>4, <2>5, <3>1, <3>2 DEF MemSound
  <2>7. Mem!File' = str
    BY <2>3, <2>4, <2>5 DEF Mem!File
  <2>8. at \in 0..Len(str)
    BY ONLY <1>1
  <2>9. Mem!Bytes!Seek
    BY <1>2, <2>4, <2>5, <2>7, <2>8 DEF Mem!Bytes!Seek
  <2>10. QED  BY <2>6, <2>9 DEF Mem!Bytes!Next
<1>5. QED  BY <1>3, <1>4 DEF Mem!PutBuf

LEMMA FillSound ==
  ASSUME MemSound, NEW n \in 0..lent, Mem!Fill(n)
  PROVE  MemSound' /\ Mem!Bytes!Next
<1>1. PICK l \in Nat \ {0} : l = lent /\ l <= MaxChunk /\ MaxChunk \in Nat
  BY MCMemAssumption DEF Mem!MemAssumption, Mem!Fill, MemSound
<1>2. n \in Nat /\ n <= l /\ at \in Nat /\ lent > 0
  BY <1>1 DEF MemSound
<1>3. PICK p \in Nat : p = at - lent
  BY MemFile
<1>4. PICK m \in Nat : m = mark /\ p <= m /\ Len(str) = IF m < at THEN at ELSE m
  BY <1>2, <1>3 DEF MemSound
<1>5. at = p + l /\ str \in Seq(Nat)
  BY <1>1, <1>2, <1>3 DEF MemSound
<1>6. PICK data \in Seq(Nat) : data = [i \in 1..n |-> memNext + i - 1] /\ Len(data) = n
  BY <1>2, NumberedElements DEF Bytes!Numbered, MemSound
<1>7. PICK w : w = Bytes!Overwrite(str, p, data)
  OBVIOUS
<1>8. p <= Len(str) /\ p + n <= Len(str) /\ m <= Len(str) /\ Len(str) \in Nat
  BY ONLY <1>1, <1>2, <1>4, <1>5, p \in Nat
<1>9. w \in Seq(Nat) /\ Len(w) = Len(str)
  <2>1. IsOverwrite(w, str, p, data)
    BY <1>5, <1>7, <1>8, OverwriteElements
  <2>2. w \in Seq(Nat) /\ Len(w) = IF Len(str) < p + n THEN p + n ELSE Len(str)
    BY <1>6, <2>1 DEF IsOverwrite
  <2>3. QED  BY ONLY <1>2, <1>8, <2>2, p \in Nat
<1>10. PICK big \in Nat : big = IF m < p + n THEN p + n ELSE m
  BY <1>2
<1>11. Mem!File = SubSeq(str, 1, m)
  BY <1>2, <1>4 DEF Mem!File
<1>12. at' = p + n
  <2>1. at' = at - (lent - n)
    BY DEF Mem!Fill
  <2>2. QED  BY ONLY <1>1, <1>2, <1>5, <2>1, p \in Nat
<1>13. Mem!Replaced(str, at - lent, Mem!BytesAfter(n)) = w
  BY <1>3, <1>6, <1>7 DEF Mem!Replaced, Mem!BytesAfter, Bytes!Overwrite
<1>14. str' \in Seq(Nat) /\ Len(str') = big /\ \A i \in 1..Len(str') : str'[i] = w[i]
  <2>1. CASE n = lent
    <3>1. str' = w
      BY <1>13, <2>1 DEF Mem!Fill
    <3>2. big = Len(w)
      BY ONLY <1>1, <1>2, <1>4, <1>5, <1>9, <1>10, <2>1, p \in Nat
    <3>3. QED  BY <1>9, <3>1, <3>2
  <2>2. CASE n # lent
    <3>1. str' = Mem!Resized(w, Mem!AtLeast(at', mark))
      BY <1>13, <2>2 DEF Mem!Fill, Mem!Kept
    <3>2. Mem!AtLeast(at', mark) = big
      BY <1>4, <1>10, <1>12 DEF Mem!AtLeast
    <3>3. /\ str' \in Seq(Nat) /\ Len(str') = big
          /\ \A i \in 1..big : str'[i] = IF i <= Len(w) THEN w[i] ELSE 0
      BY <1>9, <1>10, <3>1, <3>2, ResizedElements
    <3>4. big <= Len(w)
      BY ONLY <1>8, <1>9, <1>10, <1>2, p \in Nat
    <3>5. \A i \in 1..big : i <= Len(w)
      BY ONLY <1>9, <1>8, <1>10, <3>4
    <3>6. QED  BY <3>3, <3>5
  <2>3. QED  BY <2>1, <2>2
<1>15. str' = Bytes!Overwrite(SubSeq(str, 1, m), p, data)
  <2>1. PICK r \in Seq(Nat) : r = str'
    BY <1>14
  <2>2. Len(r) = (IF m < p + Len(data) THEN p + Len(data) ELSE m)
    BY <1>6, <1>10, <1>14, <2>1
  <2>3. \A i \in 1..Len(r) : r[i] = Bytes!Overwrite(str, p, data)[i]
    BY <1>7, <1>14, <2>1
  <2>4. Len(str) = (IF m < p + l THEN p + l ELSE m) /\ Len(data) <= l
    BY <1>2, <1>4, <1>5, <1>6
  <2>5. r = Bytes!Overwrite(SubSeq(str, 1, m), p, data)
    BY ONLY <1>1, <1>4, <1>5, <2>1, <2>2, <2>3, <2>4, FilledIsWritten,
            p \in Nat, m \in Nat, l \in Nat, data \in Seq(Nat), r \in Seq(Nat)
  <2>6. QED  BY <2>1, <2>5
<1>16. MemWrites(n, n)
  <2>1. lent' = 0 /\ memNext' = memNext + n /\ memGot' = <<>> /\ memBosLen' = memBosLen /\ memEra' = memEra
    BY DEF Mem!Fill, Mem!Returns
  <2>2. n <= MaxChunk
    BY <1>1, <1>2
  <2>3. QED  BY <1>2, <1>3, <1>6, <1>11, <1>12, <1>15, <2>1, <2>2 DEF MemWrites
<1>17. QED  BY <1>2, <1>16, MemWriteSound
-----------------------------------------------------------------------------
(* The other calls. *)
LEMMA MemPutSound ==
  ASSUME MemSound, NEW n \in 1..MaxChunk, Mem!Put(n)
  PROVE  MemSound' /\ Mem!Bytes!Next
<1>1. n \in Nat \ {0} /\ n <= MaxChunk /\ lent = 0 /\ lent' = 0
  BY MCMemAssumption DEF Mem!MemAssumption, Mem!Put, Mem!Calls
<1>2. Mem!File = str /\ at - lent = at /\ at \in Nat /\ str \in Seq(Nat) /\ at <= Len(str)
  BY <1>1, NothingLent DEF MemSound
<1>3. memNext' = memNext + n /\ memGot' = <<>> /\ memBosLen' = memBosLen /\ memEra' = memEra
  BY DEF Mem!Put, Mem!Returns, Mem!Calls
<1>4. CASE str' = Mem!Replaced(str, at, Mem!BytesAfter(n)) /\ at' = at + n
  <2>1. MemWrites(n, n)
    BY <1>1, <1>2, <1>3, <1>4 DEF MemWrites, Mem!Replaced, Mem!BytesAfter, Bytes!Overwrite
  <2>2. QED  BY <1>1, <2>1, MemWriteSound
<1>5. CASE UNCHANGED <<str, at>>
  <2>1. [i \in 1..0 |-> memNext + i - 1] = <<>>
    BY NumberedElements DEF Bytes!Numbered, MemSound
  <2>2. Bytes!Overwrite(str, at, <<>>) = str
    BY <1>2, OverwriteNothing
  <2>3. at + 0 = at /\ 0 <= n
    BY <1>1, <1>2
  <2>4. MemWrites(n, 0)
    BY <1>1, <1>2, <1>3, <1>5, <2>1, <2>2, <2>3 DEF MemWrites
  <2>5. QED  BY <1>1, <2>4, MemWriteSound
<1>6. QED  BY <1>4, <1>5 DEF Mem!Put

LEMMA MemGetSound ==
  ASSUME MemSound, NEW n \in 1..MaxChunk,
         Mem!Get(n) \/ Mem!GetBufSaturated(n) \/ \E back \in 0..n : Mem!GetBuf(n, back)
  PROVE  MemSound' /\ Mem!Bytes!Next
<1>1. n \in Nat /\ lent = 0 /\ lent' = 0 /\ memEra' = memEra
  <2>1. Mem!Calls
    BY DEF Mem!Get, Mem!GetBufSaturated, Mem!GetBuf
  <2>2. n \in Nat
    BY MCMemAssumption DEF Mem!MemAssumption
  <2>3. QED  BY <2>1, <2>2 DEF Mem!Calls
<1>2. at \in Nat /\ Len(str) \in Nat /\ at <= Len(str) /\ memBosLen \in Nat /\ memBosLen <= at
  BY <1>1 DEF MemSound
<1>3. PICK k \in Nat : k = Mem!AtMost(Len(str) - at, n) /\ at + k <= Len(str)
  <2>1. Mem!AtMost(Len(str) - at, n) = (IF Len(str) - at < n THEN Len(str) - at ELSE n)
    BY DEF Mem!AtMost
  <2>2. Mem!AtMost(Len(str) - at, n) \in Nat /\ at + Mem!AtMost(Len(str) - at, n) <= Len(str)
    BY ONLY <1>1, <1>2, <2>1
  <2>3. QED  BY <2>2
<1>4. CASE Mem!Takes(n)
  BY <1>1, <1>3, <1>4, MemReadSound DEF Mem!Takes, MemReads
<1>5. ASSUME NEW back \in 0..n, Mem!GetBuf(n, back) PROVE MemSound' /\ Mem!Bytes!Next
  <2>1. PICK j \in Nat : j = k - back /\ j <= k
    BY <1>1, <1>3, <1>5 DEF Mem!GetBuf
  <2>2. at' = at + j
    <3>1. at' = at + k - back
      BY <1>3, <1>5 DEF Mem!GetBuf
    <3>2. QED  BY <1>1, <1>2, <2>1, <3>1
  <2>3. at + j <= Len(str)
    BY ONLY <1>2, <1>3, <2>1
  <2>4. /\ str' = str /\ memGot' = SubSeq(str, at + 1, at')
        /\ memBosLen' = memBosLen /\ memNext' = memNext
    BY <1>5 DEF Mem!GetBuf
  <2>5. MemReads(j)
    BY <1>1, <2>2, <2>3, <2>4 DEF MemReads
  <2>6. QED  BY <2>5, MemReadSound
<1>6. CASE Mem!GetBufSaturated(n) /\ ~Mem!Takes(n)
  <2>1. str' = str /\ at' = at /\ memBosLen' = memBosLen /\ memNext' = memNext /\ memGot' = <<>>
    BY <1>6 DEF Mem!GetBufSaturated, Mem!Returns, Mem!device
  <2>2. QED  BY <1>1, <1>2, <2>1, MemSeekSound DEF MemSeeks
<1>7. QED  BY <1>4, <1>5, <1>6 DEF Mem!Get

LEMMA MemMoveSound ==
  ASSUME MemSound,
         \/ Mem!Bos \/ Mem!MainContBeg
         \/ \E p \in 0..(Len(str) + 1) : Mem!Seek(p) \/ Mem!Rseek(p)
         \/ \E to \in {"input", "output"} : Mem!Turn(to)
  PROVE  MemSound' /\ Mem!Bytes!Next
<1>1. SUFFICES MemSeeks
  BY MemSeekSound
<1>2. lent = 0 /\ lent' = 0 /\ memEra' = memEra /\ memGot' = <<>> /\ str' = str /\ memNext' = memNext
  BY DEF Mem!Bos, Mem!MainContBeg, Mem!Seek, Mem!Rseek, Mem!MoveTo, Mem!Turn,
         Mem!Calls, Mem!Returns, Mem!device
<1>3. at \in Nat /\ Len(str) \in Nat /\ at <= Len(str) /\ memBosLen \in Nat /\ memBosLen <= at
  BY <1>2 DEF MemSound
<1>4. CASE Mem!Bos \/ Mem!MainContBeg \/ \E to \in {"input", "output"} : Mem!Turn(to)
  <2>1. at' = at /\ (memBosLen' = memBosLen \/ memBosLen' = at)
    BY <1>4 DEF Mem!Bos, Mem!MainContBeg, Mem!Turn, Mem!device
  <2>2. QED  BY <1>2, <1>3, <2>1 DEF MemSeeks
<1>5. ASSUME NEW p \in Nat, Mem!Seek(p) \/ Mem!Rseek(p) PROVE MemSeeks
  <2>1. memBosLen' = memBosLen
    BY <1>5 DEF Mem!Seek, Mem!Rseek, Mem!MoveTo
  <2>2. \/ at' = at
        \/ at' = p + memBosLen /\ p + memBosLen <= Len(str)
        \/ at' = Len(str) - p /\ memBosLen <= Len(str) /\ p <= Len(str) - memBosLen
    <3>1. CASE Mem!Seek(p)
      <4>1. at' = IF p + memBosLen <= Len(str) THEN p + memBosLen ELSE at
        BY <3>1, Zenon DEF Mem!Seek, Mem!MoveTo
      <4>2. QED  BY ONLY <4>1
    <3>2. CASE Mem!Rseek(p)
      <4>1. at' = IF memBosLen <= Len(str) /\ p <= Len(str) - memBosLen THEN Len(str) - p ELSE at
        BY <3>2, Zenon DEF Mem!Rseek, Mem!MoveTo
      <4>2. QED  BY ONLY <4>1
    <3>3. QED  BY <1>5, <3>1, <3>2
  <2>3. at' \in Nat /\ at' <= Len(str) /\ memBosLen <= at'
    BY <1>3, <2>2
  <2>4. QED  BY <1>2, <1>3, <2>1, <2>3 DEF MemSeeks
<1>6. QED  BY <1>3, <1>4, <1>5

LEMMA MemReplaceSound ==
  ASSUME MemSound, NEW s \in Seq(Nat), NEW p \in Nat, p <= Len(s), Mem!Replace(s, p)
  PROVE  MemSound' /\ Mem!Bytes!Next
<1>1. /\ str' = s /\ at' = p /\ lent' = 0 /\ memBosLen' = 0 /\ memEra' = memEra + 1
      /\ memNext' = memNext /\ memGot' = <<>> /\ MaxChunk \in Nat
  BY MCMemAssumption DEF Mem!MemAssumption, Mem!Replace, Mem!Returns, MemSound
<1>2. at' - lent' = p /\ ~(lent' > 0) /\ memBosLen' + lent' <= at'
  <2>1. p - 0 = p /\ ~(0 > 0) /\ 0 + 0 <= p
    OBVIOUS
  <2>2. QED  BY <1>1, <2>1
<1>3. MemSound'
  BY <1>1, <1>2 DEF MemSound
<1>4. Mem!File' = s
  BY <1>1, <1>2 DEF Mem!File
<1>5. p \in 0..Len(s)
  OBVIOUS
<1>6. Mem!Bytes!Replace
  BY <1>1, <1>2, <1>4, <1>5 DEF Mem!Bytes!Replace
<1>7. QED  BY <1>3, <1>6 DEF Mem!Bytes!Next

LEMMA MemStepSound ==
  ASSUME MemSound, Mem!Next
  PROVE  MemSound' /\ Mem!Bytes!Next
<1>1. \A s \in Files : s \in Seq(Nat) /\ Len(s) \in Nat
  BY RootAssumption DEF RootAssumption
<1>2. CASE Mem!Detach
  <2>1. <<>> \in Seq(Nat) /\ 0 <= Len(<<>>)
    OBVIOUS
  <2>2. \A p \in Nat : p <= Len(<<>>) /\ Mem!Replace(<<>>, p) => MemSound' /\ Mem!Bytes!Next
    BY <2>1, MemReplaceSound
  <2>3. QED  BY <1>2, <2>1, <2>2 DEF Mem!Detach
<1>3. ASSUME NEW s \in Files, NEW p \in {0, Len(s)}, Mem!Attach(s, p)
      PROVE  MemSound' /\ Mem!Bytes!Next
  <2>1. p \in Nat /\ p <= Len(s) /\ s \in Seq(Nat)
    BY <1>1
  <2>2. QED  BY <1>3, <2>1, MemReplaceSound DEF Mem!Attach
<1>4. ASSUME NEW n \in 0..lent, Mem!Fill(n) PROVE MemSound' /\ Mem!Bytes!Next
  BY <1>4, FillSound
<1>5. ASSUME NEW n \in 1..MaxChunk, Mem!Put(n) \/ Mem!PutBuf(n) PROVE MemSound' /\ Mem!Bytes!Next
  BY <1>5, MemPutSound, LendSound
<1>6. ASSUME NEW n \in 1..MaxChunk,
             Mem!Get(n) \/ Mem!GetBufSaturated(n) \/ \E back \in 0..n : Mem!GetBuf(n, back)
      PROVE  MemSound' /\ Mem!Bytes!Next
  BY <1>6, MemGetSound
<1>7. CASE \/ Mem!Bos \/ Mem!MainContBeg
           \/ \E p \in 0..(Len(str) + 1) : Mem!Seek(p) \/ Mem!Rseek(p)
           \/ \E to \in {"input", "output"} : Mem!Turn(to)
  BY <1>7, MemMoveSound
<1>8. QED  BY <1>2, <1>3, <1>4, <1>5, <1>6, <1>7 DEF Mem!Next

LEMMA MemInitSound ==
  ASSUME Mem!Init
  PROVE  MemSound /\ Mem!Bytes!Init
<1>1. MaxChunk \in Nat /\ lent = 0 /\ memBosLen = 0 /\ memNext = 1 /\ memEra = 0 /\ memGot = <<>>
  BY MCMemAssumption DEF Mem!MemAssumption, Mem!Init
<1>2. str \in Seq(Nat) /\ at \in Nat /\ at <= Len(str)
  BY RootAssumption DEF RootAssumption, Mem!Init
<1>3. MemSound
  BY <1>1, <1>2 DEF MemSound
<1>4. Mem!File = str /\ at - lent = at
  BY <1>1, <1>3, NothingLent
<1>5. QED  BY <1>1, <1>2, <1>3, <1>4 DEF Mem!Bytes!Init

LEMMA MemStutters ==
  ASSUME MemSound, UNCHANGED Mem!vars
  PROVE  MemSound' /\ UNCHANGED Mem!Bytes!vars
<1>1. /\ str' = str /\ at' = at /\ mark' = mark /\ lent' = lent /\ memBosLen' = memBosLen
      /\ memNext' = memNext /\ memEra' = memEra /\ memGot' = memGot
  BY DEF Mem!vars, Mem!device
<1>2. QED  BY <1>1 DEF MemSound, Mem!File, Mem!Bytes!vars

(* So is the root over a mem_device, whatever memory is lent, and its      *)
(* position stays within it (the assertions of tell() and dget()).         *)
THEOREM MemRootIsAFile == Mem!Spec => Mem!Bytes!Spec /\ []Mem!InBounds
<1>1. Mem!Init => MemSound /\ Mem!Bytes!Init
  BY MemInitSound
<1>2. MemSound /\ [Mem!Next]_(Mem!vars) => MemSound' /\ [Mem!Bytes!Next]_(Mem!Bytes!vars)
  BY MemStepSound, MemStutters
<1>3. MemSound => Mem!InBounds
  BY DEF MemSound, Mem!InBounds
<1>4. QED  BY <1>1, <1>2, <1>3, PTL DEF Mem!Spec, Mem!Bytes!Spec

(* No byte is lost, doubled or reordered by either root. *)
THEOREM BothRootsAreFiles == MCSpec => RootsAreFiles
<1>1. MCInit => Init /\ Mem!Init
  BY DEF MCInit
<1>2. [MCNext]_<<part, vars, input, memory>> => [Next]_vars /\ [Mem!Next]_(Mem!vars)
  <2>1. UNCHANGED memory => UNCHANGED Mem!vars
    BY DEF memory, Mem!vars, Mem!device
  <2>2. QED  BY <2>1 DEF MCNext
<1>3. MCSpec => Spec /\ Mem!Spec
  BY <1>1, <1>2, PTL DEF MCSpec, Spec, Mem!Spec
<1>4. QED  BY <1>3, RootIsAFile, MemRootIsAFile DEF RootsAreFiles
-----------------------------------------------------------------------------
(* The standard input root.                                                *)

InTypes ==
    /\ fd \in Seq(Nat) /\ file \in Seq(Nat) /\ probed \in Seq(Nat) /\ Len(probed) <= 1
    /\ rest \in Seq(Nat) /\ held \in Seq(Nat)
    /\ synced \in BOOLEAN /\ mixed \in BOOLEAN
    /\ inBuf \in 0..Len(held)
    /\ kept \in SUBSET Nat /\ IsFiniteSet(kept) /\ byC \in SUBSET Nat /\ IsFiniteSet(byC)

(* What stdin's FILE holds comes next only for a synchronized stream. *)
Via(f) == IF synced THEN f ELSE <<>>

LEMMA InPieces == \A x, y, z \in Seq(Nat) : Regroups(x, y, z)
  BY ConcatThree

(* A sequence is cut in two. *)
LEMMA CutElements ==
  ASSUME NEW q \in Seq(Nat), NEW n \in Nat
  PROVE  /\ In!First(q, n) \in Seq(Nat) /\ In!After(q, n) \in Seq(Nat)
         /\ In!First(q, n) \o In!After(q, n) = q
         /\ Len(In!First(q, n)) = In!Least(n, Len(q))
         /\ Len(q) <= n => In!First(q, n) = q /\ In!After(q, n) = <<>>
         /\ n <= Len(q) => /\ In!First(q, n) = SubSeq(q, 1, n)
                           /\ In!After(q, n) = SubSeq(q, n + 1, Len(q))
<1>1. PICK l \in Nat : l = Len(q)
  OBVIOUS
<1>2. In!After(q, n) = SubSeq(q, n + 1, l)
  BY <1>1 DEF In!After
<1>3. CASE n <= l
  <2>1. In!First(q, n) = SubSeq(q, 1, n)
    BY <1>1, <1>3 DEF In!First, In!Least
  <2>2. SubSeq(q, 1, n) \in Seq(Nat) /\ Len(SubSeq(q, 1, n)) = n
    BY <1>1, <1>3, PrefixElements
  <2>3. SubSeq(q, n + 1, l) \in Seq(Nat) /\ Len(SubSeq(q, n + 1, l)) = l - n
    BY <1>1, <1>3, SuffixElements
  <2>4. SubSeq(q, 1, n) \o SubSeq(q, n + 1, l) = SubSeq(q, 1, l)
    <3>1. l <= Len(q) /\ n <= l
      BY <1>1, <1>3
    <3>2. QED  BY ONLY <3>1, l \in Nat, n \in Nat, q \in Seq(Nat), PrefixAndPiece
  <2>5. SubSeq(q, 1, l) = q
    BY <1>1, WholePiece
  <2>6. In!Least(n, l) = n
    BY <1>3 DEF In!Least
  <2>7. ASSUME l <= n PROVE In!First(q, n) = q /\ In!After(q, n) = <<>>
    <3>1. n = l
      BY <1>1, <1>3, <2>7
    <3>2. SubSeq(q, l + 1, l) = <<>>
      BY <1>1, NoPiece
    <3>3. QED  BY <1>2, <2>1, <2>5, <3>1, <3>2
  <2>8. QED  BY <1>1, <1>2, <2>1, <2>2, <2>3, <2>4, <2>5, <2>6, <2>7
<1>4. CASE ~(n <= l)
  <2>1. In!First(q, n) = SubSeq(q, 1, l) /\ In!Least(n, l) = l
    BY <1>1, <1>4 DEF In!First, In!Least
  <2>2. SubSeq(q, 1, l) = q
    BY <1>1, WholePiece
  <2>3. SubSeq(q, n + 1, l) \in Seq(Nat) /\ Len(SubSeq(q, n + 1, l)) = 0
    BY <1>1, <1>4, RestElements
  <2>4. SubSeq(q, n + 1, l) = <<>>
    BY <2>3
  <2>5. q \o <<>> = q
    BY ConcatOfNone
  <2>6. In!First(q, n) = q /\ In!After(q, n) = <<>>
    BY <1>2, <2>1, <2>2, <2>4
  <2>7. Len(In!First(q, n)) = In!Least(n, Len(q))
    BY <1>1, <2>1, <2>6
  <2>8. In!First(q, n) \o In!After(q, n) = q
    BY <2>5, <2>6
  <2>9. In!First(q, n) \in Seq(Nat) /\ In!After(q, n) \in Seq(Nat)
    BY <2>6
  <2>10. QED  BY <1>1, <1>4, <2>6, <2>7, <2>8, <2>9
<1>5. QED  BY <1>1, <1>3, <1>4

(* What a read got, and what it left, in the order of the input. *)
ReadsFrom(n, r) ==
    /\ r.got \in Seq(Nat) /\ r.file \in Seq(Nat) /\ r.fd \in Seq(Nat) /\ r.probed \in Seq(Nat)
    /\ Len(r.probed) <= 1 /\ Len(r.got) <= n
    /\ synced => r.probed = <<>>
    /\ ~synced => r.file = file
    /\ r.got \o (r.probed \o (Via(r.file) \o r.fd)) = probed \o (Via(file) \o fd)

LEMMA FileReadsInOrder ==
  ASSUME InTypes, NEW n \in Nat, NEW r \in In!FileRead(n)
  PROVE  /\ r.got \in Seq(Nat) /\ r.file \in Seq(Nat) /\ r.fd \in Seq(Nat)
         /\ r.probed = probed /\ Len(r.got) <= n
         /\ r.got \o (r.file \o r.fd) = file \o fd
<1>1. file \in Seq(Nat) /\ fd \in Seq(Nat)
  BY DEF InTypes
<1>2. PICK m \in Nat : m = Len(file)
  BY <1>1
<1>3. PICK l \in Nat : l = Len(fd)
  BY <1>1
<1>e. CASE ended
  <2>1. r.got = <<>> /\ r.probed = probed /\ r.file = file /\ r.fd = fd
    BY <1>e DEF In!FileRead, In!Nothing, In!Outcome
  <2>2. file \o fd \in Seq(Nat) /\ <<>> \in Seq(Nat) /\ Len(<<>>) = 0
    BY <1>1, ConcatElements
  <2>3. <<>> \o (file \o fd) = file \o fd
    BY <2>2, ConcatOfNone
  <2>4. QED  BY <1>1, <2>1, <2>2, <2>3
<1>4. CASE ~ended /\ n <= m
  <2>1. PICK x : x = In!First(file, n)
    OBVIOUS
  <2>2. PICK y : y = In!After(file, n)
    OBVIOUS
  <2>3. x \in Seq(Nat) /\ y \in Seq(Nat) /\ x \o y = file /\ Len(x) = In!Least(n, m)
    BY <1>1, <1>2, <2>1, <2>2, CutElements
  <2>4. r = In!Outcome(x, probed, y, fd)
    BY <1>2, <1>4, <2>1, <2>2 DEF In!FileRead
  <2>5. r.got = x /\ r.probed = probed /\ r.file = y /\ r.fd = fd
    BY <2>4 DEF In!Outcome
  <2>6. x \o (y \o fd) = (x \o y) \o fd
    <3>1. x \in Seq(Nat) /\ y \in Seq(Nat)
      BY <2>3
    <3>2. Regroups(x, y, fd)
      BY ONLY <1>1, <3>1, InPieces, Zenon
    <3>3. QED  BY ONLY <3>2 DEF Regroups
  <2>7. Len(x) <= n
    BY <1>4, <2>3 DEF In!Least
  <2>8. QED  BY <1>1, <2>3, <2>5, <2>6, <2>7
<1>5. CASE ~ended /\ ~(n <= m)
  <2>1. PICK need : need = In!Least(n - m, l)
    OBVIOUS
  <2>2. need \in Nat /\ m + need <= n /\ need <= l
    BY <1>5, <2>1 DEF In!Least
  <2>3. \/ \E k \in 0..need : r = In!Outcome(file \o In!First(fd, k), probed, <<>>, In!After(fd, k))
        \/ \E k \in need..l : r = In!Outcome(file \o In!First(fd, need), probed,
                                             SubSeq(fd, need + 1, k), In!After(fd, k))
    BY <1>2, <1>3, <1>5, <2>1 DEF In!FileRead
  <2>4. ASSUME NEW k \in 0..need,
               r = In!Outcome(file \o In!First(fd, k), probed, <<>>, In!After(fd, k))
        PROVE  /\ r.got \in Seq(Nat) /\ r.file \in Seq(Nat) /\ r.fd \in Seq(Nat)
               /\ r.probed = probed /\ Len(r.got) <= n
               /\ r.got \o (r.file \o r.fd) = file \o fd
    <3>1. PICK x : x = In!First(fd, k)
      OBVIOUS
    <3>2. PICK y : y = In!After(fd, k)
      OBVIOUS
    <3>3. k \in Nat /\ k <= l /\ m + k <= n
      BY <2>2
    <3>4. x \in Seq(Nat) /\ y \in Seq(Nat) /\ x \o y = fd /\ Len(x) = In!Least(k, l)
      BY <1>1, <1>3, <3>1, <3>2, <3>3, CutElements
    <3>5. r.got = file \o x /\ r.probed = probed /\ r.file = <<>> /\ r.fd = y
      BY <2>4, <3>1, <3>2 DEF In!Outcome
    <3>6. file \o x \in Seq(Nat) /\ Len(file \o x) = m + Len(x)
      BY <1>1, <1>2, <3>4, ConcatElements
    <3>7. (file \o x) \o y = file \o (x \o y)
      <4>1. x \in Seq(Nat) /\ y \in Seq(Nat)
        BY <3>4
      <4>2. Regroups(file, x, y)
        BY ONLY <1>1, <4>1, InPieces, Zenon
      <4>3. QED  BY ONLY <4>2 DEF Regroups
    <3>8. <<>> \o y = y /\ <<>> \in Seq(Nat)
      BY <3>4, ConcatOfNone
    <3>9. Len(x) = k
      BY <3>3, <3>4 DEF In!Least
    <3>10. QED  BY <3>3, <3>4, <3>5, <3>6, <3>7, <3>8, <3>9
  <2>5. ASSUME NEW k \in need..l,
               r = In!Outcome(file \o In!First(fd, need), probed,
                              SubSeq(fd, need + 1, k), In!After(fd, k))
        PROVE  /\ r.got \in Seq(Nat) /\ r.file \in Seq(Nat) /\ r.fd \in Seq(Nat)
               /\ r.probed = probed /\ Len(r.got) <= n
               /\ r.got \o (r.file \o r.fd) = file \o fd
    <3>1. PICK x : x = SubSeq(fd, 1, need)
      OBVIOUS
    <3>2. PICK y : y = SubSeq(fd, need + 1, k)
      OBVIOUS
    <3>3. PICK z : z = SubSeq(fd, k + 1, l)
      OBVIOUS
    <3>4. k \in Nat /\ need <= k /\ k <= l
      BY <2>2
    <3>5. x \in Seq(Nat) /\ Len(x) = need
      BY <1>1, <1>3, <2>2, <3>1, PrefixElements
    <3>6. y \in Seq(Nat)
      BY <1>1, <1>3, <2>2, <3>2, <3>4, PieceElements
    <3>7. z \in Seq(Nat)
      BY <1>1, <1>3, <3>3, <3>4, SuffixElements
    <3>8. y \o z = SubSeq(fd, need + 1, l)
      <4>1. l <= Len(fd)
        BY <1>3
      <4>2. SubSeq(fd, need + 1, k) \o SubSeq(fd, k + 1, l) = SubSeq(fd, need + 1, l)
        BY ONLY <1>1, <2>2, <3>4, <4>1, l \in Nat, AdjacentPieces
      <4>3. QED  BY ONLY <3>2, <3>3, <4>2
    <3>9. x \o SubSeq(fd, need + 1, l) = SubSeq(fd, 1, l)
      <4>1. l <= Len(fd)
        BY <1>3
      <4>2. SubSeq(fd, 1, need) \o SubSeq(fd, need + 1, l) = SubSeq(fd, 1, l)
        BY ONLY <1>1, <2>2, <4>1, l \in Nat, PrefixAndPiece
      <4>3. QED  BY ONLY <3>1, <4>2
    <3>10. SubSeq(fd, 1, l) = fd
      BY <1>1, <1>3, WholePiece
    <3>11. In!First(fd, need) = x /\ In!After(fd, k) = z
      BY <1>1, <1>3, <2>2, <3>1, <3>3, <3>4, CutElements
    <3>12. r.got = file \o x /\ r.probed = probed /\ r.file = y /\ r.fd = z
      BY <2>5, <3>2, <3>11 DEF In!Outcome
    <3>13. file \o x \in Seq(Nat) /\ Len(file \o x) = m + Len(x)
      BY <1>1, <1>2, <3>5, ConcatElements
    <3>14. y \o z \in Seq(Nat)
      BY <3>6, <3>7, ConcatElements
    <3>15. (file \o x) \o (y \o z) = file \o (x \o (y \o z))
      <4>1. PICK w \in Seq(Nat) : w = y \o z
        BY <3>14
      <4>2. (file \o x) \o w = file \o (x \o w)
        <5>1. Regroups(file, x, w)
          BY ONLY <1>1, <3>5, w \in Seq(Nat), InPieces, Zenon
        <5>2. QED  BY ONLY <5>1 DEF Regroups
      <4>3. QED  BY ONLY <4>1, <4>2
    <3>16. x \o (y \o z) = fd
      BY <3>8, <3>9, <3>10
    <3>17. QED  BY <2>2, <3>5, <3>6, <3>7, <3>12, <3>13, <3>15, <3>16
  <2>6. QED  BY <2>3, <2>4, <2>5
<1>6. QED  BY <1>2, <1>4, <1>5, <1>e

LEMMA CutsInOrder ==
  ASSUME NEW n \in Nat
  PROVE  \A q \in Seq(Nat) : /\ In!First(q, n) \in Seq(Nat) /\ In!After(q, n) \in Seq(Nat)
                             /\ In!First(q, n) \o In!After(q, n) = q
  BY CutElements

LEMMA NoneInPieces == \A x \in Seq(Nat) : x \o <<>> = x /\ <<>> \o x = x
  BY ConcatOfNone

LEMMA DgetInOrder ==
  ASSUME InTypes, NEW n \in Nat \ {0}, NEW r \in In!Dget(n)
  PROVE  ReadsFrom(n, r)
<1>1. file \in Seq(Nat) /\ fd \in Seq(Nat) /\ probed \in Seq(Nat) /\ Len(probed) <= 1
      /\ <<>> \in Seq(Nat)
  BY DEF InTypes
<1>2. file \o fd \in Seq(Nat)
  BY <1>1, ConcatElements
<1>3. CASE synced /\ probed = <<>>
  <2>1. r \in In!FileRead(n)
    BY <1>3 DEF In!Dget, In!StdioGet
  <2>2. /\ r.got \in Seq(Nat) /\ r.file \in Seq(Nat) /\ r.fd \in Seq(Nat)
        /\ r.probed = probed /\ Len(r.got) <= n
    BY <2>1, FileReadsInOrder
  <2>3. r.got \o (r.file \o r.fd) = file \o fd
    BY <2>1, FileReadsInOrder
  <2>4. r.file \o r.fd \in Seq(Nat)
    BY <2>2, ConcatElements
  <2>5. <<>> \o (r.file \o r.fd) = r.file \o r.fd /\ <<>> \o (file \o fd) = file \o fd
    BY <1>2, <2>4, NoneInPieces
  <2>6. r.got \o (r.probed \o (Via(r.file) \o r.fd)) = probed \o (Via(file) \o fd)
    BY <1>3, <2>2, <2>3, <2>5 DEF Via
  <2>7. QED  BY <1>1, <1>3, <2>2, <2>6 DEF ReadsFrom
<1>4. CASE synced /\ probed # <<>>
  <2>1. r = In!Outcome(probed, <<>>, file, fd)
    BY <1>4 DEF In!Dget, In!StdioGet
  <2>2. r.got = probed /\ r.probed = <<>> /\ r.file = file /\ r.fd = fd
    BY <2>1 DEF In!Outcome
  <2>3. <<>> \o (file \o fd) = file \o fd
    BY <1>2, NoneInPieces
  <2>4. r.got \o (r.probed \o (Via(r.file) \o r.fd)) = probed \o (Via(file) \o fd)
    BY <1>4, <2>2, <2>3 DEF Via
  <2>5. QED  BY <1>1, <1>4, <2>2, <2>4 DEF ReadsFrom
<1>e. CASE ~synced /\ hitEnd
  <2>1. r.got = <<>> /\ r.probed = probed /\ r.file = file /\ r.fd = fd
    BY <1>e DEF In!Dget, In!FdGet, In!FdRead, In!Nothing, In!Outcome
  <2>2. Via(file) = <<>> /\ <<>> \o fd = fd
    BY <1>1, <1>e, NoneInPieces DEF Via
  <2>3. probed \o fd \in Seq(Nat)
    BY <1>1, ConcatElements
  <2>4. <<>> \o (probed \o fd) = probed \o fd
    BY <2>3, NoneInPieces
  <2>5. r.got \o (r.probed \o (Via(r.file) \o r.fd)) = probed \o (Via(file) \o fd)
    BY <2>1, <2>2, <2>4
  <2>6. Len(r.got) <= n
    BY <2>1
  <2>7. QED  BY <1>1, <1>e, <2>1, <2>5, <2>6 DEF ReadsFrom
<1>5. CASE ~synced /\ ~hitEnd
  <2>1. \E k \in Nat : /\ Len(probed) + k <= n /\ k <= Len(fd)
                       /\ r = In!Outcome(probed \o In!First(fd, k), <<>>, file, In!After(fd, k))
    <3>1. CASE probed = <<>>
      <4>1. PICK k \in 0..In!Least(n, Len(fd)) :
              r = In!Outcome(In!First(fd, k), probed, file, In!After(fd, k))
        BY <1>5, <3>1 DEF In!Dget, In!FdGet, In!FdRead
      <4>2. k \in Nat /\ k <= n /\ k <= Len(fd)
        BY <1>1, <4>1 DEF In!Least
      <4>3. In!First(fd, k) \in Seq(Nat)
        BY <1>1, <4>2, CutsInOrder
      <4>4. probed \o In!First(fd, k) = In!First(fd, k)
        BY <3>1, <4>3, NoneInPieces
      <4>5. Len(probed) + k <= n
        BY <3>1, <4>2
      <4>6. QED  BY <3>1, <4>1, <4>2, <4>4, <4>5
    <3>2. CASE probed # <<>>
      <4>1. PICK k \in 0..In!Least(n - 1, Len(fd)) :
              r = In!Outcome(probed \o In!First(fd, k), <<>>, file, In!After(fd, k))
        BY <1>5, <3>2 DEF In!Dget, In!FdGet
      <4>2. k \in Nat /\ k <= n - 1 /\ k <= Len(fd)
        BY <1>1, <4>1 DEF In!Least
      <4>3. Len(probed) + k <= n
        BY <1>1, <4>2
      <4>4. QED  BY <4>1, <4>2, <4>3
    <3>3. QED  BY <3>1, <3>2
  <2>2. PICK k \in Nat : /\ Len(probed) + k <= n /\ k <= Len(fd)
                         /\ r = In!Outcome(probed \o In!First(fd, k), <<>>, file, In!After(fd, k))
    BY <2>1
  <2>3. PICK x : x = In!First(fd, k)
    OBVIOUS
  <2>4. PICK y : y = In!After(fd, k)
    OBVIOUS
  <2>5. x \in Seq(Nat) /\ y \in Seq(Nat) /\ x \o y = fd
    BY <1>1, <2>2, <2>3, <2>4, CutsInOrder
  <2>6. Len(x) = k
    BY <1>1, <2>2, <2>3, CutElements DEF In!Least
  <2>7. r.got = probed \o x /\ r.probed = <<>> /\ r.file = file /\ r.fd = y
    BY <2>2, <2>3, <2>4 DEF In!Outcome
  <2>8. probed \o x \in Seq(Nat) /\ Len(probed \o x) = Len(probed) + Len(x)
    BY <1>1, <2>5, ConcatElements
  <2>9. (probed \o x) \o y = probed \o (x \o y)
    <3>1. Regroups(probed, x, y)
      BY ONLY <1>1, <2>5, InPieces, Zenon
    <3>2. QED  BY ONLY <3>1 DEF Regroups
  <2>10. <<>> \o y = y /\ <<>> \o fd = fd
    BY <1>1, <2>5, NoneInPieces
  <2>11. r.got \o (r.probed \o (Via(r.file) \o r.fd)) = probed \o (Via(file) \o fd)
    BY <1>5, <2>5, <2>7, <2>9, <2>10 DEF Via
  <2>12. r.got \in Seq(Nat) /\ r.file \in Seq(Nat) /\ r.fd \in Seq(Nat)
    BY <1>1, <2>5, <2>7, <2>8
  <2>13. r.probed \in Seq(Nat) /\ Len(r.probed) <= 1 /\ ~synced /\ r.file = file
    BY <1>1, <1>5, <2>7
  <2>14. Len(r.got) <= n
    BY <2>2, <2>6, <2>7, <2>8
  <2>15. QED  BY <2>11, <2>12, <2>13, <2>14 DEF ReadsFrom
<1>6. QED  BY <1>3, <1>4, <1>5, <1>e

(* What the device gives next. *)
NextDue == probed \o (Via(file) \o fd)

LEMMA DueParts ==
  ASSUME InTypes
  PROVE  /\ NextDue \in Seq(Nat) /\ rest \o NextDue \in Seq(Nat) /\ Via(file) \in Seq(Nat)
         /\ In!Due \in Seq(Nat) /\ In!Due = held \o (rest \o NextDue)
<1>1. /\ held \in Seq(Nat) /\ rest \in Seq(Nat) /\ probed \in Seq(Nat) /\ fd \in Seq(Nat)
      /\ file \in Seq(Nat)
  BY DEF InTypes
<1>2. PICK f \in Seq(Nat) : f = Via(file)
  <2>1. <<>> \in Seq(Nat)
    OBVIOUS
  <2>2. QED  BY <1>1, <2>1 DEF Via
<1>3. PICK a : a = held \o rest /\ a \in Seq(Nat)
  BY <1>1, ConcatElements
<1>4. PICK d : d = f \o fd /\ d \in Seq(Nat)
  BY <1>1, ConcatElements
<1>5. PICK e : e = probed \o d /\ e \in Seq(Nat)
  BY <1>1, <1>4, ConcatElements
<1>6. PICK g : g = a \o probed /\ g \in Seq(Nat)
  BY <1>1, <1>3, ConcatElements
<1>7. In!Due = (g \o f) \o fd
  BY <1>2, <1>3, <1>6 DEF In!Due, Via
<1>a. a \in Seq(Nat) /\ d \in Seq(Nat) /\ e \in Seq(Nat) /\ g \in Seq(Nat)
  BY <1>3, <1>4, <1>5, <1>6
<1>8. (g \o f) \o fd = g \o (f \o fd)
  <2>1. g \in Seq(Nat) /\ f \in Seq(Nat) /\ fd \in Seq(Nat)
    BY <1>1, <1>a
  <2>2. Regroups(g, f, fd)
    BY ONLY <2>1, InPieces, Zenon
  <2>3. QED  BY ONLY <2>2 DEF Regroups
<1>9. (a \o probed) \o d = a \o (probed \o d)
  <2>1. a \in Seq(Nat) /\ probed \in Seq(Nat) /\ d \in Seq(Nat)
    BY <1>1, <1>a
  <2>2. Regroups(a, probed, d)
    BY ONLY <2>1, InPieces, Zenon
  <2>3. QED  BY ONLY <2>2 DEF Regroups
<1>10. (held \o rest) \o e = held \o (rest \o e)
  <2>1. held \in Seq(Nat) /\ rest \in Seq(Nat) /\ e \in Seq(Nat)
    BY <1>1, <1>a
  <2>2. Regroups(held, rest, e)
    BY ONLY <2>1, InPieces, Zenon
  <2>3. QED  BY ONLY <2>2 DEF Regroups
<1>11. In!Due = held \o (rest \o e)
  BY ONLY <1>3, <1>4, <1>5, <1>6, <1>7, <1>8, <1>9, <1>10
<1>12. NextDue = e
  BY <1>2, <1>4, <1>5 DEF NextDue
<1>13. rest \o e \in Seq(Nat)
  BY <1>1, <1>5, ConcatElements
<1>14. held \o (rest \o e) \in Seq(Nat)
  BY <1>1, <1>13, ConcatElements
<1>15. QED  BY <1>2, <1>5, <1>11, <1>12, <1>13, <1>14

(* What was mixed in is told by the flag: otherwise a synchronized stream  *)
(* has nothing here.                                                       *)
Tidy == synced /\ ~mixed => rest = <<>> /\ probed = <<>>

LEMMA MixesTells ==
  ASSUME Tidy, NEW now \in BOOLEAN, In!Mixes(now), InTypes, rest' \in Seq(Nat), probed' \in Seq(Nat),
         synced' = synced, synced /\ ~mixed /\ ~now => rest' = <<>> /\ probed' = <<>>
  PROVE  Tidy' /\ mixed' \in BOOLEAN
<1>1. PICK w : w = rest' \o probed'
  OBVIOUS
<1>2. w = <<>> => rest' = <<>> /\ probed' = <<>>
  <2>1. Len(w) = Len(rest') + Len(probed')
    BY <1>1, ConcatElements
  <2>2. QED  BY <2>1
<1>3. mixed' = ((mixed \/ now) /\ w # <<>>)
  BY <1>1 DEF In!Mixes
<1>4. QED  BY <1>2, <1>3 DEF Tidy, InTypes

(* A step that only moves bytes from one place to another, in order. *)
KeepsDue ==
    /\ InTypes' /\ Tidy' /\ synced' = synced /\ kept' = kept /\ byC' = byC
    /\ ~synced => file' = file
    /\ In!Due' = In!Due

LEMMA DueAfter ==
  ASSUME InTypes'
  PROVE  /\ NextDue' \in Seq(Nat) /\ (rest \o NextDue)' \in Seq(Nat)
         /\ In!Due' \in Seq(Nat) /\ In!Due' = held' \o (rest' \o NextDue')
<1>1. (InTypes => /\ NextDue \in Seq(Nat) /\ rest \o NextDue \in Seq(Nat)
                  /\ In!Due \in Seq(Nat) /\ In!Due = held \o (rest \o NextDue))'
  BY DueParts, PTL
<1>2. QED  BY <1>1

(* get() and get_buf(): the first n of what is here and what was read. *)
LEMMA HandOutKeeps ==
  ASSUME InTypes, Tidy, NEW n \in Nat, NEW q \in Seq(Nat), held = <<>>, In!HandsOut(q, n),
         fd' \in Seq(Nat), file' \in Seq(Nat), probed' \in Seq(Nat), Len(probed') <= 1,
         q \o (probed' \o (Via(file') \o fd')) = rest \o NextDue,
         synced' = synced, kept' = kept, byC' = byC, ~synced => file' = file,
         inBuf' \in {0, Len(held')}, In!Mixes(FALSE),
         synced => mixed \/ (Len(q) <= n /\ probed' = <<>>)
  PROVE  KeepsDue
<1>1. PICK x : x = In!First(q, n)
  OBVIOUS
<1>2. PICK y : y = In!After(q, n)
  OBVIOUS
<1>3. x \in Seq(Nat) /\ y \in Seq(Nat) /\ x \o y = q
  BY <1>1, <1>2, CutsInOrder
<1>4. held' = x /\ rest' = y
  BY <1>1, <1>2 DEF In!HandsOut
<1>5. Len(q) <= n => y = <<>>
  BY <1>2, CutElements
<1>6. Tidy' /\ mixed' \in BOOLEAN
  <2>1. synced /\ ~mixed /\ ~FALSE => rest' = <<>> /\ probed' = <<>>
    BY <1>4, <1>5
  <2>2. rest' \in Seq(Nat) /\ FALSE \in BOOLEAN
    BY <1>3, <1>4
  <2>3. QED  BY <2>1, <2>2, MixesTells
<1>7. InTypes'
  <2>1. held' \in Seq(Nat) /\ rest' \in Seq(Nat)
    BY ONLY <1>3, <1>4
  <2>2. inBuf' \in 0..Len(held')
    BY ONLY <2>1, inBuf' \in {0, Len(held')}
  <2>3. QED  BY <1>6, <2>1, <2>2 DEF InTypes
<1>8. PICK r : r = NextDue'
  OBVIOUS
<1>9. r \in Seq(Nat) /\ In!Due' = x \o (y \o r)
  BY <1>4, <1>7, <1>8, DueAfter
<1>10. r = probed' \o (Via(file') \o fd')
  BY <1>8 DEF NextDue, Via
<1>11. (x \o y) \o r = x \o (y \o r)
  <2>1. x \in Seq(Nat) /\ y \in Seq(Nat) /\ r \in Seq(Nat)
    BY <1>3, <1>9
  <2>2. Regroups(x, y, r)
    BY ONLY <2>1, InPieces, Zenon
  <2>3. QED  BY ONLY <2>2 DEF Regroups
<1>12. In!Due = rest \o NextDue
  <2>1. rest \o NextDue \in Seq(Nat) /\ In!Due = held \o (rest \o NextDue)
    BY DueParts
  <2>2. <<>> \o (rest \o NextDue) = rest \o NextDue
    BY ONLY <2>1, NoneInPieces
  <2>3. QED  BY <2>1, <2>2
<1>13. In!Due' = In!Due
  BY <1>3, <1>9, <1>10, <1>11, <1>12
<1>14. QED  BY <1>6, <1>7, <1>13 DEF KeepsDue

LEMMA GetKeeps ==
  ASSUME InTypes, Tidy, NEW n \in 1..MaxAsk, In!Get(n) \/ In!GetBuf(n)
  PROVE  KeepsDue
<1>1. n \in Nat /\ n > 0 /\ InBufLen \in Nat /\ n <= InBufLen
  BY MCStdInAssumption DEF In!StdInAssumption
<1>2. /\ held = <<>> /\ synced' = synced /\ kept' = kept /\ byC' = byC /\ In!Mixes(FALSE)
      /\ inBuf' \in {0, Len(held')}
  BY DEF In!Get, In!GetBuf, In!Begins
<1>3. /\ rest \in Seq(Nat) /\ fd \in Seq(Nat) /\ file \in Seq(Nat) /\ probed \in Seq(Nat)
      /\ Len(probed) <= 1
  BY DEF InTypes
<1>4. CASE rest # <<>> /\ In!HandsOut(rest, n) /\ UNCHANGED In!source
  <2>1. fd' = fd /\ file' = file /\ probed' = probed
    BY <1>4 DEF In!source
  <2>2. synced => mixed
    BY <1>4 DEF Tidy, InTypes
  <2>3. rest \o (probed' \o (Via(file') \o fd')) = rest \o NextDue
    BY <2>1 DEF NextDue
  <2>4. QED  BY <1>1, <1>2, <1>3, <1>4, <2>1, <2>2, <2>3, HandOutKeeps
<1>5. ASSUME NEW m \in Nat \ {0}, NEW r \in In!Dget(m), In!HandsOut(rest \o r.got, n), In!Leaves(r),
             synced => mixed \/ Len(rest) + m <= n
      PROVE  KeepsDue
  <2>1. PICK q : q = rest \o r.got
    OBVIOUS
  <2>2. PICK z : z = probed' \o (Via(file') \o fd')
    OBVIOUS
  <2>3. ReadsFrom(m, r)
    BY <1>5, DgetInOrder
  <2>4. probed' = r.probed /\ file' = r.file /\ fd' = r.fd
    BY <1>5 DEF In!Leaves
  <2>5. /\ r.got \in Seq(Nat) /\ file' \in Seq(Nat) /\ fd' \in Seq(Nat) /\ probed' \in Seq(Nat)
        /\ Len(probed') <= 1 /\ Len(r.got) <= m
        /\ synced => probed' = <<>>
        /\ ~synced => file' = file
    BY <2>3, <2>4 DEF ReadsFrom
  <2>6. r.got \o z = NextDue
    BY <2>2, <2>3, <2>4 DEF ReadsFrom, NextDue
  <2>7. q \in Seq(Nat) /\ Len(q) = Len(rest) + Len(r.got)
    BY <1>3, <2>1, <2>5, ConcatElements
  <2>8. z \in Seq(Nat)
    <3>1. Via(file') \in Seq(Nat)
      BY <2>5 DEF Via
    <3>2. Via(file') \o fd' \in Seq(Nat)
      BY <2>5, <3>1, ConcatElements
    <3>3. QED  BY <2>2, <2>5, <3>2, ConcatElements
  <2>9. q \o z = rest \o NextDue
    <3>1. PICK g : g = r.got
      OBVIOUS
    <3>2. rest \in Seq(Nat) /\ g \in Seq(Nat) /\ z \in Seq(Nat)
      BY <1>3, <2>5, <2>8, <3>1
    <3>3. (rest \o g) \o z = rest \o (g \o z)
      <4>1. Regroups(rest, g, z)
        BY ONLY <3>2, InPieces, Zenon
      <4>2. QED  BY ONLY <4>1 DEF Regroups
    <3>4. QED  BY <2>1, <2>6, <3>1, <3>3
  <2>10. synced => mixed \/ (Len(q) <= n /\ probed' = <<>>)
    <3>1. Len(rest) \in Nat /\ Len(r.got) \in Nat
      BY <1>3, <2>5
    <3>2. synced /\ ~mixed => Len(q) <= n
      BY <1>1, <1>5, <2>5, <2>7, <3>1
    <3>3. QED  BY <2>5, <3>2
  <2>11. In!HandsOut(q, n)
    BY <1>5, <2>1
  <2>12. QED  BY <1>1, <1>2, <2>2, <2>5, <2>7, <2>9, <2>10, <2>11, HandOutKeeps
<1>6. CASE In!Get(n) /\ ~(rest # <<>> /\ In!HandsOut(rest, n) /\ UNCHANGED In!source)
  <2>1. PICK m : m = IF synced THEN n ELSE InBufLen
    OBVIOUS
  <2>2. m \in Nat \ {0}
    BY <1>1, <2>1, MCStdInAssumption DEF In!StdInAssumption
  <2>3. rest = <<>>
    BY <1>6 DEF In!Get
  <2>4. PICK r \in In!Dget(m) : In!HandsOut(r.got, n) /\ In!Leaves(r)
    BY <1>6, <2>1 DEF In!Get
  <2>5. r.got \in Seq(Nat)
    BY <2>2, DgetInOrder DEF ReadsFrom
  <2>6. rest \o r.got = r.got
    BY <2>3, <2>5, NoneInPieces
  <2>7. synced => Len(rest) + m <= n
    BY <1>1, <2>1, <2>3
  <2>8. QED  BY <1>5, <2>2, <2>4, <2>6, <2>7
<1>7. CASE In!GetBuf(n) /\ ~(rest # <<>> /\ In!HandsOut(rest, n) /\ UNCHANGED In!source)
  <2>1. PICK m : m = In!Wants(n)
    OBVIOUS
  <2>2. Len(rest) < n /\ Len(rest) \in Nat
    BY <1>1, <1>3, <1>7 DEF In!GetBuf
  <2>3. m \in Nat \ {0} /\ (synced => Len(rest) + m <= n)
    <3>1. PICK l : l = Len(rest)
      OBVIOUS
    <3>2. m = IF synced THEN In!Least(n - l, InBufLen - l) ELSE InBufLen - l
      BY <2>1, <3>1 DEF In!Wants
    <3>3. l \in Nat /\ l < n
      BY <2>2, <3>1
    <3>4. In!Least(n - l, InBufLen - l) \in Nat \ {0} /\ l + In!Least(n - l, InBufLen - l) <= n
      BY ONLY <1>1, <3>3 DEF In!Least
    <3>5. InBufLen - l \in Nat \ {0}
      BY ONLY <1>1, <3>3
    <3>6. QED  BY <3>1, <3>2, <3>4, <3>5
  <2>4. PICK r \in In!Dget(m) : In!HandsOut(rest \o r.got, n) /\ In!Leaves(r)
    BY <1>7, <2>1, <2>2 DEF In!GetBuf
  <2>5. QED  BY <1>5, <2>3, <2>4
<1>8. QED  BY <1>4, <1>6, <1>7

(* What goes back to the FILE is what the device gives next. *)
LEMMA DungetsKeep ==
  ASSUME InTypes, NEW s \in Seq(Nat), In!Dungets(s)
  PROVE  /\ synced /\ fd' = fd /\ probed' = probed /\ probed = <<>> /\ file' = s \o file
         /\ file' \in Seq(Nat)
         /\ synced' = synced => NextDue' = s \o NextDue
<1>1. synced /\ probed = <<>> /\ fd' = fd /\ probed' = probed /\ file' = s \o file
  BY DEF In!Dungets, In!Shares
<1>2. s \in Seq(Nat) /\ file \in Seq(Nat) /\ fd \in Seq(Nat)
  BY DEF InTypes
<1>3. s \o file \in Seq(Nat) /\ file \o fd \in Seq(Nat)
  BY <1>2, ConcatElements
<1>4. (s \o file) \o fd = s \o (file \o fd)
  <2>1. Regroups(s, file, fd)
    BY ONLY <1>2, InPieces, Zenon
  <2>2. QED  BY ONLY <2>1 DEF Regroups
<1>5. PICK g : g = s \o file
  OBVIOUS
<1>6. g \o fd \in Seq(Nat)
  BY <1>2, <1>3, <1>5, ConcatElements
<1>7. <<>> \o (file \o fd) = file \o fd /\ <<>> \o (g \o fd) = g \o fd
  BY ONLY <1>3, <1>6, NoneInPieces
<1>8. NextDue = file \o fd
  BY <1>1, <1>7 DEF NextDue, Via
<1>9. ASSUME synced' = synced PROVE NextDue' = s \o NextDue
  <2>1. NextDue' = <<>> \o (g \o fd)
    BY <1>1, <1>5, <1>9 DEF NextDue, Via
  <2>2. QED  BY <1>4, <1>5, <1>7, <1>8, <2>1
<1>10. QED  BY <1>1, <1>3, <1>9

LEMMA RollbackKeeps ==
  ASSUME InTypes, Tidy, NEW n, In!Rollback(n)
  PROVE  KeepsDue
<1>1. /\ held \in Seq(Nat) /\ rest \in Seq(Nat) /\ fd \in Seq(Nat) /\ file \in Seq(Nat)
      /\ probed \in Seq(Nat) /\ Len(probed) <= 1 /\ inBuf \in 0..Len(held)
  BY DEF InTypes
<1>2. n \in Nat /\ n <= Len(held)
  BY <1>1 DEF In!Rollback
<1>3. PICK m \in Nat : m = Len(held) - n
  <2>1. PICK l \in Nat : l = Len(held)
    BY <1>1
  <2>2. l - n \in Nat
    BY <1>2, <2>1
  <2>3. QED  BY <2>1, <2>2
<1>4. PICK x : x = In!First(held, m)
  OBVIOUS
<1>5. PICK y : y = In!After(held, m)
  OBVIOUS
<1>6. x \in Seq(Nat) /\ y \in Seq(Nat) /\ x \o y = held
  BY <1>1, <1>4, <1>5, CutsInOrder
<1>7. PICK back : back = y \o rest /\ back \in Seq(Nat)
  BY <1>1, <1>6, ConcatElements
<1>8. /\ held' = x /\ inBuf' = 0 /\ synced' = synced /\ kept' = kept /\ byC' = byC
      /\ \/ In!Dungets(back) /\ rest' = <<>> /\ In!Mixes(FALSE)
         \/ In!Refuses(back) /\ rest' = back /\ In!Mixes(In!Shares)
  BY <1>3, <1>4, <1>5, <1>7 DEF In!Rollback
<1>9. In!Due = x \o (back \o NextDue)
  <2>1. PICK d : d = NextDue
    OBVIOUS
  <2>2. d \in Seq(Nat) /\ In!Due = held \o (rest \o d)
    BY <2>1, DueParts
  <2>3. (x \o y) \o (rest \o d) = x \o ((y \o rest) \o d)
    <3>1. x \in Seq(Nat) /\ y \in Seq(Nat) /\ rest \in Seq(Nat) /\ d \in Seq(Nat)
      BY <1>1, <1>6, <2>2
    <3>2. PICK v : v = rest \o d
      OBVIOUS
    <3>3. v \in Seq(Nat)
      BY <3>1, <3>2, ConcatElements
    <3>4. (y \o rest) \o d = y \o (rest \o d)
      <4>1. Regroups(y, rest, d)
        BY ONLY <3>1, InPieces, Zenon
      <4>2. QED  BY ONLY <4>1 DEF Regroups
    <3>5. (x \o y) \o v = x \o (y \o v)
      <4>1. Regroups(x, y, v)
        BY ONLY <3>1, <3>3, InPieces, Zenon
      <4>2. QED  BY ONLY <4>1 DEF Regroups
    <3>6. QED  BY ONLY <3>2, <3>4, <3>5
  <2>4. QED  BY <1>6, <1>7, <2>1, <2>2, <2>3
<1>10. CASE In!Dungets(back) /\ rest' = <<>> /\ In!Mixes(FALSE)
  <2>1. /\ synced /\ fd' = fd /\ probed' = probed /\ probed = <<>> /\ file' \in Seq(Nat)
        /\ NextDue' = back \o NextDue
    BY <1>7, <1>8, <1>10, DungetsKeep
  <2>2. Tidy' /\ mixed' \in BOOLEAN
    <3>1. rest' = <<>> /\ probed' = <<>> /\ rest' \in Seq(Nat) /\ probed' \in Seq(Nat)
      BY <1>10, <2>1
    <3>2. QED  BY <1>8, <1>10, <3>1, MixesTells
  <2>3. InTypes'
    <3>1. held' \in Seq(Nat) /\ inBuf' \in 0..Len(held') /\ rest' \in Seq(Nat)
      BY <1>6, <1>8, <1>10
    <3>2. QED  BY <1>1, <1>8, <2>1, <2>2, <3>1 DEF InTypes
  <2>4. In!Due' = x \o (<<>> \o NextDue') /\ NextDue' \in Seq(Nat)
    BY <1>8, <1>10, <2>3, DueAfter
  <2>5. <<>> \o NextDue' = NextDue'
    BY ONLY <2>4, NoneInPieces
  <2>6. In!Due' = In!Due
    BY <1>9, <2>1, <2>4, <2>5
  <2>7. QED  BY <1>8, <2>1, <2>2, <2>3, <2>6 DEF KeepsDue
<1>11. CASE In!Refuses(back) /\ rest' = back /\ In!Mixes(In!Shares)
  <2>1. fd' = fd /\ file' = file /\ probed' = probed
    BY <1>11 DEF In!Refuses, In!source
  <2>2. Tidy' /\ mixed' \in BOOLEAN
    <3>1. In!Shares \in BOOLEAN /\ (synced /\ ~mixed => In!Shares)
      BY DEF In!Shares, Tidy, InTypes
    <3>2. rest' \in Seq(Nat) /\ probed' \in Seq(Nat)
      BY <1>1, <1>7, <1>11, <2>1
    <3>3. QED  BY <1>8, <1>11, <3>1, <3>2, MixesTells
  <2>3. InTypes'
    <3>1. held' \in Seq(Nat) /\ inBuf' \in 0..Len(held') /\ rest' \in Seq(Nat)
      BY <1>6, <1>7, <1>8, <1>11
    <3>2. QED  BY <1>1, <1>8, <2>1, <2>2, <3>1 DEF InTypes
  <2>4. NextDue' = NextDue
    BY <1>8, <2>1 DEF NextDue, Via
  <2>5. In!Due' = x \o (back \o NextDue)
    BY <1>8, <1>11, <2>3, <2>4, DueAfter
  <2>6. QED  BY <1>8, <1>9, <2>1, <2>2, <2>3, <2>5 DEF KeepsDue
<1>12. QED  BY <1>8, <1>10, <1>11

(* An extraction takes what it keeps from the front of what is due. *)
TakesFront(n) ==
    /\ InTypes' /\ Tidy' /\ synced' = synced /\ byC' = byC
    /\ ~synced => file' = file
    /\ n \in 0..Len(held)
    /\ kept' = kept \cup In!ToSet(In!First(held, n))
    /\ In!Due' \in Seq(Nat) /\ In!Due = In!First(held, n) \o In!Due'

LEMMA FinishTakes ==
  ASSUME InTypes, Tidy, NEW n, In!Finish(n)
  PROVE  TakesFront(n)
<1>1. /\ held \in Seq(Nat) /\ rest \in Seq(Nat) /\ fd \in Seq(Nat) /\ file \in Seq(Nat)
      /\ probed \in Seq(Nat) /\ Len(probed) <= 1
  BY DEF InTypes
<1>2. n \in Nat /\ n \in 0..Len(held)
  BY <1>1 DEF In!Finish
<1>3. PICK x : x = In!First(held, n)
  OBVIOUS
<1>4. PICK y : y = In!After(held, n)
  OBVIOUS
<1>5. x \in Seq(Nat) /\ y \in Seq(Nat) /\ x \o y = held
  BY <1>1, <1>2, <1>3, <1>4, CutsInOrder
<1>6. /\ held' = <<>> /\ inBuf' = 0 /\ synced' = synced /\ byC' = byC
      /\ kept' = kept \cup In!ToSet(x)
      /\ In!Ungets(y)
  BY <1>3, <1>4 DEF In!Finish
<1>7. kept' \in SUBSET Nat /\ IsFiniteSet(kept')
  <2>1. In!ToSet(x) = ToSet(x)
    BY DEF In!ToSet, ToSet
  <2>2. IsFiniteSet(ToSet(x))
    BY <1>5, ElementsAreFew
  <2>3. ToSet(x) \subseteq Nat
    BY <1>5 DEF ToSet
  <2>4. IsFiniteSet(kept \cup ToSet(x))
    BY <2>2, FS_Union DEF InTypes
  <2>5. QED  BY <1>6, <2>1, <2>3, <2>4 DEF InTypes
<1>8. PICK d : d = rest \o NextDue
  OBVIOUS
<1>9. d \in Seq(Nat) /\ In!Due = held \o d
  BY <1>8, DueParts
<1>10. PICK e : e = y \o d
  OBVIOUS
<1>11. e \in Seq(Nat)
  BY <1>5, <1>9, <1>10, ConcatElements
<1>12. In!Due = x \o e
  <2>1. x \in Seq(Nat) /\ y \in Seq(Nat) /\ d \in Seq(Nat)
    BY <1>5, <1>9
  <2>2. (x \o y) \o d = x \o (y \o d)
    <3>1. Regroups(x, y, d)
      BY ONLY <2>1, InPieces, Zenon
    <3>2. QED  BY ONLY <3>1 DEF Regroups
  <2>3. QED  BY <1>5, <1>9, <1>10, <2>2
<1>13. ASSUME rest' \in Seq(Nat), fd' \in Seq(Nat), file' \in Seq(Nat), probed' \in Seq(Nat),
              Len(probed') <= 1, Tidy', mixed' \in BOOLEAN, ~synced => file' = file,
              rest' \o NextDue' = e
       PROVE  TakesFront(n)
  <2>1. InTypes'
    <3>1. held' \in Seq(Nat) /\ inBuf' \in 0..Len(held')
      BY <1>6
    <3>2. QED  BY <1>6, <1>7, <1>13, <3>1 DEF InTypes
  <2>2. In!Due' = <<>> \o e
    BY <1>6, <1>13, <2>1, DueAfter
  <2>3. <<>> \o e = e
    BY <1>11, NoneInPieces
  <2>4. QED  BY <1>2, <1>3, <1>6, <1>11, <1>12, <1>13, <2>1, <2>2, <2>3 DEF TakesFront
<1>14. CASE y = <<>> /\ UNCHANGED <<In!source, In!ends, rest>> /\ In!Mixes(FALSE)
  <2>1. fd' = fd /\ file' = file /\ probed' = probed /\ rest' = rest
    BY <1>14 DEF In!source
  <2>2. Tidy' /\ mixed' \in BOOLEAN
    BY <1>1, <1>6, <1>14, <2>1, MixesTells DEF Tidy
  <2>3. NextDue' = NextDue
    BY <1>6, <2>1 DEF NextDue, Via
  <2>4. e = d
    BY <1>9, <1>10, <1>14, NoneInPieces
  <2>5. QED  BY <1>1, <1>8, <1>13, <2>1, <2>2, <2>3, <2>4
<1>15. CASE rest = <<>> /\ In!Dungets(y) /\ UNCHANGED rest /\ In!Mixes(FALSE)
  <2>1. /\ synced /\ fd' = fd /\ probed' = probed /\ probed = <<>> /\ file' \in Seq(Nat)
        /\ NextDue' = y \o NextDue
    BY <1>5, <1>6, <1>15, DungetsKeep
  <2>2. rest' = <<>>
    BY <1>15
  <2>3. Tidy' /\ mixed' \in BOOLEAN
    BY <1>1, <1>6, <1>15, <2>1, <2>2, MixesTells
  <2>4. NextDue \in Seq(Nat)
    BY DueParts
  <2>5. d = NextDue
    BY <1>8, <1>15, <2>4, NoneInPieces
  <2>6. <<>> \o e = e
    BY <1>11, NoneInPieces
  <2>7. rest' \o NextDue' = e
    BY <1>10, <2>1, <2>2, <2>5, <2>6
  <2>8. QED  BY <1>1, <1>13, <2>1, <2>2, <2>3, <2>7
<1>16. ASSUME NEW now \in BOOLEAN, In!Mixes(now), synced /\ ~mixed => now, UNCHANGED In!source,
              rest' = y \o rest
       PROVE  TakesFront(n)
  <2>1. fd' = fd /\ file' = file /\ probed' = probed
    BY <1>16 DEF In!source
  <2>2. rest' \in Seq(Nat)
    BY <1>1, <1>5, <1>16, ConcatElements
  <2>3. Tidy' /\ mixed' \in BOOLEAN
    BY <1>1, <1>6, <1>16, <2>1, <2>2, MixesTells
  <2>4. NextDue' = NextDue
    BY <1>6, <2>1 DEF NextDue, Via
  <2>5. rest' \o NextDue' = e
    <3>1. PICK w \in Seq(Nat) : w = NextDue
      BY DueParts
    <3>2. rest \in Seq(Nat) /\ y \in Seq(Nat)
      BY <1>1, <1>5
    <3>3. (y \o rest) \o w = y \o (rest \o w)
      <4>1. Regroups(y, rest, w)
        BY ONLY <3>2, w \in Seq(Nat), InPieces, Zenon
      <4>2. QED  BY ONLY <4>1 DEF Regroups
    <3>4. QED  BY <1>8, <1>10, <1>16, <2>4, <3>1, <3>3
  <2>6. QED  BY <1>1, <1>13, <2>1, <2>2, <2>3, <2>5
<1>17. CASE rest = <<>> /\ rest' = y \o rest /\ In!Refuses(y) /\ In!Mixes(In!Shares)
  <2>1. In!Shares \in BOOLEAN /\ (synced /\ ~mixed => In!Shares)
    BY DEF In!Shares, Tidy, InTypes
  <2>2. QED  BY <1>16, <1>17, <2>1 DEF In!Refuses
<1>18. CASE rest # <<>> /\ rest' = y \o rest /\ UNCHANGED <<In!source, In!ends>> /\ In!Mixes(FALSE)
  <2>1. synced /\ ~mixed => FALSE
    BY <1>18 DEF Tidy, InTypes
  <2>2. QED  BY <1>16, <1>18, <2>1
<1>19. QED  BY <1>6, <1>14, <1>15, <1>17, <1>18 DEF In!Ungets

(* is_eof(): what it reads to know comes next, in the FILE or in the device. *)
LEMMA IsEofKeeps ==
  ASSUME InTypes, Tidy, In!IsEof
  PROVE  KeepsDue
<1>1. /\ held \in Seq(Nat) /\ rest = <<>> /\ probed = <<>> /\ <<>> \in Seq(Nat)
      /\ fd \in Seq(Nat) /\ file \in Seq(Nat)
  BY DEF InTypes, In!IsEof, In!Probes
<1>2. /\ rest' = rest /\ held' = held /\ inBuf' = inBuf
      /\ synced' = synced /\ kept' = kept /\ byC' = byC /\ In!Mixes(FALSE)
  BY DEF In!IsEof
<1>3. ASSUME fd' \in Seq(Nat), file' \in Seq(Nat), probed' \in Seq(Nat), Len(probed') <= 1,
             synced => probed' = <<>>, ~synced => file' = file, NextDue' = NextDue
      PROVE  KeepsDue
  <2>1. Tidy' /\ mixed' \in BOOLEAN
    <3>1. rest' = <<>> /\ rest' \in Seq(Nat)
      BY <1>1, <1>2
    <3>2. QED  BY <1>2, <1>3, <3>1, MixesTells
  <2>2. InTypes'
    BY <1>2, <1>3, <2>1 DEF InTypes
  <2>3. In!Due' = In!Due
    <3>1. In!Due' = held' \o (rest' \o NextDue')
      BY <2>2, DueAfter
    <3>2. QED  BY <1>2, <1>3, <3>1, DueParts
  <2>4. QED  BY <1>2, <1>3, <2>1, <2>2, <2>3 DEF KeepsDue
<1>4. CASE synced
  <2>1. PICK r \in In!FileRead(1) : fd' = r.fd /\ file' = r.got \o r.file /\ probed' = probed
    BY <1>4 DEF In!IsEof
  <2>2. r.got \in Seq(Nat) /\ r.file \in Seq(Nat) /\ r.fd \in Seq(Nat)
    BY FileReadsInOrder
  <2>3. r.got \o (r.file \o r.fd) = file \o fd
    BY FileReadsInOrder
  <2>4. PICK g : g = r.got
    OBVIOUS
  <2>5. PICK f : f = r.file
    OBVIOUS
  <2>6. PICK w : w = r.fd
    OBVIOUS
  <2>7. g \in Seq(Nat) /\ f \in Seq(Nat) /\ w \in Seq(Nat)
    BY <2>2, <2>4, <2>5, <2>6
  <2>8. (g \o f) \o w = g \o (f \o w)
    <3>1. Regroups(g, f, w)
      BY ONLY <2>7, InPieces, Zenon
    <3>2. QED  BY ONLY <3>1 DEF Regroups
  <2>9. g \o f \in Seq(Nat)
    BY <2>7, ConcatElements
  <2>10. file' = g \o f /\ fd' = w
    BY <2>1, <2>4, <2>5, <2>6
  <2>11. NextDue' = NextDue
    <3>1. NextDue' = <<>> \o ((g \o f) \o w)
      BY <1>1, <1>2, <1>4, <2>1, <2>10 DEF NextDue, Via
    <3>2. NextDue = <<>> \o (file \o fd)
      BY <1>1, <1>4 DEF NextDue, Via
    <3>3. QED  BY <2>3, <2>4, <2>5, <2>6, <2>8, <3>1, <3>2
  <2>12. QED  BY <1>1, <1>3, <1>4, <2>1, <2>7, <2>9, <2>10, <2>11
<1>5. CASE ~synced
  <2>1. PICK r \in In!FdRead(1) : fd' = r.fd /\ probed' = probed \o r.got /\ file' = file
    BY <1>5 DEF In!IsEof
  <2>2. r.probed = <<>> /\ r.file = file
    BY <1>1, <2>1 DEF In!FdRead, In!Nothing, In!Outcome
  <2>3. ReadsFrom(1, r)
    <3>1. r \in In!Dget(1)
      BY <1>1, <1>5 DEF In!Dget, In!FdGet
    <3>2. QED  BY <3>1, DgetInOrder
  <2>4. PICK g : g = r.got
    OBVIOUS
  <2>5. g \in Seq(Nat) /\ Len(g) <= 1 /\ fd' \in Seq(Nat)
    BY <2>1, <2>3, <2>4 DEF ReadsFrom
  <2>6. probed' = g
    <3>1. <<>> \o g = g
      BY <2>5, NoneInPieces
    <3>2. QED  BY <1>1, <2>1, <2>4, <3>1
  <2>7. NextDue' = NextDue
    <3>1. NextDue' = g \o (<<>> \o fd')
      BY <1>2, <1>5, <2>6 DEF NextDue, Via
    <3>2. NextDue = g \o (<<>> \o (<<>> \o fd'))
      BY <1>5, <2>1, <2>2, <2>3, <2>4 DEF ReadsFrom, NextDue, Via
    <3>3. <<>> \o fd' = fd'
      BY <2>5, NoneInPieces
    <3>4. QED  BY <3>1, <3>2, <3>3
  <2>8. QED  BY <1>1, <1>3, <1>5, <2>1, <2>5, <2>6, <2>7
<1>6. QED  BY <1>1, <1>4, <1>5

(* A switch moves no byte; and it is what is told by the flag. *)
LEMMA SynchronizeKeeps ==
  ASSUME InTypes, In!Synchronize
  PROVE  /\ InTypes' /\ Tidy' /\ synced' # synced /\ kept' = kept /\ byC' = byC
         /\ In!Everywhere' = In!Everywhere
<1>1. /\ fd' = fd /\ file' = file /\ probed' = probed /\ rest' = rest /\ held' = held
      /\ inBuf' = inBuf /\ kept' = kept /\ byC' = byC
  BY DEF In!Synchronize, In!source
<1>2. synced' = ~synced /\ In!Mixes(TRUE)
  BY DEF In!Synchronize
<1>3. rest \in Seq(Nat) /\ probed \in Seq(Nat)
  BY DEF InTypes
<1>4. PICK w : w = rest \o probed
  OBVIOUS
<1>5. mixed' = (w # <<>>)
  BY <1>1, <1>2, <1>4 DEF In!Mixes
<1>6. w = <<>> => rest = <<>> /\ probed = <<>>
  <2>1. Len(w) = Len(rest) + Len(probed)
    BY <1>3, <1>4, ConcatElements
  <2>2. QED  BY <1>3, <2>1
<1>7. synced' \in BOOLEAN /\ synced' # synced
  BY <1>2 DEF InTypes
<1>8. Tidy'
  BY <1>1, <1>5, <1>6 DEF Tidy
<1>9. InTypes'
  <2>1. mixed' \in BOOLEAN
    BY <1>5
  <2>2. QED  BY <1>1, <1>7, <2>1 DEF InTypes
<1>10. In!Everywhere' = In!Everywhere
  BY <1>1 DEF In!Everywhere
<1>11. QED  BY <1>1, <1>7, <1>8, <1>9, <1>10

(* getchar() takes bytes that are next in the FILE. *)
LEMMA CGetTakes ==
  ASSUME InTypes, Tidy, In!CGet
  PROVE  /\ InTypes' /\ Tidy' /\ synced' = synced /\ kept' = kept
         /\ probed' = probed /\ rest' = rest /\ held' = held
         /\ \E g \in Seq(Nat) : /\ g # <<>> /\ byC' = byC \cup ToSet(g)
                                /\ g \o (file' \o fd') = file \o fd
<1>1. PICK r \in In!FileRead(1) : r.got # <<>> /\ byC' = byC \cup In!ToSet(r.got) /\ In!Leaves(r)
  BY DEF In!CGet
<1>2. /\ rest' = rest /\ synced' = synced /\ held' = held /\ inBuf' = inBuf
      /\ kept' = kept /\ mixed' = mixed
  BY DEF In!CGet
<1>3. /\ r.got \in Seq(Nat) /\ r.file \in Seq(Nat) /\ r.fd \in Seq(Nat)
      /\ r.probed = probed
  BY FileReadsInOrder
<1>4. r.got \o (r.file \o r.fd) = file \o fd
  BY FileReadsInOrder
<1>5. fd' = r.fd /\ file' = r.file /\ probed' = probed
  BY <1>1, <1>3 DEF In!Leaves
<1>6. PICK g : g = r.got
  OBVIOUS
<1>7. byC' = byC \cup ToSet(g)
  BY <1>1, <1>6 DEF In!ToSet, ToSet
<1>8. IsFiniteSet(byC') /\ byC' \in SUBSET Nat
  <2>1. IsFiniteSet(ToSet(g))
    BY <1>3, <1>6, ElementsAreFew
  <2>2. ToSet(g) \subseteq Nat
    BY <1>3, <1>6 DEF ToSet
  <2>3. IsFiniteSet(byC \cup ToSet(g))
    BY <2>1, FS_Union DEF InTypes
  <2>4. QED  BY <1>7, <2>2, <2>3 DEF InTypes
<1>9. InTypes'
  BY <1>2, <1>3, <1>5, <1>8 DEF InTypes
<1>10. Tidy'
  BY <1>2, <1>5 DEF Tidy
<1>11. g \in Seq(Nat) /\ g # <<>> /\ g \o (file' \o fd') = file \o fd
  BY <1>1, <1>3, <1>4, <1>5, <1>6
<1>12. QED  BY <1>2, <1>5, <1>7, <1>9, <1>10, <1>11

(* How many bytes are here, and which. *)
LEMMA TwoParts ==
  \A x, y \in Seq(Nat) : /\ x \o y \in Seq(Nat) /\ Len(x \o y) = Len(x) + Len(y)
                         /\ ToSet(x \o y) = ToSet(x) \cup ToSet(y)
  BY ConcatElements, ElementsOfConcat

LEMMA EverywhereParts ==
  ASSUME InTypes
  PROVE  /\ In!Everywhere \in Seq(Nat)
         /\ Len(In!Everywhere) = Len(fd) + Len(file) + Len(probed) + Len(rest) + Len(held)
         /\ ToSet(In!Everywhere) =
               ToSet(fd) \cup ToSet(file) \cup ToSet(probed) \cup ToSet(rest) \cup ToSet(held)
<1>1. /\ fd \in Seq(Nat) /\ file \in Seq(Nat) /\ probed \in Seq(Nat)
      /\ rest \in Seq(Nat) /\ held \in Seq(Nat)
  BY DEF InTypes
<1>2. PICK x \in Seq(Nat) : /\ x = fd \o file /\ Len(x) = Len(fd) + Len(file)
                            /\ ToSet(x) = ToSet(fd) \cup ToSet(file)
  BY <1>1, TwoParts
<1>3. PICK y \in Seq(Nat) : /\ y = x \o probed /\ Len(y) = Len(x) + Len(probed)
                            /\ ToSet(y) = ToSet(x) \cup ToSet(probed)
  BY <1>1, TwoParts
<1>4. PICK z \in Seq(Nat) : /\ z = y \o rest /\ Len(z) = Len(y) + Len(rest)
                            /\ ToSet(z) = ToSet(y) \cup ToSet(rest)
  BY <1>1, TwoParts
<1>5. PICK w \in Seq(Nat) : /\ w = z \o held /\ Len(w) = Len(z) + Len(held)
                            /\ ToSet(w) = ToSet(z) \cup ToSet(held)
  BY <1>1, TwoParts
<1>6. In!Everywhere = w
  BY <1>2, <1>3, <1>4, <1>5 DEF In!Everywhere
<1>7. QED  BY <1>2, <1>3, <1>4, <1>5, <1>6

(* What a stream that is not synchronized does not see. *)
Aside == IF synced THEN <<>> ELSE file

LEMMA DueCounts ==
  ASSUME InTypes
  PROVE  /\ In!Due \in Seq(Nat) /\ Aside \in Seq(Nat)
         /\ Len(In!Everywhere) = Len(In!Due) + Len(Aside)
         /\ ToSet(In!Everywhere) = ToSet(In!Due) \cup ToSet(Aside)
<1>1. /\ fd \in Seq(Nat) /\ file \in Seq(Nat) /\ probed \in Seq(Nat)
      /\ rest \in Seq(Nat) /\ held \in Seq(Nat) /\ <<>> \in Seq(Nat)
  BY DEF InTypes
<1>2. PICK f : f = Via(file)
  OBVIOUS
<1>3. f \in Seq(Nat) /\ Aside \in Seq(Nat)
  <2>1. f = (IF synced THEN file ELSE <<>>) /\ Aside = (IF synced THEN <<>> ELSE file)
    BY <1>2 DEF Via, Aside
  <2>2. QED  BY <1>1, <2>1
<1>4. PICK x \in Seq(Nat) : /\ x = held \o rest /\ Len(x) = Len(held) + Len(rest)
                            /\ ToSet(x) = ToSet(held) \cup ToSet(rest)
  BY <1>1, TwoParts
<1>5. PICK y \in Seq(Nat) : /\ y = x \o probed /\ Len(y) = Len(x) + Len(probed)
                            /\ ToSet(y) = ToSet(x) \cup ToSet(probed)
  BY <1>1, TwoParts
<1>6. PICK z \in Seq(Nat) : /\ z = y \o f /\ Len(z) = Len(y) + Len(f)
                            /\ ToSet(z) = ToSet(y) \cup ToSet(f)
  BY <1>3, TwoParts
<1>7. PICK w \in Seq(Nat) : /\ w = z \o fd /\ Len(w) = Len(z) + Len(fd)
                            /\ ToSet(w) = ToSet(z) \cup ToSet(fd)
  BY <1>1, TwoParts
<1>8. In!Due = w
  BY <1>2, <1>4, <1>5, <1>6, <1>7 DEF In!Due, Via
<1>9. Len(<<>>) = 0 /\ ToSet(<<>>) = {}
  BY DEF ToSet
<1>10. Len(f) + Len(Aside) = Len(file) /\ ToSet(f) \cup ToSet(Aside) = ToSet(file)
  <2>1. CASE synced
    <3>1. f = file /\ Aside = <<>>
      BY <1>2, <2>1 DEF Via, Aside
    <3>2. QED  BY <1>1, <1>9, <3>1
  <2>2. CASE ~synced
    <3>1. f = <<>> /\ Aside = file
      BY <1>2, <2>2 DEF Via, Aside
    <3>2. QED  BY <1>1, <1>9, <3>1
  <2>3. QED  BY <2>1, <2>2
<1>11. Len(In!Everywhere) = Len(w) + Len(Aside)
  <2>1. Len(In!Everywhere) = Len(fd) + Len(file) + Len(probed) + Len(rest) + Len(held)
    BY EverywhereParts
  <2>2. /\ Len(fd) \in Nat /\ Len(file) \in Nat /\ Len(probed) \in Nat /\ Len(rest) \in Nat
        /\ Len(held) \in Nat /\ Len(f) \in Nat /\ Len(Aside) \in Nat
        /\ Len(x) \in Nat /\ Len(y) \in Nat /\ Len(z) \in Nat /\ Len(w) \in Nat
    BY <1>1, <1>3, <1>4, <1>5, <1>6, <1>7
  <2>3. /\ Len(x) = Len(held) + Len(rest) /\ Len(y) = Len(x) + Len(probed)
        /\ Len(z) = Len(y) + Len(f) /\ Len(w) = Len(z) + Len(fd)
        /\ Len(f) + Len(Aside) = Len(file)
    BY <1>4, <1>5, <1>6, <1>7, <1>10
  <2>4. PICK i \in Nat : i = Len(fd)
    BY <2>2
  <2>5. PICK j \in Nat : j = Len(file)
    BY <2>2
  <2>6. PICK k \in Nat : k = Len(probed)
    BY <2>2
  <2>7. PICK l \in Nat : l = Len(rest)
    BY <2>2
  <2>8. PICK m \in Nat : m = Len(held)
    BY <2>2
  <2>9. PICK n \in Nat : n = Len(f)
    BY <2>2
  <2>10. PICK u \in Nat : u = Len(Aside)
    BY <2>2
  <2>11. j = n + u /\ Len(w) = (((m + l) + k) + n) + i
    BY ONLY <2>3, <2>4, <2>5, <2>6, <2>7, <2>8, <2>9, <2>10
  <2>12. i + j + k + l + m = ((((m + l) + k) + n) + i) + u
    BY <2>11
  <2>13. Len(In!Everywhere) = i + j + k + l + m
    BY ONLY <2>1, <2>4, <2>5, <2>6, <2>7, <2>8
  <2>14. QED  BY ONLY <2>10, <2>11, <2>12, <2>13
<1>12. ToSet(In!Everywhere) = ToSet(w) \cup ToSet(Aside)
  <2>1. ToSet(In!Everywhere) =
            ToSet(fd) \cup ToSet(file) \cup ToSet(probed) \cup ToSet(rest) \cup ToSet(held)
    BY EverywhereParts
  <2>2. /\ ToSet(x) = ToSet(held) \cup ToSet(rest) /\ ToSet(y) = ToSet(x) \cup ToSet(probed)
        /\ ToSet(z) = ToSet(y) \cup ToSet(f) /\ ToSet(w) = ToSet(z) \cup ToSet(fd)
        /\ ToSet(f) \cup ToSet(Aside) = ToSet(file)
    BY <1>4, <1>5, <1>6, <1>7, <1>10
  <2>3. QED  BY ONLY <2>1, <2>2
<1>13. QED  BY <1>3, <1>8, <1>11, <1>12

LEMMA UnionIsFew ==
  ASSUME NEW S, NEW T, IsFiniteSet(S), IsFiniteSet(T)
  PROVE  /\ IsFiniteSet(S \cup T)
         /\ Cardinality(S) \in Nat /\ Cardinality(T) \in Nat /\ Cardinality(S \cup T) \in Nat
         /\ Cardinality(S \cup T) <= Cardinality(S) + Cardinality(T)
<1>1. /\ IsFiniteSet(S \cup T)
      /\ Cardinality(S \cup T) = Cardinality(S) + Cardinality(T) - Cardinality(S \cap T)
  BY FS_Union
<1>2. IsFiniteSet(S \cap T)
  BY FS_Intersection
<1>3. /\ Cardinality(S) \in Nat /\ Cardinality(T) \in Nat /\ Cardinality(S \cup T) \in Nat
      /\ Cardinality(S \cap T) \in Nat
  BY <1>1, <1>2, FS_CardinalityType
<1>4. PICK i \in Nat : i = Cardinality(S)
  BY <1>3
<1>5. PICK j \in Nat : j = Cardinality(T)
  BY <1>3
<1>6. PICK k \in Nat : k = Cardinality(S \cap T)
  BY <1>3
<1>7. Cardinality(S \cup T) = i + j - k /\ i + j - k <= i + j
  BY <1>1, <1>4, <1>5, <1>6
<1>8. QED  BY <1>1, <1>3, <1>4, <1>5, <1>7

(* All the bytes are somewhere: then no byte is in two places as soon as   *)
(* no more are counted than there are.                                     *)
LEMMA Counting ==
  ASSUME NEW x \in Seq(Nat), NEW S, NEW T, IsFiniteSet(S), IsFiniteSet(T),
         ToSet(x) \cup S \cup T = 1..InputLen,
         Len(x) + Cardinality(S) + Cardinality(T) <= InputLen
  PROVE  Len(x) + Cardinality(S) + Cardinality(T) = InputLen
<1>1. InputLen \in Nat
  BY MCStdInAssumption DEF In!StdInAssumption
<1>2. Cardinality(1..InputLen) = InputLen
  <2>1. 0 + 1 = 1 /\ InputLen - 1 + 1 = InputLen /\ 1 \in Int /\ InputLen \in Int
    BY <1>1
  <2>2. Cardinality(1..InputLen) = IF 1 > InputLen THEN 0 ELSE InputLen - 1 + 1
    BY <2>1, FS_Interval
  <2>3. QED  BY <1>1, <2>1, <2>2
<1>3. IsFiniteSet(ToSet(x)) /\ Cardinality(ToSet(x)) <= Len(x)
  BY ElementsAreFew
<1>4. PICK U : U = ToSet(x) \cup S
  OBVIOUS
<1>5. /\ IsFiniteSet(U) /\ Cardinality(U) \in Nat /\ Cardinality(S) \in Nat
      /\ Cardinality(ToSet(x)) \in Nat
      /\ Cardinality(U) <= Cardinality(ToSet(x)) + Cardinality(S)
  BY <1>3, <1>4, UnionIsFew
<1>6. Cardinality(T) \in Nat /\ Cardinality(U \cup T) <= Cardinality(U) + Cardinality(T)
  BY <1>5, UnionIsFew
<1>7. U \cup T = 1..InputLen
  BY <1>4
<1>8. Len(x) \in Nat
  OBVIOUS
<1>9. PICK i \in Nat : i = Cardinality(ToSet(x))
  BY <1>5
<1>10. PICK j \in Nat : j = Cardinality(S)
  BY <1>5
<1>11. PICK k \in Nat : k = Cardinality(T)
  BY <1>6
<1>12. PICK l \in Nat : l = Len(x)
  BY <1>8
<1>13. PICK m \in Nat : m = Cardinality(U)
  BY <1>5
<1>14. m <= i + j /\ InputLen <= m + k /\ i <= l /\ l + j + k <= InputLen
  BY <1>2, <1>3, <1>5, <1>6, <1>7, <1>9, <1>10, <1>11, <1>12, <1>13
<1>15. l + j + k = InputLen
  BY ONLY <1>1, <1>14
<1>16. QED  BY <1>10, <1>11, <1>12, <1>15

(* ByteOnce, with the elements spelt out.                                  *)
LEMMA OnceSpelt ==
  In!ByteOnce <=> /\ Len(In!Everywhere) + Cardinality(kept) + Cardinality(byC) = InputLen
                  /\ ToSet(In!Everywhere) \cup kept \cup byC = 1..InputLen
<1>1. In!ToSet(In!Everywhere) = ToSet(In!Everywhere)
  BY DEF In!ToSet, ToSet
<1>2. In!ToSet(In!All) = 1..InputLen
  <2>1. InputLen \in Nat
    BY MCStdInAssumption DEF In!StdInAssumption
  <2>2. DOMAIN In!All = 1..InputLen /\ \A i \in 1..InputLen : In!All[i] = i
    BY DEF In!All
  <2>3. In!ToSet(In!All) = {In!All[i] : i \in DOMAIN In!All}
    BY DEF In!ToSet
  <2>4. {In!All[i] : i \in 1..InputLen} = 1..InputLen
    BY <2>2
  <2>5. QED  BY <2>2, <2>3, <2>4
<1>3. In!Cardinality(kept) = Cardinality(kept) /\ In!Cardinality(byC) = Cardinality(byC)
  BY DEF In!Cardinality, Cardinality
<1>4. QED  BY <1>1, <1>2, <1>3 DEF In!ByteOnce

InInv == InTypes /\ In!ByteOnce /\ Tidy

LEMMA CountsAfter ==
  ASSUME InTypes'
  PROVE  /\ In!Due' \in Seq(Nat) /\ Aside' \in Seq(Nat) /\ In!Everywhere' \in Seq(Nat)
         /\ Len(In!Everywhere') = Len(In!Due') + Len(Aside')
         /\ ToSet(In!Everywhere') = ToSet(In!Due') \cup ToSet(Aside')
         /\ IsFiniteSet(kept') /\ IsFiniteSet(byC')
<1>1. (InTypes => /\ In!Due \in Seq(Nat) /\ Aside \in Seq(Nat)
                  /\ Len(In!Everywhere) = Len(In!Due) + Len(Aside)
                  /\ ToSet(In!Everywhere) = ToSet(In!Due) \cup ToSet(Aside))'
  BY DueCounts, PTL
<1>2. (InTypes => In!Everywhere \in Seq(Nat))'
  BY EverywhereParts, PTL
<1>3. (InTypes => IsFiniteSet(kept) /\ IsFiniteSet(byC))'
  BY DEF InTypes
<1>4. QED  BY <1>1, <1>2, <1>3

LEMMA OnceAfter ==
  In!ByteOnce' <=>
      /\ Len(In!Everywhere') + Cardinality(kept') + Cardinality(byC') = InputLen
      /\ ToSet(In!Everywhere') \cup kept' \cup byC' = 1..InputLen
<1>1. (In!ByteOnce <=>
          /\ Len(In!Everywhere) + Cardinality(kept) + Cardinality(byC) = InputLen
          /\ ToSet(In!Everywhere) \cup kept \cup byC = 1..InputLen)'
  BY OnceSpelt, PTL
<1>2. QED  BY <1>1

(* A step that keeps what is due. *)
LEMMA KeptInOrder ==
  ASSUME InInv, KeepsDue
  PROVE  InInv' /\ In!ReadOn
<1>1. /\ InTypes' /\ Tidy' /\ synced' = synced /\ kept' = kept /\ byC' = byC
      /\ In!Due' = In!Due
  BY DEF KeepsDue
<1>2. Aside' = Aside
  BY DEF KeepsDue, Aside
<1>3. /\ Len(In!Everywhere') = Len(In!Everywhere)
      /\ ToSet(In!Everywhere') = ToSet(In!Everywhere)
  <2>1. /\ Len(In!Everywhere) = Len(In!Due) + Len(Aside)
        /\ ToSet(In!Everywhere) = ToSet(In!Due) \cup ToSet(Aside)
    BY DueCounts DEF InInv
  <2>2. /\ Len(In!Everywhere') = Len(In!Due') + Len(Aside')
        /\ ToSet(In!Everywhere') = ToSet(In!Due') \cup ToSet(Aside')
    BY <1>1, CountsAfter
  <2>3. QED  BY ONLY <1>1, <1>2, <2>1, <2>2
<1>4. In!ByteOnce'
  <2>1. /\ Len(In!Everywhere) + Cardinality(kept) + Cardinality(byC) = InputLen
        /\ ToSet(In!Everywhere) \cup kept \cup byC = 1..InputLen
    BY OnceSpelt DEF InInv
  <2>2. /\ Len(In!Everywhere') + Cardinality(kept') + Cardinality(byC') = InputLen
        /\ ToSet(In!Everywhere') \cup kept' \cup byC' = 1..InputLen
    BY ONLY <1>1, <1>3, <2>1
  <2>3. QED  BY <2>2, OnceAfter
<1>5. QED  BY <1>1, <1>4 DEF InInv, In!ReadOn

(* Bytes that go from here to those that were kept or read: none is in two *)
(* places before, so none is after.                                        *)
Counted(x, S, T) ==
    /\ IsFiniteSet(S) /\ IsFiniteSet(T)
    /\ Len(x) + Cardinality(S) + Cardinality(T) = InputLen
    /\ ToSet(x) \cup S \cup T = 1..InputLen

TakenFrom(x, y, g) == Len(x) = Len(y) + Len(g) /\ ToSet(x) = ToSet(y) \cup ToSet(g)

LEMMA CountsGoOn ==
  \A x, y, g \in Seq(Nat) : \A S, T :
      Counted(x, S, T) /\ TakenFrom(x, y, g) =>
          Counted(y, S \cup ToSet(g), T) /\ (S \cup ToSet(g) = S => g = <<>>)
<1> SUFFICES ASSUME NEW x \in Seq(Nat), NEW y \in Seq(Nat), NEW g \in Seq(Nat), NEW S, NEW T,
                    Counted(x, S, T), TakenFrom(x, y, g)
             PROVE  Counted(y, S \cup ToSet(g), T) /\ (S \cup ToSet(g) = S => g = <<>>)
  BY Zenon
<1>a. /\ IsFiniteSet(S) /\ IsFiniteSet(T)
      /\ Len(x) + Cardinality(S) + Cardinality(T) = InputLen
      /\ ToSet(x) \cup S \cup T = 1..InputLen
  BY DEF Counted
<1>b. Len(x) = Len(y) + Len(g) /\ ToSet(x) = ToSet(y) \cup ToSet(g)
  BY DEF TakenFrom
<1>1. IsFiniteSet(ToSet(g)) /\ Cardinality(ToSet(g)) <= Len(g)
  BY ElementsAreFew
<1>2. PICK V : V = S \cup ToSet(g)
  OBVIOUS
<1>3. /\ IsFiniteSet(V) /\ Cardinality(V) \in Nat /\ Cardinality(S) \in Nat
      /\ Cardinality(ToSet(g)) \in Nat /\ Cardinality(V) <= Cardinality(S) + Cardinality(ToSet(g))
  BY <1>1, <1>2, <1>a, UnionIsFew
<1>4. Cardinality(T) \in Nat
  BY <1>a, FS_CardinalityType
<1>5. InputLen \in Nat
  BY MCStdInAssumption DEF In!StdInAssumption
<1>6. PICK i \in Nat : i = Cardinality(S)
  BY <1>3
<1>7. PICK j \in Nat : j = Cardinality(T)
  BY <1>4
<1>8. PICK k \in Nat : k = Cardinality(V)
  BY <1>3
<1>9. PICK l \in Nat : l = Len(y)
  OBVIOUS
<1>10. PICK m \in Nat : m = Len(g)
  OBVIOUS
<1>11. PICK n \in Nat : n = Cardinality(ToSet(g))
  BY <1>3
<1>12. l + m + i + j = InputLen /\ n <= m /\ k <= i + n
  BY <1>1, <1>3, <1>6, <1>7, <1>8, <1>9, <1>10, <1>11, <1>a, <1>b
<1>13. l + k + j <= InputLen
  BY ONLY <1>5, <1>12, n \in Nat, m \in Nat, l \in Nat, k \in Nat, j \in Nat, i \in Nat
<1>14. ToSet(y) \cup V \cup T = 1..InputLen
  BY <1>2, <1>a, <1>b
<1>15. Len(y) + Cardinality(V) + Cardinality(T) = InputLen
  <2>1. Len(y) + Cardinality(V) + Cardinality(T) <= InputLen
    BY ONLY <1>7, <1>8, <1>9, <1>13
  <2>2. QED  BY ONLY <1>3, <1>14, <2>1, <1>a, y \in Seq(Nat), Counting
<1>16. ASSUME V = S PROVE g = <<>>
  <2>1. l + i + j = InputLen
    BY <1>6, <1>7, <1>8, <1>9, <1>15, <1>16
  <2>2. m = 0
    BY ONLY <1>5, <1>12, <2>1, m \in Nat, l \in Nat, j \in Nat, i \in Nat
  <2>3. Len(g) = 0
    BY ONLY <1>10, <2>2
  <2>4. QED  BY ONLY <2>3, g \in Seq(Nat)
<1>17. IsFiniteSet(V)
  BY <1>3
<1>18. QED  BY <1>2, <1>14, <1>15, <1>16, <1>17 DEF Counted

(* What comes first is cut off again. *)
LEMMA CutOfConcat ==
  ASSUME NEW x \in Seq(Nat), NEW y \in Seq(Nat)
  PROVE  In!First(x \o y, Len(x)) = x /\ In!After(x \o y, Len(x)) = y
<1>1. PICK m \in Nat : m = Len(x)
  OBVIOUS
<1>2. PICK n \in Nat : n = Len(y)
  OBVIOUS
<1>3. PICK w : w = x \o y
  OBVIOUS
<1>4. w \in Seq(Nat) /\ Len(w) = m + n
  BY <1>1, <1>2, <1>3, ConcatElements
<1>5. In!First(w, m) = SubSeq(w, 1, m)
  <2>1. In!Least(m, m + n) = m
    BY DEF In!Least
  <2>2. QED  BY <1>4, <2>1 DEF In!First
<1>6. SubSeq(w, 1, m + 0) = x \o SubSeq(y, 1, 0)
  <2>1. 0 \in Nat /\ 0 <= Len(y)
    BY <1>2
  <2>2. SubSeq(x \o y, 1, Len(x) + 0) = x \o SubSeq(y, 1, 0)
    BY <2>1, PiecesOfConcat
  <2>3. QED  BY ONLY <1>1, <1>3, <2>2
<1>7. SubSeq(y, 1, 0) = <<>> /\ m + 0 = m
  <2>1. Len(SubSeq(y, 1, 0)) = 0 /\ SubSeq(y, 1, 0) \in Seq(Nat)
    BY <1>2, PrefixElements
  <2>2. QED  BY <2>1
<1>8. SubSeq(w, m + 1, m + n) = SubSeq(y, 1, n)
  <2>1. n <= Len(y)
    BY <1>2
  <2>2. SubSeq(x \o y, Len(x) + 1, Len(x) + n) = SubSeq(y, 1, n)
    BY <2>1, PiecesOfConcat
  <2>3. QED  BY ONLY <1>1, <1>3, <2>2
<1>9. SubSeq(y, 1, n) = y
  BY <1>2, WholePiece
<1>10. In!After(w, m) = y
  BY <1>4, <1>8, <1>9 DEF In!After
<1>11. x \o <<>> = x
  BY NoneInPieces
<1>12. QED  BY <1>1, <1>3, <1>5, <1>6, <1>7, <1>10, <1>11

(* An extraction ends. *)
LEMMA TakenInOrder ==
  ASSUME InInv, NEW n, TakesFront(n)
  PROVE  InInv' /\ In!ReadOn
<1>1. /\ InTypes' /\ Tidy' /\ synced' = synced /\ byC' = byC /\ n \in 0..Len(held)
  BY DEF TakesFront
<1>2. Aside' = Aside
  BY DEF TakesFront, Aside
<1>3. PICK x : x = In!First(held, n)
  OBVIOUS
<1>4. held \in Seq(Nat) /\ n \in Nat
  BY <1>1 DEF InInv, InTypes
<1>5. x \in Seq(Nat) /\ Len(x) = n
  <2>1. Len(x) = In!Least(n, Len(held)) /\ x \in Seq(Nat)
    BY <1>3, <1>4, CutElements
  <2>2. In!Least(n, Len(held)) = n
    BY <1>1, <1>4 DEF In!Least
  <2>3. QED  BY <2>1, <2>2
<1>6. PICK d : d = In!Due'
  OBVIOUS
<1>7. d \in Seq(Nat) /\ In!Due = x \o d /\ kept' = kept \cup ToSet(x)
  <2>1. In!ToSet(x) = ToSet(x)
    BY DEF In!ToSet, ToSet
  <2>2. QED  BY <1>3, <1>6, <2>1 DEF TakesFront
<1>8. PICK E : E = In!Everywhere
  OBVIOUS
<1>9. PICK F : F = In!Everywhere'
  OBVIOUS
<1>10. /\ E \in Seq(Nat) /\ F \in Seq(Nat) /\ Aside \in Seq(Nat)
       /\ Len(E) = Len(x \o d) + Len(Aside) /\ ToSet(E) = ToSet(x \o d) \cup ToSet(Aside)
       /\ Len(F) = Len(d) + Len(Aside) /\ ToSet(F) = ToSet(d) \cup ToSet(Aside)
  <2>1. /\ Len(E) = Len(x \o d) + Len(Aside) /\ ToSet(E) = ToSet(x \o d) \cup ToSet(Aside)
        /\ Aside \in Seq(Nat)
    BY <1>7, <1>8, DueCounts DEF InInv
  <2>2. /\ F \in Seq(Nat) /\ Len(F) = Len(d) + Len(Aside)
        /\ ToSet(F) = ToSet(d) \cup ToSet(Aside)
    BY <1>1, <1>2, <1>6, <1>9, CountsAfter
  <2>3. E \in Seq(Nat)
    BY <1>8, EverywhereParts DEF InInv
  <2>4. QED  BY <2>1, <2>2, <2>3
<1>11. Len(x \o d) = Len(x) + Len(d) /\ ToSet(x \o d) = ToSet(x) \cup ToSet(d)
  BY <1>5, <1>7, TwoParts
<1>12. Len(E) = Len(F) + Len(x) /\ ToSet(E) = ToSet(F) \cup ToSet(x)
  <2>1. Len(x) \in Nat /\ Len(d) \in Nat /\ Len(Aside) \in Nat
    BY <1>5, <1>7, <1>10
  <2>2. Len(E) = Len(F) + Len(x)
    BY ONLY <1>10, <1>11, <2>1
  <2>3. ToSet(E) = ToSet(F) \cup ToSet(x)
    BY ONLY <1>10, <1>11
  <2>4. QED  BY <2>2, <2>3
<1>13. /\ Len(E) + Cardinality(kept) + Cardinality(byC) = InputLen
       /\ ToSet(E) \cup kept \cup byC = 1..InputLen
       /\ IsFiniteSet(kept) /\ IsFiniteSet(byC)
  BY <1>8, OnceSpelt DEF InInv, InTypes
<1>14. Counted(F, kept \cup ToSet(x), byC) /\ (kept \cup ToSet(x) = kept => x = <<>>)
  <2>1. Counted(E, kept, byC) /\ TakenFrom(E, F, x)
    BY <1>12, <1>13 DEF Counted, TakenFrom
  <2>2. E \in Seq(Nat) /\ F \in Seq(Nat) /\ x \in Seq(Nat)
    BY <1>5, <1>10
  <2>3. QED  BY ONLY <2>1, <2>2, CountsGoOn, Zenon
<1>15. In!ByteOnce'
  <2>1. Counted(F, kept', byC')
    BY <1>1, <1>7, <1>14
  <2>2. QED  BY <1>9, <2>1, OnceAfter DEF Counted
<1>16. kept' = kept => In!Due' = In!Due
  <2>1. <<>> \o d = d
    BY <1>7, NoneInPieces
  <2>2. QED  BY <1>6, <1>7, <1>14, <2>1
<1>17. ASSUME kept' # kept
       PROVE  \E i \in 1..Len(held) : /\ In!Due' = In!After(In!Due, i)
                                      /\ kept' = kept \cup In!ToSet(In!First(In!Due, i))
  <2>1. n # 0
    <3>1. n = 0 => ToSet(x) = {}
      BY <1>5 DEF ToSet
    <3>2. QED  BY <1>7, <1>17, <3>1
  <2>2. n \in 1..Len(held)
    BY <1>1, <1>4, <2>1
  <2>3. In!First(x \o d, n) = x /\ In!After(x \o d, n) = d
    BY <1>5, <1>7, CutOfConcat
  <2>4. In!ToSet(x) = ToSet(x)
    BY DEF In!ToSet, ToSet
  <2>5. QED  BY <1>6, <1>7, <2>2, <2>3, <2>4
<1>18. QED  BY <1>1, <1>15, <1>16, <1>17 DEF InInv, In!ReadOn

LEMMA SwitchedInOrder ==
  ASSUME InInv, In!Synchronize
  PROVE  InInv' /\ In!ReadOn
<1>1. /\ InTypes' /\ Tidy' /\ synced' # synced /\ kept' = kept /\ byC' = byC
      /\ In!Everywhere' = In!Everywhere
  BY SynchronizeKeeps DEF InInv
<1>2. In!ByteOnce'
  <2>1. /\ Len(In!Everywhere) + Cardinality(kept) + Cardinality(byC) = InputLen
        /\ ToSet(In!Everywhere) \cup kept \cup byC = 1..InputLen
    BY OnceSpelt DEF InInv
  <2>2. QED  BY <1>1, <2>1, OnceAfter
<1>3. QED  BY <1>1, <1>2 DEF InInv, In!ReadOn

LEMMA ReadByC ==
  ASSUME InInv, In!CGet
  PROVE  InInv' /\ In!ReadOn
<1>1. /\ InTypes' /\ Tidy' /\ synced' = synced /\ kept' = kept
      /\ probed' = probed /\ rest' = rest /\ held' = held
  BY CGetTakes DEF InInv
<1>2. PICK g \in Seq(Nat) : /\ g # <<>> /\ byC' = byC \cup ToSet(g)
                            /\ g \o (file' \o fd') = file \o fd
  BY CGetTakes DEF InInv
<1>3. /\ fd \in Seq(Nat) /\ file \in Seq(Nat) /\ probed \in Seq(Nat) /\ rest \in Seq(Nat)
      /\ held \in Seq(Nat) /\ fd' \in Seq(Nat) /\ file' \in Seq(Nat)
  BY <1>1 DEF InInv, InTypes
<1>4. PICK x : x = file \o fd
  OBVIOUS
<1>5. PICK y : y = file' \o fd'
  OBVIOUS
<1>6. /\ x \in Seq(Nat) /\ Len(x) = Len(file) + Len(fd) /\ ToSet(x) = ToSet(file) \cup ToSet(fd)
      /\ y \in Seq(Nat) /\ Len(y) = Len(file') + Len(fd')
      /\ ToSet(y) = ToSet(file') \cup ToSet(fd')
  BY <1>3, <1>4, <1>5, TwoParts
<1>7. Len(x) = Len(g) + Len(y) /\ ToSet(x) = ToSet(g) \cup ToSet(y)
  <2>1. x = g \o y
    BY <1>2, <1>4, <1>5
  <2>2. QED  BY <1>6, <2>1, TwoParts
<1>8. PICK E : E = In!Everywhere
  OBVIOUS
<1>9. PICK F : F = In!Everywhere'
  OBVIOUS
<1>10. /\ E \in Seq(Nat)
       /\ Len(E) = Len(fd) + Len(file) + Len(probed) + Len(rest) + Len(held)
       /\ ToSet(E) =
             ToSet(fd) \cup ToSet(file) \cup ToSet(probed) \cup ToSet(rest) \cup ToSet(held)
  BY <1>8, EverywhereParts DEF InInv
<1>11. /\ F \in Seq(Nat)
       /\ Len(F) = Len(fd') + Len(file') + Len(probed) + Len(rest) + Len(held)
       /\ ToSet(F) =
             ToSet(fd') \cup ToSet(file') \cup ToSet(probed) \cup ToSet(rest) \cup ToSet(held)
  <2>1. (InTypes =>
           /\ In!Everywhere \in Seq(Nat)
           /\ Len(In!Everywhere) = Len(fd) + Len(file) + Len(probed) + Len(rest) + Len(held)
           /\ ToSet(In!Everywhere) = ToSet(fd) \cup ToSet(file) \cup ToSet(probed)
                                        \cup ToSet(rest) \cup ToSet(held))'
    BY EverywhereParts, PTL
  <2>2. QED  BY <1>1, <1>9, <2>1
<1>12. Len(E) = Len(F) + Len(g) /\ ToSet(E) = ToSet(F) \cup ToSet(g)
  <2>1. /\ Len(fd) \in Nat /\ Len(file) \in Nat /\ Len(fd') \in Nat /\ Len(file') \in Nat
        /\ Len(g) \in Nat /\ Len(probed) \in Nat /\ Len(rest) \in Nat /\ Len(held) \in Nat
    BY <1>3
  <2>2. Len(file) + Len(fd) = Len(g) + (Len(file') + Len(fd'))
    BY <1>6, <1>7
  <2>3. PICK i \in Nat : i = Len(probed)
    BY <2>1
  <2>4. PICK j \in Nat : j = Len(rest)
    BY <2>1
  <2>5. PICK k \in Nat : k = Len(held)
    BY <2>1
  <2>6. Len(E) = (Len(file) + Len(fd)) + (i + j + k)
    BY ONLY <1>10, <2>1, <2>3, <2>4, <2>5
  <2>7. Len(F) = (Len(file') + Len(fd')) + (i + j + k)
    BY ONLY <1>11, <2>1, <2>3, <2>4, <2>5
  <2>8. Len(E) = Len(F) + Len(g)
    <3>1. PICK t \in Nat : t = i + j + k
      OBVIOUS
    <3>2. PICK u \in Nat : u = Len(file') + Len(fd')
      BY <2>1
    <3>3. PICK v \in Nat : v = Len(g)
      BY <2>1
    <3>4. Len(E) = (v + u) + t /\ Len(F) = u + t
      BY ONLY <2>2, <2>6, <2>7, <3>1, <3>2, <3>3
    <3>5. (v + u) + t = (u + t) + v
      OBVIOUS
    <3>6. QED  BY ONLY <3>3, <3>4, <3>5
  <2>9. ToSet(E) = ToSet(F) \cup ToSet(g)
    BY ONLY <1>6, <1>7, <1>10, <1>11
  <2>10. QED  BY <2>8, <2>9
<1>13. /\ Len(E) + Cardinality(byC) + Cardinality(kept) = InputLen
       /\ ToSet(E) \cup byC \cup kept = 1..InputLen
       /\ IsFiniteSet(kept) /\ IsFiniteSet(byC)
  <2>1. /\ Len(E) + Cardinality(kept) + Cardinality(byC) = InputLen
        /\ ToSet(E) \cup kept \cup byC = 1..InputLen
        /\ IsFiniteSet(kept) /\ IsFiniteSet(byC)
    BY <1>8, OnceSpelt DEF InInv, InTypes
  <2>2. Len(E) \in Nat /\ Cardinality(kept) \in Nat /\ Cardinality(byC) \in Nat
    BY <1>10, <2>1, FS_CardinalityType
  <2>3. Len(E) + Cardinality(byC) + Cardinality(kept) = InputLen
    BY ONLY <2>1, <2>2
  <2>4. ToSet(E) \cup byC \cup kept = 1..InputLen
    BY ONLY <2>1
  <2>5. QED  BY <2>1, <2>3, <2>4
<1>14. Counted(F, byC \cup ToSet(g), kept) /\ (byC \cup ToSet(g) = byC => g = <<>>)
  <2>1. Counted(E, byC, kept) /\ TakenFrom(E, F, g)
    BY <1>12, <1>13 DEF Counted, TakenFrom
  <2>2. E \in Seq(Nat) /\ F \in Seq(Nat) /\ g \in Seq(Nat)
    BY <1>10, <1>11
  <2>3. QED  BY ONLY <2>1, <2>2, CountsGoOn, Zenon
<1>15. byC' # byC
  BY <1>2, <1>14
<1>16. In!ByteOnce'
  <2>1. PICK V : V = byC'
    OBVIOUS
  <2>2. /\ Len(F) + Cardinality(V) + Cardinality(kept) = InputLen
        /\ ToSet(F) \cup V \cup kept = 1..InputLen
        /\ IsFiniteSet(V)
    BY <1>2, <1>14, <2>1 DEF Counted
  <2>3. Len(F) \in Nat /\ Cardinality(kept) \in Nat /\ Cardinality(V) \in Nat
    BY <1>11, <1>13, <2>2, FS_CardinalityType
  <2>4. Len(F) + Cardinality(kept) + Cardinality(V) = InputLen
    BY ONLY <2>2, <2>3
  <2>5. ToSet(F) \cup kept \cup V = 1..InputLen
    BY ONLY <2>2
  <2>6. QED  BY <1>1, <1>9, <2>1, <2>4, <2>5, OnceAfter
<1>17. QED  BY <1>1, <1>15, <1>16 DEF InInv, In!ReadOn

LEMMA InStepKeeps ==
  ASSUME InInv, In!Next
  PROVE  InInv' /\ In!ReadOn
<1>1. InTypes /\ Tidy
  BY DEF InInv
<1>2. ASSUME NEW n \in 1..MaxAsk, In!Get(n) \/ In!GetBuf(n) PROVE KeepsDue
  BY <1>1, <1>2, GetKeeps
<1>3. ASSUME NEW n \in 1..MaxAsk, In!Rollback(n) PROVE KeepsDue
  BY <1>1, <1>3, RollbackKeeps
<1>4. CASE In!IsEof
  <2>1. KeepsDue
    BY <1>1, <1>4, IsEofKeeps
  <2>2. QED  BY <2>1, KeptInOrder
<1>5. ASSUME NEW n \in 0..MaxAsk, In!Finish(n) PROVE InInv' /\ In!ReadOn
  <2>1. TakesFront(n)
    BY <1>1, <1>5, FinishTakes
  <2>2. QED  BY <2>1, TakenInOrder
<1>6. CASE In!Synchronize
  BY <1>6, SwitchedInOrder
<1>7. CASE In!CGet
  BY <1>7, ReadByC
<1>8. CASE In!CMeetsEnd \/ In!ClearErr
  <2>1. /\ fd' = fd /\ file' = file /\ probed' = probed /\ rest' = rest /\ synced' = synced
        /\ held' = held /\ inBuf' = inBuf /\ kept' = kept /\ byC' = byC /\ mixed' = mixed
    BY <1>8 DEF In!CMeetsEnd, In!ClearErr, In!source
  <2>2. KeepsDue
    BY <1>1, <2>1 DEF KeepsDue, InTypes, Tidy, In!Due
  <2>3. QED  BY <2>2, KeptInOrder
<1>9. QED  BY <1>2, <1>3, <1>4, <1>5, <1>6, <1>7, <1>8, KeptInOrder DEF In!Next

LEMMA InInitInv ==
  ASSUME In!Init
  PROVE  InInv
<1>1. InputLen \in Nat
  BY MCStdInAssumption DEF In!StdInAssumption
<1>2. /\ fd = In!All /\ file = <<>> /\ probed = <<>> /\ rest = <<>> /\ held = <<>>
      /\ synced = TRUE /\ inBuf = 0 /\ kept = {} /\ byC = {} /\ mixed = FALSE
  BY DEF In!Init
<1>3. PICK q : q = In!All
  OBVIOUS
<1>4. q \in Seq(Nat) /\ Len(q) = InputLen /\ \A i \in 1..InputLen : q[i] = i
  BY <1>1, <1>3 DEF In!All
<1>5. InTypes
  <2>1. <<>> \in Seq(Nat) /\ Len(<<>>) = 0 /\ 0 \in 0..0 /\ IsFiniteSet({})
    BY FS_EmptySet
  <2>2. /\ fd \in Seq(Nat) /\ file \in Seq(Nat) /\ probed \in Seq(Nat) /\ Len(probed) <= 1
        /\ rest \in Seq(Nat) /\ held \in Seq(Nat) /\ inBuf \in 0..Len(held)
    BY ONLY <1>2, <1>3, <1>4, <2>1
  <2>3. synced \in BOOLEAN /\ mixed \in BOOLEAN
    BY ONLY <1>2
  <2>4. kept \in SUBSET Nat /\ IsFiniteSet(kept) /\ byC \in SUBSET Nat /\ IsFiniteSet(byC)
    BY ONLY <1>2, <2>1
  <2>5. QED  BY <2>2, <2>3, <2>4 DEF InTypes
<1>6. In!Everywhere = q
  <2>1. In!Everywhere = q \o <<>> \o <<>> \o <<>> \o <<>>
    BY <1>2, <1>3 DEF In!Everywhere
  <2>2. q \o <<>> = q
    BY <1>4, NoneInPieces
  <2>3. QED  BY <2>1, <2>2
<1>7. ToSet(q) = 1..InputLen
  <2>1. DOMAIN q = 1..InputLen
    BY <1>4
  <2>2. ToSet(q) = {q[i] : i \in 1..InputLen}
    BY <2>1 DEF ToSet
  <2>3. QED  BY <1>4, <2>2
<1>8. Cardinality({}) = 0
  BY FS_EmptySet
<1>9. In!ByteOnce
  BY <1>1, <1>2, <1>4, <1>6, <1>7, <1>8, OnceSpelt
<1>10. Tidy
  BY <1>2 DEF Tidy
<1>11. QED  BY <1>5, <1>9, <1>10 DEF InInv

LEMMA InStutters ==
  ASSUME InInv, UNCHANGED input
  PROVE  InInv'
  BY DEF InInv, InTypes, Tidy, In!ByteOnce, In!Everywhere, input

(* An end that is remembered has nothing in front of it: neither bytes in  *)
(* the FILE, nor a probed one in the device.                               *)
EndsAgree ==
    /\ ended \in BOOLEAN /\ hitEnd \in BOOLEAN
    /\ ended = TRUE => file = <<>>
    /\ hitEnd = TRUE => probed = <<>>

(* A read that was cut off by an end leaves nothing in the FILE. *)
LEMMA FileReadsShort ==
  ASSUME InTypes, EndsAgree, NEW n \in Nat \ {0}, NEW r \in In!FileRead(n)
  PROVE  r.probed = probed /\ (Len(r.got) < n => r.file = <<>>)
<1>1. file \in Seq(Nat) /\ fd \in Seq(Nat)
  BY DEF InTypes
<1>2. PICK m \in Nat : m = Len(file)
  BY <1>1
<1>3. PICK l \in Nat : l = Len(fd)
  BY <1>1
<1>4. CASE ended
  BY <1>4 DEF EndsAgree, In!FileRead, In!Nothing, In!Outcome
<1>5. CASE ~ended /\ n <= m
  <2>1. r.got = In!First(file, n) /\ r.probed = probed
    BY <1>2, <1>5 DEF In!FileRead, In!Outcome
  <2>2. Len(r.got) = n
    BY <1>1, <1>2, <1>5, <2>1, CutElements DEF In!Least
  <2>3. QED  BY <2>1, <2>2
<1>6. CASE ~ended /\ ~(n <= m)
  <2>1. PICK need : need = In!Least(n - m, l)
    OBVIOUS
  <2>2. need \in Nat /\ need <= l /\ (need = n - m \/ need = l)
    BY <1>6, <2>1 DEF In!Least
  <2>3. \/ \E k \in 0..need : r = In!Outcome(file \o In!First(fd, k), probed, <<>>, In!After(fd, k))
        \/ \E k \in need..l : r = In!Outcome(file \o In!First(fd, need), probed,
                                             SubSeq(fd, need + 1, k), In!After(fd, k))
    BY <1>2, <1>3, <1>6, <2>1 DEF In!FileRead
  <2>4. ASSUME NEW k \in 0..need,
               r = In!Outcome(file \o In!First(fd, k), probed, <<>>, In!After(fd, k))
        PROVE  r.probed = probed /\ r.file = <<>>
    BY <2>4 DEF In!Outcome
  <2>5. ASSUME NEW k \in need..l,
               r = In!Outcome(file \o In!First(fd, need), probed,
                              SubSeq(fd, need + 1, k), In!After(fd, k))
        PROVE  r.probed = probed /\ (Len(r.got) < n => r.file = <<>>)
    <3>1. PICK x : x = In!First(fd, need)
      OBVIOUS
    <3>2. x \in Seq(Nat) /\ Len(x) = need
      BY <1>1, <1>3, <2>2, <3>1, CutElements DEF In!Least
    <3>3. r.got = file \o x /\ r.probed = probed /\ r.file = SubSeq(fd, need + 1, k)
      BY <2>5, <3>1 DEF In!Outcome
    <3>4. Len(r.got) = m + need
      BY <1>1, <1>2, <3>2, <3>3, ConcatElements
    <3>5. ASSUME Len(r.got) < n PROVE r.file = <<>>
      <4>1. need = l /\ k = l
        BY <2>2, <2>5, <3>4, <3>5
      <4>2. SubSeq(fd, l + 1, l) = <<>>
        BY <1>1, <1>3, NoPiece
      <4>3. QED  BY <3>3, <4>1, <4>2
    <3>6. QED  BY <3>3, <3>5
  <2>6. QED  BY <2>3, <2>4, <2>5
<1>7. QED  BY <1>4, <1>5, <1>6

(* What fread() or getchar() got tells whether the FILE met an end. *)
LEMMA FileEndsAgree ==
  ASSUME InTypes, EndsAgree, NEW n \in Nat \ {0}, NEW r \in In!FileRead(n),
         In!Leaves(r), In!FileEnds(n, r.got), hitEnd' = hitEnd
  PROVE  EndsAgree'
<1>1. r.probed = probed /\ (Len(r.got) < n => r.file = <<>>)
  BY FileReadsShort
<1>2. file' = r.file /\ probed' = probed
  BY <1>1 DEF In!Leaves
<1>3. ended' \in BOOLEAN /\ (ended' = TRUE => Len(r.got) < n)
  BY DEF In!FileEnds
<1>4. QED  BY <1>1, <1>2, <1>3 DEF EndsAgree

LEMMA DgetEndsAgree ==
  ASSUME InTypes, EndsAgree, NEW n \in Nat \ {0}, NEW r \in In!Dget(n),
         In!Leaves(r), In!DgetEnds(n, r.got)
  PROVE  EndsAgree'
<1>1. CASE synced /\ probed = <<>>
  <2>1. r \in In!FileRead(n) /\ In!FileEnds(n, r.got) /\ hitEnd' = hitEnd
    BY <1>1 DEF In!Dget, In!StdioGet, In!DgetEnds
  <2>2. QED  BY <2>1, FileEndsAgree
<1>2. CASE synced /\ probed # <<>>
  <2>1. r.probed = <<>> /\ r.file = file
    BY <1>2 DEF In!Dget, In!StdioGet, In!Outcome
  <2>2. ended' = ended /\ hitEnd' = hitEnd
    BY <1>2 DEF In!DgetEnds, In!ends
  <2>3. QED  BY <2>1, <2>2 DEF In!Leaves, EndsAgree
<1>3. CASE ~synced
  <2>1. hitEnd' \in BOOLEAN /\ ended' = ended
    BY <1>3 DEF In!DgetEnds, In!FdEnds
  <2>2. r.probed = <<>> /\ r.file = file
    <3>1. CASE hitEnd \/ probed = <<>>
      <4>1. probed = <<>>
        BY <3>1 DEF EndsAgree
      <4>2. QED  BY <1>3, <3>1, <4>1 DEF In!Dget, In!FdGet, In!FdRead, In!Nothing, In!Outcome
    <3>2. CASE ~(hitEnd \/ probed = <<>>)
      BY <1>3, <3>2 DEF In!Dget, In!FdGet, In!Outcome
    <3>3. QED  BY <3>1, <3>2
  <2>3. QED  BY <2>1, <2>2 DEF In!Leaves, EndsAgree
<1>4. QED  BY <1>1, <1>2, <1>3

LEMMA IsEofAgrees ==
  ASSUME InTypes, EndsAgree, In!IsEof
  PROVE  EndsAgree'
<1>1. probed = <<>>
  BY DEF In!IsEof, In!Probes
<1>2. CASE synced
  <2>1. PICK r \in In!FileRead(1) : /\ file' = r.got \o r.file /\ ended' = (r.got = <<>>)
                                    /\ probed' = probed /\ hitEnd' = hitEnd
    BY <1>2 DEF In!IsEof
  <2>2. Len(r.got) < 1 => r.file = <<>>
    BY FileReadsShort
  <2>3. ended' = TRUE => file' = <<>>
    <3>1. r.got = <<>> => Len(r.got) < 1
      OBVIOUS
    <3>2. <<>> \o <<>> = <<>>
      OBVIOUS
    <3>3. QED  BY <2>1, <2>2, <3>1, <3>2
  <2>4. ended' \in BOOLEAN
    BY <2>1
  <2>5. QED  BY <2>1, <2>3, <2>4 DEF EndsAgree
<1>3. CASE ~synced
  <2>1. PICK r \in In!FdRead(1) : /\ probed' = probed \o r.got /\ hitEnd' = (r.got = <<>>)
                                  /\ file' = file /\ ended' = ended
    BY <1>3 DEF In!IsEof
  <2>2. <<>> \o <<>> = <<>>
    OBVIOUS
  <2>3. hitEnd' = TRUE => probed' = <<>>
    BY <1>1, <2>1, <2>2
  <2>4. hitEnd' \in BOOLEAN
    BY <2>1
  <2>5. QED  BY <2>1, <2>3, <2>4 DEF EndsAgree
<1>4. QED  BY <1>2, <1>3

(* Handing back: the FILE forgets its end, or keeps its bytes. *)
LEMMA HandingBackAgrees ==
  ASSUME EndsAgree, NEW s, In!Dungets(s) \/ In!Refuses(s)
  PROVE  EndsAgree'
<1>1. CASE In!Dungets(s)
  BY <1>1 DEF In!Dungets, EndsAgree
<1>2. CASE In!Refuses(s)
  BY <1>2 DEF In!Refuses, In!source, EndsAgree
<1>3. QED  BY <1>1, <1>2

LEMMA EndsAgreeKept ==
  ASSUME InTypes, EndsAgree, In!Next
  PROVE  EndsAgree'
<1>1. /\ InBufLen \in Nat \ {0} /\ MaxAsk \in Nat /\ MaxAsk <= InBufLen
      /\ rest \in Seq(Nat)
  BY MCStdInAssumption DEF In!StdInAssumption, InTypes
<1>2. CASE UNCHANGED <<In!source, In!ends>>
  BY <1>2 DEF In!source, In!ends, EndsAgree
<1>3. ASSUME NEW n \in 1..MaxAsk, In!Get(n) PROVE EndsAgree'
  <2>1. PICK m : m = IF synced THEN n ELSE InBufLen
    OBVIOUS
  <2>2. m \in Nat \ {0}
    BY <1>1, <2>1
  <2>3. \/ UNCHANGED <<In!source, In!ends>>
        \/ \E r \in In!Dget(m) : In!Leaves(r) /\ In!DgetEnds(m, r.got)
    BY <1>3, <2>1 DEF In!Get
  <2>4. QED  BY <1>2, <2>2, <2>3, DgetEndsAgree
<1>4. ASSUME NEW n \in 1..MaxAsk, In!GetBuf(n) PROVE EndsAgree'
  <2>1. PICK m : m = In!Wants(n)
    OBVIOUS
  <2>2. \/ UNCHANGED <<In!source, In!ends>>
        \/ /\ Len(rest) < n
           /\ \E r \in In!Dget(m) : In!Leaves(r) /\ In!DgetEnds(m, r.got)
    BY <1>4, <2>1 DEF In!GetBuf
  <2>3. ASSUME Len(rest) < n PROVE m \in Nat \ {0}
    <3>1. PICK l \in Nat : l = Len(rest)
      BY <1>1
    <3>2. m = IF synced THEN In!Least(n - l, InBufLen - l) ELSE InBufLen - l
      BY <2>1, <3>1 DEF In!Wants
    <3>3. InBufLen - l \in Nat \ {0} /\ n - l \in Nat \ {0}
      BY <1>1, <2>3, <3>1
    <3>4. QED  BY <3>2, <3>3 DEF In!Least
  <2>4. QED  BY <1>2, <2>2, <2>3, DgetEndsAgree
<1>5. ASSUME NEW n \in 1..MaxAsk, In!Rollback(n) PROVE EndsAgree'
  <2>1. \E s : In!Dungets(s) \/ In!Refuses(s)
    BY <1>5 DEF In!Rollback
  <2>2. QED  BY <2>1, HandingBackAgrees
<1>6. ASSUME NEW n \in 0..MaxAsk, In!Finish(n) PROVE EndsAgree'
  <2>1. \/ UNCHANGED <<In!source, In!ends>>
        \/ \E s : In!Dungets(s) \/ In!Refuses(s)
    BY <1>6 DEF In!Finish, In!Ungets
  <2>2. QED  BY <1>2, <2>1, HandingBackAgrees
<1>7. CASE In!IsEof
  BY <1>7, IsEofAgrees
<1>8. CASE In!Synchronize
  BY <1>8 DEF In!Synchronize, In!source, EndsAgree
<1>9. CASE In!CGet
  <2>1. PICK r \in In!FileRead(1) : In!Leaves(r) /\ In!FileEnds(1, r.got) /\ hitEnd' = hitEnd
    BY <1>9 DEF In!CGet
  <2>2. QED  BY <2>1, FileEndsAgree
<1>10. CASE In!CMeetsEnd \/ In!ClearErr
  BY <1>10 DEF In!CMeetsEnd, In!ClearErr, In!source, EndsAgree
<1>11. QED  BY <1>3, <1>4, <1>5, <1>6, <1>7, <1>8, <1>9, <1>10 DEF In!Next

(* No end met, a read takes from the FILE what it has first. *)
LEMMA FileReadsOn ==
  ASSUME InTypes, NEW n \in Nat, NEW r \in In!FileRead(n), ~ended
  PROVE  r.got = In!First(file, n) \/ \E k \in Nat : r.got = file \o In!First(fd, k)
<1>1. PICK m \in Nat : m = Len(file)
  BY DEF InTypes
<1>2. PICK l \in Nat : l = Len(fd)
  BY DEF InTypes
<1>3. CASE n <= m
  <2>1. r = In!Outcome(In!First(file, n), probed, In!After(file, n), fd)
    BY <1>1, <1>3 DEF In!FileRead
  <2>2. QED  BY <2>1 DEF In!Outcome
<1>4. CASE ~(n <= m)
  <2>1. PICK need : need = In!Least(n - m, l)
    OBVIOUS
  <2>2. need \in Nat
    BY <1>4, <2>1 DEF In!Least
  <2>3. \/ \E k \in 0..need :
              r = In!Outcome(file \o In!First(fd, k), probed, <<>>, In!After(fd, k))
        \/ \E k \in need..l :
              r = In!Outcome(file \o In!First(fd, need), probed,
                             SubSeq(fd, need + 1, k), In!After(fd, k))
    BY <1>1, <1>2, <1>4, <2>1 DEF In!FileRead
  <2>4. ASSUME NEW k \in 0..need,
               r = In!Outcome(file \o In!First(fd, k), probed, <<>>, In!After(fd, k))
        PROVE  r.got = file \o In!First(fd, k) /\ k \in Nat
    BY <2>2, <2>4 DEF In!Outcome
  <2>5. ASSUME NEW k \in need..l,
               r = In!Outcome(file \o In!First(fd, need), probed,
                              SubSeq(fd, need + 1, k), In!After(fd, k))
        PROVE  r.got = file \o In!First(fd, need)
    BY <2>5 DEF In!Outcome
  <2>6. QED  BY <2>2, <2>3, <2>4, <2>5
<1>5. QED  BY <1>3, <1>4

(* So a read that comes back with nothing leaves nothing behind. *)
LEMMA NothingHidden ==
  ASSUME InTypes, EndsAgree
  PROVE  In!EndComesLast
<1>1. /\ held \in Seq(Nat) /\ rest \in Seq(Nat) /\ probed \in Seq(Nat) /\ file \in Seq(Nat)
      /\ fd \in Seq(Nat) /\ <<>> \in Seq(Nat)
  BY DEF InTypes
<1> SUFFICES ASSUME held \o rest = <<>>, In!Due # fd, NEW n \in 1..MaxAsk, NEW r \in In!Dget(n),
                    r.got = <<>>
             PROVE  FALSE
  BY DEF In!EndComesLast
<1>2. n \in Nat \ {0}
  BY MCStdInAssumption DEF In!StdInAssumption
<1>3. probed = <<>> => Via(file) # <<>>
  <2>1. ASSUME probed = <<>>, Via(file) = <<>> PROVE In!Due = fd
    <3>1. In!Due = (((held \o rest) \o probed) \o Via(file)) \o fd
      BY DEF In!Due, Via
    <3>2. <<>> \o fd = fd /\ <<>> \o <<>> = <<>>
      BY <1>1, NoneInPieces
    <3>3. QED  BY <2>1, <3>1, <3>2
  <2>2. QED  BY <2>1
<1>4. CASE synced /\ probed = <<>>
  <2>1. file # <<>> /\ r \in In!FileRead(n)
    BY <1>3, <1>4 DEF Via, In!Dget, In!StdioGet
  <2>2. Len(file) # 0 /\ ~ended
    BY <1>1, <2>1 DEF EndsAgree
  <2>3. r.got = In!First(file, n) \/ \E k \in Nat : r.got = file \o In!First(fd, k)
    BY <1>2, <2>1, <2>2, FileReadsOn
  <2>4. CASE r.got = In!First(file, n)
    <3>1. Len(r.got) = In!Least(n, Len(file))
      BY <1>1, <1>2, <2>4, CutElements
    <3>2. Len(r.got) # 0
      BY <1>1, <1>2, <2>2, <3>1 DEF In!Least
    <3>3. QED  BY <3>2
  <2>5. ASSUME NEW k \in Nat, r.got = file \o In!First(fd, k) PROVE FALSE
    <3>1. In!First(fd, k) \in Seq(Nat)
      BY <1>1, CutsInOrder
    <3>2. Len(file \o In!First(fd, k)) = Len(file) + Len(In!First(fd, k))
      BY <1>1, <3>1, ConcatElements
    <3>3. Len(r.got) # 0
      BY <1>1, <2>2, <2>5, <3>1, <3>2
    <3>4. QED  BY <3>3
  <2>6. QED  BY <2>3, <2>4, <2>5
<1>5. CASE synced /\ probed # <<>>
  BY <1>5 DEF In!Dget, In!StdioGet, In!Outcome
<1>6. CASE ~synced
  <2>1. probed # <<>> /\ ~hitEnd
    BY <1>3, <1>6 DEF Via, EndsAgree
  <2>2. PICK k \in Nat : r.got = probed \o In!First(fd, k)
    BY <1>1, <1>2, <1>6, <2>1 DEF In!Dget, In!FdGet, In!Outcome, In!Least
  <2>3. In!First(fd, k) \in Seq(Nat)
    BY <1>1, CutsInOrder
  <2>4. Len(r.got) = Len(probed) + Len(In!First(fd, k)) /\ Len(probed) # 0
    BY <1>1, <2>1, <2>2, <2>3, ConcatElements
  <2>5. Len(r.got) # 0
    BY <1>1, <2>3, <2>4
  <2>6. QED  BY <2>5
<1>7. QED  BY <1>4, <1>5, <1>6

(* The streams on the standard input and C stdio share it without a byte   *)
(* lost or read twice; probing, rolling back and handing back keep what    *)
(* comes next in its order; a synchronized stream between two extractions  *)
(* leaves all that it has not used to C stdio, unless a switch or a FILE   *)
(* that refuses bytes is to blame; and an end that was met hides none of   *)
(* the bytes that were probed or handed back in front of it.               *)
THEOREM InputStaysWhole == MCSpec => EachByteOnceInOrder
<1>1. MCInit => InInv /\ EndsAgree
  <2>1. In!Init => EndsAgree
    BY DEF In!Init, EndsAgree
  <2>2. QED  BY <2>1, InInitInv DEF MCInit
<1>2. InInv /\ EndsAgree /\ [MCNext]_<<part, vars, input, memory>> =>
         (InInv /\ EndsAgree)' /\ [In!ReadOn]_input
  <2> SUFFICES ASSUME InInv, EndsAgree, [MCNext]_<<part, vars, input, memory>>
               PROVE  InInv' /\ EndsAgree' /\ [In!ReadOn]_input
    OBVIOUS
  <2>1. CASE In!Next
    BY <2>1, InStepKeeps, EndsAgreeKept DEF InInv
  <2>2. CASE UNCHANGED input
    BY <2>2, InStutters DEF input, EndsAgree
  <2>3. QED  BY <2>1, <2>2 DEF MCNext
<1>3. InInv => In!LeavesToStdio
  <2>1. ASSUME rest = <<>>, probed = <<>> PROVE rest \o probed = <<>>
    BY <2>1, NoneInPieces
  <2>2. QED  BY <2>1 DEF InInv, Tidy, In!LeavesToStdio
<1>4. InInv /\ EndsAgree => In!EndComesLast
  BY NothingHidden DEF InInv
<1>5. QED  BY <1>1, <1>2, <1>3, <1>4, PTL DEF MCSpec, EachByteOnceInOrder
=============================================================================
