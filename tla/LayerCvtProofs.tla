--------------------------- MODULE LayerCvtProofs ---------------------------
(***************************************************************************)
(* The key stays in step, nothing follows a loss, a short read is explained*)
(* and the layer is a file with a position, for every key, every number of *)
(* characters and every device.                                            *)
(*                                                                         *)
(* IInv is what the key position needs.  LayerInv adds the types, and that *)
(* a read area with something in it belongs to a header that is being read *)
(* (AreaRead); with it every call of the layer is a call, or a part of one,*)
(* of the file above: a put of what was encrypted is one of the plain text,*)
(* character by character.                                                 *)
(*                                                                         *)
(* Of zlib_cvt: a closed device holds a whole stream, and the end of one is*)
(* all of it, whatever is put, in whatever units deflate spells it and     *)
(* wherever the kernel fails.  ZInv accounts for every byte: what the units*)
(* below say (Text), with what inflate or deflate still holds, is what was *)
(* handed over or given (ReadInv, WriteInv).                               *)
(***************************************************************************)
EXTENDS MCLayerCvt, SequenceFacts

Positions ==
    /\ pos \in Int /\ base \in Int /\ unread \in Int /\ keyPos \in Int
    /\ era \in Nat

(* While the layer works on content, its read area is empty: only a failed *)
(* header read fills it, and no content follows one.  KeyInStep alone is   *)
(* not inductive, since a turn or a seek empties the area.                 *)
InStep == bosDone = TRUE /\ tainted = FALSE => unread = 0 /\ keyPos = pos - base

Flags == bosDone \in BOOLEAN /\ tainted \in BOOLEAN /\ lost \in BOOLEAN

LossTaints == lost = TRUE => tainted = TRUE

IInv == Positions /\ Flags /\ InStep /\ LossTaints

LEMMA InitIInv == Init => IInv
<1>1. Init => Positions
  BY DEF Init, Positions
<1>2. Init => Flags /\ LossTaints
  BY DEF Init, Flags, LossTaints
<1>3. Init => InStep
  BY DEF Init, InStep
<1> QED
  BY <1>1, <1>2, <1>3 DEF IInv

(* The chief fact: every call keeps the invariant. *)
LEMMA NextIInv == IInv /\ [Next]_vars => IInv'
<1> SUFFICES ASSUME IInv, [Next]_vars PROVE IInv'
  OBVIOUS
<1> USE DEF IInv, Positions, Flags, InStep, LossTaints, kernel, Aside, Quiet, Reads
<1>1. CASE Refused
  BY <1>1 DEF Refused, layer
<1>2. CASE Bos
  <2>1. Positions'
    BY <1>2 DEF Bos, Spoil
  <2>2. Flags' /\ LossTaints'
    BY <1>2 DEF Bos, Spoil
  <2>3. InStep'
    BY <1>2 DEF Bos, Spoil
  <2> QED
    BY <2>1, <2>2, <2>3
<1>3. CASE MainContBeg
  <2>1. Positions'
    BY <1>3 DEF MainContBeg, Spoil
  <2>2. Flags' /\ LossTaints'
    BY <1>3 DEF MainContBeg, Spoil
  <2>3. InStep'
    <3>1. CASE Spoil
      BY <3>1 DEF Spoil
    <3>2. CASE ~Spoil
      <4>1. unread' = 0 /\ keyPos' = 0 /\ base' = pos /\ pos' = pos
        BY <1>3, <3>2 DEF MainContBeg
      <4>2. keyPos' = pos' - base'
        BY <4>1
      <4> QED
        BY <4>1, <4>2
    <3> QED
      BY <3>1, <3>2
  <2> QED
    BY <2>1, <2>2, <2>3
<1>4. CASE GetHeld
  BY <1>4 DEF GetHeld
<1>5. ASSUME NEW n \in 1..MaxAsk, GetHeader(n) PROVE IInv'
  <2>1. /\ ~bosDone
        /\ UNCHANGED <<base, bosDone, tainted, keyPos, lost, era>>
    BY <1>5 DEF GetHeader
  <2>2. unread' \in Int /\ pos' \in Int
    <3>1. CASE /\ unread' = IF n <= unread THEN unread - n ELSE 0
               /\ pos' = KernelTell + n + unread'
      BY <3>1 DEF KernelTell
    <3>2. CASE \E c \in {i \in 0..(n - 1) : i % BosChunk = 0} :
                  /\ unread' \in (IF c = 0 THEN unread ELSE 0)..(Least(BosChunk, n - c) - 1)
                  /\ pos' = KernelTell + c + unread'
      <4>1. PICK c \in 0..(n - 1) :
               /\ unread' \in (IF c = 0 THEN unread ELSE 0)..(Least(BosChunk, n - c) - 1)
               /\ pos' = KernelTell + c + unread'
        BY <3>2
      <4>2. unread' \in Int
        BY <4>1
      <4> QED
        BY <4>1, <4>2 DEF KernelTell
    <3> QED
      BY <1>5, <3>1, <3>2 DEF GetHeader
  <2> QED
    BY <2>1, <2>2
<1>6. ASSUME NEW n \in 1..MaxAsk, PutHeader(n) PROVE IInv'
  <2>1. PICK k \in 0..n, fails \in BOOLEAN : Written(n, k, fails) /\ pos' = pos + k
    BY <1>6 DEF PutHeader
  <2>2. tainted' \in BOOLEAN /\ lost' \in BOOLEAN /\ (lost' = TRUE => tainted' = TRUE)
    BY <2>1 DEF Written, Taints
  <2>3. ~bosDone /\ UNCHANGED <<base, bosDone, unread, keyPos, era>>
    BY <1>6 DEF PutHeader
  <2> QED
    BY <2>1, <2>2, <2>3
<1>7. ASSUME NEW n \in 1..MaxAsk, Put(n) PROVE IInv'
  <2>1. PICK k \in 0..n, fails \in BOOLEAN :
           /\ Written(n, k, fails)
           /\ pos' = pos + k
           /\ keyPos' \in IF fails THEN (keyPos + k)..(keyPos + n) ELSE {keyPos + n}
    BY <1>7 DEF Put
  <2>2. /\ tainted' \in BOOLEAN /\ lost' \in BOOLEAN
        /\ lost' = TRUE => tainted' = TRUE
        /\ ~tainted' => ~fails /\ k = n
    BY <2>1 DEF Written, Taints
  <2>3. ~tainted /\ bosDone /\ UNCHANGED <<base, bosDone, unread, era>>
    BY <1>7 DEF Put
  <2>4. keyPos' \in Int /\ (~fails => keyPos' = keyPos + n)
    BY <2>1
  <2> QED
    BY <2>1, <2>2, <2>3, <2>4
<1>8. ASSUME NEW n \in 0..MaxAsk, Get(n) PROVE IInv'
  <2>1. PICK k \in 0..Least(n, Left) : pos' = pos + k /\ keyPos' = keyPos + k
    BY <1>8 DEF Get
  <2>2. UNCHANGED <<base, bosDone, unread, tainted, lost, era>>
    BY <1>8 DEF Get
  <2> QED
    BY <2>1, <2>2
<1>9. CASE PutNeutral
  BY <1>9 DEF PutNeutral
<1>10. CASE FlushFails
  BY <1>10 DEF FlushFails
<1>11. CASE SwitchToGet
  BY <1>11 DEF SwitchToGet
<1>12. CASE SwitchToPut
  BY <1>12 DEF SwitchToPut, KernelTell
<1>13. CASE Seek
  BY <1>13 DEF Seek
<1>14. CASE SeekFails
  <2>1. Positions'
    BY <1>14 DEF SeekFails, Resync
  <2>2. Flags' /\ LossTaints'
    BY <1>14 DEF SeekFails
  <2>3. InStep'
    BY <1>14 DEF SeekFails, Resync
  <2> QED
    BY <2>1, <2>2, <2>3
<1>15. ASSUME NEW f \in Contents, Attach(f) PROVE IInv'
  <2>1. Positions'
    BY <1>15 DEF Attach, Replaced, Cleared
  <2>2. Flags' /\ LossTaints'
    BY <1>15 DEF Attach, Replaced, Cleared
  <2>3. InStep'
    BY <1>15 DEF Attach, Replaced, Cleared
  <2> QED
    BY <2>1, <2>2, <2>3
<1>16. ASSUME NEW f \in Contents, AttachFails(f) PROVE IInv'
  <2>1. Positions'
    BY <1>16 DEF AttachFails, Replaced
  <2>2. Flags' /\ LossTaints'
    BY <1>16 DEF AttachFails, Replaced
  <2>3. InStep'
    BY <1>16 DEF AttachFails, Replaced
  <2> QED
    BY <2>1, <2>2, <2>3
<1>17. CASE UNCHANGED vars
  BY <1>17 DEF vars, layer
<1> QED
  BY <1>1, <1>2, <1>3, <1>4, <1>5, <1>6, <1>7, <1>8, <1>9, <1>10, <1>11, <1>12,
     <1>13, <1>14, <1>15, <1>16, <1>17 DEF Next

LEMMA IInvKept == Spec => []IInv
  BY InitIInv, NextIInv, PTL DEF Spec

(* The key is applied where the kernel is whenever the layer works on      *)
(* content (seek_impl(), get_main() and put_main() of vigenere_cvt with    *)
(* the switches of abs_cvt).                                               *)
THEOREM KeyStaysInStep == Spec => []KeyInStep
<1>1. IInv => KeyInStep
  BY DEF IInv, Positions, Flags, InStep, KeyInStep
<1> QED
  BY <1>1, IInvKept, PTL

(* A tainted layer neither reads nor writes. *)
LEMMA TaintStops ==
    ASSUME IInv, tainted = TRUE, Next, era' = era
    PROVE  got' = <<>> /\ file' = file
<1> USE DEF IInv, Positions, Aside, Quiet, Reads, kernel
<1>1. ~Bos /\ ~MainContBeg /\ ~PutNeutral /\ ~FlushFails /\ ~SwitchToGet /\ ~SwitchToPut
      /\ ~Seek /\ ~SeekFails
  BY DEF Bos, MainContBeg, PutNeutral, FlushFails, SwitchToGet, SwitchToPut, Seek, SeekFails
<1>2. ASSUME NEW n \in 0..MaxAsk PROVE ~Get(n)
  BY DEF Get, MayRead
<1>3. ASSUME NEW n \in 1..MaxAsk PROVE ~GetHeader(n) /\ ~PutHeader(n) /\ ~Put(n)
  BY DEF GetHeader, PutHeader, Put
<1>4. ASSUME NEW f \in Contents PROVE ~Attach(f) /\ ~AttachFails(f)
  BY DEF Attach, AttachFails, Replaced
<1>5. Refused \/ GetHeld
  BY <1>1, <1>2, <1>3, <1>4 DEF Next
<1> QED
  BY <1>5 DEF Refused, GetHeld

(* Once a put has dropped characters, nothing more is read or written      *)
(* until another device is attached (put() and assert_not_tainted()).      *)
THEOREM NothingFollowsLoss == Spec => NothingAfterLoss
<1>1. IInv /\ [Next]_vars => [lost /\ era' = era => got' = <<>> /\ file' = file]_vars
  <2> SUFFICES ASSUME IInv, Next, lost, era' = era
               PROVE  got' = <<>> /\ file' = file
    BY DEF vars
  <2>1. tainted = TRUE
    BY DEF IInv, Flags, LossTaints
  <2> QED
    BY <2>1, TaintStops
<1> QED
  BY <1>1, IInvKept, PTL DEF Spec, NothingAfterLoss
-----------------------------------------------------------------------------
(* What a step makes of each group of variables. *)
Chars == 0..(Width - 1)

FileOK == file \in Seq(Chars) /\ pos \in 0..Len(file) /\ base \in 0..pos
AreaOK ==
    /\ status \in {"neutral", "input", "output"}
    /\ unread \in 0..(BosChunk - 1)
    /\ tainted \/ unread <= pos - base
FlagsOK == {bosDone, getError, tainted, short, lost} \subseteq BOOLEAN
CountsOK == keyPos \in Nat /\ nextByte \in Nat \ {0} /\ got \in Seq(Chars)

(* A read area that may hold something belongs to a layer that reads. *)
AreaRead == ~tainted /\ unread > 0 => status = "input" /\ ~bosDone

(* KeyInStep, the types, and where the read area is used. *)
LayerInv == TypeOK /\ IInv /\ AreaRead

LEMMA Bounds ==
  /\ Width \in Nat \ {0} /\ BosChunk \in Nat \ {0} /\ MaxByte \in Nat /\ MaxByte < Width
  /\ Len(Key) \in Nat \ {0} /\ \A j \in 1..Len(Key) : Key[j] \in Chars
<1>1. /\ Width \in Nat \ {0} /\ BosChunk \in Nat \ {0} /\ MaxByte \in 0..(Width - 1)
      /\ Key \in Seq(Chars) /\ Key # <<>>
  BY LayerAssumption DEF LayerAssumption, Chars
<1>2. Len(Key) \in Nat \ {0} /\ \A j \in 1..Len(Key) : Key[j] \in Chars
  BY ONLY <1>1, EmptySeq, LenProperties
<1>3. MaxByte \in Nat /\ MaxByte < Width
  BY ONLY <1>1
<1>4. QED  BY <1>1, <1>2, <1>3

LEMMA KeyIsThere ==
  ASSUME NEW p \in Nat
  PROVE  KeyAt(p) \in Chars
<1>1. PICK l \in Nat \ {0} : l = Len(Key)
  BY Bounds
<1>2. (p % l) + 1 \in 1..l
  OBVIOUS
<1>3. QED  BY <1>1, <1>2, Bounds DEF KeyAt

(* Encoding and decoding stay within the characters, and one undoes the    *)
(* other (the subtraction and the addition of vigenere_cvt).               *)
LEMMA WrapsUndo ==
  ASSUME NEW x \in Nat, NEW k \in Chars
  PROVE  /\ SubWrap(x, k) \in Chars /\ AddWrap(x, k) \in Chars
         /\ x < Width => SubWrap(AddWrap(x, k), k) = x
<1>1. PICK w \in Nat \ {0} : w = Width
  BY Bounds
<1>2. k \in 0..(w - 1)
  BY <1>1 DEF Chars
<1>3. (x + w) - k \in Nat
  BY ONLY <1>2, x \in Nat, w \in Nat \ {0}
<1>4. ((x + w) - k) % w \in 0..(w - 1) /\ (x + k) % w \in 0..(w - 1)
  BY ONLY <1>2, <1>3, x \in Nat, w \in Nat \ {0}
<1>5. x < w => ((((x + k) % w) + w) - k) % w = x
  BY ONLY <1>2, x \in Nat, w \in Nat \ {0}
<1>6. QED  BY <1>1, <1>4, <1>5 DEF SubWrap, AddWrap, Chars

LEMMA StoredLaidOver ==
  ASSUME file \in Seq(Chars), NEW p \in 0..Len(file), NEW chars \in Seq(Chars)
  PROVE  IsLaidOver(Stored(p, chars), Chars, file, p, chars)
<1>1. PICK f \in Seq(Chars) : f = file
  OBVIOUS
<1>2. p \in Nat /\ p <= Len(f)
  BY <1>1
<1>3. IsLaidOver(SubSeq(f, 1, p) \o chars \o SubSeq(f, p + Len(chars) + 1, Len(f)), Chars, f, p, chars)
  BY ONLY <1>2, f \in Seq(Chars), chars \in Seq(Chars), LaidOverElements
<1>4. QED  BY <1>1, <1>3 DEF Stored

(* What a put hands to the kernel. *)
Encoded(k) == [i \in 1..k |-> AddWrap(nextByte + i - 1, KeyAt(keyPos + i - 1))]
AsIs(k) == [i \in 1..k |-> nextByte + i - 1]

LEMMA PutChars ==
  ASSUME TypeOK, NEW n \in Nat, NEW k \in 0..n, nextByte + n - 1 <= MaxByte
  PROVE  /\ Encoded(k) \in Seq(Chars) /\ Len(Encoded(k)) = k
         /\ AsIs(k) \in Seq(Chars) /\ Len(AsIs(k)) = k
<1>1. k \in Nat /\ nextByte \in Nat \ {0} /\ keyPos \in Nat
  BY DEF TypeOK
<1>2. ASSUME NEW i \in 1..k
      PROVE  /\ nextByte + i - 1 \in Chars /\ nextByte + i - 1 \in Nat
             /\ keyPos + i - 1 \in Nat
  BY <1>1, Bounds DEF Chars
<1>3. ASSUME NEW i \in 1..k PROVE AddWrap(nextByte + i - 1, KeyAt(keyPos + i - 1)) \in Chars
  BY ONLY <1>2, <1>3, KeyIsThere, WrapsUndo
<1>4. \A i \in 1..k : Encoded(k)[i] \in Chars /\ AsIs(k)[i] \in Chars
  BY <1>2, <1>3 DEF Encoded, AsIs
<1>5. Encoded(k) \in [1..k -> Chars]
  BY <1>3 DEF Encoded
<1>6. AsIs(k) \in [1..k -> Chars]
  BY <1>2 DEF AsIs
<1>7. \A g \in [1..k -> Chars] : g \in Seq(Chars) /\ Len(g) = k
  BY ONLY <1>1
<1>8. QED  BY ONLY <1>5, <1>6, <1>7

(* A put of n characters of which the kernel takes the k in data. *)
LEMMA PutKeepsTypes ==
  ASSUME TypeOK, NEW n \in Nat, NEW k \in 0..n, NEW fails \in BOOLEAN, Written(n, k, fails),
         NEW data \in Seq(Chars), Len(data) = k, file' = Stored(pos, data), pos' = pos + k,
         base' = base, bosDone' = bosDone, unread' = unread,
         status' = "output", getError' \in BOOLEAN, keyPos' \in Nat
  PROVE  TypeOK'
<1>1. /\ file \in Seq(Chars) /\ Len(file) \in Nat /\ pos \in 0..Len(file) /\ base \in 0..pos
      /\ unread \in 0..(BosChunk - 1) /\ (tainted \/ unread <= pos - base)
      /\ bosDone \in BOOLEAN /\ tainted \in BOOLEAN /\ lost \in BOOLEAN /\ nextByte \in Nat \ {0}
      /\ k \in Nat
  BY DEF TypeOK, Chars
<1>2. file' \in Seq(Chars) /\ Len(file') = IF Len(file) < pos + k THEN pos + k ELSE Len(file)
  BY <1>1, StoredLaidOver DEF IsLaidOver
<1>3. pos' \in 0..Len(file')
  BY ONLY <1>1, <1>2, pos' = pos + k
<1>4. base' \in 0..pos' /\ (tainted \/ unread' <= pos' - base')
  BY ONLY <1>1, pos' = pos + k, base' = base, unread' = unread, Bounds
<1>5. /\ tainted' \in BOOLEAN /\ lost' \in BOOLEAN /\ (tainted => tainted')
      /\ nextByte' \in Nat \ {0} /\ got' = <<>> /\ short' = FALSE
  BY <1>1 DEF Written, Taints, Quiet, Reads
<1>6. tainted' \/ unread' <= pos' - base'
  BY <1>4, <1>5
<1>7. {bosDone', getError', tainted', short', lost'} \subseteq BOOLEAN
  BY <1>1, <1>5
<1>8. got' \in Seq(Chars)
  BY <1>5
<1>9. QED  BY <1>1, <1>2, <1>3, <1>4, <1>5, <1>6, <1>7, <1>8 DEF TypeOK, Chars

(* A step that leaves the file alone and the rest well typed. *)
Settled ==
    /\ file' = file /\ base' = base /\ nextByte' = nextByte /\ lost' = lost
    /\ pos' \in 0..Len(file) /\ base <= pos'
    /\ status' \in {"neutral", "input", "output"} /\ unread' \in 0..(BosChunk - 1)
    /\ tainted' \/ unread' <= pos' - base
    /\ bosDone' \in BOOLEAN /\ getError' \in BOOLEAN /\ tainted' \in BOOLEAN
    /\ keyPos' \in Nat

LEMMA ReadKeepsTypes ==
  ASSUME TypeOK, Settled, NEW chars \in Seq(Chars), NEW less \in BOOLEAN, Reads(chars, less)
  PROVE  TypeOK'
<1>1. got' \in Seq(Chars) /\ short' \in BOOLEAN
  BY DEF Reads
<1>2. base' \in 0..pos'
  BY DEF TypeOK, Settled
<1>3. {bosDone', getError', tainted', short', lost'} \subseteq BOOLEAN
  BY <1>1 DEF TypeOK, Settled
<1>4. QED  BY <1>1, <1>2, <1>3 DEF TypeOK, Chars, Settled

LEMMA QuietKeepsTypes ==
  ASSUME TypeOK, Settled, Quiet
  PROVE  TypeOK'
<1>0. got' = <<>> /\ short' = FALSE
  BY DEF Quiet, Reads
<1>1. got' \in Seq(Chars) /\ short' \in BOOLEAN
  <2>1. <<>> \in Seq(Chars)
    OBVIOUS
  <2>2. short' \in BOOLEAN
    BY ONLY <1>0
  <2>3. QED  BY ONLY <1>0, <2>1, <2>2
<1>2. base' \in 0..pos'
  BY DEF TypeOK, Settled
<1>3. {bosDone', getError', tainted', short', lost'} \subseteq BOOLEAN
  BY <1>1 DEF TypeOK, Settled
<1>4. QED  BY <1>1, <1>2, <1>3 DEF TypeOK, Chars, Settled

(* TypeOK in the pieces the steps below look at. *)
LEMMA Typed ==
  ASSUME TypeOK
  PROVE  /\ file \in Seq(Chars) /\ Len(file) \in Nat /\ pos \in Nat /\ pos <= Len(file)
         /\ base \in Nat /\ base <= pos
         /\ status \in {"neutral", "input", "output"}
         /\ unread \in Nat /\ unread <= BosChunk - 1 /\ unread \in 0..(BosChunk - 1)
         /\ bosDone \in BOOLEAN /\ getError \in BOOLEAN /\ tainted \in BOOLEAN
         /\ short \in BOOLEAN /\ lost \in BOOLEAN
         /\ keyPos \in Nat /\ nextByte \in Nat \ {0} /\ got \in Seq(Chars)
         /\ ~tainted => unread <= pos - base
<1>1. file \in Seq(Chars) /\ pos \in 0..Len(file) /\ base \in 0..pos /\ Len(file) \in Nat
  BY DEF TypeOK, Chars
<1>2. pos \in Nat /\ pos <= Len(file) /\ base \in Nat /\ base <= pos
  BY ONLY <1>1
<1>3. unread \in 0..(BosChunk - 1) /\ BosChunk \in Nat
  BY Bounds DEF TypeOK
<1>4. unread \in Nat /\ unread <= BosChunk - 1
  BY ONLY <1>3
<1>5. QED  BY <1>1, <1>2, <1>3, <1>4 DEF TypeOK, Chars

LEMMA HeaderGetKeepsTypes ==
  ASSUME TypeOK, NEW n \in 1..MaxAsk, GetHeader(n)
  PROVE  TypeOK'
<1>1. /\ file' = file /\ base' = base /\ status' = status /\ bosDone' = bosDone
      /\ getError' = getError /\ tainted' = tainted /\ keyPos' = keyPos
      /\ nextByte' = nextByte /\ lost' = lost /\ ~tainted
  BY DEF GetHeader
<1>2. n \in Nat \ {0} /\ BosChunk \in Nat \ {0}
  BY LayerAssumption DEF LayerAssumption
<1>3. unread <= pos - base
  BY <1>1, Typed
<1>4. CASE /\ n <= unread + Left
           /\ unread' = IF n <= unread THEN unread - n ELSE 0
           /\ pos' = KernelTell + n + unread'
           /\ Reads(SubSeq(file, KernelTell + 1, KernelTell + n), FALSE)
  <2>1. PICK l \in Nat, p \in Nat, u \in Nat, b \in Nat, c \in Nat :
           l = Len(file) /\ p = pos /\ u = unread /\ b = base /\ c = BosChunk
    BY <1>2, Typed
  <2>2. p <= l /\ b <= p /\ u <= c - 1 /\ u <= p - b /\ n <= u + (l - p)
    BY <1>3, <1>4, <2>1, Typed DEF Left
  <2>3. PICK v \in Nat : v = IF n <= u THEN u - n ELSE 0
    <3>1. n <= u => u - n \in Nat
      BY ONLY <1>2, u \in Nat
    <3>2. QED  BY ONLY <3>1
  <2>4. unread' = v /\ pos' = ((p - u) + n) + v
    BY <1>4, <2>1, <2>3 DEF KernelTell
  <2>5. /\ ((p - u) + n) + v \in 0..l /\ b <= ((p - u) + n) + v
        /\ v \in 0..(c - 1) /\ v <= (((p - u) + n) + v) - b
    BY ONLY <1>2, <2>2, <2>3, l \in Nat, p \in Nat, u \in Nat, b \in Nat, c \in Nat
  <2>6. SubSeq(file, KernelTell + 1, KernelTell + n) \in Seq(Chars)
    <3>1. PICK a \in Nat, e \in Nat : a = KernelTell /\ e = a + n /\ a <= e /\ e <= l
      <4>1. p - u \in Nat /\ (p - u) + n \in Nat /\ (p - u) + n <= l /\ p - u <= (p - u) + n
        BY ONLY <1>2, <2>2, l \in Nat, p \in Nat, u \in Nat, b \in Nat, c \in Nat
      <4>2. KernelTell = p - u
        BY <2>1 DEF KernelTell
      <4>3. QED  BY <4>1, <4>2
    <3>2. file \in Seq(Chars) /\ e <= Len(file)
      BY <2>1, <3>1, Typed
    <3>3. SubSeq(file, a + 1, e) \in Seq(Chars)
      BY ONLY <3>1, <3>2, a \in Nat, e \in Nat, PieceElements
    <3>4. QED  BY <3>1, <3>3
  <2>7. /\ pos' \in 0..Len(file) /\ base <= pos' /\ unread' \in 0..(BosChunk - 1)
        /\ unread' <= pos' - base
    BY ONLY <2>1, <2>4, <2>5
  <2>8. Settled
    BY <1>1, <2>7, Typed DEF Settled
  <2>9. QED  BY ONLY TypeOK, <1>4, <2>6, <2>8, ReadKeepsTypes
<1>5. CASE \E c \in {i \in 0..(n - 1) : i % BosChunk = 0} :
             /\ unread' \in (IF c = 0 THEN unread ELSE 0)..(Least(BosChunk, n - c) - 1)
             /\ pos' = KernelTell + c + unread'
             /\ pos' <= Len(file)
             /\ Quiet
  <2>1. PICK c \in 0..(n - 1) :
             /\ unread' \in (IF c = 0 THEN unread ELSE 0)..(Least(BosChunk, n - c) - 1)
             /\ pos' = KernelTell + c + unread'
             /\ pos' <= Len(file)
             /\ Quiet
    BY <1>5
  <2>2. PICK p \in Nat, u \in Nat, b \in Nat, w \in Nat :
           p = pos /\ u = unread /\ b = base /\ w = BosChunk
    BY <1>2, Typed
  <2>3. Least(w, n - c) \in Nat /\ Least(w, n - c) <= w
    BY <1>2, <2>1 DEF Least
  <2>4. /\ unread' \in (IF c = 0 THEN u ELSE 0)..(Least(w, n - c) - 1)
        /\ b <= p /\ u <= p - b
    BY <1>3, <2>1, <2>2, Typed
  <2>5. unread' \in 0..(w - 1)
    BY ONLY <2>3, <2>4, w \in Nat, u \in Nat
  <2>6. pos' = ((p - u) + c) + unread'
    BY <2>1, <2>2 DEF KernelTell
  <2>7. PICK v \in Nat : v = unread'
    BY <2>2, <2>5
  <2>8. /\ ((p - u) + c) + v \in Nat /\ b <= ((p - u) + c) + v
        /\ v <= (((p - u) + c) + v) - b
    BY ONLY <2>4, c \in 0..(n - 1), v \in Nat, <1>2, p \in Nat, u \in Nat, b \in Nat
  <2>9. /\ pos' \in Nat /\ base <= pos' /\ unread' \in 0..(BosChunk - 1)
        /\ unread' <= pos' - base
    BY ONLY <2>2, <2>5, <2>6, <2>7, <2>8
  <2>10. pos' \in 0..Len(file)
    BY <2>1, <2>9, Typed
  <2>11. Settled
    BY <1>1, <2>9, <2>10, Typed DEF Settled
  <2>12. QED  BY ONLY TypeOK, <2>1, <2>11, QuietKeepsTypes
<1>6. QED  BY <1>4, <1>5 DEF GetHeader

LEMMA GetKeepsTypes ==
  ASSUME TypeOK, NEW n \in 0..MaxAsk, Get(n)
  PROVE  TypeOK'
<1>1. PICK k \in 0..Least(n, Left), fails \in BOOLEAN :
        /\ pos' = pos + k /\ keyPos' = keyPos + k
        /\ getError' = Holds(k, fails)
        /\ Reads(Delivered(k), k < n /\ ~(fails /\ k = 0))
  BY DEF Get
<1>2. Left \in Nat /\ n \in Nat /\ k \in Nat /\ k <= Left
  <2>1. Left \in Nat /\ n \in Nat
    BY Typed, LayerAssumption DEF Left, LayerAssumption
  <2>2. QED  BY ONLY <2>1, k \in 0..Least(n, Left) DEF Least
<1>3. pos + k \in 0..Len(file) /\ base <= pos + k
  <2>1. PICK l \in Nat, p \in Nat, b \in Nat : l = Len(file) /\ p = pos /\ b = base /\ p <= l /\ b <= p
    BY Typed
  <2>2. Left = l - p
    BY <2>1 DEF Left
  <2>3. p + k \in 0..l /\ b <= p + k
    BY ONLY <1>2, <2>1, <2>2, l \in Nat, p \in Nat, b \in Nat
  <2>4. QED  BY <2>1, <2>3
<1>4. ASSUME NEW i \in 1..k PROVE SubWrap(file[pos + i], KeyAt(keyPos + i - 1)) \in Chars
  <2>1. pos + i \in 1..Len(file) /\ keyPos + i - 1 \in Nat
    <3>1. /\ pos \in Nat /\ Len(file) \in Nat /\ keyPos \in Nat /\ k \in Nat
          /\ pos + k <= Len(file)
      BY <1>2, <1>3, Typed
    <3>2. QED  BY ONLY <3>1, i \in 1..k
  <2>2. file[pos + i] \in Chars
    BY <2>1, Typed
  <2>3. file[pos + i] \in Nat
    BY ONLY <2>2, Bounds DEF Chars
  <2>4. KeyAt(keyPos + i - 1) \in Chars
    BY ONLY <2>1, KeyIsThere
  <2>5. QED  BY ONLY <2>3, <2>4, WrapsUndo
<1>5. Delivered(k) \in Seq(Chars)
  <2>1. Delivered(k) \in [1..k -> Chars]
    BY <1>4 DEF Delivered
  <2>2. QED  BY ONLY <1>2, <2>1
<1>6. getError' \in BOOLEAN
  BY <1>1 DEF Holds
<1>7. /\ file' = file /\ base' = base /\ nextByte' = nextByte /\ lost' = lost
      /\ status' = "input" /\ unread' = unread /\ tainted' = tainted /\ bosDone' = bosDone
      /\ ~tainted
  BY DEF Get, MayRead
<1>8. unread' <= pos' - base'
  <2>1. unread <= pos - base
    BY <1>7, Typed
  <2>2. pos \in Nat /\ base \in Nat /\ unread \in Nat
    BY Typed
  <2>3. unread <= (pos + k) - base
    BY ONLY <1>2, <2>1, <2>2
  <2>4. QED  BY ONLY <1>1, <1>7, <2>3
<1>9. keyPos' \in Nat
  BY <1>1, <1>2, Typed
<1>10. Settled
  BY <1>1, <1>3, <1>6, <1>7, <1>8, <1>9, Typed DEF Settled
<1>11. (k < n /\ ~(fails /\ k = 0)) \in BOOLEAN
  OBVIOUS
<1>12. PICK less \in BOOLEAN : Reads(Delivered(k), less)
  BY <1>1, <1>11
<1>13. QED  BY ONLY TypeOK, <1>5, <1>10, <1>12, less \in BOOLEAN, ReadKeepsTypes

LEMMA PutsKeepTypes ==
  ASSUME TypeOK, NEW n \in 1..MaxAsk, PutHeader(n) \/ Put(n)
  PROVE  TypeOK'
<1>1. n \in Nat
  BY LayerAssumption DEF LayerAssumption
<1>2. CASE PutHeader(n)
  <2>1. PICK k \in 0..n, fails \in BOOLEAN :
           /\ Written(n, k, fails)
           /\ file' = Stored(pos, AsIs(k))
           /\ pos' = pos + k
    BY <1>2 DEF PutHeader, AsIs
  <2>2. /\ base' = base /\ bosDone' = bosDone /\ unread' = unread /\ status' = "output"
        /\ getError' \in BOOLEAN /\ keyPos' \in Nat
    BY <1>2, Typed DEF PutHeader
  <2>3. AsIs(k) \in Seq(Chars) /\ Len(AsIs(k)) = k
    BY <1>1, <2>1, PutChars DEF Written
  <2>4. QED  BY <1>1, <2>1, <2>2, <2>3, PutKeepsTypes
<1>3. CASE Put(n)
  <2>1. PICK k \in 0..n, fails \in BOOLEAN :
           /\ Written(n, k, fails)
           /\ file' = Stored(pos, Encoded(k))
           /\ pos' = pos + k
           /\ keyPos' \in IF fails THEN (keyPos + k)..(keyPos + n) ELSE {keyPos + n}
    BY <1>3 DEF Put, Encoded
  <2>2. /\ base' = base /\ bosDone' = bosDone /\ unread' = unread /\ status' = "output"
        /\ getError' = (getError /\ status = "output")
    BY <1>3 DEF Put
  <2>3. getError' \in BOOLEAN
    BY <2>2, Typed
  <2>4. keyPos' \in Nat
    <3>1. keyPos \in Nat
      BY Typed
    <3>2. QED  BY ONLY <1>1, <2>1, <3>1, k \in 0..n
  <2>5. Encoded(k) \in Seq(Chars) /\ Len(Encoded(k)) = k
    BY <1>1, <2>1, PutChars DEF Written
  <2>6. QED  BY <1>1, <2>1, <2>2, <2>3, <2>4, <2>5, PutKeepsTypes
<1>4. QED  BY <1>2, <1>3

(* A device is attached, or should have been. *)
LEMMA ReplacedTypes ==
  ASSUME TypeOK, NEW f \in Contents, Replaced(f),
         status' \in {"neutral", "input", "output"}, unread' \in 0..(BosChunk - 1),
         tainted' \/ unread' = 0,
         bosDone' \in BOOLEAN, getError' \in BOOLEAN, tainted' \in BOOLEAN, lost' \in BOOLEAN
  PROVE  TypeOK'
<1>1. /\ file' = f /\ pos' = 0 /\ base' = 0 /\ keyPos' = 0 /\ nextByte' = nextByte
      /\ got' = <<>> /\ short' = FALSE
  BY DEF Replaced, Quiet, Reads
<1>2. file' \in Seq(Chars) /\ pos' \in 0..Len(file') /\ base' \in 0..pos'
  BY <1>1, LayerAssumption DEF LayerAssumption, Chars
<1>3. tainted' \/ unread' <= pos' - base'
  BY <1>1
<1>4. {bosDone', getError', tainted', short', lost'} \subseteq BOOLEAN
  BY <1>1
<1>5. keyPos' \in Nat /\ nextByte' \in Nat \ {0} /\ got' \in Seq(Chars)
  BY <1>1, Typed
<1>6. QED  BY <1>2, <1>3, <1>4, <1>5 DEF TypeOK, Chars

(* The calls that neither read nor write. *)
Turns ==
    \/ Refused \/ Bos \/ MainContBeg \/ GetHeld \/ PutNeutral \/ FlushFails
    \/ SwitchToGet \/ SwitchToPut \/ Seek \/ SeekFails

LEMMA TurnsKeepTypes ==
  ASSUME TypeOK, Turns
  PROVE  TypeOK'
<1>1. CASE Refused \/ PutNeutral \/ FlushFails \/ GetHeld \/ SwitchToGet \/ Bos
  <2>1. Aside /\ file' = file /\ base' = base /\ pos' = pos /\ unread' = unread
    BY <1>1 DEF Refused, PutNeutral, FlushFails, GetHeld, SwitchToGet, Bos, Spoil, kernel, layer
  <2>2. /\ status' \in {status, "neutral", "input", "output"} /\ keyPos' \in {keyPos, 0}
        /\ bosDone' = bosDone /\ getError' \in {getError, FALSE} /\ tainted' \in {tainted, TRUE}
    <3>1. CASE Refused \/ PutNeutral \/ FlushFails
      BY <3>1 DEF Refused, PutNeutral, FlushFails, kernel, layer
    <3>2. CASE GetHeld \/ SwitchToGet \/ Bos
      BY <3>2 DEF GetHeld, SwitchToGet, Bos, Spoil, kernel
    <3>3. QED  BY <1>1, <3>1, <3>2
  <2>5. status' \in {"neutral", "input", "output"} /\ keyPos' \in Nat
    BY <2>2, Typed
  <2>6. bosDone' \in BOOLEAN /\ getError' \in BOOLEAN /\ tainted' \in BOOLEAN
    BY <2>2, Typed
  <2>7. tainted => tainted'
    BY <2>2
  <2>3. Settled /\ Quiet
    BY <2>1, <2>5, <2>6, <2>7, Typed DEF Settled, Aside
  <2>4. QED  BY ONLY TypeOK, <2>3, QuietKeepsTypes
<1>2. CASE MainContBeg
  <2>1. CASE Spoil
    <3>1. Settled /\ Quiet
      BY <2>1, Typed DEF Settled, Aside, Spoil, kernel
    <3>2. QED  BY ONLY TypeOK, <3>1, QuietKeepsTypes
  <2>2. CASE ~Spoil
    <3>1. /\ file' = file /\ pos' = pos /\ base' = pos /\ bosDone' = TRUE /\ keyPos' = 0
          /\ got' = <<>> /\ short' = FALSE /\ unread = 0
          /\ status' = status /\ unread' = unread /\ getError' = getError /\ tainted' = tainted
          /\ nextByte' = nextByte /\ lost' = lost
      BY <1>2, <2>2 DEF MainContBeg, Quiet, Reads
    <3>2. {bosDone', getError', tainted', short', lost'} \subseteq BOOLEAN
      BY <3>1, Typed
    <3>3. file' \in Seq(Chars) /\ pos' \in 0..Len(file') /\ base' \in 0..pos'
      BY <3>1, Typed
    <3>4. tainted' \/ unread' <= pos' - base'
      BY <3>1, Typed
    <3>5. keyPos' \in Nat /\ got' \in Seq(Chars)
      BY <3>1
    <3>6. QED  BY <3>1, <3>2, <3>3, <3>4, <3>5, Typed DEF TypeOK, Chars
  <2>3. QED  BY <2>1, <2>2
<1>3. CASE SwitchToPut
  <2>1. /\ Aside /\ file' = file /\ base' = base /\ pos' = pos - unread /\ unread' = 0
        /\ getError' = FALSE /\ status' \in {status, "output"} /\ bosDone' = bosDone
        /\ tainted' = tainted /\ keyPos' = keyPos /\ ~tainted
    BY <1>3 DEF SwitchToPut, KernelTell
  <2>2. unread <= pos - base
    BY <2>1, Typed
  <2>3. pos' \in 0..Len(file) /\ base <= pos' /\ unread' <= pos' - base
    <3>1. /\ pos \in Nat /\ Len(file) \in Nat /\ pos <= Len(file) /\ base \in Nat /\ base <= pos
          /\ unread \in Nat
      BY Typed
    <3>2. pos - unread \in Nat /\ pos - unread <= Len(file) /\ base <= pos - unread
          /\ 0 <= (pos - unread) - base
      BY ONLY <2>2, <3>1
    <3>3. QED  BY ONLY <2>1, <3>1, <3>2
  <2>4. Settled /\ Quiet
    <3>1. status' \in {"neutral", "input", "output"} /\ unread' \in 0..(BosChunk - 1)
      BY <2>1, Typed, Bounds
    <3>2. bosDone' \in BOOLEAN /\ getError' \in BOOLEAN /\ tainted' \in BOOLEAN
      BY <2>1, Typed
    <3>3. QED  BY <2>1, <2>3, <3>1, <3>2, Typed DEF Settled, Aside
  <2>5. QED  BY ONLY TypeOK, <2>4, QuietKeepsTypes
<1>4. CASE Seek
  <2>1. PICK p \in base..Len(file) :
           /\ pos' = p /\ keyPos' = p - base /\ unread' = 0 /\ getError' = FALSE /\ Aside
           /\ file' = file /\ base' = base /\ status' = status /\ bosDone' = bosDone
           /\ tainted' = tainted
    BY <1>4 DEF Seek
  <2>2. base \in Nat /\ Len(file) \in Nat
    BY Typed
  <2>3. p \in 0..Len(file) /\ base <= p /\ p - base \in Nat /\ 0 <= p - base
    BY ONLY <2>2, p \in base..Len(file)
  <2>4. pos' \in 0..Len(file) /\ base <= pos' /\ keyPos' \in Nat /\ unread' <= pos' - base
    BY ONLY <2>1, <2>3
  <2>5. unread' \in 0..(BosChunk - 1)
    BY <2>1, Bounds
  <2>6. bosDone' \in BOOLEAN /\ getError' \in BOOLEAN /\ tainted' \in BOOLEAN
    BY <2>1, Typed
  <2>7. Settled /\ Quiet
    BY <2>1, <2>4, <2>5, <2>6, Typed DEF Settled, Aside
  <2>8. QED  BY ONLY TypeOK, <2>7, QuietKeepsTypes
<1>5. CASE SeekFails
  <2>1. PICK p \in (base + unread)..Len(file) :
           /\ pos' = p /\ Aside
           /\ \/ keyPos' = (p - base) - unread /\ tainted' = FALSE
              \/ keyPos' = keyPos /\ tainted' = TRUE
           /\ file' = file /\ base' = base /\ status' = status /\ bosDone' = bosDone
           /\ unread' = unread /\ getError' = getError
    BY <1>5, Typed DEF SeekFails, Resync
  <2>2. base \in Nat /\ Len(file) \in Nat /\ unread \in Nat
    BY Typed
  <2>3. /\ p \in 0..Len(file) /\ base <= p /\ (p - base) - unread \in Nat
        /\ unread <= p - base
    BY ONLY <2>2, p \in (base + unread)..Len(file)
  <2>4. pos' \in 0..Len(file) /\ base <= pos' /\ unread' <= pos' - base
    BY ONLY <2>1, <2>3
  <2>5. keyPos' \in Nat
    BY <2>1, <2>3, Typed
  <2>6. bosDone' \in BOOLEAN /\ getError' \in BOOLEAN /\ tainted' \in BOOLEAN
    BY <2>1, Typed
  <2>7. Settled /\ Quiet
    BY <2>1, <2>4, <2>5, <2>6, Typed DEF Settled, Aside
  <2>8. QED  BY ONLY TypeOK, <2>7, QuietKeepsTypes
<1>6. QED  BY <1>1, <1>2, <1>3, <1>4, <1>5 DEF Turns

LEMMA InitTypeOK == Init => TypeOK
<1> SUFFICES ASSUME Init PROVE TypeOK
  OBVIOUS
<1>2. file \in Seq(Chars)
  BY LayerAssumption DEF Init, LayerAssumption, Chars
<1>3. Len(file) \in Nat
  BY <1>2
<1>4. pos \in 0..Len(file) /\ base \in 0..pos
  BY <1>3 DEF Init
<1>5. unread \in 0..(BosChunk - 1) /\ (tainted \/ unread <= pos - base)
  BY Bounds DEF Init
<1>6. {bosDone, getError, tainted, short, lost} \subseteq BOOLEAN
  BY DEF Init
<1>7. keyPos \in Nat /\ nextByte \in Nat \ {0} /\ got \in Seq(Chars)
  BY DEF Init
<1>8. status \in {"neutral", "input", "output"}
  BY DEF Init
<1>9. QED  BY <1>2, <1>4, <1>5, <1>6, <1>7, <1>8 DEF TypeOK, Chars

LEMMA NextTypeOK ==
  ASSUME TypeOK, [Next]_vars
  PROVE  TypeOK'
<1>2. CASE Turns
  BY <1>2, TurnsKeepTypes
<1>3. ASSUME NEW n \in 1..MaxAsk, GetHeader(n) \/ PutHeader(n) \/ Put(n) PROVE TypeOK'
  <2>1. CASE GetHeader(n)
    BY ONLY TypeOK, n \in 1..MaxAsk, <2>1, HeaderGetKeepsTypes
  <2>2. CASE PutHeader(n) \/ Put(n)
    BY ONLY TypeOK, n \in 1..MaxAsk, <2>2, PutsKeepTypes
  <2>3. QED  BY <1>3, <2>1, <2>2
<1>4. ASSUME NEW n \in 0..MaxAsk, Get(n) PROVE TypeOK'
  BY ONLY TypeOK, n \in 0..MaxAsk, <1>4, GetKeepsTypes
<1>5. ASSUME NEW f \in Contents, Attach(f) \/ AttachFails(f) PROVE TypeOK'
  <2>1. Replaced(f)
    BY <1>5 DEF Attach, AttachFails
  <2>2. CASE Attach(f)
    <3>1. /\ status' \in {"neutral", "input", "output"} /\ unread' \in 0..(BosChunk - 1)
          /\ tainted' \/ unread' = 0
      BY <2>2, Bounds DEF Attach, Cleared
    <3>2. bosDone' \in BOOLEAN /\ getError' \in BOOLEAN /\ tainted' \in BOOLEAN /\ lost' \in BOOLEAN
      BY <2>2 DEF Attach, Cleared
    <3>3. QED  BY <2>1, <3>1, <3>2, ReplacedTypes
  <2>3. CASE AttachFails(f)
    <3>1. /\ status' \in {"neutral", "input", "output"} /\ unread' \in 0..(BosChunk - 1)
          /\ tainted' \/ unread' = 0
      BY <2>3, Typed DEF AttachFails
    <3>2. bosDone' \in BOOLEAN /\ getError' \in BOOLEAN /\ tainted' \in BOOLEAN /\ lost' \in BOOLEAN
      BY <2>3, Typed DEF AttachFails
    <3>3. QED  BY <2>1, <3>1, <3>2, ReplacedTypes
  <2>4. QED  BY <1>5, <2>2, <2>3
<1>6. CASE UNCHANGED vars
  BY <1>6 DEF vars, kernel, layer, TypeOK
<1>7. QED  BY <1>2, <1>3, <1>4, <1>5, <1>6 DEF Next, Turns

LEMMA AreaReadKept ==
  ASSUME TypeOK, AreaRead, [Next]_vars
  PROVE  AreaRead'
<1>0. unread \in Nat /\ tainted \in BOOLEAN /\ bosDone \in BOOLEAN
  BY Typed
<1> USE <1>0 DEF AreaRead
<1>1. CASE Refused \/ GetHeld \/ PutNeutral \/ FlushFails \/ SwitchToGet \/ UNCHANGED vars
  BY <1>1 DEF Refused, GetHeld, PutNeutral, FlushFails, SwitchToGet, Aside, kernel, layer, vars
<1>2. CASE Bos \/ MainContBeg
  BY <1>2 DEF Bos, MainContBeg, Spoil
<1>3. CASE SwitchToPut \/ Seek \/ SeekFails
  BY <1>3 DEF SwitchToPut, Seek, SeekFails
<1>4. ASSUME NEW n \in 1..MaxAsk, GetHeader(n) PROVE AreaRead'
  BY <1>4 DEF GetHeader
<1>5. ASSUME NEW n \in 1..MaxAsk, PutHeader(n) \/ Put(n) PROVE AreaRead'
  <2>1. unread' = unread /\ unread = 0
    BY <1>5 DEF PutHeader, Put
  <2>2. QED  BY <2>1
<1>6. ASSUME NEW n \in 0..MaxAsk, Get(n) PROVE AreaRead'
  BY <1>6 DEF Get, MayRead
<1>7. ASSUME NEW f \in Contents, Attach(f) \/ AttachFails(f) PROVE AreaRead'
  BY <1>7 DEF Attach, AttachFails, Cleared
<1>8. QED  BY <1>1, <1>2, <1>3, <1>4, <1>5, <1>6, <1>7 DEF Next

LEMMA LayerInvKept == Spec => []LayerInv
<1>1. Init => LayerInv
  <2>1. SUFFICES ASSUME Init PROVE AreaRead
    BY InitTypeOK, InitIInv DEF LayerInv
  <2>2. QED  BY <2>1 DEF Init, AreaRead
<1>2. LayerInv /\ [Next]_vars => LayerInv'
  BY NextTypeOK, NextIInv, AreaReadKept DEF LayerInv
<1>3. QED  BY <1>1, <1>2, PTL DEF Spec

(* The layer's variables keep to their types, its position among them:     *)
(* kernel_tell() does not wrap below zero while the layer is usable.       *)
THEOREM LayerStaysTyped == Spec => []TypeOK
<1>1. LayerInv => TypeOK
  BY DEF LayerInv
<1>2. QED  BY <1>1, LayerInvKept, PTL

(* A get() that returns less than it was asked for has come to the end, or *)
(* the next get() reports why not (get_main() with m_get_error).           *)
THEOREM ShortReadIsExplained == Spec => []ShortMeansEnd
<1>1. Init => ShortMeansEnd
  BY DEF Init, ShortMeansEnd
<1>2. ASSUME LayerInv, ShortMeansEnd, [Next]_vars PROVE ShortMeansEnd'
  <2>1. CASE short' = FALSE
    BY <2>1 DEF ShortMeansEnd
  <2>2. CASE UNCHANGED vars
    BY <1>2, <2>2 DEF vars, kernel, layer, ShortMeansEnd, Left
  <2>3. ASSUME NEW n \in 0..MaxAsk, Get(n) PROVE ShortMeansEnd'
    <3>0. MaxAsk \in Nat
      BY LayerAssumption DEF LayerAssumption
    <3>a. Left \in Nat /\ n \in Nat
      <4>1. Left \in Nat
        BY <1>2, Typed DEF Left, LayerInv
      <4>2. QED  BY ONLY <3>0, <4>1, n \in 0..MaxAsk
    <3>1. PICK k \in 0..Least(n, Left), fails \in BOOLEAN :
             /\ k < Least(n, Left) => fails
             /\ pos' = pos + k
             /\ getError' = Holds(k, fails)
             /\ Reads(Delivered(k), k < n /\ ~(fails /\ k = 0))
      BY <2>3 DEF Get
    <3>2. file' = file
      BY <2>3 DEF Get
    <3>3. SUFFICES ASSUME short' PROVE Left' = 0 \/ getError'
      BY DEF ShortMeansEnd
    <3>4. k < n /\ ~(fails /\ k = 0)
      BY <3>1, <3>3 DEF Reads
    <3>5. CASE fails
      <4>1. k \in Nat /\ n \in Nat /\ k # 0
        BY ONLY <3>a, <3>4, <3>5, k \in 0..Least(n, Left) DEF Least
      <4>2. k > 0
        BY ONLY <4>1
      <4>3. getError' = Holds(k, fails)
        BY <3>1
      <4>4. QED  BY ONLY <3>5, <4>2, <4>3 DEF Holds
    <3>6. CASE ~fails
      <4>1. ~(k < Least(n, Left))
        BY <3>1, <3>6
      <4>2. k = Left
        BY ONLY <3>a, <3>4, <4>1, k \in 0..Least(n, Left) DEF Least
      <4>3. Left' = 0
        BY <1>2, <3>1, <3>2, <4>2, Typed DEF Left, LayerInv
      <4>4. QED  BY <4>3
    <3>7. QED  BY <3>5, <3>6
  <2>4. ASSUME NEW n \in 1..MaxAsk, GetHeader(n) \/ PutHeader(n) \/ Put(n) PROVE short' = FALSE
    BY <2>4 DEF GetHeader, PutHeader, Put, Written, Quiet, Reads
  <2>5. ASSUME NEW f \in Contents, Attach(f) \/ AttachFails(f) PROVE short' = FALSE
    BY <2>5 DEF Attach, AttachFails, Replaced, Quiet, Reads
  <2>6. ASSUME Turns PROVE short' = FALSE
    BY <2>6 DEF Turns, Refused, Bos, MainContBeg, GetHeld, PutNeutral, FlushFails, SwitchToGet,
                SwitchToPut, Seek, SeekFails, Spoil, Aside, Quiet, Reads
  <2>7. QED  BY <1>2, <2>1, <2>2, <2>3, <2>4, <2>5, <2>6 DEF Next, Turns
<1>3. QED  BY <1>1, <1>2, LayerInvKept, PTL DEF Spec
-----------------------------------------------------------------------------
(* What a file shows above the layer, given where its content begins.      *)
Plain(f, b, done) ==
    IF done
    THEN [i \in 1..Len(f) |->
            IF i <= b THEN f[i] ELSE SubWrap(f[i], KeyAt(i - b - 1))]
    ELSE f

PlainAt(p, u) == IF u <= p THEN p - u ELSE 0

LEMMA PlainElements ==
  ASSUME NEW f \in Seq(Chars), NEW b \in Nat, NEW done \in BOOLEAN
  PROVE  /\ Plain(f, b, done) \in Seq(Nat) /\ Len(Plain(f, b, done)) = Len(f)
         /\ \A i \in 1..Len(f) :
               Plain(f, b, done)[i] =
                  IF done /\ ~(i <= b) THEN SubWrap(f[i], KeyAt(i - b - 1)) ELSE f[i]
<1>1. \A x \in Chars : x \in Nat
  BY Bounds DEF Chars
<1>2. CASE done
  <2>1. ASSUME NEW i \in 1..Len(f)
        PROVE  (IF i <= b THEN f[i] ELSE SubWrap(f[i], KeyAt(i - b - 1))) \in Nat
    <3>1. f[i] \in Chars
      OBVIOUS
    <3>2. CASE i <= b
      BY <1>1, <3>1, <3>2
    <3>3. CASE ~(i <= b)
      <4>1. i - b - 1 \in Nat
        BY <3>3
      <4>2. KeyAt(i - b - 1) \in Chars
        BY <4>1, KeyIsThere
      <4>3. SubWrap(f[i], KeyAt(i - b - 1)) \in Chars
        BY ONLY <1>1, <3>1, <4>2, WrapsUndo
      <4>4. QED  BY <1>1, <3>3, <4>3
    <3>4. QED  BY <3>2, <3>3
  <2>2. Plain(f, b, done) = [i \in 1..Len(f) |->
            IF i <= b THEN f[i] ELSE SubWrap(f[i], KeyAt(i - b - 1))]
    BY <1>2 DEF Plain
  <2>3. Plain(f, b, done) \in [1..Len(f) -> Nat]
    BY <2>1, <2>2
  <2>4. Plain(f, b, done) \in Seq(Nat) /\ Len(Plain(f, b, done)) = Len(f)
    BY ONLY <2>3, f \in Seq(Chars)
  <2>5. ASSUME NEW i \in 1..Len(f)
        PROVE  Plain(f, b, done)[i] =
                  IF done /\ ~(i <= b) THEN SubWrap(f[i], KeyAt(i - b - 1)) ELSE f[i]
    BY <1>2, <2>2
  <2>6. QED  BY <2>4, <2>5
<1>3. CASE ~done
  <2>1. f \in Seq(Nat)
    BY <1>1
  <2>2. QED  BY <1>3, <2>1 DEF Plain
<1>4. QED  BY <1>2, <1>3

LEMMA PlainAtInside ==
  ASSUME NEW p \in Nat, NEW u \in Nat
  PROVE  PlainAt(p, u) \in Nat /\ PlainAt(p, u) <= p
  BY DEF PlainAt

LEMMA PlainAtWhole ==
  ASSUME NEW p \in Nat, NEW u, u = 0
  PROVE  PlainAt(p, u) = p
<1>1. PlainAt(p, 0) = p
  BY DEF PlainAt
<1>2. QED  BY <1>1

LEMMA PlainNow ==
  /\ PlainFile = Plain(file, base, bosDone) /\ PlainPos = PlainAt(pos, unread)
  /\ PlainFile' = Plain(file', base', bosDone') /\ PlainPos' = PlainAt(pos', unread')
  BY DEF PlainFile, PlainPos, Plain, PlainAt, KernelTell

(* A call that shows no new file and reads nothing moves, at the most.     *)
LEMMA QuietIsSeek ==
  ASSUME TypeOK, TypeOK', Aside, file' = file, base' = base, bosDone' = bosDone
  PROVE  [Above!Next]_(Above!vars)
<1>1. PlainFile' = PlainFile
  BY PlainNow
<1>2. file \in Seq(Chars) /\ base \in Nat /\ bosDone \in BOOLEAN
  BY Typed
<1>3. Len(PlainFile) = Len(file)
  BY <1>2, PlainNow, PlainElements
<1>4. pos' \in Nat /\ pos' <= Len(file) /\ unread' \in Nat /\ Len(file) \in Nat
  <2>1. pos' \in 0..Len(file') /\ unread' \in 0..(BosChunk - 1)
    BY DEF TypeOK
  <2>2. Len(file) \in Nat
    BY <1>2
  <2>3. QED  BY <2>1, <2>2, Bounds
<1>5. PlainPos' \in 0..Len(PlainFile)
  <2>1. PlainAt(pos', unread') \in Nat /\ PlainAt(pos', unread') <= pos'
    BY ONLY <1>4, PlainAtInside
  <2>2. QED  BY ONLY <1>3, <1>4, <2>1, PlainNow
<1>6. got' = <<>> /\ nextByte' = nextByte /\ era' = era
  BY DEF Aside, Quiet, Reads
<1>7. Above!Seek
  BY <1>1, <1>5, <1>6 DEF Above!Seek
<1>8. QED  BY <1>7 DEF Above!Next

(* So does an attach(), and a new header.                                  *)
LEMMA ReplacedIsReplace ==
  ASSUME TypeOK', era' = era + 1, Quiet, nextByte' = nextByte
  PROVE  [Above!Next]_(Above!vars)
<1>1. /\ file' \in Seq(Chars) /\ pos' \in 0..Len(file') /\ base' \in 0..pos'
      /\ unread' \in 0..(BosChunk - 1) /\ bosDone' \in BOOLEAN
  BY DEF TypeOK, Chars
<1>2. base' \in Nat /\ pos' \in Nat /\ unread' \in Nat /\ pos' <= Len(file') /\ Len(file') \in Nat
  BY <1>1, Bounds
<1>3. PlainFile' \in Seq(Nat) /\ Len(PlainFile') = Len(file')
  BY ONLY <1>1, <1>2, PlainNow, PlainElements
<1>4. PlainPos' \in 0..Len(PlainFile')
  <2>1. PlainAt(pos', unread') \in Nat /\ PlainAt(pos', unread') <= pos'
    BY ONLY <1>2, PlainAtInside
  <2>2. QED  BY ONLY <1>2, <1>3, <2>1, PlainNow
<1>5. got' = <<>>
  BY DEF Quiet, Reads
<1>6. Above!Replace
  BY <1>3, <1>4, <1>5 DEF Above!Replace
<1>7. QED  BY <1>6 DEF Above!Next

LEMMA ReadIsRead ==
  ASSUME TypeOK, file' = file, base' = base, bosDone' = bosDone,
         nextByte' = nextByte, era' = era,
         NEW k \in Nat, PlainPos + k <= Len(file), PlainPos' = PlainPos + k,
         got' = SubSeq(PlainFile, PlainPos + 1, PlainPos + k)
  PROVE  [Above!Next]_(Above!vars)
<1>1. PlainFile' = PlainFile
  BY PlainNow
<1>2. Len(PlainFile) = Len(file) /\ Len(file) \in Nat
  <2>1. file \in Seq(Chars) /\ base \in Nat /\ bosDone \in BOOLEAN
    BY Typed
  <2>2. QED  BY <2>1, PlainNow, PlainElements
<1>3. PlainPos \in Nat
  <2>1. pos \in Nat /\ unread \in Nat
    BY Typed
  <2>2. QED  BY ONLY <2>1, PlainAtInside, PlainNow
<1>4. k \in 0..(Len(PlainFile) - PlainPos)
  BY ONLY <1>2, <1>3, k \in Nat, PlainPos + k <= Len(file)
<1>5. Above!Read(k)
  BY <1>1 DEF Above!Read
<1>6. QED  BY <1>4, <1>5 DEF Above!Next

LEMMA HeaderGetIsRead ==
  ASSUME LayerInv, TypeOK', NEW n \in 1..MaxAsk, GetHeader(n)
  PROVE  [Above!Next]_(Above!vars)
<1>1. /\ TypeOK /\ file' = file /\ base' = base /\ bosDone' = bosDone /\ bosDone = FALSE
      /\ nextByte' = nextByte /\ lost' = lost /\ era' = era /\ ~tainted
  BY Typed DEF LayerInv, GetHeader
<1>2. n \in Nat \ {0}
  BY LayerAssumption DEF LayerAssumption
<1>3. CASE /\ n <= unread + Left
           /\ unread' = IF n <= unread THEN unread - n ELSE 0
           /\ pos' = KernelTell + n + unread'
           /\ Reads(SubSeq(file, KernelTell + 1, KernelTell + n), FALSE)
  <2>1. PICK p \in Nat, u \in Nat, l \in Nat, b \in Nat :
           p = pos /\ u = unread /\ l = Len(file) /\ b = base /\ p <= l /\ b <= p
    BY <1>1, Typed
  <2>2. u <= p - b /\ n <= u + (l - p)
    BY <1>1, <1>3, <2>1, Typed DEF Left
  <2>3. u <= p /\ p - u \in Nat /\ (p - u) + n <= l
    BY ONLY <1>2, <2>1, <2>2, p \in Nat, u \in Nat, l \in Nat, b \in Nat
  <2>4. KernelTell = p - u /\ PlainPos = p - u
    BY <2>1, <2>3, PlainNow DEF KernelTell, PlainAt
  <2>5. PlainFile = file
    BY <1>1 DEF PlainFile
  <2>6. PICK v \in Nat : v = unread'
    BY <1>1, Bounds DEF TypeOK
  <2>7. pos' = ((p - u) + n) + v
    BY <1>3, <2>4, <2>6
  <2>8. v <= ((p - u) + n) + v /\ (((p - u) + n) + v) - v = (p - u) + n
    BY ONLY <1>2, <2>3, v \in Nat
  <2>9. PlainPos' = (p - u) + n
    BY ONLY <2>6, <2>7, <2>8, PlainNow DEF PlainAt
  <2>10. got' = SubSeq(PlainFile, PlainPos + 1, PlainPos + n)
    BY <1>3, <2>4, <2>5 DEF Reads
  <2>11. PlainPos + n <= Len(file) /\ PlainPos' = PlainPos + n
    BY <2>1, <2>3, <2>4, <2>9
  <2>12. n \in Nat
    BY <1>2
  <2>13. QED  BY ONLY <1>1, <2>10, <2>11, <2>12, ReadIsRead
<1>4. CASE Quiet
  <2>1. Aside
    BY <1>1, <1>4 DEF Aside
  <2>2. QED  BY ONLY <1>1, <2>1, TypeOK', QuietIsSeek
<1>5. QED  BY <1>3, <1>4 DEF GetHeader

LEMMA ContentUnread ==
  ASSUME LayerInv, ~tainted, bosDone
  PROVE  /\ unread = 0 /\ keyPos = pos - base /\ PlainPos = pos
         /\ TypeOK /\ bosDone = TRUE
<1>1. TypeOK /\ InStep /\ Flags
  BY DEF LayerInv, IInv
<1>2. bosDone = TRUE /\ tainted = FALSE
  BY <1>1 DEF Flags
<1>3. unread = 0 /\ keyPos = pos - base
  BY <1>1, <1>2 DEF InStep
<1>4. PlainPos = pos
  BY <1>1, <1>3, Typed, PlainNow DEF PlainAt
<1>5. QED  BY <1>1, <1>2, <1>3, <1>4

LEMMA GetIsRead ==
  ASSUME LayerInv, NEW n \in 0..MaxAsk, Get(n)
  PROVE  [Above!Next]_(Above!vars)
<1>1. /\ ~tainted /\ bosDone /\ file' = file /\ base' = base /\ bosDone' = bosDone
      /\ unread' = unread /\ nextByte' = nextByte /\ era' = era
  BY DEF Get, MayRead
<1>2. unread = 0 /\ keyPos = pos - base /\ PlainPos = pos /\ TypeOK /\ bosDone = TRUE
  BY <1>1, ContentUnread
<1>3. PICK k \in 0..Least(n, Left) : pos' = pos + k /\ got' = Delivered(k)
  BY DEF Get, Reads
<1>4. PICK p \in Nat, b \in Nat, l \in Nat :
         p = pos /\ b = base /\ l = Len(file) /\ b <= p /\ p <= l
  BY <1>2, Typed
<1>5. k \in Nat /\ p + k <= l
  <2>1. Left = l - p /\ n \in Nat
    BY <1>4, LayerAssumption DEF Left, LayerAssumption
  <2>2. QED  BY ONLY <1>4, <2>1, k \in 0..Least(n, Left), p \in Nat, l \in Nat DEF Least
<1>6. PICK f \in Seq(Chars) : f = file /\ Len(f) = l
  BY <1>2, <1>4, Typed
<1>7. PICK w \in Seq(Nat) : w = PlainFile
  BY ONLY <1>2, <1>4, <1>6, b \in Nat, f \in Seq(Chars), PlainElements, PlainNow
<1>8. /\ Len(w) = l
      /\ \A i \in 1..l : w[i] = IF ~(i <= b) THEN SubWrap(f[i], KeyAt(i - b - 1)) ELSE f[i]
  <2>1. w = Plain(f, b, TRUE)
    BY ONLY <1>2, <1>4, <1>6, <1>7, PlainNow
  <2>2. Len(Plain(f, b, TRUE)) = Len(f)
    BY ONLY f \in Seq(Chars), b \in Nat, PlainElements
  <2>3. \A i \in 1..Len(f) : Plain(f, b, TRUE)[i] =
            IF TRUE /\ ~(i <= b) THEN SubWrap(f[i], KeyAt(i - b - 1)) ELSE f[i]
    BY ONLY f \in Seq(Chars), b \in Nat, PlainElements
  <2>4. QED  BY ONLY <1>6, <2>1, <2>2, <2>3
<1>9. PICK d : d = Delivered(k)
  OBVIOUS
<1>10. PICK q \in Nat : q = p + k
  BY <1>5
<1>11. PICK z : z = SubSeq(w, p + 1, q)
  OBVIOUS
<1>12. z \in Seq(Nat) /\ Len(z) = k /\ \A i \in 1..k : z[i] = w[p + i]
  <2>1. p <= q /\ q <= Len(w) /\ q - p = k
    BY ONLY <1>5, <1>8, <1>10, p \in Nat
  <2>2. SubSeq(w, p + 1, q) \in Seq(Nat)
    BY ONLY w \in Seq(Nat), p \in Nat, q \in Nat, <2>1, PieceElements
  <2>3. Len(SubSeq(w, p + 1, q)) = q - p
    BY ONLY w \in Seq(Nat), p \in Nat, q \in Nat, <2>1, PieceElements
  <2>4. \A i \in 1..(q - p) : SubSeq(w, p + 1, q)[i] = w[p + i]
    BY ONLY w \in Seq(Nat), p \in Nat, q \in Nat, <2>1, PieceElements
  <2>5. QED  BY ONLY <1>11, <2>1, <2>2, <2>3, <2>4
<1>13. ASSUME NEW i \in 1..k PROVE z[i] = SubWrap(file[pos + i], KeyAt(keyPos + i - 1))
  <2>1. p + i \in 1..l /\ ~(p + i <= b)
    BY ONLY <1>4, <1>5, <1>13, p \in Nat, b \in Nat, l \in Nat
  <2>2. w[p + i] = SubWrap(f[p + i], KeyAt((p + i) - b - 1))
    BY <1>8, <2>1
  <2>3. keyPos + i - 1 = (p + i) - b - 1
    BY <1>2, <1>4
  <2>4. QED  BY <1>4, <1>6, <1>12, <2>2, <2>3
<1>14. d = [i \in 1..k |-> z[i]]
  BY ONLY <1>9, <1>13 DEF Delivered
<1>15. d = z
  BY ONLY <1>12, <1>14
<1>16. got' = SubSeq(PlainFile, PlainPos + 1, PlainPos + k)
  BY ONLY <1>2, <1>3, <1>4, <1>7, <1>9, <1>10, <1>11, <1>15
<1>17. PlainPos + k <= Len(file) /\ PlainPos' = PlainPos + k
  <2>1. pos' \in Nat /\ unread' = 0
    BY <1>1, <1>2, <1>3, <1>4, <1>5
  <2>2. PlainPos' = pos'
    <3>1. PICK e \in Nat, u \in Nat : e = pos' /\ u = unread' /\ u = 0
      BY <2>1
    <3>2. PlainAt(e, u) = e
      BY ONLY <3>1, e \in Nat, PlainAtWhole
    <3>3. QED  BY ONLY <3>1, <3>2, PlainNow
  <2>3. QED  BY <1>2, <1>3, <1>4, <1>5, <2>2
<1>18. QED  BY ONLY <1>1, <1>2, <1>5, <1>16, <1>17, ReadIsRead

(* What a put stores is what it was given, seen through the key.           *)
LEMMA StoredIsWritten ==
  ASSUME NEW f \in Seq(Chars), NEW g, NEW p \in Nat, p <= Len(f), NEW b \in Nat, b <= p,
         NEW done \in BOOLEAN, NEW data \in Seq(Chars), NEW m \in Nat \ {0},
         IsLaidOver(g, Chars, f, p, data),
         m + Len(data) - 1 <= MaxByte,
         \A i \in 1..Len(data) :
            data[i] = IF done THEN AddWrap(m + i - 1, KeyAt((p + i) - b - 1)) ELSE m + i - 1
  PROVE  Plain(g, b, done) =
            Above!Overwrite(Plain(f, b, done), p, Above!Numbered(m, Len(data)))
<1>1. PICK k \in Nat : k = Len(data)
  OBVIOUS
<1>2. PICK x \in Seq(Nat) : x = Plain(f, b, done)
  BY PlainElements
<1>3. /\ Len(x) = Len(f)
      /\ \A i \in 1..Len(f) :
            x[i] = IF done /\ ~(i <= b) THEN SubWrap(f[i], KeyAt(i - b - 1)) ELSE f[i]
  <2>1. Len(Plain(f, b, done)) = Len(f)
    BY ONLY f \in Seq(Chars), b \in Nat, done \in BOOLEAN, PlainElements
  <2>2. \A i \in 1..Len(f) : Plain(f, b, done)[i] =
           IF done /\ ~(i <= b) THEN SubWrap(f[i], KeyAt(i - b - 1)) ELSE f[i]
    BY ONLY f \in Seq(Chars), b \in Nat, done \in BOOLEAN, PlainElements
  <2>3. QED  BY ONLY <1>2, <2>1, <2>2
<1>4. PICK v : v = Above!Numbered(m, k)
  OBVIOUS
<1>5. v \in Seq(Nat) /\ Len(v) = k /\ \A i \in 1..k : v[i] = m + i - 1
  <2>1. v = [i \in 1..k |-> m + i - 1]
    BY <1>4 DEF Above!Numbered
  <2>2. v \in [1..k -> Nat]
    BY <2>1
  <2>3. QED  BY ONLY <2>1, <2>2, k \in Nat
<1>6. PICK r : r = Above!Overwrite(x, p, v)
  OBVIOUS
<1>7. IsLaidOver(r, Nat, x, p, v)
  <2>1. r = SubSeq(x, 1, p) \o v \o SubSeq(x, p + Len(v) + 1, Len(x))
    BY <1>6 DEF Above!Overwrite
  <2>2. p <= Len(x)
    BY <1>3
  <2>3. v \in Seq(Nat)
    BY <1>5
  <2>4. QED  BY ONLY <2>1, <2>2, <2>3, x \in Seq(Nat), p \in Nat, LaidOverElements
<1>8. g \in Seq(Chars)
  BY DEF IsLaidOver
<1>9. PICK y \in Seq(Nat) : y = Plain(g, b, done)
  BY <1>8, PlainElements
<1>10. /\ Len(y) = Len(g)
       /\ \A i \in 1..Len(g) :
            y[i] = IF done /\ ~(i <= b) THEN SubWrap(g[i], KeyAt(i - b - 1)) ELSE g[i]
  <2>1. Len(Plain(g, b, done)) = Len(g)
    BY ONLY <1>8, b \in Nat, done \in BOOLEAN, PlainElements
  <2>2. \A i \in 1..Len(g) : Plain(g, b, done)[i] =
           IF done /\ ~(i <= b) THEN SubWrap(g[i], KeyAt(i - b - 1)) ELSE g[i]
    BY ONLY <1>8, b \in Nat, done \in BOOLEAN, PlainElements
  <2>3. QED  BY ONLY <1>9, <2>1, <2>2
<1>11. PICK l \in Nat : l = Len(f)
  OBVIOUS
<1>12. PICK e \in Nat : e = p + k
  OBVIOUS
<1>13. PICK h \in Nat : h = (IF l < e THEN e ELSE l)
  OBVIOUS
<1>14. /\ Len(g) = h
       /\ \A i \in Nat \ {0} :
             /\ i <= p => g[i] = f[i]
             /\ p < i /\ i <= e => g[i] = data[i - p]
             /\ e < i /\ i <= l => g[i] = f[i]
  BY <1>1, <1>11, <1>12, <1>13 DEF IsLaidOver
<1>15. /\ r \in Seq(Nat) /\ Len(r) = h
       /\ \A i \in Nat \ {0} :
             /\ i <= p => r[i] = x[i]
             /\ p < i /\ i <= e => r[i] = v[i - p]
             /\ e < i /\ i <= l => r[i] = x[i]
  BY <1>3, <1>5, <1>7, <1>11, <1>12, <1>13 DEF IsLaidOver
<1>16. p <= l /\ b <= p /\ m + k - 1 <= MaxByte
  BY <1>1, <1>11
<1>17. ASSUME NEW i \in 1..h PROVE y[i] = r[i]
  <2>1. i \in Nat \ {0} /\ i \in 1..Len(g)
    BY <1>14
  <2>2. y[i] = IF done /\ ~(i <= b) THEN SubWrap(g[i], KeyAt(i - b - 1)) ELSE g[i]
    BY <1>10, <2>1
  <2>3. CASE i <= p \/ e < i
    <3>1. i \in 1..l /\ (i <= p \/ (e < i /\ i <= l))
      BY ONLY <1>13, <1>16, <2>1, <2>3, i \in 1..h, l \in Nat, e \in Nat, p \in Nat
    <3>2. g[i] = f[i] /\ r[i] = x[i]
      BY <1>14, <1>15, <2>1, <3>1
    <3>3. x[i] = IF done /\ ~(i <= b) THEN SubWrap(f[i], KeyAt(i - b - 1)) ELSE f[i]
      BY <1>3, <1>11, <3>1
    <3>4. QED  BY ONLY <2>2, <3>2, <3>3
  <2>4. CASE p < i /\ i <= e
    <3>1. PICK j \in Nat \ {0} : j = i - p
      BY <2>1, <2>4
    <3>2. j <= k /\ ~(i <= b) /\ i = p + j /\ j \in 1..k
      BY ONLY <1>12, <1>16, <2>1, <2>4, <3>1, p \in Nat, k \in Nat, b \in Nat, j \in Nat \ {0}
    <3>3. g[i] = data[j] /\ r[i] = v[j]
      BY <1>14, <1>15, <2>1, <2>4, <3>1
    <3>4. v[j] = m + j - 1
      BY <1>5, <3>2
    <3>5. data[j] = IF done THEN AddWrap(m + j - 1, KeyAt(i - b - 1)) ELSE m + j - 1
      BY <1>1, <3>2
    <3>6. CASE done
      <4>1. PICK c \in Nat : c = m + j - 1 /\ c < Width
        BY <1>16, <3>2, Bounds
      <4>2. KeyAt(i - b - 1) \in Chars
        <5>1. i - b - 1 \in Nat
          BY ONLY <1>16, <2>1, <2>4, b \in Nat, p \in Nat
        <5>2. QED  BY ONLY <5>1, KeyIsThere
      <4>3. SubWrap(AddWrap(c, KeyAt(i - b - 1)), KeyAt(i - b - 1)) = c
        BY ONLY <4>1, <4>2, c \in Nat, WrapsUndo
      <4>4. QED  BY ONLY <2>2, <3>2, <3>3, <3>4, <3>5, <3>6, <4>1, <4>3
    <3>7. CASE ~done
      BY ONLY <2>2, <3>3, <3>4, <3>5, <3>7
    <3>8. QED  BY <3>6, <3>7
  <2>5. QED  BY <2>1, <2>3, <2>4
<1>18. y = r
  BY ONLY <1>10, <1>14, <1>15, <1>17, y \in Seq(Nat), SeqEqual
<1>19. QED  BY ONLY <1>1, <1>2, <1>4, <1>6, <1>9, <1>18

(* A put of n characters of which the kernel takes k: the layer above      *)
(* wrote n and k were taken.                                               *)
LEMMA PutIsWrite ==
  ASSUME TypeOK, NEW n \in Nat, n <= MaxAsk, NEW k \in 0..n, NEW fails \in BOOLEAN,
         Written(n, k, fails), NEW data \in Seq(Chars), Len(data) = k,
         \A i \in 1..k :
            data[i] = IF bosDone THEN AddWrap(nextByte + i - 1, KeyAt((pos + i) - base - 1))
                      ELSE nextByte + i - 1,
         file' = Stored(pos, data), pos' = pos + k, base' = base, bosDone' = bosDone,
         era' = era, unread = 0, unread' = unread
  PROVE  [Above!Next]_(Above!vars)
<1>1. PICK f \in Seq(Chars), p \in Nat, b \in Nat, d \in BOOLEAN, m \in Nat \ {0} :
         /\ f = file /\ p = pos /\ b = base /\ d = bosDone /\ m = nextByte
         /\ p <= Len(f) /\ b <= p
  BY Typed
<1>2. IsLaidOver(file', Chars, f, p, data)
  <2>1. file \in Seq(Chars) /\ pos \in 0..Len(file)
    BY DEF TypeOK, Chars
  <2>2. IsLaidOver(Stored(pos, data), Chars, file, pos, data)
    BY ONLY <2>1, data \in Seq(Chars), StoredLaidOver
  <2>3. QED  BY ONLY <1>1, <2>2, file' = Stored(pos, data)
<1>3. m + Len(data) - 1 <= MaxByte
  <2>1. m + n - 1 <= MaxByte
    BY <1>1 DEF Written
  <2>2. k \in Nat /\ k <= n /\ MaxByte \in Nat
    BY Bounds
  <2>3. m + k - 1 <= MaxByte
    BY ONLY <2>1, <2>2, n \in Nat, m \in Nat \ {0}
  <2>4. QED  BY <2>3
<1>4. \A i \in 1..Len(data) :
         data[i] = IF d THEN AddWrap(m + i - 1, KeyAt((p + i) - b - 1)) ELSE m + i - 1
  BY ONLY <1>1, Len(data) = k,
     \A i \in 1..k :
            data[i] = IF bosDone THEN AddWrap(nextByte + i - 1, KeyAt((pos + i) - base - 1))
                      ELSE nextByte + i - 1
<1>5. PICK g : g = file'
  OBVIOUS
<1>6. Plain(g, b, d) = Above!Overwrite(Plain(f, b, d), p, Above!Numbered(m, Len(data)))
  BY ONLY <1>1, <1>2, <1>3, <1>4, <1>5, f \in Seq(Chars), p \in Nat, b \in Nat, d \in BOOLEAN,
          m \in Nat \ {0}, data \in Seq(Chars), StoredIsWritten
<1>7. PlainPos = pos /\ PlainPos' = pos'
  <2>1. PICK e \in Nat, u \in Nat : e = pos' /\ u = unread' /\ u = 0
    BY <1>1
  <2>2. PlainAt(e, u) = e /\ PlainAt(p, u) = p
    BY ONLY <2>1, e \in Nat, p \in Nat, PlainAtWhole
  <2>3. u = unread
    BY <2>1
  <2>4. QED  BY ONLY <1>1, <2>1, <2>2, <2>3, PlainNow
<1>8. PlainFile' = Above!Overwrite(PlainFile, PlainPos, Above!Numbered(nextByte, k))
  <2>1. PlainFile' = Plain(g, b, d) /\ PlainFile = Plain(f, b, d)
    BY ONLY <1>1, <1>5, PlainNow, base' = base, bosDone' = bosDone
  <2>2. QED  BY ONLY <1>1, <1>6, <1>7, <2>1, Len(data) = k
<1>9. nextByte' = nextByte + n /\ got' = <<>>
  BY DEF Written, Quiet, Reads
<1>10. Above!Write(n, k)
  BY <1>7, <1>8, <1>9 DEF Above!Write
<1>11. n \in 0..MaxAsk
  BY LayerAssumption DEF LayerAssumption
<1>12. QED  BY <1>10, <1>11 DEF Above!Next

LEMMA PutsAreWrites ==
  ASSUME LayerInv, NEW n \in 1..MaxAsk, PutHeader(n) \/ Put(n)
  PROVE  [Above!Next]_(Above!vars)
<1>1. n \in Nat /\ n <= MaxAsk /\ TypeOK
  BY LayerAssumption DEF LayerAssumption, LayerInv
<1>2. CASE PutHeader(n)
  <2>1. PICK k \in 0..n, fails \in BOOLEAN :
           /\ Written(n, k, fails)
           /\ file' = Stored(pos, AsIs(k))
           /\ pos' = pos + k
    BY <1>2 DEF PutHeader, AsIs
  <2>2. /\ base' = base /\ bosDone' = bosDone /\ unread' = unread /\ era' = era
        /\ ~tainted /\ ~bosDone /\ status = "output"
    BY <1>2 DEF PutHeader
  <2>3. unread = 0
    BY <1>1, <2>2, Typed DEF LayerInv, AreaRead
  <2>4. nextByte + n - 1 <= MaxByte
    BY <2>1 DEF Written
  <2>5. AsIs(k) \in Seq(Chars) /\ Len(AsIs(k)) = k
    BY ONLY <1>1, <2>4, n \in Nat, k \in 0..n, PutChars
  <2>6. \A i \in 1..k : AsIs(k)[i] =
           IF bosDone THEN AddWrap(nextByte + i - 1, KeyAt((pos + i) - base - 1))
           ELSE nextByte + i - 1
    BY <2>2 DEF AsIs
  <2>7. QED  BY ONLY <1>1, <2>1, <2>2, <2>3, <2>5, <2>6, k \in 0..n, fails \in BOOLEAN, PutIsWrite
<1>3. CASE Put(n)
  <2>1. PICK k \in 0..n, fails \in BOOLEAN :
           /\ Written(n, k, fails)
           /\ file' = Stored(pos, Encoded(k))
           /\ pos' = pos + k
    BY <1>3 DEF Put, Encoded
  <2>2. /\ base' = base /\ bosDone' = bosDone /\ unread' = unread /\ era' = era
        /\ ~tainted /\ bosDone
    BY <1>3 DEF Put
  <2>3. unread = 0 /\ keyPos = pos - base
    BY <2>2, ContentUnread
  <2>4. nextByte + n - 1 <= MaxByte
    BY <2>1 DEF Written
  <2>5. Encoded(k) \in Seq(Chars) /\ Len(Encoded(k)) = k
    BY ONLY <1>1, <2>4, n \in Nat, k \in 0..n, PutChars
  <2>6. ASSUME NEW i \in 1..k
        PROVE  Encoded(k)[i] =
                  IF bosDone THEN AddWrap(nextByte + i - 1, KeyAt((pos + i) - base - 1))
                  ELSE nextByte + i - 1
    <3>1. keyPos + i - 1 = (pos + i) - base - 1
      BY <1>1, <2>3, Typed
    <3>2. QED  BY <2>2, <3>1 DEF Encoded
  <2>7. QED  BY ONLY <1>1, <2>1, <2>2, <2>3, <2>5, <2>6, k \in 0..n, fails \in BOOLEAN, PutIsWrite
<1>4. QED  BY <1>2, <1>3

(* The layer promises the layers above it what the kernel promises: a file *)
(* and a position, for every key, every header and wherever a failing      *)
(* kernel stops (get_main(), put_main() and seek_impl() of vigenere_cvt    *)
(* over abs_cvt).                                                          *)
THEOREM LayerIsAFile == Spec => ImplementsByteStream
<1>1. Init => Above!Init
  <2> SUFFICES ASSUME Init PROVE Above!Init
    OBVIOUS
  <2>1. TypeOK
    BY InitTypeOK
  <2>2. file \in Seq(Chars) /\ base \in Nat /\ bosDone \in BOOLEAN /\ Len(file) \in Nat
    BY <2>1, Typed
  <2>3. PlainFile \in Seq(Nat) /\ Len(PlainFile) = Len(file)
    BY ONLY <2>2, PlainElements, PlainNow
  <2>4. PlainPos = 0
    BY PlainNow DEF Init, PlainAt
  <2>5. QED  BY <2>2, <2>3, <2>4 DEF Init, Above!Init
<1>2. ASSUME LayerInv, [Next]_vars PROVE [Above!Next]_(Above!vars)
  <2>1. TypeOK /\ TypeOK'
    BY <1>2, NextTypeOK DEF LayerInv
  <2>2. CASE Turns
    <3>1. CASE MainContBeg /\ ~Spoil
      <4>1. era' = era + 1 /\ Quiet /\ nextByte' = nextByte
        BY <3>1 DEF MainContBeg
      <4>2. QED  BY ONLY <2>1, <4>1, ReplacedIsReplace
    <3>2. CASE ~(MainContBeg /\ ~Spoil)
      <4>1. Aside /\ file' = file /\ base' = base /\ bosDone' = bosDone
        BY <2>2, <3>2
           DEF Turns, Refused, Bos, MainContBeg, GetHeld, PutNeutral, FlushFails, SwitchToGet,
               SwitchToPut, Seek, SeekFails, Spoil, kernel, layer
      <4>2. QED  BY ONLY <2>1, <4>1, QuietIsSeek
    <3>3. QED  BY <3>1, <3>2
  <2>3. ASSUME NEW n \in 1..MaxAsk, GetHeader(n) PROVE [Above!Next]_(Above!vars)
    BY ONLY <1>2, <2>1, <2>3, n \in 1..MaxAsk, HeaderGetIsRead
  <2>4. ASSUME NEW n \in 1..MaxAsk, PutHeader(n) \/ Put(n) PROVE [Above!Next]_(Above!vars)
    BY ONLY <1>2, <2>4, n \in 1..MaxAsk, PutsAreWrites
  <2>5. ASSUME NEW n \in 0..MaxAsk, Get(n) PROVE [Above!Next]_(Above!vars)
    BY ONLY <1>2, <2>5, n \in 0..MaxAsk, GetIsRead
  <2>6. ASSUME NEW f \in Contents, Attach(f) \/ AttachFails(f) PROVE [Above!Next]_(Above!vars)
    <3>1. era' = era + 1 /\ Quiet /\ nextByte' = nextByte
      BY <2>6 DEF Attach, AttachFails, Replaced
    <3>2. QED  BY ONLY <2>1, <3>1, ReplacedIsReplace
  <2>7. CASE UNCHANGED vars
    BY <2>7, PlainNow DEF vars, kernel, layer, Above!vars
  <2>8. QED  BY <1>2, <2>2, <2>3, <2>4, <2>5, <2>6, <2>7 DEF Next, Turns
<1>3. QED  BY <1>1, <1>2, LayerInvKept, PTL DEF Spec, ImplementsByteStream, Above!Spec
-----------------------------------------------------------------------------
(* zlib_cvt.  What units say is what they hold, one after the other; the   *)
(* units from a + 1 to b of f hold Text(f, a, b).                          *)
BytesOf(f) == [i \in 1..Len(f) |-> f[i].bytes]
Text(f, a, b) == FlattenSeq(SubSeq(BytesOf(f), a + 1, b))

ZUnits == Zlib!Units

LEMMA BytesElements ==
  ASSUME NEW f \in Seq(ZUnits)
  PROVE  /\ BytesOf(f) \in Seq(Seq(Nat)) /\ Len(BytesOf(f)) = Len(f)
         /\ \A i \in 1..Len(f) : /\ BytesOf(f)[i] = f[i].bytes
                                 /\ f[i].bytes \in Seq(Nat) /\ f[i].kind \in Zlib!Kinds
<1>1. PICK n \in Nat : n = Len(f)
  OBVIOUS
<1>2. \A i \in 1..n : f[i] \in ZUnits
  BY <1>1
<1>3. \A i \in 1..n : f[i].bytes \in Seq(Nat) /\ f[i].kind \in Zlib!Kinds
  BY <1>2 DEF ZUnits, Zlib!Units
<1>4. PICK b : b = [i \in 1..n |-> f[i].bytes]
  OBVIOUS
<1>5. b \in Seq(Seq(Nat)) /\ Len(b) = n /\ \A i \in 1..n : b[i] = f[i].bytes
  BY ONLY n \in Nat, <1>3, <1>4
<1>6. QED  BY <1>1, <1>3, <1>4, <1>5 DEF BytesOf

LEMMA TextTyped ==
  ASSUME NEW f \in Seq(ZUnits), NEW a \in Nat, NEW b \in Nat, a <= b, b <= Len(f)
  PROVE  Text(f, a, b) \in Seq(Nat)
<1>1. BytesOf(f) \in Seq(Seq(Nat)) /\ Len(BytesOf(f)) = Len(f)
  BY BytesElements
<1>2. SubSeq(BytesOf(f), a + 1, b) \in Seq(Seq(Nat))
  BY <1>1, PieceElements
<1>3. QED  BY <1>2, FlattenTyped DEF Text

LEMMA TextNone ==
  ASSUME NEW f, NEW a \in Nat
  PROVE  Text(f, a, a) = <<>>
  BY NoPiece, FlattenNone DEF Text

LEMMA TextOne ==
  ASSUME NEW f \in Seq(ZUnits), NEW a \in Nat, a + 1 <= Len(f)
  PROVE  Text(f, a, a + 1) = f[a + 1].bytes
<1>1. /\ BytesOf(f) \in Seq(Seq(Nat)) /\ Len(BytesOf(f)) = Len(f)
      /\ BytesOf(f)[a + 1] = f[a + 1].bytes /\ f[a + 1].bytes \in Seq(Nat)
  BY BytesElements
<1>2. PICK b : b = BytesOf(f)
  OBVIOUS
<1>3. PICK e : e = f[a + 1].bytes
  OBVIOUS
<1>4. SubSeq(b, a + 1, a + 1) = <<e>>
  <2>1. b \in Seq(Seq(Nat)) /\ a + 1 <= Len(b) /\ b[a + 1] = e
    BY <1>1, <1>2, <1>3
  <2>2. PICK q : q = SubSeq(b, a + 1, a + 1)
    OBVIOUS
  <2>3. q \in Seq(Seq(Nat)) /\ Len(q) = 1 /\ q[1] = e
    <3>1. a + 1 \in Nat /\ a <= a + 1 /\ (a + 1) - a = 1 /\ 1 \in 1..1
      OBVIOUS
    <3>2. /\ q \in Seq(Seq(Nat)) /\ Len(q) = (a + 1) - a
          /\ \A i \in 1..((a + 1) - a) : q[i] = b[a + i]
      BY <2>1, <2>2, <3>1, PieceElements
    <3>3. QED  BY ONLY <2>1, <3>1, <3>2
  <2>4. q = <<e>>
    BY ONLY <2>3
  <2>5. QED  BY <2>2, <2>4
<1>5. FlattenSeq(<<e>>) = e
  BY FlattenOne
<1>6. QED  BY <1>2, <1>3, <1>4, <1>5 DEF Text

LEMMA TextSplits ==
  ASSUME NEW f \in Seq(ZUnits), NEW a \in Nat, NEW b \in Nat, NEW c \in Nat,
         a <= b, b <= c, c <= Len(f)
  PROVE  Text(f, a, c) = Text(f, a, b) \o Text(f, b, c)
<1>1. PICK q : q = BytesOf(f)
  OBVIOUS
<1>2. q \in Seq(Seq(Nat)) /\ c <= Len(q) /\ b <= Len(q)
  BY <1>1, BytesElements
<1>3. PICK x, y : x = SubSeq(q, a + 1, b) /\ y = SubSeq(q, b + 1, c)
  OBVIOUS
<1>4. x \in Seq(Seq(Nat)) /\ y \in Seq(Seq(Nat))
  BY <1>2, <1>3, PieceElements
<1>5. x \o y = SubSeq(q, a + 1, c)
  BY <1>2, <1>3, AdjacentPieces
<1>6. FlattenSeq(x \o y) = FlattenSeq(x) \o FlattenSeq(y)
  BY <1>4, FlattenConcat
<1>7. QED  BY <1>1, <1>3, <1>5, <1>6 DEF Text

(* Units behind them change nothing of what units say; ...                 *)
LEMMA TextStays ==
  ASSUME NEW f \in Seq(ZUnits), NEW g \in Seq(ZUnits), NEW a \in Nat, NEW b \in Nat,
         a <= b, b <= Len(f)
  PROVE  Text(f \o g, a, b) = Text(f, a, b)
<1>1. PICK w : w = f \o g
  OBVIOUS
<1>2. w \in Seq(ZUnits) /\ b <= Len(w) /\ \A i \in 1..Len(f) : w[i] = f[i]
  BY <1>1, ConcatElements
<1>3. PICK S, x, y : S = Seq(Nat) /\ x = BytesOf(w) /\ y = BytesOf(f)
  OBVIOUS
<1>4. /\ x \in Seq(S) /\ b <= Len(x) /\ \A i \in 1..Len(w) : x[i] = w[i].bytes
      /\ y \in Seq(S) /\ b <= Len(y) /\ \A i \in 1..Len(f) : y[i] = f[i].bytes
  BY <1>2, <1>3, BytesElements
<1>5. PICK p, q : p = SubSeq(x, a + 1, b) /\ q = SubSeq(y, a + 1, b)
  OBVIOUS
<1>6. /\ p \in Seq(S) /\ Len(p) = b - a /\ \A i \in 1..(b - a) : p[i] = x[a + i]
      /\ q \in Seq(S) /\ Len(q) = b - a /\ \A i \in 1..(b - a) : q[i] = y[a + i]
  <2>1. x \in Seq(S) /\ b <= Len(x) /\ y \in Seq(S) /\ b <= Len(y)
    BY ONLY <1>4
  <2>2. p \in Seq(S) /\ Len(p) = b - a /\ \A i \in 1..(b - a) : p[i] = x[a + i]
    BY ONLY <1>5, <2>1, a \in Nat, b \in Nat, a <= b, PieceElements
  <2>3. q \in Seq(S) /\ Len(q) = b - a /\ \A i \in 1..(b - a) : q[i] = y[a + i]
    BY ONLY <1>5, <2>1, a \in Nat, b \in Nat, a <= b, PieceElements
  <2>4. QED  BY ONLY <2>2, <2>3
<1>7. ASSUME NEW i \in 1..(b - a) PROVE p[i] = q[i]
  <2>1. a + i \in 1..Len(f) /\ a + i \in 1..Len(w)
    BY <1>2
  <2>2. x[a + i] = w[a + i].bytes /\ y[a + i] = f[a + i].bytes
    BY <1>4, <2>1
  <2>3. QED  BY <1>2, <1>6, <2>1, <2>2
<1>8. p = q
  BY ONLY <1>6, <1>7, SeqEqual
<1>9. QED  BY <1>1, <1>3, <1>5, <1>8 DEF Text

(* ... and they say what they said alone. *)
LEMMA TextAdds ==
  ASSUME NEW f \in Seq(ZUnits), NEW g \in Seq(ZUnits)
  PROVE  Text(f \o g, Len(f), Len(f) + Len(g)) = Text(g, 0, Len(g))
<1>1. PICK w : w = f \o g
  OBVIOUS
<1>2. PICK m \in Nat, n \in Nat : m = Len(f) /\ n = Len(g)
  OBVIOUS
<1>3. w \in Seq(ZUnits) /\ Len(w) = m + n /\ \A i \in 1..n : w[m + i] = g[i]
  BY <1>1, <1>2, ConcatElements
<1>4. PICK p, q : p = SubSeq(BytesOf(w), m + 1, m + n) /\ q = SubSeq(BytesOf(g), 0 + 1, n)
  OBVIOUS
<1>5. /\ BytesOf(w) \in Seq(Seq(Nat)) /\ BytesOf(g) \in Seq(Seq(Nat))
      /\ Len(BytesOf(w)) = m + n /\ Len(BytesOf(g)) = n
  BY <1>2, <1>3, BytesElements
<1>6. p \in Seq(Seq(Nat)) /\ Len(p) = n /\ \A i \in 1..n : p[i] = BytesOf(w)[m + i]
  <2>1. m + n \in Nat /\ m <= m + n /\ m + n <= Len(BytesOf(w)) /\ (m + n) - m = n
    BY <1>5
  <2>2. QED  BY <1>4, <1>5, <2>1, PieceElements
<1>7. q \in Seq(Seq(Nat)) /\ Len(q) = n /\ \A i \in 1..n : q[i] = BytesOf(g)[i]
  <2>1. q = SubSeq(BytesOf(g), 1, n) /\ n <= Len(BytesOf(g))
    BY <1>4, <1>5
  <2>2. QED  BY <1>5, <2>1, PrefixElements
<1>8. ASSUME NEW i \in 1..n PROVE p[i] = q[i]
  <2>1. m + i \in 1..Len(w) /\ i \in 1..Len(g)
    BY <1>2, <1>3
  <2>2. BytesOf(w)[m + i] = w[m + i].bytes /\ BytesOf(g)[i] = g[i].bytes
    BY <1>3, <2>1, BytesElements
  <2>3. QED  BY <1>3, <1>6, <1>7, <2>2
<1>9. p = q
  BY ONLY <1>6, <1>7, <1>8, SeqEqual
<1>10. QED  BY <1>1, <1>2, <1>4, <1>9 DEF Text

LEMMA TextWhole ==
  ASSUME NEW f \in Seq(ZUnits)
  PROVE  Text(f, 0, Len(f)) = FlattenSeq(BytesOf(f))
<1>1. PICK q : q = BytesOf(f)
  OBVIOUS
<1>2. q \in Seq(Seq(Nat)) /\ Len(q) = Len(f)
  BY <1>1, BytesElements
<1>3. SubSeq(q, 0 + 1, Len(q)) = q
  <2>1. SubSeq(q, 1, Len(q)) = q
    BY <1>2, WholePiece
  <2>2. QED  BY <2>1
<1>4. QED  BY <1>1, <1>2, <1>3 DEF Text

(* The kinds of units that follow the header until the stream is finished. *)
Plainly(f, a) == \A i \in (a + 1)..Len(f) : f[i].kind \in {"data", "mark"}

(* Whichever way deflate spells some bytes, the units say these bytes.     *)
LEMMA SpellingIs ==
  ASSUME NEW bytes \in Seq(Nat), NEW units \in Zlib!Spellings(bytes)
  PROVE  /\ units \in Seq(ZUnits) /\ Plainly(units, 0)
         /\ Text(units, 0, Len(units)) = bytes
<1>1. PICK n \in Nat : n = Len(bytes)
  OBVIOUS
<1>2. DOMAIN bytes = 1..n /\ \A i \in 1..n : bytes[i] \in Nat
  BY <1>1
<1>3. /\ \A b \in Seq(Nat) : [kind |-> "data", bytes |-> b] \in ZUnits
      /\ \A b : [kind |-> "data", bytes |-> b].kind = "data"
      /\ \A b : [kind |-> "data", bytes |-> b].bytes = b
  BY DEF ZUnits, Zlib!Units, Zlib!Kinds
<1>4. CASE bytes = <<>>
  <2>1. units = <<>>
    BY <1>4 DEF Zlib!Spellings
  <2>2. units \in Seq(ZUnits) /\ Len(units) = 0
    BY <2>1
  <2>3. QED  BY <1>4, <2>2, TextNone DEF Plainly
<1>5. CASE bytes # <<>> /\ units = [i \in DOMAIN bytes |-> Zlib!Unit("data", <<bytes[i]>>)]
  <2>1. units = [i \in 1..n |-> [kind |-> "data", bytes |-> <<bytes[i]>>]]
    BY <1>2, <1>5 DEF Zlib!Unit
  <2>2. \A i \in 1..n : units[i] \in ZUnits /\ units[i].kind = "data" /\ units[i].bytes = <<bytes[i]>>
    <3>1. ASSUME NEW i \in 1..n
          PROVE  units[i] \in ZUnits /\ units[i].kind = "data" /\ units[i].bytes = <<bytes[i]>>
      <4>1. PICK b : b = <<bytes[i]>>
        OBVIOUS
      <4>2. b \in Seq(Nat)
        BY <1>2, <3>1, <4>1
      <4>3. units[i] = [kind |-> "data", bytes |-> b]
        BY ONLY <2>1, <3>1, <4>1
      <4>4. QED  BY <1>3, <4>1, <4>2, <4>3
    <3>2. QED  BY <3>1
  <2>3. units \in Seq(ZUnits) /\ Len(units) = n
    <3>1. units \in [1..n -> ZUnits]
      BY ONLY <2>1, <2>2
    <3>2. QED  BY ONLY n \in Nat, <3>1
  <2>4. BytesOf(units) = [i \in 1..n |-> <<bytes[i]>>]
    BY ONLY <2>2, <2>3 DEF BytesOf
  <2>5. FlattenSeq([i \in 1..Len(bytes) |-> <<bytes[i]>>]) = bytes
    BY FlattenSingles
  <2>6. Text(units, 0, Len(units)) = FlattenSeq(BytesOf(units))
    BY <2>3, TextWhole
  <2>7. QED  BY <1>1, <2>2, <2>3, <2>4, <2>5, <2>6 DEF Plainly
<1>6. CASE units = <<Zlib!Unit("data", bytes)>>
  <2>1. PICK u : u = [kind |-> "data", bytes |-> bytes]
    OBVIOUS
  <2>2. units = <<u>> /\ u \in ZUnits /\ u.kind = "data" /\ u.bytes = bytes
    BY <1>3, <1>6, <2>1 DEF Zlib!Unit
  <2>3. units \in Seq(ZUnits) /\ Len(units) = 1 /\ units[1] = u
    BY ONLY <2>2
  <2>4. Text(units, 0, 1) = units[1].bytes
    <3>1. \A a \in Nat : a + 1 <= Len(units) => Text(units, a, a + 1) = units[a + 1].bytes
      BY <2>3, TextOne
    <3>2. 0 + 1 <= Len(units) => Text(units, 0, 0 + 1) = units[0 + 1].bytes
      BY ONLY <3>1
    <3>3. QED  BY ONLY <2>3, <3>2
  <2>5. QED  BY ONLY <2>2, <2>3, <2>4 DEF Plainly
<1>7. QED  BY <1>4, <1>5, <1>6 DEF Zlib!Spellings

-----------------------------------------------------------------------------
(* A stream that deflate is at: the units in f say all of s but for h.     *)
Spelt(f, h, s) ==
    /\ f \in Seq(ZUnits) /\ Len(f) >= 2
    /\ f[1] = Zlib!Unit("head1", <<>>) /\ f[2] = Zlib!Unit("head2", <<>>)
    /\ Plainly(f, 2)
    /\ h \in Seq(Nat) /\ s \in Seq(Nat) /\ s = Text(f, 2, Len(f)) \o h

LEMMA HeadWritten ==
  ASSUME NEW f, f = Zlib!Head12
  PROVE  Spelt(f, <<>>, <<>>)
<1>1. PICK u, v : u = Zlib!Unit("head1", <<>>) /\ v = Zlib!Unit("head2", <<>>)
  OBVIOUS
<1>2. u \in ZUnits /\ v \in ZUnits
  <2>1. <<>> \in Seq(Nat)
    OBVIOUS
  <2>2. QED  BY <1>1, <2>1 DEF ZUnits, Zlib!Units, Zlib!Kinds, Zlib!Unit
<1>3. f = <<u, v>>
  BY <1>1 DEF Zlib!Head12
<1>4. f \in Seq(ZUnits) /\ Len(f) = 2 /\ f[1] = u /\ f[2] = v
  BY ONLY <1>2, <1>3
<1>5. Text(f, 2, 2) = <<>>
  BY TextNone
<1>6. <<>> \in Seq(Nat) /\ <<>> = <<>> \o <<>>
  OBVIOUS
<1>7. Plainly(f, 2)
  BY <1>4 DEF Plainly
<1>8. QED  BY <1>1, <1>4, <1>5, <1>6, <1>7 DEF Spelt

(* More units and more bytes: what they say of the bytes goes out of h.    *)
LEMMA WrittenOn ==
  ASSUME NEW f, NEW h, NEW s, Spelt(f, h, s),
         NEW units \in Seq(ZUnits), Plainly(units, 0),
         NEW more \in Seq(Nat), NEW left \in Seq(Nat),
         Text(units, 0, Len(units)) \o left = h \o more
  PROVE  Spelt(f \o units, left, s \o more)
<1>1. PICK m \in Nat, n \in Nat : m = Len(f) /\ n = Len(units) /\ m >= 2
  <2>1. f \in Seq(ZUnits) /\ Len(f) >= 2
    BY DEF Spelt
  <2>2. QED  BY <2>1
<1>2. PICK w : w = f \o units
  OBVIOUS
<1>3. /\ w \in Seq(ZUnits) /\ Len(w) = m + n
      /\ \A i \in 1..m : w[i] = f[i]
      /\ \A i \in 1..n : w[m + i] = units[i]
  <2>1. f \in Seq(ZUnits)
    BY DEF Spelt
  <2>2. QED  BY <1>1, <1>2, <2>1, ConcatElements
<1>4. PICK x, y : x = Text(f, 2, m) /\ y = Text(units, 0, n)
  OBVIOUS
<1>5. x \in Seq(Nat) /\ y \in Seq(Nat)
  <2>1. f \in Seq(ZUnits) /\ 2 <= m /\ m <= Len(f) /\ 0 <= n /\ n <= Len(units)
    BY <1>1 DEF Spelt
  <2>2. QED  BY <1>4, <2>1, TextTyped
<1>6. Text(w, 2, m + n) = x \o y
  <2>1. f \in Seq(ZUnits) /\ 2 <= m /\ m <= Len(f) /\ m <= m + n /\ m + n <= Len(w) /\ m + n \in Nat
    BY <1>1, <1>3 DEF Spelt
  <2>2. Text(w, 2, m + n) = Text(w, 2, m) \o Text(w, m, m + n)
    <3>1. PICK a \in Nat, e \in Nat : a = 2 /\ e = m + n
      BY <2>1
    <3>2. a <= m /\ m <= e /\ e <= Len(w)
      BY ONLY <2>1, <3>1
    <3>3. w \in Seq(ZUnits)
      BY ONLY <1>3
    <3>4. Text(w, a, e) = Text(w, a, m) \o Text(w, m, e)
      BY ONLY <3>2, <3>3, a \in Nat, m \in Nat, e \in Nat, TextSplits
    <3>5. QED  BY ONLY <3>1, <3>4
  <2>3. Text(w, 2, m) = x
    BY <1>2, <1>4, <2>1, TextStays
  <2>4. Text(w, m, m + n) = y
    BY <1>1, <1>2, <1>4, <2>1, TextAdds
  <2>5. QED  BY <2>2, <2>3, <2>4
<1>7. h \in Seq(Nat) /\ s \in Seq(Nat) /\ s = x \o h
  BY <1>1, <1>4 DEF Spelt
<1>8. s \o more = (x \o y) \o left
  <2>1. \A i, j, k \in Seq(Nat) : Regroups(i, j, k)
    BY ConcatThree
  <2>2. Regroups(x, h, more) /\ Regroups(x, y, left)
    BY ONLY <1>5, <1>7, <2>1, more \in Seq(Nat), left \in Seq(Nat), Zenon
  <2>3. (x \o h) \o more = x \o (h \o more) /\ (x \o y) \o left = x \o (y \o left)
    BY ONLY <2>2 DEF Regroups
  <2>4. y \o left = h \o more
    BY <1>1, <1>4
  <2>5. QED  BY ONLY <1>7, <2>3, <2>4
<1>9. s \o more \in Seq(Nat)
  BY <1>7, ConcatElements
<1>10. Plainly(w, 2)
  <2>1. ASSUME NEW i \in (2 + 1)..(m + n) PROVE w[i].kind \in {"data", "mark"}
    <3>1. CASE i <= m
      <4>1. i \in (2 + 1)..m /\ i \in 1..m
        BY <3>1
      <4>2. \A j \in (2 + 1)..m : f[j].kind \in {"data", "mark"}
        BY <1>1 DEF Spelt, Plainly
      <4>3. QED  BY <1>3, <4>1, <4>2
    <3>2. CASE ~(i <= m)
      <4>1. PICK j \in 1..n : i = m + j
        <5>1. i - m \in 1..n /\ i = m + (i - m)
          BY <3>2
        <5>2. QED  BY <5>1
      <4>2. \A k \in (0 + 1)..n : units[k].kind \in {"data", "mark"}
        BY <1>1 DEF Plainly
      <4>3. units[j].kind \in {"data", "mark"}
        BY <4>2
      <4>4. w[m + j] = units[j]
        BY <1>3
      <4>5. QED  BY ONLY <4>1, <4>3, <4>4
    <3>3. QED  BY <3>1, <3>2
  <2>2. QED  BY <1>3, <2>1 DEF Plainly
<1>11. w[1] = f[1] /\ w[2] = f[2] /\ Len(w) >= 2
  BY <1>1, <1>3
<1>12. QED  BY <1>2, <1>3, <1>6, <1>8, <1>9, <1>10, <1>11 DEF Spelt

(* What inflate() takes, and what it has made of the units up to i.        *)
InflatedOf(f, i) == FlattenSeq([j \in 1..(i - 2) |-> f[j + 2].bytes])
GoodAt(f, i) ==
    LET before == IF i = 3 THEN "head2" ELSE f[i - 1].kind
    IN \/ f[i].kind \in {"data", "mark", "end"} /\ before # "end"
       \/ f[i].kind = "sum" /\ before = "end" /\ f[i].bytes = InflatedOf(f, i - 1)

LEMMA FlattensAlike == \A s : Zlib!FlattenSeq(s) = FlattenSeq(s)
  BY DEF Zlib!FlattenSeq, FlattenSeq

LEMMA GoodIsGood ==
  ASSUME NEW i
  PROVE  (Zlib!Good(i) <=> GoodAt(zFile, i)) /\ (Zlib!Good(i)' <=> GoodAt(zFile', i))
<1>1. \A j : Zlib!Inflated(j) = InflatedOf(zFile, j)
  BY FlattensAlike DEF Zlib!Inflated, InflatedOf
<1>2. \A j : Zlib!Inflated(j)' = InflatedOf(zFile', j)
  BY FlattensAlike DEF Zlib!Inflated, InflatedOf
<1>3. Zlib!Good(i) <=> GoodAt(zFile, i)
  BY <1>1 DEF Zlib!Good, GoodAt
<1>4. Zlib!Good(i)' <=> GoodAt(zFile', i)
  BY <1>2 DEF Zlib!Good, GoodAt
<1>5. QED  BY <1>3, <1>4

LEMMA InflatedIs ==
  ASSUME NEW f \in Seq(ZUnits), NEW i \in Nat, 2 <= i, i <= Len(f)
  PROVE  InflatedOf(f, i) = Text(f, 2, i)
<1>1. PICK q : q = BytesOf(f)
  OBVIOUS
<1>2. q \in Seq(Seq(Nat)) /\ Len(q) = Len(f) /\ \A j \in 1..Len(f) : q[j] = f[j].bytes
  BY <1>1, BytesElements
<1>3. PICK a \in Nat : a = 2
  OBVIOUS
<1>4. PICK p : p = SubSeq(q, a + 1, i)
  OBVIOUS
<1>5. p \in Seq(Seq(Nat)) /\ Len(p) = i - a /\ \A j \in 1..(i - a) : p[j] = q[a + j]
  <2>1. a <= i /\ i <= Len(q)
    BY <1>2, <1>3
  <2>2. QED  BY <1>2, <1>4, <2>1, PieceElements
<1>6. PICK r : r = [j \in 1..(i - 2) |-> f[j + 2].bytes]
  OBVIOUS
<1>7. r = p
  <2>1. p = [j \in 1..(i - 2) |-> p[j]]
    BY ONLY <1>3, <1>5, i \in Nat, 2 <= i
  <2>2. ASSUME NEW j \in 1..(i - 2) PROVE p[j] = f[j + 2].bytes
    <3>1. j \in 1..(i - a) /\ a + j = j + 2 /\ j + 2 \in 1..Len(f)
      BY <1>3
    <3>2. q[j + 2] = f[j + 2].bytes /\ p[j] = q[a + j]
      BY <1>2, <1>5, <3>1
    <3>3. QED  BY ONLY <3>1, <3>2
  <2>3. QED  BY ONLY <1>6, <2>1, <2>2
<1>8. QED  BY <1>1, <1>3, <1>4, <1>6, <1>7 DEF Text, InflatedOf

LEMMA HeadIsPrefix ==
  ASSUME NEW f \in Seq(ZUnits)
  PROVE  Zlib!IsPrefix(Zlib!Head12, f) <=>
            Len(f) >= 2 /\ f[1] = Zlib!Unit("head1", <<>>) /\ f[2] = Zlib!Unit("head2", <<>>)
<1>1. PICK u, v : u = Zlib!Unit("head1", <<>>) /\ v = Zlib!Unit("head2", <<>>)
  OBVIOUS
<1>2. PICK h : h = <<u, v>>
  OBVIOUS
<1>3. Len(h) = 2 /\ h[1] = u /\ h[2] = v /\ SubSeq(h, 1, 2) = h
  <2>1. h \in Seq({u, v}) /\ Len(h) = 2 /\ h[1] = u /\ h[2] = v
    BY ONLY <1>2
  <2>2. SubSeq(h, 1, Len(h)) = h
    BY <2>1, WholePiece
  <2>3. QED  BY <2>1, <2>2
<1>4. Zlib!Head12 = h
  BY <1>1, <1>2 DEF Zlib!Head12
<1>5. Len(f) >= 2 => (SubSeq(f, 1, 2) = h <=> f[1] = u /\ f[2] = v)
  <2>1. SUFFICES ASSUME Len(f) >= 2 PROVE SubSeq(f, 1, 2) = h <=> f[1] = u /\ f[2] = v
    OBVIOUS
  <2>2. PICK p : p = SubSeq(f, 1, 2)
    OBVIOUS
  <2>3. p \in Seq(ZUnits) /\ Len(p) = 2 /\ p[1] = f[1] /\ p[2] = f[2]
    BY <2>1, <2>2, PrefixElements
  <2>4. p = h <=> f[1] = u /\ f[2] = v
    BY ONLY <1>2, <2>3
  <2>5. QED  BY <2>2, <2>4
<1>6. Len(f) \in Nat
  OBVIOUS
<1>7. QED  BY <1>1, <1>3, <1>4, <1>5, <1>6 DEF Zlib!IsPrefix

(* A whole stream of s, and that deflate leaves one. *)
Whole(f, s) ==
    /\ Zlib!IsPrefix(Zlib!Head12, f) /\ Len(f) > 2
    /\ \A i \in 3..Len(f) : GoodAt(f, i)
    /\ f[Len(f)] = Zlib!Unit("sum", s)

LEMMA TrailerIs ==
  ASSUME NEW s \in Seq(Nat), NEW t, t = Zlib!Trailer(s)
  PROVE  /\ t \in Seq(ZUnits) /\ Len(t) = 2
         /\ t[1].kind = "end" /\ t[1].bytes = <<>>
         /\ t[2] = Zlib!Unit("sum", s) /\ t[2].kind = "sum" /\ t[2].bytes = s
<1>1. PICK u, v : u = [kind |-> "end", bytes |-> <<>>] /\ v = [kind |-> "sum", bytes |-> s]
  OBVIOUS
<1>2. u \in ZUnits /\ v \in ZUnits
  <2>1. <<>> \in Seq(Nat)
    OBVIOUS
  <2>2. QED  BY <1>1, <2>1 DEF ZUnits, Zlib!Units, Zlib!Kinds
<1>3. t = <<u, v>> /\ v = Zlib!Unit("sum", s)
  BY <1>1 DEF Zlib!Trailer, Zlib!Unit
<1>4. t \in Seq(ZUnits) /\ Len(t) = 2 /\ t[1] = u /\ t[2] = v
  BY ONLY <1>2, <1>3
<1>5. u.kind = "end" /\ u.bytes = <<>> /\ v.kind = "sum" /\ v.bytes = s
  BY <1>1
<1>6. QED  BY <1>3, <1>4, <1>5

LEMMA FinishedIsWhole ==
  ASSUME NEW f, NEW s, Spelt(f, <<>>, s)
  PROVE  f \o Zlib!Trailer(s) \in Seq(ZUnits) /\ Whole(f \o Zlib!Trailer(s), s)
<1>1. PICK t : t = Zlib!Trailer(s)
  OBVIOUS
<1>2. PICK m \in Nat : m = Len(f) /\ 2 <= m
  BY DEF Spelt
<1>3. /\ f \in Seq(ZUnits) /\ s \in Seq(Nat)
      /\ f[1] = Zlib!Unit("head1", <<>>) /\ f[2] = Zlib!Unit("head2", <<>>)
      /\ \A i \in 3..m : f[i].kind \in {"data", "mark"}
  BY <1>2 DEF Spelt, Plainly
<1>4. /\ t \in Seq(ZUnits) /\ Len(t) = 2
      /\ t[1].kind = "end" /\ t[1].bytes = <<>>
      /\ t[2] = Zlib!Unit("sum", s) /\ t[2].kind = "sum" /\ t[2].bytes = s
  BY <1>1, <1>3, TrailerIs
<1>5. PICK w : w = f \o t
  OBVIOUS
<1>6. /\ w \in Seq(ZUnits) /\ Len(w) = m + 2
      /\ \A i \in 1..m : w[i] = f[i]
      /\ w[m + 1] = t[1] /\ w[m + 2] = t[2]
  <2>1. /\ w \in Seq(ZUnits) /\ Len(w) = m + 2
        /\ \A i \in 1..(m + 2) : w[i] = IF i <= m THEN f[i] ELSE t[i - m]
    <3>1. /\ w \in Seq(ZUnits) /\ Len(w) = Len(f) + Len(t)
          /\ \A i \in 1..(Len(f) + Len(t)) : w[i] = IF i <= Len(f) THEN f[i] ELSE t[i - Len(f)]
      <4>1. f \in Seq(ZUnits) /\ t \in Seq(ZUnits)
        BY <1>3, <1>4
      <4>2. QED  BY ONLY <1>5, <4>1, ConcatElements
    <3>2. Len(f) = m /\ Len(t) = 2
      BY <1>2, <1>4
    <3>3. QED  BY ONLY <3>1, <3>2
  <2>2. \A i \in 1..m : w[i] = f[i]
    BY ONLY m \in Nat, <2>1
  <2>3. w[m + 1] = t[1]
    <3>1. m + 1 \in 1..(m + 2) /\ ~(m + 1 <= m) /\ (m + 1) - m = 1
      OBVIOUS
    <3>2. QED  BY ONLY <2>1, <3>1
  <2>4. w[m + 2] = t[2]
    <3>1. m + 2 \in 1..(m + 2) /\ ~(m + 2 <= m) /\ (m + 2) - m = 2
      OBVIOUS
    <3>2. QED  BY ONLY <2>1, <3>1
  <2>5. QED  BY ONLY <2>1, <2>2, <2>3, <2>4
<1>7. ASSUME NEW i \in 3..m PROVE GoodAt(w, i)
  <2>1. w[i].kind \in {"data", "mark"}
    BY <1>3, <1>6
  <2>2. i # 3 => w[i - 1].kind \in {"data", "mark"}
    <3>1. i # 3 => i - 1 \in 3..m /\ i - 1 \in 1..m
      OBVIOUS
    <3>2. QED  BY <1>3, <1>6, <3>1
  <2>3. QED  BY ONLY <2>1, <2>2 DEF GoodAt
<1>8. GoodAt(w, m + 1)
  <2>1. PICK i : i = m + 1
    OBVIOUS
  <2>2. w[i].kind = "end"
    BY <1>4, <1>6, <2>1
  <2>3. i # 3 => w[i - 1].kind \in {"data", "mark"}
    <3>1. i # 3 => i - 1 = m /\ m \in 3..m /\ m \in 1..m
      BY <1>2, <2>1
    <3>2. QED  BY <1>3, <1>6, <3>1
  <2>4. QED  BY ONLY <2>1, <2>2, <2>3 DEF GoodAt
<1>9. GoodAt(w, m + 2)
  <2>1. Text(w, 2, m + 1) = s
    <3>1. PICK a \in Nat, e \in Nat : a = 2 /\ e = m + 1
      OBVIOUS
    <3>2. a <= m /\ m <= e /\ m <= Len(f) /\ m + 1 <= Len(w) /\ e <= Len(w)
      BY <1>2, <1>6, <3>1
    <3>3. Text(w, a, e) = Text(w, a, m) \o Text(w, m, e)
      BY <1>6, <3>2, TextSplits
    <3>4. Text(w, a, m) = Text(f, a, m)
      BY <1>3, <1>4, <1>5, <3>2, TextStays
    <3>5. Text(w, m, m + 1) = w[m + 1].bytes
      BY <1>6, <3>2, TextOne
    <3>6. s = Text(f, 2, m) \o <<>>
      BY <1>2 DEF Spelt
    <3>7. QED  BY ONLY <1>4, <1>6, <3>1, <3>3, <3>4, <3>5, <3>6
  <2>2. InflatedOf(w, m + 1) = Text(w, 2, m + 1)
    <3>1. PICK e \in Nat : e = m + 1
      OBVIOUS
    <3>2. 2 <= e /\ e <= Len(w)
      BY <1>2, <1>6, <3>1
    <3>3. QED  BY <1>6, <3>1, <3>2, InflatedIs
  <2>3. PICK i : i = m + 2
    OBVIOUS
  <2>4. i # 3 /\ i - 1 = m + 1
    BY <1>2, <2>3
  <2>5. w[i].kind = "sum" /\ w[i].bytes = s /\ w[i - 1].kind = "end"
    BY ONLY <1>4, <1>6, <2>3, <2>4
  <2>6. InflatedOf(w, i - 1) = s
    BY ONLY <2>1, <2>2, <2>4
  <2>7. QED  BY ONLY <2>3, <2>4, <2>5, <2>6 DEF GoodAt
<1>10. \A i \in 3..Len(w) : GoodAt(w, i)
  <2>1. ASSUME NEW i \in 3..Len(w) PROVE GoodAt(w, i)
    <3>1. i \in 3..m \/ i = m + 1 \/ i = m + 2
      BY <1>6
    <3>2. QED  BY <1>7, <1>8, <1>9, <3>1
  <2>2. QED  BY <2>1
<1>11. Zlib!IsPrefix(Zlib!Head12, w)
  <2>1. Len(w) >= 2 /\ w[1] = f[1] /\ w[2] = f[2]
    BY <1>2, <1>6
  <2>2. QED  BY <1>3, <1>6, <2>1, HeadIsPrefix
<1>12. Len(w) > 2
  BY <1>2, <1>6
<1>13. w[Len(w)] = Zlib!Unit("sum", s)
  BY <1>4, <1>6
<1>14. QED  BY <1>1, <1>5, <1>6, <1>10, <1>11, <1>12, <1>13 DEF Whole
-----------------------------------------------------------------------------
ZTypes ==
    /\ size \in Nat \ {0}
    /\ zFile \in Seq(ZUnits) /\ zPos \in 0..Len(zFile)
    /\ held \in Seq(Nat) /\ sum \in Seq(Nat) /\ zGot \in Seq(Nat)
    /\ given \in Nat

(* A reader has, with what inflate holds, what the units read so far say,  *)
(* until one of them is no good; at the end it has what the stream says.   *)
AtEnd == zFile[zPos].kind = "sum" /\ zGot = zFile[zPos].bytes
Underway ==
    \/ zPos > 2 /\ ~GoodAt(zFile, zPos)
    \/ zGot \o held = Text(zFile, 2, zPos)

ReadInv ==
    /\ ended => zStatus = "input"
    /\ zShort /\ ~zGetError => ended
    /\ zStatus = "input" => zPos >= 2
    /\ zStatus = "input" /\ ~missed => IF ended THEN AtEnd ELSE Underway
    /\ zStatus = "neutral" /\ ~zTainted => zGot = <<>>

(* A writer who heard of no failure has spelt what it was given.           *)
AllSpelt == Spelt(zFile, held, sum) /\ sum = Zlib!Numbers(0, given)

WriteInv ==
    /\ strm = "deflate" <=> zStatus = "output"
    /\ zStatus = "output" /\ ~told => AllSpelt
    /\ promised => zStatus # "output" /\ Whole(zFile, Zlib!Numbers(0, given))
    /\ zStatus # "output" /\ ~promised /\ ~zTainted => given = 0

ZInv == ZTypes /\ ReadInv /\ WriteInv

LEMMA ZInitInv == Zlib!Init => ZInv
<1> SUFFICES ASSUME Zlib!Init PROVE ZInv
  OBVIOUS
<1>1. ZTypes
  <2>1. zFile \in Seq(ZUnits)
    <3>1. Foreign \subseteq Seq(ZUnits)
      BY MCZlibAssumption DEF Zlib!ZlibAssumption, ZUnits
    <3>2. <<>> \in Seq(ZUnits) /\ zFile \in Foreign \cup {<<>>}
      BY DEF Zlib!Init
    <3>3. QED  BY ONLY <3>1, <3>2
  <2>2. size \in Nat \ {0}
    BY MCZlibAssumption DEF Zlib!ZlibAssumption, Zlib!Init
  <2>3. zPos = 0 /\ held = <<>> /\ sum = <<>> /\ zGot = <<>> /\ given = 0
    BY DEF Zlib!Init
  <2>4. Len(zFile) \in Nat /\ <<>> \in Seq(Nat)
    BY ONLY <2>1
  <2>5. QED  BY ONLY <2>1, <2>2, <2>3, <2>4 DEF ZTypes
<1>2. ReadInv
  BY DEF Zlib!Init, ReadInv
<1>3. WriteInv
  BY DEF Zlib!Init, WriteInv
<1>4. QED  BY <1>1, <1>2, <1>3 DEF ZInv

(* Calls that leave the units, the bytes and the direction as they are.    *)
LEMMA ZQuiet ==
  ASSUME ZInv,
         size' = size /\ zFile' = zFile /\ zPos' = zPos /\ strm' = strm /\ held' = held /\ sum' = sum,
         ended' = ended /\ zStatus' = zStatus /\ given' = given /\ zGot' = zGot,
         missed' = missed /\ promised' = promised,
         told => told', zTainted => zTainted', zShort' /\ ~zGetError' => ended
  PROVE  ZInv'
<1>1. ZTypes'
  BY DEF ZInv, ZTypes
<1>2. AtEnd' = AtEnd /\ Underway' = Underway /\ AllSpelt' = AllSpelt
  BY DEF AtEnd, Underway, AllSpelt
<1>3. ReadInv'
  <2>1. (zStatus = "input" /\ ~missed => IF ended THEN AtEnd ELSE Underway)'
    BY <1>2 DEF ZInv, ReadInv
  <2>2. QED  BY <2>1 DEF ZInv, ReadInv
<1>4. WriteInv'
  <2>1. (zStatus = "output" /\ ~told => AllSpelt)'
    BY <1>2 DEF ZInv, WriteInv
  <2>2. QED  BY <2>1 DEF ZInv, WriteInv
<1>5. QED  BY <1>1, <1>3, <1>4 DEF ZInv

(* Calls of a writer, which put units behind the others.                   *)
LEMMA ZWrites ==
  ASSUME ZInv, zStatus = "output",
         NEW units \in Seq(ZUnits), zFile' = zFile \o units,
         held' \in Seq(Nat), sum' \in Seq(Nat), given' \in Nat,
         size' = size /\ zPos' = zPos /\ strm' = strm /\ ended' = ended /\ zStatus' = zStatus,
         zGot' = zGot /\ missed' = missed /\ zShort' = zShort /\ zGetError' = zGetError,
         promised' = promised, told \/ told' \/ AllSpelt', told => told'
  PROVE  ZInv'
<1>1. ZTypes'
  <2>1. zFile \in Seq(ZUnits) /\ zPos \in 0..Len(zFile) /\ size \in Nat \ {0} /\ zGot \in Seq(Nat)
    BY DEF ZInv, ZTypes
  <2>2. zFile' \in Seq(ZUnits) /\ Len(zFile') = Len(zFile) + Len(units)
    BY <2>1, ConcatElements
  <2>3. zPos' \in 0..Len(zFile')
    <3>1. Len(zFile) \in Nat /\ Len(units) \in Nat
      BY <2>1
    <3>2. QED  BY ONLY <2>1, <2>2, <3>1, zPos' = zPos
  <2>4. QED  BY <2>1, <2>2, <2>3 DEF ZTypes
<1>2. ReadInv'
  BY DEF ZInv, ReadInv
<1>3. WriteInv'
  BY DEF ZInv, WriteInv
<1>4. QED  BY <1>1, <1>2, <1>3 DEF ZInv

(* Another device, or the same one again.                                  *)
LEMMA ZFreshens ==
  ASSUME ZInv, NEW f \in Seq(ZUnits), Zlib!Fresh(f), given' \in Nat,
         promised' => Whole(f, Zlib!Numbers(0, given')), promised' \/ given' = 0
  PROVE  ZInv'
<1>1. /\ zFile' = f /\ zPos' = 0 /\ held' = <<>> /\ sum' = <<>> /\ zGot' = <<>> /\ size' = size
      /\ strm' = "none" /\ zStatus' = "neutral" /\ ended' = FALSE /\ zShort' = FALSE
  BY DEF Zlib!Fresh, Zlib!Closed
<1>2. ZTypes'
  <2>1. Len(f) \in Nat /\ <<>> \in Seq(Nat) /\ size \in Nat \ {0}
    BY DEF ZInv, ZTypes
  <2>2. QED  BY ONLY <1>1, <2>1, f \in Seq(ZUnits), given' \in Nat DEF ZTypes
<1>3. ReadInv'
  BY <1>1 DEF ReadInv
<1>4. WriteInv'
  BY <1>1 DEF WriteInv
<1>5. QED  BY <1>2, <1>3, <1>4 DEF ZInv

LEMMA FinishTyped ==
  ASSUME ZInv, NEW left \in Seq(Nat), NEW rest \in Zlib!Finish(left)
  PROVE  /\ rest \in Seq(ZUnits)
         /\ strm # "deflate" => rest = <<>>
<1>1. CASE strm = "deflate"
  <2>1. PICK units \in Zlib!Spellings(left) : rest = units \o Zlib!Trailer(sum)
    BY <1>1 DEF Zlib!Finish
  <2>2. units \in Seq(ZUnits)
    BY SpellingIs
  <2>3. PICK t : t = Zlib!Trailer(sum)
    OBVIOUS
  <2>4. t \in Seq(ZUnits)
    BY <2>3, TrailerIs DEF ZInv, ZTypes
  <2>5. QED  BY <1>1, <2>1, <2>2, <2>3, <2>4, ConcatElements
<1>2. CASE strm # "deflate"
  <2>1. rest = <<>>
    BY <1>2 DEF Zlib!Finish
  <2>2. QED  BY <1>2, <2>1
<1>3. QED  BY <1>1, <1>2

LEMMA TakenTyped ==
  ASSUME NEW units \in Seq(ZUnits), NEW taken \in Zlib!Taken(units)
  PROVE  /\ taken \in Seq(ZUnits)
         /\ units = <<>> => taken = <<>>
<1>1. PICK k \in 0..Len(units) : taken = SubSeq(units, 1, k)
  BY DEF Zlib!Taken, Zlib!Upto
<1>2. Len(units) \in Nat /\ k \in Nat /\ k <= Len(units)
  OBVIOUS
<1>3. taken \in Seq(ZUnits) /\ Len(taken) = k
  BY <1>1, <1>2, PrefixElements
<1>4. units = <<>> => k = 0
  BY <1>2
<1>5. QED  BY <1>3, <1>4

(* bos() or main_cont_beg() that fails. *)
LEMMA ZSpoils ==
  ASSUME ZInv, NEW before \in Seq(ZUnits), NEW left \in Seq(Nat),
         promised => before = <<>>, Zlib!Spoils(before, left)
  PROVE  ZInv'
<1>0. PICK rest \in Zlib!Finish(left) : \E taken \in Zlib!Taken(rest) : zFile' = zFile \o before \o taken
  BY DEF Zlib!Spoils
<1>1. PICK taken \in Zlib!Taken(rest) : zFile' = zFile \o before \o taken
  BY <1>0
<1>2. /\ zPos' = zPos /\ held' = <<>> /\ sum' = <<>> /\ zGot' = zGot /\ size' = size
      /\ strm' = "none" /\ zStatus' = "neutral" /\ ended' = FALSE /\ zShort' = FALSE
      /\ zTainted' = TRUE /\ told' = TRUE /\ given' = given /\ promised' = promised
  BY DEF Zlib!Spoils, Zlib!Closed
<1>3. rest \in Seq(ZUnits) /\ (strm # "deflate" => rest = <<>>)
  BY FinishTyped
<1>4. taken \in Seq(ZUnits) /\ (rest = <<>> => taken = <<>>)
  BY <1>3, TakenTyped
<1>5. /\ zFile \in Seq(ZUnits) /\ zPos \in 0..Len(zFile) /\ size \in Nat \ {0}
      /\ zGot \in Seq(Nat) /\ given \in Nat
  BY DEF ZInv, ZTypes
<1>6. ZTypes'
  <2>1. PICK x : x = zFile \o before
    OBVIOUS
  <2>2. x \in Seq(ZUnits) /\ Len(x) = Len(zFile) + Len(before)
    BY <1>5, <2>1, ConcatElements
  <2>3. zFile' \in Seq(ZUnits) /\ Len(zFile') = Len(x) + Len(taken)
    BY <1>1, <1>4, <2>1, <2>2, ConcatElements
  <2>4. zPos' \in 0..Len(zFile')
    <3>1. Len(zFile) \in Nat /\ Len(before) \in Nat /\ Len(taken) \in Nat
      BY <1>4, <1>5
    <3>2. QED  BY ONLY <1>2, <1>5, <2>2, <2>3, <3>1
  <2>5. <<>> \in Seq(Nat)
    OBVIOUS
  <2>6. QED  BY ONLY <1>2, <1>5, <2>3, <2>4, <2>5 DEF ZTypes
<1>7. ReadInv'
  BY <1>2 DEF ReadInv
<1>8. WriteInv'
  <2>1. promised => zFile' = zFile
    <3>1. promised => rest = <<>> /\ before = <<>>
      BY <1>3 DEF ZInv, WriteInv
    <3>2. promised => taken = <<>> /\ before = <<>>
      BY <1>4, <3>1
    <3>3. zFile \o <<>> = zFile
      BY <1>5, ConcatOfNone
    <3>4. QED  BY ONLY <1>1, <3>2, <3>3
  <2>2. promised' => Whole(zFile, Zlib!Numbers(0, given))' 
    <3>1. promised => Whole(zFile, Zlib!Numbers(0, given))
      BY DEF ZInv, WriteInv
    <3>2. promised' => Whole(zFile', Zlib!Numbers(0, given'))
      BY ONLY <1>2, <2>1, <3>1
    <3>3. QED  BY <3>2
  <2>3. QED  BY <1>2, <2>2 DEF WriteInv
<1>9. QED  BY <1>6, <1>7, <1>8 DEF ZInv

LEMMA NoNumbers == Zlib!Numbers(0, 0) = <<>>
<1>1. PICK q : q = [i \in 1..(0 - 0) |-> 0 + i]
  OBVIOUS
<1>2. q = <<>>
  BY <1>1
<1>3. QED  BY <1>1, <1>2 DEF Zlib!Numbers

LEMMA HeadTyped == Zlib!Head12 \in Seq(ZUnits) /\ Len(Zlib!Head12) = 2
<1>1. PICK h : h = Zlib!Head12
  OBVIOUS
<1>2. /\ Zlib!Unit("head1", <<>>) \in ZUnits /\ Zlib!Unit("head2", <<>>) \in ZUnits
  <2>1. <<>> \in Seq(Nat)
    OBVIOUS
  <2>2. QED  BY <2>1 DEF ZUnits, Zlib!Units, Zlib!Kinds, Zlib!Unit
<1>3. PICK u \in ZUnits, v \in ZUnits : h = <<u, v>>
  BY <1>1, <1>2 DEF Zlib!Head12
<1>4. h \in Seq(ZUnits) /\ Len(h) = 2
  BY ONLY <1>3, u \in ZUnits, v \in ZUnits
<1>5. QED  BY <1>1, <1>4

LEMMA ZBosKeeps ==
  ASSUME ZInv, Zlib!Bos
  PROVE  ZInv'
<1> DEFINE Opened == zStatus = "neutral" /\ ~zBosDone
<1>1. \/ Zlib!Spoils(<<>>, held)
      \/ Opened /\ zFile = <<>> /\ Zlib!Opens("deflate", "output") /\ zFile' = Zlib!Head12 /\ zPos' = zPos
      \/ Opened /\ zFile = <<>> /\ \E before \in Zlib!Taken(Zlib!Head12) : Zlib!Spoils(before, <<>>)
      \/ /\ Opened /\ Zlib!IsPrefix(Zlib!Head12, zFile)
         /\ Zlib!Opens("inflate", "input") /\ zPos' = 2 /\ zFile' = zFile
  BY DEF Zlib!Bos
<1>2. ~zTainted
  BY DEF Zlib!Bos
<1>3. /\ held \in Seq(Nat) /\ <<>> \in Seq(Nat) /\ <<>> \in Seq(ZUnits)
      /\ zFile \in Seq(ZUnits) /\ given \in Nat
  BY DEF ZInv, ZTypes
<1>4. zFile = <<>> => ~promised
  <2>1. zFile = <<>> => ~(Len(zFile) > 2)
    OBVIOUS
  <2>2. QED  BY <2>1 DEF ZInv, WriteInv, Whole
<1>5. CASE Zlib!Spoils(<<>>, held)
  BY <1>3, <1>5, ZSpoils
<1>6. CASE Opened /\ zFile = <<>> /\ \E before \in Zlib!Taken(Zlib!Head12) : Zlib!Spoils(before, <<>>)
  <2>1. PICK before \in Zlib!Taken(Zlib!Head12) : Zlib!Spoils(before, <<>>)
    BY <1>6
  <2>2. before \in Seq(ZUnits)
    BY HeadTyped, TakenTyped
  <2>3. QED  BY <1>3, <1>4, <1>6, <2>1, <2>2, ZSpoils
<1>7. CASE Opened /\ zFile = <<>> /\ Zlib!Opens("deflate", "output") /\ zFile' = Zlib!Head12 /\ zPos' = zPos
  <2>1. /\ strm' = "deflate" /\ held' = <<>> /\ sum' = <<>> /\ zStatus' = "output"
        /\ size' = size /\ ended' = ended /\ zGetError' = zGetError /\ given' = given
        /\ zGot' = zGot /\ zShort' = zShort /\ missed' = missed /\ promised' = promised
    BY <1>7 DEF Zlib!Opens, Zlib!reading
  <2>2. given = 0
    BY <1>2, <1>4, <1>7 DEF ZInv, WriteInv
  <2>3. Spelt(zFile', held', sum')
    BY <1>7, <2>1, HeadWritten
  <2>4. sum' = Zlib!Numbers(0, given')
    BY <2>1, <2>2, NoNumbers
  <2>5. ZTypes'
    <3>1. zPos' \in 0..Len(zFile')
      <4>1. zPos \in 0..Len(zFile) /\ Len(zFile) = 0
        BY <1>7 DEF ZInv, ZTypes
      <4>2. Len(zFile') = 2
        BY <1>7, HeadTyped
      <4>3. QED  BY ONLY <1>7, <4>1, <4>2
    <3>2. zFile' \in Seq(ZUnits)
      BY <1>7, HeadTyped
    <3>3. size \in Nat \ {0} /\ zGot \in Seq(Nat)
      BY DEF ZInv, ZTypes
    <3>4. QED  BY ONLY <1>3, <2>1, <3>1, <3>2, <3>3 DEF ZTypes
  <2>6. ReadInv'
    BY <1>7, <2>1 DEF ZInv, ReadInv
  <2>7. WriteInv'
    <3>1. AllSpelt'
      BY <2>3, <2>4 DEF AllSpelt
    <3>2. QED  BY <1>4, <1>7, <2>1, <3>1 DEF WriteInv
  <2>8. QED  BY <2>5, <2>6, <2>7 DEF ZInv
<1>8. CASE /\ Opened /\ Zlib!IsPrefix(Zlib!Head12, zFile)
           /\ Zlib!Opens("inflate", "input") /\ zPos' = 2 /\ zFile' = zFile
  <2>1. /\ strm' = "inflate" /\ held' = <<>> /\ sum' = <<>> /\ zStatus' = "input"
        /\ size' = size /\ ended' = ended /\ zGetError' = zGetError /\ given' = given
        /\ zGot' = zGot /\ zShort' = zShort /\ missed' = missed /\ promised' = promised
        /\ zTainted' = zTainted
    BY <1>8 DEF Zlib!Opens, Zlib!reading
  <2>2. Len(zFile) >= 2
    BY <1>3, <1>8, HeadIsPrefix
  <2>3. ~ended /\ zGot = <<>>
    BY <1>2, <1>8 DEF ZInv, ReadInv
  <2>4. ZTypes'
    <3>1. zPos' \in 0..Len(zFile')
      <4>1. Len(zFile) \in Nat
        BY <1>3
      <4>2. QED  BY ONLY <1>8, <2>2, <4>1
    <3>2. size \in Nat \ {0} /\ zGot \in Seq(Nat)
      BY DEF ZInv, ZTypes
    <3>3. QED  BY ONLY <1>3, <1>8, <2>1, <3>1, <3>2 DEF ZTypes
  <2>5. Underway'
    <3>1. Text(zFile, 2, 2) = <<>>
      BY TextNone
    <3>2. <<>> \o <<>> = <<>>
      OBVIOUS
    <3>3. zGot' \o held' = Text(zFile', 2, zPos')
      BY ONLY <1>8, <2>1, <2>3, <3>1, <3>2
    <3>4. QED  BY <3>3 DEF Underway
  <2>6. ReadInv'
    <3>1. (zStatus = "input" /\ ~missed => IF ended THEN AtEnd ELSE Underway)'
      BY <2>1, <2>3, <2>5
    <3>2. zPos' >= 2
      BY <1>8
    <3>3. zShort' /\ ~zGetError' => ended'
      BY <2>1 DEF ZInv, ReadInv
    <3>4. QED  BY <2>1, <3>1, <3>2, <3>3 DEF ReadInv
  <2>7. WriteInv'
    <3>1. promised => Whole(zFile, Zlib!Numbers(0, given))
      BY DEF ZInv, WriteInv
    <3>2. promised' => Whole(zFile', Zlib!Numbers(0, given'))
      BY ONLY <1>8, <2>1, <3>1
    <3>3. ~promised' => given' = 0
      BY <1>2, <1>8, <2>1 DEF ZInv, WriteInv
    <3>4. QED  BY <2>1, <3>2, <3>3 DEF WriteInv
  <2>8. QED  BY <2>4, <2>6, <2>7 DEF ZInv
<1>9. QED  BY <1>1, <1>5, <1>6, <1>7, <1>8

(* What a flush hands over, and what it leaves in deflate.                 *)
Kept == IF syncFlush THEN <<>> ELSE held

LEMMA MarkIs ==
  /\ <<Zlib!Mark>> \in Seq(ZUnits) /\ Plainly(<<Zlib!Mark>>, 0)
  /\ Text(<<Zlib!Mark>>, 0, 1) = <<>>
<1>1. PICK u : u = [kind |-> "mark", bytes |-> <<>>]
  OBVIOUS
<1>2. u \in ZUnits /\ u.kind = "mark" /\ u.bytes = <<>>
  <2>1. <<>> \in Seq(Nat)
    OBVIOUS
  <2>2. QED  BY <1>1, <2>1 DEF ZUnits, Zlib!Units, Zlib!Kinds
<1>3. PICK f : f = <<u>>
  OBVIOUS
<1>4. f \in Seq(ZUnits) /\ Len(f) = 1 /\ f[1] = u
  BY ONLY <1>2, <1>3
<1>5. Text(f, 0, 1) = <<>>
  <2>1. \A a \in Nat : a + 1 <= Len(f) => Text(f, a, a + 1) = f[a + 1].bytes
    BY <1>4, TextOne
  <2>2. 0 + 1 <= Len(f) => Text(f, 0, 0 + 1) = f[0 + 1].bytes
    BY ONLY <2>1
  <2>3. QED  BY ONLY <1>2, <1>4, <2>2
<1>6. Plainly(f, 0)
  BY <1>2, <1>4 DEF Plainly
<1>7. f = <<Zlib!Mark>>
  BY <1>1, <1>3 DEF Zlib!Mark, Zlib!Unit
<1>8. QED  BY <1>4, <1>5, <1>6, <1>7

LEMMA FlushedIs ==
  ASSUME ZInv, NEW units \in Zlib!Flushed
  PROVE  /\ units \in Seq(ZUnits) /\ Plainly(units, 0)
         /\ Kept \in Seq(Nat) /\ Text(units, 0, Len(units)) \o Kept = held
<1>1. held \in Seq(Nat) /\ held \o <<>> = held /\ <<>> \o held = held /\ <<>> \in Seq(Nat)
  <2>1. held \in Seq(Nat)
    BY DEF ZInv, ZTypes
  <2>2. QED  BY ONLY <2>1
<1>2. CASE ~syncFlush
  <2>1. units = <<>> /\ Kept = held
    BY <1>2 DEF Zlib!Flushed, Kept
  <2>2. units \in Seq(ZUnits) /\ Len(units) = 0
    BY <2>1
  <2>3. Text(units, 0, 0) = <<>>
    BY TextNone
  <2>4. QED  BY <1>1, <2>1, <2>2, <2>3 DEF Plainly
<1>3. CASE syncFlush
  <2>1. PICK data \in Zlib!Spellings(held) : units = data \o <<Zlib!Mark>>
    BY <1>3 DEF Zlib!Flushed
  <2>2. data \in Seq(ZUnits) /\ Plainly(data, 0) /\ Text(data, 0, Len(data)) = held
    BY <1>1, SpellingIs
  <2>3. PICK m : m = <<Zlib!Mark>>
    OBVIOUS
  <2>4. m \in Seq(ZUnits) /\ Plainly(m, 0) /\ Len(m) = 1 /\ Text(m, 0, Len(m)) = <<>>
    BY <2>3, MarkIs
  <2>5. PICK n \in Nat : n = Len(data)
    BY <2>2
  <2>6. /\ units \in Seq(ZUnits) /\ Len(units) = n + 1
        /\ \A i \in 1..n : units[i] = data[i]
        /\ units[n + 1] = m[1]
    <3>1. /\ units \in Seq(ZUnits) /\ Len(units) = n + 1
          /\ \A i \in 1..(n + 1) : units[i] = IF i <= n THEN data[i] ELSE m[i - n]
      BY <2>1, <2>2, <2>3, <2>4, <2>5, ConcatElements
    <3>2. QED  BY ONLY n \in Nat, <3>1
  <2>7. Text(units, 0, Len(units)) = held
    <3>1. PICK a \in Nat, e \in Nat : a = 0 /\ e = n + 1
      OBVIOUS
    <3>2. a <= n /\ n <= e /\ e <= Len(units) /\ n <= Len(data)
      BY <2>5, <2>6, <3>1
    <3>3. Text(units, a, e) = Text(units, a, n) \o Text(units, n, e)
      BY <2>6, <3>2, TextSplits
    <3>4. Text(units, a, n) = Text(data, a, n)
      BY <2>1, <2>2, <2>3, <2>4, <3>2, TextStays
    <3>5. Text(units, Len(data), Len(data) + Len(m)) = Text(m, 0, Len(m))
      BY <2>1, <2>2, <2>3, <2>4, TextAdds
    <3>6. QED  BY ONLY <1>1, <2>2, <2>4, <2>5, <2>6, <3>1, <3>3, <3>4, <3>5
  <2>8. Plainly(units, 0)
    <3>1. ASSUME NEW i \in 1..(n + 1) PROVE units[i].kind \in {"data", "mark"}
      <4>1. CASE i <= n
        <5>1. i \in 1..n
          BY <4>1
        <5>2. QED  BY <2>2, <2>5, <2>6, <5>1 DEF Plainly
      <4>2. CASE ~(i <= n)
        <5>1. i = n + 1
          BY <4>2
        <5>2. QED  BY <2>4, <2>6, <5>1 DEF Plainly
      <4>3. QED  BY <4>1, <4>2
    <3>2. QED  BY <2>6, <3>1 DEF Plainly
  <2>9. Kept = <<>>
    BY <1>3 DEF Kept
  <2>10. QED  BY <1>1, <2>6, <2>7, <2>8, <2>9
<1>4. QED  BY <1>2, <1>3

LEMMA ZFlushTakes ==
  ASSUME ZInv, zStatus = "output", NEW fails \in BOOLEAN, Zlib!FlushTakes(fails),
         size' = size /\ zPos' = zPos /\ ended' = ended /\ zStatus' = zStatus /\ given' = given,
         zGot' = zGot /\ missed' = missed /\ zShort' = zShort /\ zGetError' = zGetError,
         promised' = promised, told => told', fails => told'
  PROVE  ZInv'
<1>1. PICK units \in Zlib!Flushed : \E k \in 0..Len(units) :
          (k < Len(units) => fails) /\ zFile' = zFile \o Zlib!Upto(units, k)
  BY DEF Zlib!FlushTakes
<1>2. PICK k \in 0..Len(units) :
          (k < Len(units) => fails) /\ zFile' = zFile \o Zlib!Upto(units, k)
  BY <1>1
<1>3. held' = Kept /\ strm' = strm /\ sum' = sum
  BY DEF Zlib!FlushTakes, Kept
<1>4. /\ units \in Seq(ZUnits) /\ Plainly(units, 0)
      /\ Kept \in Seq(Nat) /\ Text(units, 0, Len(units)) \o Kept = held
  BY FlushedIs
<1>5. PICK some : some = Zlib!Upto(units, k)
  OBVIOUS
<1>6. Len(units) \in Nat /\ k \in Nat /\ k <= Len(units)
  BY <1>4
<1>7. some \in Seq(ZUnits) /\ (k = Len(units) => some = units)
  BY <1>4, <1>5, <1>6, PrefixElements, WholePiece DEF Zlib!Upto
<1>8. sum \in Seq(Nat) /\ held \in Seq(Nat) /\ given \in Nat
  BY DEF ZInv, ZTypes
<1>9. told \/ told' \/ AllSpelt'
  <2>1. SUFFICES ASSUME ~told, ~told' PROVE AllSpelt'
    OBVIOUS
  <2>2. Spelt(zFile, held, sum) /\ sum = Zlib!Numbers(0, given)
    BY <2>1 DEF ZInv, WriteInv, AllSpelt
  <2>3. zFile' = zFile \o units
    <3>1. ~(k < Len(units))
      BY ONLY <1>2, <2>1, fails => told', Zenon
    <3>2. k = Len(units)
      BY ONLY <1>6, <3>1
    <3>3. QED  BY ONLY <1>2, <1>5, <1>7, <3>2
  <2>4. PICK none : none = <<>>
    OBVIOUS
  <2>5. none \in Seq(Nat) /\ held \o none = held /\ sum \o none = sum
    BY <1>8, <2>4, ConcatOfNone
  <2>6. Spelt(zFile \o units, Kept, sum \o none)
    BY <1>4, <2>2, <2>5, WrittenOn
  <2>7. Spelt(zFile', held', sum') /\ sum' = Zlib!Numbers(0, given')
    BY ONLY <1>3, <2>2, <2>3, <2>5, <2>6, given' = given
  <2>8. QED  BY <2>7 DEF AllSpelt
<1>10. zFile' = zFile \o some
  BY <1>2, <1>5
<1>11. held' \in Seq(Nat) /\ sum' \in Seq(Nat) /\ given' \in Nat
  BY <1>3, <1>4, <1>8
<1>12. QED  BY <1>3, <1>7, <1>9, <1>10, <1>11, ZWrites

LEMMA ZMainContBegKeeps ==
  ASSUME ZInv, Zlib!MainContBeg
  PROVE  ZInv'
<1>1. /\ held \in Seq(Nat) /\ <<>> \in Seq(Nat) /\ <<>> \in Seq(ZUnits)
  BY DEF ZInv, ZTypes
<1>2. CASE Zlib!Spoils(<<>>, held)
  BY <1>1, <1>2, ZSpoils
<1>3. CASE /\ zStatus = "output"
           /\ \E units \in Zlib!Flushed : \E before \in Zlib!Taken(units) : Zlib!Spoils(before, Kept)
  <2>1. PICK units \in Zlib!Flushed : \E before \in Zlib!Taken(units) : Zlib!Spoils(before, Kept)
    BY <1>3
  <2>2. PICK before \in Zlib!Taken(units) : Zlib!Spoils(before, Kept)
    BY <2>1
  <2>3. units \in Seq(ZUnits) /\ Kept \in Seq(Nat)
    BY FlushedIs
  <2>4. before \in Seq(ZUnits)
    BY <2>3, TakenTyped
  <2>5. ~promised
    BY <1>3 DEF ZInv, WriteInv
  <2>6. QED  BY <2>2, <2>3, <2>4, <2>5, ZSpoils
<1>4. CASE /\ zStatus' = zStatus /\ size' = size /\ zPos' = zPos /\ ended' = ended
           /\ given' = given /\ zGot' = zGot /\ zShort' = zShort /\ missed' = missed
           /\ zGetError' = zGetError /\ zTainted' = zTainted /\ told' = told /\ promised' = promised
           /\ \/ zStatus = "input" /\ zFile' = zFile /\ strm' = strm /\ held' = held /\ sum' = sum
              \/ zStatus = "output" /\ Zlib!FlushTakes(FALSE)
  <2>1. CASE zStatus = "input" /\ zFile' = zFile /\ strm' = strm /\ held' = held /\ sum' = sum
    <3>1. zShort' /\ ~zGetError' => ended
      BY <1>4 DEF ZInv, ReadInv
    <3>2. QED  BY <1>4, <2>1, <3>1, ZQuiet
  <2>2. CASE zStatus = "output" /\ Zlib!FlushTakes(FALSE)
    BY <1>4, <2>2, ZFlushTakes
  <2>3. QED  BY <1>4, <2>1, <2>2
<1>5. \/ Zlib!Spoils(<<>>, held)
      \/ /\ zStatus = "output"
         /\ \E units \in Zlib!Flushed : \E before \in Zlib!Taken(units) : Zlib!Spoils(before, Kept)
      \/ /\ zStatus' = zStatus /\ size' = size /\ zPos' = zPos /\ ended' = ended
         /\ given' = given /\ zGot' = zGot /\ zShort' = zShort /\ missed' = missed
         /\ zGetError' = zGetError /\ zTainted' = zTainted /\ told' = told /\ promised' = promised
         /\ \/ zStatus = "input" /\ zFile' = zFile /\ strm' = strm /\ held' = held /\ sum' = sum
            \/ zStatus = "output" /\ Zlib!FlushTakes(FALSE)
  BY DEF Zlib!MainContBeg, Zlib!zlib, Zlib!reading, Kept
<1>6. QED  BY <1>2, <1>3, <1>4, <1>5

LEMMA ZFlushKeeps ==
  ASSUME ZInv, Zlib!Flush
  PROVE  ZInv'
<1>1. /\ zStatus = "output" /\ zStatus' = zStatus /\ size' = size /\ zPos' = zPos
      /\ ended' = ended /\ given' = given /\ zGot' = zGot /\ zShort' = zShort
      /\ missed' = missed /\ zGetError' = zGetError /\ promised' = promised
  BY DEF Zlib!Flush, Zlib!reading
<1>2. CASE \E fails \in BOOLEAN : Zlib!FlushTakes(fails) /\ Zlib!Fails(fails)
  <2>1. PICK fails \in BOOLEAN : Zlib!FlushTakes(fails) /\ Zlib!Fails(fails)
    BY <1>2
  <2>2. (told => told') /\ (fails => told')
    BY <2>1 DEF Zlib!Fails
  <2>3. QED  BY <1>1, <2>1, <2>2, ZFlushTakes
<1>3. CASE /\ zTainted' = TRUE /\ told' = TRUE
           /\ zFile' = zFile /\ strm' = strm /\ held' = held /\ sum' = sum
  <2>1. zShort' /\ ~zGetError' => ended
    BY <1>1 DEF ZInv, ReadInv
  <2>2. QED  BY <1>1, <1>3, <2>1, ZQuiet
<1>4. QED  BY <1>2, <1>3 DEF Zlib!Flush, Zlib!zlib

LEMMA NumbersIs ==
  ASSUME NEW a \in Nat, NEW b \in Nat, a <= b
  PROVE  /\ Zlib!Numbers(a, b) \in Seq(Nat) /\ Len(Zlib!Numbers(a, b)) = b - a
         /\ Zlib!Numbers(0, a) \o Zlib!Numbers(a, b) = Zlib!Numbers(0, b)
<1>1. PICK x, y, z : x = Zlib!Numbers(0, a) /\ y = Zlib!Numbers(a, b) /\ z = Zlib!Numbers(0, b)
  OBVIOUS
<1>2. x = [i \in 1..(a - 0) |-> 0 + i] /\ y = [i \in 1..(b - a) |-> a + i] /\ z = [i \in 1..(b - 0) |-> 0 + i]
  BY <1>1 DEF Zlib!Numbers
<1>3. b - a \in Nat /\ b - 0 = b /\ a - 0 = a
  OBVIOUS
<1>4. /\ x \in Seq(Nat) /\ Len(x) = a /\ \A i \in 1..a : x[i] = i
      /\ y \in Seq(Nat) /\ Len(y) = b - a /\ \A i \in 1..(b - a) : y[i] = a + i
      /\ z \in Seq(Nat) /\ Len(z) = b /\ \A i \in 1..b : z[i] = i
  <2>1. x \in [1..a -> Nat] /\ \A i \in 1..a : x[i] = i
    BY ONLY <1>2, <1>3, a \in Nat
  <2>2. y \in [1..(b - a) -> Nat] /\ \A i \in 1..(b - a) : y[i] = a + i
    BY ONLY <1>2, <1>3, a \in Nat, b \in Nat
  <2>3. z \in [1..b -> Nat] /\ \A i \in 1..b : z[i] = i
    BY ONLY <1>2, <1>3, b \in Nat
  <2>4. QED  BY ONLY <1>3, <2>1, <2>2, <2>3, a \in Nat, b \in Nat
<1>5. PICK w : w = x \o y
  OBVIOUS
<1>6. /\ w \in Seq(Nat) /\ Len(w) = Len(x) + Len(y)
      /\ \A i \in 1..(Len(x) + Len(y)) : w[i] = IF i <= Len(x) THEN x[i] ELSE y[i - Len(x)]
  <2>1. x \in Seq(Nat) /\ y \in Seq(Nat)
    BY ONLY <1>4
  <2>2. QED  BY ONLY <1>5, <2>1, ConcatElements
<1>7. ASSUME NEW i \in 1..b PROVE w[i] = z[i]
  <2>1. i \in 1..(Len(x) + Len(y)) /\ Len(x) = a
    BY <1>4
  <2>2. w[i] = IF i <= a THEN x[i] ELSE y[i - a]
    BY <1>6, <2>1
  <2>3. CASE i <= a
    <3>1. i \in 1..a
      BY <2>3
    <3>2. QED  BY <1>4, <2>2, <2>3, <3>1
  <2>4. CASE ~(i <= a)
    <3>1. i - a \in 1..(b - a) /\ a + (i - a) = i
      BY <2>4
    <3>2. QED  BY <1>4, <2>2, <2>4, <3>1
  <2>5. QED  BY <2>3, <2>4
<1>8. w = z
  <2>1. Len(w) = b
    BY <1>4, <1>6
  <2>2. w \in Seq(Nat) /\ z \in Seq(Nat) /\ Len(w) = Len(z) /\ \A i \in 1..Len(w) : w[i] = z[i]
    BY <1>4, <1>6, <1>7, <2>1
  <2>3. QED  BY ONLY <2>2, SeqEqual
<1>9. QED  BY <1>1, <1>4, <1>5, <1>8

LEMMA ProductIsNat == \A a, b \in Nat : a * b \in Nat
  OBVIOUS

LEMMA ZPutKeeps ==
  ASSUME ZInv, NEW n \in Nat, Zlib!Put(n)
  PROVE  ZInv'
<1>1. PICK w \in Nat : w = n * size
  <2>1. size \in Nat
    BY DEF ZInv, ZTypes
  <2>2. n * size \in Nat
    BY ONLY n \in Nat, <2>1, ProductIsNat
  <2>3. QED  BY <2>2
<1>2. PICK l \in Nat : l = Len(sum)
  BY DEF ZInv, ZTypes
<1>3. /\ zStatus = "output" /\ zStatus' = zStatus /\ size' = size /\ zPos' = zPos /\ strm' = strm
      /\ ended' = ended /\ zGot' = zGot /\ zShort' = zShort
      /\ missed' = missed /\ zGetError' = zGetError /\ promised' = promised
  BY DEF Zlib!Put, Zlib!reading
<1> DEFINE More(m) == Zlib!Numbers(l, l + m)
           All(m) == held \o More(m)
           Step(fails, m, out, units, k) ==
               /\ m < w => fails
               /\ sum' = sum \o More(m)
               /\ k < Len(units) => fails
               /\ zFile' = zFile \o Zlib!Upto(units, k)
               /\ held' = SubSeq(All(m), out + 1, Len(All(m)))
               /\ told' = (told \/ fails)
               /\ given' = IF fails THEN given ELSE given + w
<1>4. \E fails \in BOOLEAN, m \in 0..w : \E out \in 0..Len(All(m)) :
          \E units \in Zlib!Spellings(Zlib!Upto(All(m), out)) : \E k \in 0..Len(units) :
              Step(fails, m, out, units, k)
  <2>1. PICK fails \in BOOLEAN, m \in 0..w :
          /\ m < w => fails
          /\ sum' = sum \o More(m)
          /\ \E out \in 0..Len(All(m)) :
                \E units \in Zlib!Spellings(Zlib!Upto(All(m), out)) : \E k \in 0..Len(units) :
                   /\ k < Len(units) => fails
                   /\ zFile' = zFile \o Zlib!Upto(units, k)
                   /\ held' = SubSeq(All(m), out + 1, Len(All(m)))
          /\ Zlib!Fails(fails)
          /\ given' = IF fails THEN given ELSE given + w
    BY <1>1, <1>2 DEF Zlib!Put
  <2>2. told' = (told \/ fails)
    BY <2>1 DEF Zlib!Fails
  <2>3. QED  BY ONLY <2>1, <2>2
<1>5. PICK fails \in BOOLEAN, m \in 0..w : \E out \in 0..Len(All(m)) :
          \E units \in Zlib!Spellings(Zlib!Upto(All(m), out)) : \E k \in 0..Len(units) :
              Step(fails, m, out, units, k)
  BY ONLY <1>4
<1>6. PICK out \in 0..Len(All(m)) :
          \E units \in Zlib!Spellings(Zlib!Upto(All(m), out)) : \E k \in 0..Len(units) :
              Step(fails, m, out, units, k)
  BY ONLY <1>5
<1>7. PICK units \in Zlib!Spellings(Zlib!Upto(All(m), out)) : \E k \in 0..Len(units) :
              Step(fails, m, out, units, k)
  BY ONLY <1>6
<1>8. PICK k \in 0..Len(units) : Step(fails, m, out, units, k)
  BY ONLY <1>7
<1>9. sum \in Seq(Nat) /\ held \in Seq(Nat) /\ given \in Nat
  BY DEF ZInv, ZTypes
<1>10. PICK more, all : more = More(m) /\ all = All(m)
  OBVIOUS
<1>11. more \in Seq(Nat) /\ all = held \o more /\ all \in Seq(Nat)
  <2>1. l + m \in Nat /\ l <= l + m
    BY <1>2
  <2>2. More(m) \in Seq(Nat)
    BY <1>2, <2>1, NumbersIs
  <2>3. more \in Seq(Nat) /\ all = held \o more
    BY <1>10, <2>2
  <2>4. QED  BY <1>9, <2>3, ConcatElements
<1>12. PICK front, left : front = SubSeq(all, 1, out) /\ left = SubSeq(all, out + 1, Len(all))
  OBVIOUS
<1>13. out \in Nat /\ out <= Len(all) /\ Len(all) \in Nat
  BY <1>10, <1>11
<1>14. front \in Seq(Nat) /\ left \in Seq(Nat) /\ front \o left = all
  <2>1. front \in Seq(Nat)
    BY <1>11, <1>12, <1>13, PrefixElements
  <2>2. left \in Seq(Nat)
    BY <1>11, <1>12, <1>13, SuffixElements
  <2>3. Len(all) <= Len(all)
    BY <1>13
  <2>4. front \o left = SubSeq(all, 1, Len(all))
    BY <1>11, <1>12, <1>13, <2>3, PrefixAndPiece
  <2>5. QED  BY <1>11, <2>1, <2>2, <2>4, WholePiece
<1>15. units \in Seq(ZUnits) /\ Plainly(units, 0) /\ Text(units, 0, Len(units)) = front
  <2>1. units \in Zlib!Spellings(front)
    BY <1>7, <1>10, <1>12 DEF Zlib!Upto
  <2>2. QED  BY <1>14, <2>1, SpellingIs
<1>16. PICK some : some = Zlib!Upto(units, k)
  OBVIOUS
<1>17. Len(units) \in Nat /\ k \in Nat /\ k <= Len(units)
  BY <1>15
<1>18. some \in Seq(ZUnits) /\ (k = Len(units) => some = units)
  BY <1>15, <1>16, <1>17, PrefixElements, WholePiece DEF Zlib!Upto
<1>19. /\ zFile' = zFile \o some /\ held' = left /\ sum' = sum \o more
       /\ told' = (told \/ fails) /\ given' = IF fails THEN given ELSE given + w
       /\ m < w => fails
       /\ k < Len(units) => fails
  BY ONLY <1>8, <1>10, <1>12, <1>16
<1>20. told \/ told' \/ AllSpelt'
  <2>1. SUFFICES ASSUME ~told, ~told' PROVE AllSpelt'
    OBVIOUS
  <2>2. ~fails
    BY ONLY <1>19, <2>1, Zenon
  <2>3. ~(m < w) /\ ~(k < Len(units))
    BY ONLY <1>19, <2>2, Zenon
  <2>4. m = w /\ k = Len(units)
    <3>1. m \in Nat /\ m <= w
      OBVIOUS
    <3>2. QED  BY ONLY <1>17, <2>3, <3>1, w \in Nat
  <2>5. zFile' = zFile \o units
    BY ONLY <1>18, <1>19, <2>4
  <2>6. Spelt(zFile, held, sum) /\ sum = Zlib!Numbers(0, given)
    BY <1>3, <2>1 DEF ZInv, WriteInv, AllSpelt
  <2>7. Spelt(zFile \o units, left, sum \o more)
    <3>1. Text(units, 0, Len(units)) \o left = held \o more
      BY ONLY <1>11, <1>14, <1>15
    <3>2. QED  BY <1>11, <1>14, <1>15, <2>6, <3>1, WrittenOn
  <2>8. given' = given + w
    BY ONLY <1>19, <2>2
  <2>9. l = given
    <3>1. given - 0 = given /\ 0 <= given /\ 0 \in Nat
      BY <1>9
    <3>2. Len(Zlib!Numbers(0, given)) = given - 0
      BY <1>9, <3>1, NumbersIs
    <3>3. QED  BY <1>2, <2>6, <3>1, <3>2
  <2>10. more = Zlib!Numbers(given, given + w)
    BY ONLY <1>10, <2>4, <2>9
  <2>11. Zlib!Numbers(0, given) \o Zlib!Numbers(given, given + w) = Zlib!Numbers(0, given + w)
    <3>1. given + w \in Nat /\ given <= given + w
      BY <1>9
    <3>2. QED  BY <1>9, <3>1, NumbersIs
  <2>12. Spelt(zFile', held', sum') /\ sum' = Zlib!Numbers(0, given')
    BY ONLY <1>19, <2>5, <2>6, <2>7, <2>8, <2>10, <2>11
  <2>13. QED  BY <2>12 DEF AllSpelt
<1>21. held' \in Seq(Nat) /\ sum' \in Seq(Nat) /\ given' \in Nat
  <2>1. sum \o more \in Seq(Nat)
    BY <1>9, <1>11, ConcatElements
  <2>2. given + w \in Nat
    BY <1>9
  <2>3. QED  BY ONLY <1>9, <1>14, <1>19, <2>1, <2>2
<1>22. (told => told') /\ zFile' = zFile \o some
  BY <1>19
<1>23. QED  BY <1>3, <1>18, <1>20, <1>21, <1>22, ZWrites

(* What inflate() can hand over once it was fed u units.                   *)
LEMMA FedIs ==
  ASSUME ZTypes, NEW u \in Nat, zPos + u <= Len(zFile)
  PROVE  /\ Zlib!Fed(u) = held \o Text(zFile, zPos, zPos + u)
         /\ Text(zFile, zPos, zPos + u) \in Seq(Nat) /\ Zlib!Fed(u) \in Seq(Nat)
<1>1. zFile \in Seq(ZUnits) /\ zPos \in Nat /\ Len(zFile) \in Nat /\ held \in Seq(Nat)
  BY DEF ZTypes
<1>2. PICK a, b, f : a = zPos /\ b = a + u /\ f = zFile
  BY <1>1
<1>3. f \in Seq(ZUnits) /\ a \in Nat /\ b \in Nat /\ a <= b /\ b <= Len(f) /\ b - a = u
  BY <1>1, <1>2
<1>4. PICK q : q = BytesOf(f)
  OBVIOUS
<1>5. q \in Seq(Seq(Nat)) /\ Len(q) = Len(f) /\ \A j \in 1..Len(f) : q[j] = f[j].bytes
  BY <1>3, <1>4, BytesElements
<1>6. PICK p : p = SubSeq(q, a + 1, b)
  OBVIOUS
<1>7. p \in Seq(Seq(Nat)) /\ Len(p) = u /\ \A j \in 1..u : p[j] = q[a + j]
  <2>1. b <= Len(q)
    BY <1>3, <1>5
  <2>2. q \in Seq(Seq(Nat)) /\ a \in Nat /\ b \in Nat /\ a <= b
    BY ONLY <1>3, <1>5
  <2>3. /\ p \in Seq(Seq(Nat)) /\ Len(p) = b - a /\ \A j \in 1..(b - a) : p[j] = q[a + j]
    BY ONLY <1>6, <2>1, <2>2, PieceElements
  <2>4. QED  BY ONLY <1>3, <2>3
<1>8. PICK r : r = [j \in 1..u |-> f[a + j].bytes]
  OBVIOUS
<1>9. r = p
  <2>1. p = [j \in 1..u |-> p[j]]
    BY ONLY <1>7, u \in Nat
  <2>2. ASSUME NEW j \in 1..u PROVE p[j] = f[a + j].bytes
    <3>1. a + j \in 1..Len(f)
      BY <1>2, <1>3
    <3>2. q[a + j] = f[a + j].bytes /\ p[j] = q[a + j]
      BY <1>5, <1>7, <3>1
    <3>3. QED  BY ONLY <3>2
  <2>3. QED  BY ONLY <1>8, <2>1, <2>2
<1>10. Zlib!Fed(u) = held \o FlattenSeq(r)
  BY <1>2, <1>8, FlattensAlike DEF Zlib!Fed
<1>11. FlattenSeq(r) = Text(f, a, b)
  BY <1>4, <1>6, <1>9 DEF Text
<1>12. Text(f, a, b) \in Seq(Nat)
  BY <1>3, TextTyped
<1>13. held \o Text(f, a, b) \in Seq(Nat)
  BY <1>1, <1>12, ConcatElements
<1>14. Zlib!Fed(u) = held \o Text(f, a, b)
  BY ONLY <1>10, <1>11
<1>15. QED  BY ONLY <1>2, <1>12, <1>13, <1>14

(* Fed on from where a reader is, inflate() has what all the units say.    *)
LEMMA FedOn ==
  ASSUME ZTypes, zPos >= 2, zGot \o held = Text(zFile, 2, zPos),
         NEW u \in Nat, zPos + u <= Len(zFile)
  PROVE  zGot \o Zlib!Fed(u) = Text(zFile, 2, zPos + u)
<1>1. /\ zFile \in Seq(ZUnits) /\ zPos \in Nat /\ Len(zFile) \in Nat
      /\ held \in Seq(Nat) /\ zGot \in Seq(Nat)
  BY DEF ZTypes
<1>2. PICK t : t = Text(zFile, zPos, zPos + u)
  OBVIOUS
<1>3. t \in Seq(Nat) /\ Zlib!Fed(u) = held \o t
  BY <1>2, FedIs
<1>4. PICK c \in Nat, a \in Nat, b \in Nat : c = 2 /\ a = zPos /\ b = zPos + u
  BY <1>1
<1>5. c <= a /\ a <= b /\ b <= Len(zFile)
  BY <1>1, <1>4
<1>6. Text(zFile, c, b) = Text(zFile, c, a) \o Text(zFile, a, b)
  <2>1. zFile \in Seq(ZUnits)
    BY ONLY <1>1
  <2>2. QED  BY ONLY <1>5, <2>1, a \in Nat, b \in Nat, c \in Nat, TextSplits
<1>7. Regroups(zGot, held, t)
  <2>1. \A i, j, k \in Seq(Nat) : Regroups(i, j, k)
    BY ConcatThree
  <2>2. QED  BY ONLY <1>1, <1>3, <2>1, Zenon
<1>8. (zGot \o held) \o t = zGot \o (held \o t)
  BY ONLY <1>7 DEF Regroups
<1>9. QED  BY ONLY <1>2, <1>3, <1>4, <1>6, <1>8, zGot \o held = Text(zFile, 2, zPos)

LEMMA ZGetKeeps ==
  ASSUME ZInv, NEW n \in Nat, Zlib!Get(n)
  PROVE  ZInv'
<1>1. /\ zStatus = "input" /\ ~ended /\ zStatus' = zStatus /\ size' = size /\ zFile' = zFile
      /\ strm' = strm /\ sum' = sum /\ given' = given /\ told' = told /\ promised' = promised
      /\ zTainted' = zTainted
  BY DEF Zlib!Get
<1>2. /\ zFile \in Seq(ZUnits) /\ zPos \in Nat /\ zPos <= Len(zFile) /\ Len(zFile) \in Nat
      /\ held \in Seq(Nat) /\ sum \in Seq(Nat) /\ zGot \in Seq(Nat)
      /\ given \in Nat /\ size \in Nat \ {0}
  BY DEF ZInv, ZTypes
<1>3. PICK aim \in Nat : aim = n * size
  <2>1. n * size \in Nat
    BY ONLY n \in Nat, <1>2, ProductIsNat
  <2>2. QED  BY <2>1
<1>4. zPos >= 2 /\ (~missed => Underway)
  BY <1>1 DEF ZInv, ReadInv
<1> DEFINE Step(u, fails, out, error) ==
               /\ \A v \in 0..(u - 1) : Zlib!FeedsOn(v, aim)
               /\ Zlib!FeedsOn(u, aim) => fails \/ zPos + u = Len(zFile)
               /\ fails => Zlib!FeedsOn(u, aim)
               /\ out = Zlib!Least(Len(Zlib!Bytes(u)), aim)
               /\ error = (fails \/ Zlib!CutOff(u, out, aim) \/ out % size # 0)
               /\ held' = SubSeq(Zlib!Bytes(u), out + 1, Len(Zlib!Bytes(u)))
               /\ zGot' = zGot \o SubSeq(Zlib!Bytes(u), 1, out - (out % size))
               /\ zGetError' = (error /\ out >= size)
               /\ zShort' = (out < aim /\ (error => out >= size))
               /\ missed' = (missed \/ (error /\ out % size # 0))
               /\ zPos' = zPos + u
               /\ ended' = Zlib!Ends(u)
<1>5. \E u \in 0..(Len(zFile) - zPos), fails \in BOOLEAN : \E out, error : Step(u, fails, out, error)
  <2> DEFINE Off(u, fails) ==
                 /\ \A v \in 0..(u - 1) : Zlib!FeedsOn(v, aim)
                 /\ Zlib!FeedsOn(u, aim) => fails \/ zPos + u = Len(zFile)
                 /\ fails => Zlib!FeedsOn(u, aim)
                 /\ zPos' = zPos + u
                 /\ ended' = Zlib!Ends(u)
             Hands(u, out, error) ==
                 /\ held' = SubSeq(Zlib!Bytes(u), out + 1, Len(Zlib!Bytes(u)))
                 /\ zGot' = zGot \o SubSeq(Zlib!Bytes(u), 1, out - (out % size))
                 /\ zGetError' = (error /\ out >= size)
                 /\ zShort' = (out < aim /\ (error => out >= size))
                 /\ missed' = (missed \/ (error /\ out % size # 0))
             Most(u) == Zlib!Least(Len(Zlib!Bytes(u)), aim)
             Fault(u, fails, out) == fails \/ Zlib!CutOff(u, out, aim) \/ out % size # 0
  <2>1. PICK u \in 0..(Len(zFile) - zPos), fails \in BOOLEAN :
           /\ \A v \in 0..(u - 1) : Zlib!FeedsOn(v, n * size)
           /\ Zlib!FeedsOn(u, n * size) => fails \/ zPos + u = Len(zFile)
           /\ fails => Zlib!FeedsOn(u, n * size)
           /\ \E out \in {Zlib!Least(Len(Zlib!Bytes(u)), n * size)} :
                 \E error \in {fails \/ Zlib!CutOff(u, out, n * size) \/ out % size # 0} :
                    /\ held' = SubSeq(Zlib!Bytes(u), out + 1, Len(Zlib!Bytes(u)))
                    /\ zGot' = zGot \o SubSeq(Zlib!Bytes(u), 1, out - (out % size))
                    /\ zGetError' = (error /\ out >= size)
                    /\ zShort' = (out < n * size /\ (error => out >= size))
                    /\ missed' = (missed \/ (error /\ out % size # 0))
           /\ zPos' = zPos + u
           /\ ended' = Zlib!Ends(u)
    BY DEF Zlib!Get, Zlib!Upto
  <2>2. Off(u, fails) /\ \E out \in {Most(u)} : \E error \in {Fault(u, fails, out)} : Hands(u, out, error)
    BY ONLY <1>3, <2>1
  <2> HIDE DEF Off, Hands, Most, Fault
  <2>3. Hands(u, Most(u), Fault(u, fails, Most(u)))
    BY ONLY <2>2
  <2>4. PICK out, error : out = Most(u) /\ error = Fault(u, fails, out)
    OBVIOUS
  <2>5. Step(u, fails, out, error)
    BY ONLY <2>2, <2>3, <2>4 DEF Off, Hands, Most, Fault
  <2>6. QED  BY ONLY <2>5, u \in 0..(Len(zFile) - zPos), fails \in BOOLEAN
<1>6. PICK u \in 0..(Len(zFile) - zPos), fails \in BOOLEAN : \E out, error : Step(u, fails, out, error)
  BY ONLY <1>5
<1>7. PICK out, error : Step(u, fails, out, error)
  BY ONLY <1>6
<1>8. u \in Nat /\ zPos + u <= Len(zFile) /\ zPos + u \in Nat
  BY ONLY <1>2, <1>6
<1>9. u > 0 => u - 1 \in Nat /\ zPos + (u - 1) <= Len(zFile) /\ zPos + (u - 1) \in Nat
  BY ONLY <1>2, <1>8
<1>10. PICK all : all = Zlib!Bytes(u)
  OBVIOUS
<1>11. all \in Seq(Nat)
  <2>1. CASE Zlib!Ends(u) \/ Zlib!Wrong(u)
    <3>1. all = Zlib!Fed(u - 1)
      BY <1>10, <2>1 DEF Zlib!Bytes
    <3>2. CASE u > 0
      <4>1. PICK v \in Nat : v = u - 1
        BY <1>9, <3>2
      <4>2. zPos + v <= Len(zFile)
        BY <1>9, <3>2, <4>1
      <4>3. Zlib!Fed(v) \in Seq(Nat)
        BY <4>2, FedIs DEF ZInv
      <4>4. QED  BY <3>1, <4>1, <4>3
    <3>3. CASE ~(u > 0)
      <4>1. u = 0
        BY <1>8, <3>3
      <4>2. PICK r : r = [j \in 1..(u - 1) |-> zFile[zPos + j].bytes]
        OBVIOUS
      <4>3. r = <<>>
        BY <4>1, <4>2
      <4>4. Zlib!Fed(u - 1) = held \o FlattenSeq(r)
        BY <4>2, FlattensAlike DEF Zlib!Fed
      <4>5. Zlib!Fed(u - 1) = held \o <<>>
        BY <4>3, <4>4, FlattenNone
      <4>6. QED  BY <1>2, <3>1, <4>5, ConcatOfNone
    <3>4. QED  BY <3>2, <3>3
  <2>2. CASE ~(Zlib!Ends(u) \/ Zlib!Wrong(u))
    <3>1. all = Zlib!Fed(u)
      BY <1>10, <2>2 DEF Zlib!Bytes
    <3>2. QED  BY <1>8, <3>1, FedIs DEF ZInv
  <2>3. QED  BY <2>1, <2>2
<1>12. out \in Nat /\ out <= Len(all) /\ out <= aim /\ Len(all) \in Nat
       /\ (Len(all) <= aim => out = Len(all))
  <2>1. out = Zlib!Least(Len(all), aim)
    BY <1>7, <1>10
  <2>2. Len(all) \in Nat
    BY <1>11
  <2>3. QED  BY ONLY <2>1, <2>2, aim \in Nat, <1>3 DEF Zlib!Least
<1>13. PICK cut \in Nat : cut = out % size
  <2>1. out % size \in Nat
    BY ONLY <1>2, <1>12
  <2>2. QED  BY <2>1
<1>14. held' = SubSeq(all, out + 1, Len(all)) /\ zGot' = zGot \o SubSeq(all, 1, out - cut)
  BY ONLY <1>7, <1>10, <1>13
<1>15. held' \in Seq(Nat) /\ zGot' \in Seq(Nat)
  <2>1. held' \in Seq(Nat)
    BY <1>11, <1>12, <1>14, SuffixElements
  <2>2. SubSeq(all, 1, out - cut) \in Seq(Nat)
    <3>1. CASE cut <= out
      <4>1. out - cut \in Nat /\ out - cut <= Len(all)
        BY ONLY <1>12, <1>13, <3>1
      <4>2. QED  BY <1>11, <4>1, PrefixElements
    <3>2. CASE ~(cut <= out)
      <4>1. out - cut \in Int /\ out - cut < 1 /\ 1 \in Int
        BY ONLY <1>12, <1>13, <3>2
      <4>2. SubSeq(all, 1, out - cut) = <<>>
        BY <4>1, SubSeqEmpty
      <4>3. <<>> \in Seq(Nat)
        OBVIOUS
      <4>4. QED  BY ONLY <4>2, <4>3
    <3>3. QED  BY <3>1, <3>2
  <2>3. QED  BY <1>2, <1>14, <2>1, <2>2, ConcatElements
<1>16. ~missed' => ~missed /\ zGot' = zGot \o SubSeq(all, 1, out)
  <2>1. SUFFICES ASSUME ~missed' PROVE ~missed /\ zGot' = zGot \o SubSeq(all, 1, out)
    OBVIOUS
  <2>2. missed' = (missed \/ (error /\ cut # 0)) /\ (cut # 0 => error)
    <3>1. error = (fails \/ Zlib!CutOff(u, out, aim) \/ cut # 0)
      BY ONLY <1>7, <1>13
    <3>2. missed' = (missed \/ (error /\ cut # 0))
      BY ONLY <1>7, <1>13
    <3>3. QED  BY ONLY <3>1, <3>2
  <2>3. ~missed /\ cut = 0
    BY ONLY <2>1, <2>2
  <2>4. out - cut = out
    BY ONLY <1>12, <2>3
  <2>5. QED  BY <1>14, <2>3, <2>4
<1>17. ~missed /\ ~Zlib!Wrong(0) => zGot \o held = Text(zFile, 2, zPos)
  <2>1. zPos + 0 = zPos
    BY <1>2
  <2>2. zPos > 2 /\ ~GoodAt(zFile, zPos) => Zlib!Wrong(0)
    BY <2>1, GoodIsGood DEF Zlib!Wrong
  <2>3. QED  BY <1>4, <2>2 DEF Underway
<1>18. \A v \in 0..(u - 1) : /\ Len(Zlib!Bytes(v)) < aim /\ ~Zlib!Ends(v) /\ ~Zlib!Wrong(v)
                             /\ Zlib!Bytes(v) = Zlib!Fed(v)
  <2>1. \A v \in 0..(u - 1) : Zlib!FeedsOn(v, aim)
    BY ONLY <1>7
  <2>2. QED  BY ONLY <2>1 DEF Zlib!FeedsOn, Zlib!Bytes
<1>19. u > 0 => ~Zlib!Wrong(0)
  <2>1. u > 0 => 0 \in 0..(u - 1)
    BY ONLY <1>8
  <2>2. QED  BY ONLY <1>18, <2>1
<1>20. ASSUME Zlib!Ends(u), ~missed' PROVE AtEnd'
  <2>1. u > 0 /\ Zlib!Good(zPos + u) /\ zFile[zPos + u].kind = "sum"
    BY <1>20 DEF Zlib!Ends
  <2>2. zFile[zPos + u].bytes = Text(zFile, 2, zPos + (u - 1))
    <3>1. PICK i : i = zPos + u
      OBVIOUS
    <3>2. GoodAt(zFile, i) /\ zFile[i].kind = "sum"
      BY <2>1, <3>1, GoodIsGood
    <3>3. zFile[i].bytes = InflatedOf(zFile, i - 1)
      BY ONLY <3>2 DEF GoodAt
    <3>4. i - 1 = zPos + (u - 1)
      BY ONLY <1>2, <1>8, <3>1
    <3>5. PICK e \in Nat : e = zPos + (u - 1)
      BY <1>9, <2>1
    <3>6. 2 <= e /\ e <= Len(zFile)
      BY <1>2, <1>4, <1>8, <1>9, <2>1, <3>5
    <3>7. InflatedOf(zFile, e) = Text(zFile, 2, e)
      BY <1>2, <3>6, InflatedIs
    <3>8. QED  BY ONLY <3>1, <3>3, <3>4, <3>5, <3>7
  <2>3. ~missed => zGot \o all = Text(zFile, 2, zPos + (u - 1))
    <3>1. PICK v \in Nat : v = u - 1
      BY <1>9, <2>1
    <3>2. zPos + v <= Len(zFile)
      BY <1>9, <2>1, <3>1
    <3>3. all = Zlib!Fed(v)
      BY <1>10, <1>20, <3>1 DEF Zlib!Bytes
    <3>4. ~missed => zGot \o held = Text(zFile, 2, zPos)
      BY ONLY <1>17, <1>19, <2>1
    <3>5. ~missed => zGot \o Zlib!Fed(v) = Text(zFile, 2, zPos + v)
      BY <1>4, <3>2, <3>4, FedOn DEF ZInv
    <3>6. QED  BY ONLY <3>1, <3>3, <3>5
  <2>4. SubSeq(all, 1, out) = all
    <3>1. u - 1 \in 0..(u - 1)
      BY ONLY <1>8, <2>1
    <3>2. Len(Zlib!Fed(u - 1)) < aim
      BY ONLY <1>18, <3>1
    <3>3. all = Zlib!Fed(u - 1)
      BY <1>10, <1>20 DEF Zlib!Bytes
    <3>4. out = Len(all)
      BY ONLY <1>12, <3>2, <3>3, aim \in Nat
    <3>5. QED  BY <1>11, <3>4, WholePiece
  <2>5. AtEnd'
    <3>1. ~missed' => zGot' = zFile[zPos + u].bytes
      BY ONLY <1>16, <2>2, <2>3, <2>4
    <3>2. zFile' = zFile /\ zPos' = zPos + u
      BY <1>1, <1>7
    <3>3. QED  BY ONLY <1>20, <2>1, <3>1, <3>2 DEF AtEnd
  <2>6. QED  BY <2>5
<1>21. ASSUME ~Zlib!Ends(u), ~missed' PROVE Underway'
  <2>1. zFile' = zFile /\ zPos' = zPos + u
    BY <1>1, <1>7
  <2>2. CASE Zlib!Wrong(u)
    <3>1. zPos + u > 2 /\ ~GoodAt(zFile, zPos + u)
      BY <2>2, GoodIsGood DEF Zlib!Wrong
    <3>2. QED  BY ONLY <2>1, <3>1 DEF Underway
  <2>3. CASE ~Zlib!Wrong(u)
    <3>1. all = Zlib!Fed(u)
      BY <1>10, <1>21, <2>3 DEF Zlib!Bytes
    <3>2. ~Zlib!Wrong(0)
      <4>1. u = 0 \/ u > 0
        BY ONLY <1>8
      <4>2. QED  BY ONLY <1>19, <2>3, <4>1
    <3>3. ~missed => zGot \o all = Text(zFile, 2, zPos + u)
      BY <1>4, <1>8, <1>17, <3>1, <3>2, FedOn DEF ZInv
    <3>4. PICK front, left : front = SubSeq(all, 1, out) /\ left = SubSeq(all, out + 1, Len(all))
      OBVIOUS
    <3>5. front \in Seq(Nat) /\ left \in Seq(Nat) /\ front \o left = all
      <4>1. front \in Seq(Nat)
        BY <1>11, <1>12, <3>4, PrefixElements
      <4>2. left \in Seq(Nat)
        BY <1>11, <1>12, <3>4, SuffixElements
      <4>3. Len(all) <= Len(all)
        BY <1>12
      <4>4. front \o left = SubSeq(all, 1, Len(all))
        BY <1>11, <1>12, <3>4, <4>3, PrefixAndPiece
      <4>5. QED  BY <1>11, <4>1, <4>2, <4>4, WholePiece
    <3>6. (zGot \o front) \o left = zGot \o all
      <4>1. \A i, j, k \in Seq(Nat) : Regroups(i, j, k)
        BY ConcatThree
      <4>2. Regroups(zGot, front, left)
        BY ONLY <1>2, <3>5, <4>1, Zenon
      <4>3. QED  BY ONLY <3>5, <4>2 DEF Regroups
    <3>7. ~missed' => zGot' \o held' = Text(zFile, 2, zPos + u)
      BY ONLY <1>14, <1>16, <3>3, <3>4, <3>6
    <3>8. QED  BY ONLY <1>21, <2>1, <3>7 DEF Underway
  <2>4. QED  BY <2>2, <2>3
<1>22. ended' = Zlib!Ends(u)
  BY ONLY <1>7
<1>23. ~missed' => IF ended' THEN AtEnd' ELSE Underway'
  BY <1>20, <1>21, <1>22
<1>24. zShort' /\ ~zGetError' => ended'
  <2>1. zShort' = (out < aim /\ (error => out >= size)) /\ zGetError' = (error /\ out >= size)
    BY ONLY <1>7
  <2>2. error = (fails \/ Zlib!CutOff(u, out, aim) \/ out % size # 0)
    BY ONLY <1>7
  <2>3. zShort' /\ ~zGetError' => out < aim /\ ~Zlib!CutOff(u, out, aim)
    BY ONLY <2>1, <2>2
  <2>4. zShort' /\ ~zGetError' => Zlib!Ends(u)
    BY ONLY <2>3 DEF Zlib!CutOff
  <2>5. QED  BY ONLY <1>22, <2>4, Zenon
<1>25. ZTypes'
  <2>1. zPos' \in 0..Len(zFile')
    <3>1. zPos' = zPos + u
      BY ONLY <1>7
    <3>2. QED  BY ONLY <1>1, <1>2, <1>8, <3>1
  <2>2. QED  BY ONLY <1>1, <1>2, <1>15, <2>1 DEF ZTypes
<1>26. ReadInv'
  <2>1. zPos' >= 2
    <3>1. zPos' = zPos + u
      BY ONLY <1>7
    <3>2. QED  BY ONLY <1>2, <1>4, <1>8, <3>1
  <2>2. QED  BY <1>1, <1>23, <1>24, <2>1 DEF ReadInv
<1>27. WriteInv'
  <2>1. promised => Whole(zFile, Zlib!Numbers(0, given))
    BY DEF ZInv, WriteInv
  <2>2. promised' => Whole(zFile', Zlib!Numbers(0, given'))
    BY ONLY <1>1, <2>1
  <2>3. QED  BY <1>1, <2>2 DEF ZInv, WriteInv
<1>28. QED  BY <1>25, <1>26, <1>27 DEF ZInv

LEMMA ZReopenKeeps ==
  ASSUME ZInv, Zlib!Reopen
  PROVE  ZInv'
<1> DEFINE Step(rest, report, taken) ==
               /\ Zlib!Reported(taken) => report
               /\ Zlib!Fresh(zFile \o taken)
               /\ promised' = (zStatus = "output" /\ ~told /\ ~report)
               /\ given' = IF promised' THEN given ELSE 0
<1>1. PICK rest \in Zlib!Finish(held), report \in BOOLEAN :
          \E taken \in Zlib!Taken(rest) : Step(rest, report, taken)
  BY DEF Zlib!Reopen
<1>2. PICK taken \in Zlib!Taken(rest) : Step(rest, report, taken)
  BY ONLY <1>1
<1>3. zFile \in Seq(ZUnits) /\ held \in Seq(Nat) /\ sum \in Seq(Nat) /\ given \in Nat
  BY DEF ZInv, ZTypes
<1>4. taken \in Seq(ZUnits)
  <2>1. rest \in Seq(ZUnits)
    BY <1>3, FinishTyped
  <2>2. QED  BY <2>1, TakenTyped
<1>5. zFile \o taken \in Seq(ZUnits)
  BY <1>3, <1>4, ConcatElements
<1>6. promised' => Whole(zFile \o taken, Zlib!Numbers(0, given'))
  <2>1. SUFFICES ASSUME promised' PROVE Whole(zFile \o taken, Zlib!Numbers(0, given'))
    OBVIOUS
  <2>2. zStatus = "output" /\ ~told /\ ~report /\ given' = given
    BY ONLY <1>2, <2>1
  <2>3. strm = "deflate" /\ Spelt(zFile, held, sum) /\ sum = Zlib!Numbers(0, given)
    BY <2>2 DEF ZInv, WriteInv, AllSpelt
  <2>4. taken \in Zlib!Finish(held)
    BY ONLY <1>2, <2>2 DEF Zlib!Reported
  <2>5. PICK units \in Zlib!Spellings(held) : taken = units \o Zlib!Trailer(sum)
    BY <2>3, <2>4 DEF Zlib!Finish
  <2>6. units \in Seq(ZUnits) /\ Plainly(units, 0) /\ Text(units, 0, Len(units)) = held
    BY <1>3, SpellingIs
  <2>7. PICK none, trailer : none = <<>> /\ trailer = Zlib!Trailer(sum)
    OBVIOUS
  <2>8. none \in Seq(Nat) /\ held \o none = held /\ sum \o none = sum
    BY <1>3, <2>7, ConcatOfNone
  <2>9. Spelt(zFile \o units, none, sum)
    <3>1. Text(units, 0, Len(units)) \o none = held \o none
      BY ONLY <2>6
    <3>2. Spelt(zFile \o units, none, sum \o none)
      BY <2>3, <2>6, <2>8, <3>1, WrittenOn
    <3>3. QED  BY ONLY <2>8, <3>2
  <2>10. Whole((zFile \o units) \o trailer, sum)
    <3>1. PICK f : f = zFile \o units
      OBVIOUS
    <3>2. Spelt(f, <<>>, sum)
      BY ONLY <2>7, <2>9, <3>1
    <3>3. Whole(f \o Zlib!Trailer(sum), sum)
      BY <3>2, FinishedIsWhole
    <3>4. QED  BY ONLY <2>7, <3>1, <3>3
  <2>11. zFile \o taken = (zFile \o units) \o trailer
    <3>1. trailer \in Seq(ZUnits)
      BY <1>3, <2>7, TrailerIs
    <3>2. \A i, j, k \in Seq(ZUnits) : Regroups(i, j, k)
      BY ConcatThree
    <3>3. Regroups(zFile, units, trailer)
      BY ONLY <1>3, <2>6, <3>1, <3>2, Zenon
    <3>4. QED  BY ONLY <2>5, <2>7, <3>3 DEF Regroups
  <2>12. QED  BY ONLY <2>2, <2>3, <2>10, <2>11
<1>7. given' \in Nat /\ (promised' \/ given' = 0)
  BY ONLY <1>2, <1>3
<1>8. Zlib!Fresh(zFile \o taken)
  BY ONLY <1>2
<1>9. QED  BY <1>5, <1>6, <1>7, <1>8, ZFreshens

LEMMA ZAttachKeeps ==
  ASSUME ZInv, NEW f \in Foreign \cup {<<>>}, Zlib!Attach(f)
  PROVE  ZInv'
<1>1. f \in Seq(ZUnits)
  <2>1. Foreign \subseteq Seq(ZUnits) /\ <<>> \in Seq(ZUnits)
    BY MCZlibAssumption DEF Zlib!ZlibAssumption, ZUnits
  <2>2. QED  BY <2>1
<1>2. Zlib!Fresh(f) /\ promised' = FALSE /\ given' = 0
  BY DEF Zlib!Attach
<1>3. QED  BY <1>1, <1>2, ZFreshens

LEMMA ZRestKeeps ==
  ASSUME ZInv, \/ Zlib!GetEnded \/ Zlib!GetHeld \/ (\E sync \in BOOLEAN : Zlib!Adjust(sync)) \/ UNCHANGED zlib
  PROVE  ZInv'
<1>1. /\ size' = size /\ zFile' = zFile /\ zPos' = zPos /\ strm' = strm /\ held' = held /\ sum' = sum
      /\ ended' = ended /\ zStatus' = zStatus /\ given' = given /\ zGot' = zGot
      /\ missed' = missed /\ promised' = promised /\ told' = told /\ zTainted' = zTainted
  BY DEF Zlib!GetEnded, Zlib!GetHeld, Zlib!Adjust, Zlib!zlib, Zlib!layer, Zlib!reading, zlib
<1>2. zShort' /\ ~zGetError' => ended
  BY DEF ZInv, ReadInv, Zlib!GetEnded, Zlib!GetHeld, Zlib!Adjust, Zlib!zlib, Zlib!layer,
         Zlib!reading, zlib
<1>3. QED  BY <1>1, <1>2, ZQuiet

LEMMA ZNextKeeps ==
  ASSUME ZInv, Zlib!Next \/ UNCHANGED zlib
  PROVE  ZInv'
<1>1. CASE UNCHANGED zlib
  BY <1>1, ZRestKeeps
<1>2. CASE Zlib!Next
  <2>1. ASSUME NEW n \in 1..MaxAsk, Zlib!Put(n) \/ Zlib!Get(n) PROVE ZInv'
    <3>1. n \in Nat
      OBVIOUS
    <3>2. QED  BY <2>1, <3>1, ZPutKeeps, ZGetKeeps
  <2>2. ASSUME NEW f \in Foreign \cup {<<>>}, Zlib!Attach(f) PROVE ZInv'
    BY <2>2, ZAttachKeeps
  <2>3. CASE Zlib!Bos \/ Zlib!MainContBeg \/ Zlib!Flush \/ Zlib!Reopen
    BY <2>3, ZBosKeeps, ZMainContBegKeeps, ZFlushKeeps, ZReopenKeeps
  <2>4. CASE Zlib!GetEnded \/ Zlib!GetHeld \/ \E sync \in BOOLEAN : Zlib!Adjust(sync)
    BY <2>4, ZRestKeeps
  <2>5. CASE Zlib!Refused
    <3>1. UNCHANGED zlib
      BY <2>5 DEF Zlib!Refused, Zlib!vars, Zlib!zlib, Zlib!layer, Zlib!reading, zlib
    <3>2. QED  BY <3>1, ZRestKeeps
  <2>6. QED  BY <1>2, <2>1, <2>2, <2>3, <2>4, <2>5 DEF Zlib!Next
<1>3. QED  BY <1>1, <1>2

LEMMA ZInvKept == MCSpec => []ZInv
<1>1. MCInit => ZInv
  BY ZInitInv DEF MCInit
<1>2. ZInv /\ [MCNext]_<<part, vars, code, zlib>> => ZInv'
  <2>1. SUFFICES ASSUME ZInv, [MCNext]_<<part, vars, code, zlib>> PROVE ZInv'
    OBVIOUS
  <2>2. Zlib!Next \/ UNCHANGED zlib
    BY <2>1 DEF MCNext
  <2>3. QED  BY <2>1, <2>2, ZNextKeeps
<1>3. QED  BY <1>1, <1>2, PTL DEF MCSpec

(* zlib_cvt: the device that a writer has closed, and from which it heard  *)
(* of no failure, holds a whole stream: header, units that inflate() takes *)
(* and the checksum of exactly the bytes that were put.                    *)
THEOREM ClosedIsComplete == MCSpec => []ClosedIsWhole
<1>1. ZInv => ClosedIsWhole
  <2>1. SUFFICES ASSUME ZInv, promised
                 PROVE  /\ Zlib!IsPrefix(Zlib!Head12, zFile) /\ Len(zFile) > 2
                        /\ \A i \in 3..Len(zFile) : Zlib!Good(i)
                        /\ zFile[Len(zFile)] = Zlib!Unit("sum", Zlib!Numbers(0, given))
    BY DEF ClosedIsWhole, Zlib!ClosesWhole
  <2>2. Whole(zFile, Zlib!Numbers(0, given))
    BY <2>1 DEF ZInv, WriteInv
  <2>3. \A i \in 3..Len(zFile) : Zlib!Good(i)
    BY <2>2, GoodIsGood DEF Whole
  <2>4. QED  BY <2>2, <2>3 DEF Whole
<1>2. QED  BY <1>1, ZInvKept, PTL

(* zlib_cvt: a reader that gets less than it asked for and hears of no     *)
(* error is at the end of the stream, and a reader at the end, unless an   *)
(* error took a part of a character from it, was handed over every byte.   *)
THEOREM EndTellsAll == MCSpec => []EndIsAll
<1>1. ZInv => EndIsAll
  <2>1. SUFFICES ASSUME ZInv
                 PROVE  /\ zShort /\ ~zGetError => ended
                        /\ ended /\ ~zGetError /\ ~missed =>
                              zPos > 0 /\ zFile[zPos].kind = "sum" /\ zGot = zFile[zPos].bytes
    BY DEF EndIsAll, Zlib!EndsWithAll
  <2>2. zShort /\ ~zGetError => ended
    BY <2>1 DEF ZInv, ReadInv
  <2>3. ended /\ ~missed => zStatus = "input" /\ AtEnd
    BY <2>1 DEF ZInv, ReadInv
  <2>4. zStatus = "input" => zPos > 0
    <3>1. zPos \in Nat
      BY <2>1 DEF ZInv, ZTypes
    <3>2. zStatus = "input" => zPos >= 2
      BY <2>1 DEF ZInv, ReadInv
    <3>3. QED  BY ONLY <3>1, <3>2
  <2>5. QED  BY <2>2, <2>3, <2>4 DEF AtEnd
<1>2. QED  BY <1>1, ZInvKept, PTL
=============================================================================
