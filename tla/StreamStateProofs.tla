------------------------- MODULE StreamStateProofs -------------------------
(***************************************************************************)
(* A stream's bits and saved exceptions agree; its channel is a file with a*)
(* position; its input operations lose nothing, ask no more than they need *)
(* and tell the end.  For any threads, texts, devices and arguments.       *)
(*                                                                         *)
(* Bits.  SavedMatchesBits is inductive together with TypeOK.  Every       *)
(* operation ends in clear(), so one lemma about clear() carries the proof:*)
(* what it leaves saved is a part of what was saved, under bits that are   *)
(* set.                                                                    *)
(*                                                                         *)
(* Channel.  StackIsFile says that what lies on the stack of an honest     *)
(* caller is what the file has before the position of the converter. Every *)
(* call takes what it consumes from the front of what is left (Takes),     *)
(* moves, writes or fails where it was.                                    *)
(*                                                                         *)
(* Typed input.  MeansTo says of an operation how many characters it skips,*)
(* keeps, consumes and looks at, and with which bits it ends.  Each        *)
(* operation means such a thing, and one that the device cuts short does a *)
(* part of it.                                                             *)
(***************************************************************************)
EXTENDS MCStreamState, SequenceFacts

(* clear() looks for the bits in a fixed order, and finds one. *)
LEMMA FirstIsMember ==
    ASSUME NEW S \in SUBSET Bits, S # {}
    PROVE  First(S) \in S
<1>1. \E b \in S : \A c \in S : Rank[b] <= Rank[c]
  <2>1. CASE "dev" \in S    BY <2>1 DEF Bits, FailBits, Rank
  <2>2. CASE "dev" \notin S /\ "cvt" \in S
    BY <2>2 DEF Bits, FailBits, Rank
  <2>3. CASE S \cap {"dev", "cvt"} = {} /\ "str" \in S
    BY <2>3 DEF Bits, FailBits, Rank
  <2>4. CASE S \cap {"dev", "cvt", "str"} = {} /\ "other" \in S
    BY <2>4 DEF Bits, FailBits, Rank
  <2>5. CASE S \cap {"dev", "cvt", "str", "other"} = {}
    <3>1. S = {"eof"}
      BY <2>5 DEF Bits, FailBits
    <3> QED BY <3>1 DEF Rank
  <2> QED BY <2>1, <2>2, <2>3, <2>4, <2>5 DEF Bits, FailBits
<1> QED BY <1>1 DEF First

(* The exceptions an operation may leave saved under the bits s. *)
Agrees(s, exceptions) ==
    /\ exceptions \in [FailBits -> Exc \cup {NoExc}]
    /\ \A c \in FailBits : exceptions[c] # NoExc => c \in s /\ exceptions[c].cat = c

LEMMA ClearAgrees ==
    ASSUME NEW s \in SUBSET Bits, NEW m \in SUBSET Bits, NEW before, NEW b,
           Agrees(b, before)
    PROVE  Agrees(s, LeftBy(s, before, m))
BY DEF Agrees, LeftBy, Kept

LEMMA SavingAgrees ==
    ASSUME NEW b \in SUBSET Bits, NEW ex \in Exc, NEW before, Agrees(b, before)
    PROVE  Agrees(b \cup {ex.cat}, Saving(ex, before))
BY DEF Agrees, Saving, Exc, Bits

(* What clear() throws is an exception, if it throws. *)
LEMMA ThrownIsExc ==
    ASSUME NEW s \in SUBSET Bits, NEW m \in SUBSET Bits, NEW before, NEW b,
           Agrees(b, before)
    PROVE  ThrownBy(s, before, m) \in Exc \cup {NoExc}
<1>1. CASE m \cap s = {}
  BY <1>1 DEF ThrownBy
<1>2. CASE m \cap s # {}
  <2>1. First(m \cap s) \in Bits
    BY <1>2, FirstIsMember
  <2>2. Default(First(m \cap s)) \in Exc
    BY <2>1 DEF Default, Exc, Bits, FailBits
  <2> QED BY <1>2, <2>1, <2>2 DEF ThrownBy, Agrees
<1> QED BY <1>1, <1>2
-----------------------------------------------------------------------------
IInv == TypeOK /\ SavedMatchesBits

LEMMA IInvAgrees == IInv => Agrees(bits, saved)
BY DEF IInv, TypeOK, SavedMatchesBits, Agrees

LEMMA AgreesIInv ==
    ASSUME bits' \in SUBSET Bits, mask' \in SUBSET Bits, Agrees(bits, saved)',
           flying' \in [Threads -> Exc \cup {NoExc}]
    PROVE  IInv'
BY DEF IInv, TypeOK, SavedMatchesBits, Agrees

(* clear() and whatever ends in it, from exceptions that agree. *)
LEMMA ClearStep ==
    ASSUME IInv, NEW t \in Threads, NEW s \in SUBSET Bits, NEW m \in SUBSET Bits,
           NEW before, NEW b, Agrees(b, before), mask' \in SUBSET Bits,
           ClearWith(t, s, before, m)
    PROVE  IInv'
<1>1. Agrees(bits, saved)'
  BY ClearAgrees DEF ClearWith
<1>2. flying' \in [Threads -> Exc \cup {NoExc}]
  BY ThrownIsExc DEF ClearWith, IInv, TypeOK
<1> QED BY <1>1, <1>2, AgreesIInv DEF ClearWith

LEMMA HandleStep ==
    ASSUME IInv, NEW t \in Threads, NEW ex \in Exc, NEW atEof \in BOOLEAN,
           NEW m \in SUBSET Bits, mask' \in SUBSET Bits,
           HandleWith(t, ex, atEof, m)
    PROVE  IInv'
<1> DEFINE s == bits \cup {ex.cat} \cup (IF atEof THEN {"eof"} ELSE {})
<1>1. s \in SUBSET Bits
  BY DEF IInv, TypeOK, Exc, Bits
<1>2. Agrees(bits \cup {ex.cat}, Saving(ex, saved))
  BY IInvAgrees, SavingAgrees DEF IInv, TypeOK
<1>3. ClearWith(t, s, Saving(ex, saved), m)
  BY DEF HandleWith
<1> HIDE DEF s
<1> QED BY <1>1, <1>2, <1>3, ClearStep

LEMMA InvStep == IInv /\ [Next]_vars => IInv'
<1> SUFFICES ASSUME IInv, [Next]_vars PROVE IInv'
  OBVIOUS
<1>0. /\ Agrees(bits, saved)
      /\ mask \in SUBSET Bits
      /\ bits \in SUBSET Bits
      /\ {} \in SUBSET Bits
      /\ {"eof"} \in SUBSET Bits
      /\ BitSets \subseteq SUBSET Bits
      /\ Failures \subseteq Exc
      /\ \A t \in Threads : ~Idle(t) => flying[t] \in Exc
  BY IInvAgrees, StateAssumption DEF IInv, TypeOK, Bits, Failures, Exc, Idle
<1>1. ASSUME NEW t \in Threads, NEW s \in BitSets, Clear(t, s) PROVE IInv'
  BY <1>0, <1>1, ClearStep DEF Clear
<1>2. ASSUME NEW t \in Threads, NEW s \in BitSets, SetState(t, s) PROVE IInv'
  <2>1. bits \cup s \in SUBSET Bits
    BY <1>0
  <2> QED BY <1>0, <1>2, <2>1, ClearStep DEF SetState
<1>3. ASSUME NEW t \in Threads, NEW e \in BitSets, Exceptions(t, e) PROVE IInv'
  BY <1>0, <1>3, ClearStep DEF Exceptions
<1>4. ASSUME NEW t \in Threads, UnsetState(t, {"eof"}) PROVE IInv'
  <2>1. bits \ {"eof"} \in SUBSET Bits
    BY <1>0
  <2> QED BY <1>0, <1>4, <2>1, ClearStep DEF UnsetState
<1>5. ASSUME NEW t \in Threads, NEW ex \in Failures, NEW atEof \in BOOLEAN,
             Fail(t, ex, atEof) \/ FailUnwinding(t, ex, atEof)
      PROVE  IInv'
  BY <1>0, <1>5, HandleStep DEF Fail, FailUnwinding
<1>6. ASSUME NEW t \in Threads, Rehandle(t) \/ Absorb(t) PROVE IInv'
  BY <1>0, <1>6, HandleStep DEF Rehandle, Absorb
<1>7. ASSUME NEW t \in Threads, Catch(t) PROVE IInv'
  BY <1>7 DEF Catch, IInv, TypeOK, SavedMatchesBits
<1>8. CASE UNCHANGED vars
  BY <1>8 DEF vars, IInv, TypeOK, SavedMatchesBits
<1> QED BY <1>1, <1>2, <1>3, <1>4, <1>5, <1>6, <1>7, <1>8 DEF Next

LEMMA InitInv == Init => IInv
BY DEF Init, IInv, TypeOK, SavedMatchesBits

(* "State bits consistent with exception pointers", for any number of      *)
(* threads and whatever the failures and the arguments of clear().         *)
THEOREM SavedExceptionsMatchBits == Spec => []SavedMatchesBits
<1>1. IInv => SavedMatchesBits
  BY DEF IInv
<1> QED BY <1>1, InitInv, InvStep, PTL DEF Spec

(* Every reachable state is well typed. *)
THEOREM TypeCorrect == Spec => []TypeOK
<1>1. IInv => TypeOK
  BY DEF IInv
<1> QED BY <1>1, InitInv, InvStep, PTL DEF Spec
-----------------------------------------------------------------------------
(* clear() drops an exception only with its bit, or by throwing it. *)
LEMMA ClearKeepsOrThrows ==
    ASSUME IInv, NEW t \in Threads, NEW s, NEW m, NEW before,
           \A c \in FailBits : saved[c] # NoExc => before[c] = saved[c],
           ClearWith(t, s, before, m)
    PROVE  KeptOrThrown
<1> SUFFICES ASSUME NEW c \in FailBits, saved[c] # NoExc
             PROVE  \/ saved'[c] = saved[c]
                    \/ saved'[c] = NoExc /\ c \notin bits'
                    \/ saved'[c] = NoExc /\ \E u \in Threads : flying'[u] = saved[c]
  BY DEF KeptOrThrown
<1>1. CASE c \notin s
  BY <1>1 DEF ClearWith, LeftBy, Kept
<1>2. CASE c \in s /\ m \cap s # {} /\ c = First(m \cap s)
  <2>1. ThrownBy(s, before, m) = saved[c]
    BY <1>2 DEF ThrownBy
  <2>2. flying'[t] = saved[c]
    BY <2>1 DEF ClearWith, IInv, TypeOK
  <2> QED BY <1>2, <2>2 DEF ClearWith, LeftBy
<1>3. CASE c \in s /\ ~(m \cap s # {} /\ c = First(m \cap s))
  BY <1>3 DEF ClearWith, LeftBy, Kept
<1> QED BY <1>1, <1>2, <1>3

(* "The exception that yielded is not lost": for every exception ever      *)
(* saved, until it is thrown or its bit is cleared.                        *)
THEOREM FirstFailureStays == Spec => FirstFailureKept
<1>1. IInv /\ [Next]_vars => [KeptOrThrown]_vars
  <2> SUFFICES ASSUME IInv, Next PROVE KeptOrThrown
    BY DEF IInv
  <2>0. \A ex \in Exc, c \in FailBits : saved[c] # NoExc => Saving(ex, saved)[c] = saved[c]
    BY DEF Saving, IInv, TypeOK
  <2>1. ASSUME NEW t \in Threads, NEW s \in BitSets,
               Clear(t, s) \/ SetState(t, s) \/ Exceptions(t, s)
        PROVE  KeptOrThrown
    BY <2>1, ClearKeepsOrThrows DEF Clear, SetState, Exceptions
  <2>2. ASSUME NEW t \in Threads, UnsetState(t, {"eof"}) PROVE KeptOrThrown
    BY <2>2, ClearKeepsOrThrows DEF UnsetState
  <2>3. ASSUME NEW t \in Threads, NEW ex \in Exc, NEW atEof, NEW m,
               HandleWith(t, ex, atEof, m)
        PROVE  KeptOrThrown
    BY <2>0, <2>3, ClearKeepsOrThrows DEF HandleWith
  <2>4. ASSUME NEW t \in Threads, NEW ex \in Failures, NEW atEof \in BOOLEAN,
               Fail(t, ex, atEof) \/ FailUnwinding(t, ex, atEof)
        PROVE  KeptOrThrown
    BY <2>3, <2>4 DEF Fail, FailUnwinding, Failures, Exc
  <2>5. ASSUME NEW t \in Threads, Rehandle(t) \/ Absorb(t) PROVE KeptOrThrown
    <3>1. flying[t] \in Exc
      BY <2>5 DEF Rehandle, Absorb, Idle, IInv, TypeOK
    <3> QED BY <2>3, <2>5, <3>1 DEF Rehandle, Absorb
  <2>6. ASSUME NEW t \in Threads, Catch(t) PROVE KeptOrThrown
    BY <2>6 DEF Catch, KeptOrThrown
  <2> QED BY <2>1, <2>2, <2>4, <2>5, <2>6 DEF Next
<1> QED BY <1>1, InitInv, InvStep, PTL DEF Spec, FirstFailureKept

(* "A failure that lands on a tie target leaves an exception object        *)
(* behind", even for a user who masked the bit, whatever was in flight.    *)
THEOREM AbsorbedStaysRecorded == Spec => AbsorbedIsRecorded
<1>1. IInv /\ [Next]_vars =>
        [\A t \in Threads : Absorb(t) /\ flying[t].cat # "eof" => saved'[flying[t].cat] # NoExc]_vars
  <2> SUFFICES ASSUME IInv, NEW t \in Threads, Absorb(t), flying[t].cat # "eof"
               PROVE  saved'[flying[t].cat] # NoExc
    OBVIOUS
  <2>1. PICK ex : ex = flying[t]
    OBVIOUS
  <2>2. PICK c : c = ex.cat
    OBVIOUS
  <2>3. ex # NoExc /\ c \in FailBits /\ c # "eof"
    BY <2>1, <2>2 DEF Absorb, Idle, IInv, TypeOK, Exc, Bits, FailBits
  <2>4. PICK s : c \in s /\ saved' = LeftBy(s, Saving(ex, saved), {})
    BY <2>1, <2>2 DEF Absorb, HandleWith, ClearWith
  <2>5. saved'[c] = Saving(ex, saved)[c]
    BY <2>3, <2>4 DEF LeftBy, Kept
  <2>6. CASE saved[c] # NoExc
    BY <2>1, <2>2, <2>5, <2>6 DEF Saving
  <2>7. CASE saved[c] = NoExc
    <3>1. Saving(ex, saved) = [saved EXCEPT ![c] = ex]
      BY <2>2, <2>3, <2>7 DEF Saving
    <3>2. Saving(ex, saved)[c] = ex
      BY <2>3, <3>1 DEF IInv, TypeOK
    <3> QED BY <2>1, <2>2, <2>3, <2>5, <3>2
  <2> QED BY <2>6, <2>7
<1> QED BY <1>1, InitInv, InvStep, PTL DEF Spec, AbsorbedIsRecorded
-----------------------------------------------------------------------------
(* The channel.                                                            *)

ChTypes ==
    /\ file \in Seq(Nat) /\ readBuf \in Seq(Nat)
    /\ pos \in Nat /\ pos <= Len(file)
    /\ nextByte \in Nat /\ era \in Nat
    /\ kernel \in {"input", "output", "neutral"} /\ mirror \in {"input", "output"}

(* How many characters a reader would get, and which. *)
Left == Len(readBuf) + (Len(file) - pos)
Seen(j) == IF j <= Len(readBuf) THEN readBuf[(Len(readBuf) - j) + 1]
           ELSE file[pos + (j - Len(readBuf))]

(* What an honest caller finds on the stack is what the file has there. *)
StackIsFile ==
    honest => /\ Len(readBuf) <= pos
              /\ \A j \in 1..Left : Seen(j) = file[(pos - Len(readBuf)) + j]

ChInv == ChTypes /\ Ch!Mirrors /\ StackIsFile

(* The counts of ChTypes, for arithmetic. *)
LEMMA ChCounts ==
    ASSUME ChTypes
    PROVE  /\ Len(readBuf) \in Nat /\ Len(file) \in Nat /\ pos \in Nat /\ pos <= Len(file)
           /\ Left \in Nat
           /\ \A j \in 1..Left : Seen(j) \in Nat
<1>1. Len(readBuf) \in Nat /\ Len(file) \in Nat /\ pos \in Nat /\ pos <= Len(file)
  BY DEF ChTypes
<1>2. Left \in Nat
  BY <1>1 DEF Left
<1>3. ASSUME NEW j \in 1..Left PROVE Seen(j) \in Nat
  <2>1. j \in Nat /\ 1 <= j /\ j <= Len(readBuf) + (Len(file) - pos)
    BY <1>1, <1>2, <1>3 DEF Left
  <2>2. CASE j <= Len(readBuf)
    <3>1. (Len(readBuf) - j) + 1 \in 1..Len(readBuf)
      BY <1>1, <2>1, <2>2
    <3> QED BY <2>2, <3>1 DEF Seen, ChTypes
  <2>3. CASE ~(j <= Len(readBuf))
    <3>1. pos + (j - Len(readBuf)) \in 1..Len(file)
      BY <1>1, <2>1, <2>3
    <3> QED BY <2>3, <3>1 DEF Seen, ChTypes
  <2> QED BY <2>2, <2>3
<1> QED BY <1>1, <1>2, <1>3

(* View, place by place. *)
LEMMA ReversedElements ==
    ASSUME NEW q \in Seq(Nat)
    PROVE  /\ Ch!Reverse(q) \in Seq(Nat) /\ Len(Ch!Reverse(q)) = Len(q)
           /\ \A j \in 1..Len(q) : Ch!Reverse(q)[j] = q[(Len(q) - j) + 1]
<1>1. Ch!Reverse(q) = [j \in 1..Len(q) |-> q[(Len(q) - j) + 1]]
  BY DEF Ch!Reverse
<1>2. \A j \in 1..Len(q) : q[(Len(q) - j) + 1] \in Nat
  OBVIOUS
<1>3. PICK r : r = [j \in 1..Len(q) |-> q[(Len(q) - j) + 1]]
  OBVIOUS
<1>4. r \in Seq(Nat) /\ Len(r) = Len(q)
  BY <1>2, <1>3
<1>5. \A j \in 1..Len(q) : r[j] = q[(Len(q) - j) + 1]
  BY <1>3
<1> QED BY <1>1, <1>3, <1>4, <1>5

LEMMA ViewElements ==
    ASSUME ChTypes
    PROVE  /\ Ch!View \in Seq(Nat) /\ Len(Ch!View) = Left
           /\ \A j \in 1..Left : Ch!View[j] = Seen(j)
<1>1. PICK r : r = Ch!Reverse(readBuf)
  OBVIOUS
<1>2. /\ r \in Seq(Nat) /\ Len(r) = Len(readBuf)
      /\ \A j \in 1..Len(readBuf) : r[j] = readBuf[(Len(readBuf) - j) + 1]
  <2>1. readBuf \in Seq(Nat)
    BY DEF ChTypes
  <2>2. \A q \in Seq(Nat) :
            /\ Ch!Reverse(q) \in Seq(Nat) /\ Len(Ch!Reverse(q)) = Len(q)
            /\ \A j \in 1..Len(q) : Ch!Reverse(q)[j] = q[(Len(q) - j) + 1]
    BY ReversedElements
  <2> QED BY <1>1, <2>1, <2>2, Zenon
<1>3. PICK z : z = SubSeq(file, pos + 1, Len(file))
  OBVIOUS
<1>4. /\ z \in Seq(Nat) /\ Len(z) = Len(file) - pos
      /\ \A i \in 1..(Len(file) - pos) : z[i] = file[pos + i]
  BY <1>3, SuffixElements DEF ChTypes
<1>5. PICK v : v = r \o z
  OBVIOUS
<1>6. /\ v \in Seq(Nat) /\ Len(v) = Len(r) + Len(z)
      /\ \A i \in 1..(Len(r) + Len(z)) : v[i] = IF i <= Len(r) THEN r[i] ELSE z[i - Len(r)]
  <2>1. r \in Seq(Nat) /\ z \in Seq(Nat)
    BY <1>2, <1>4
  <2>2. r \o z \in Seq(Nat) /\ Len(r \o z) = Len(r) + Len(z)
    BY <2>1, ConcatElements
  <2>3. \A i \in 1..(Len(r) + Len(z)) : (r \o z)[i] = IF i <= Len(r) THEN r[i] ELSE z[i - Len(r)]
    BY <2>1, ConcatElements
  <2> QED BY <1>5, <2>2, <2>3
<1>7. Ch!View = v
  BY <1>1, <1>3, <1>5 DEF Ch!View
<1>8. Len(v) = Left
  BY <1>2, <1>4, <1>6 DEF Left
<1>9. ASSUME NEW j \in 1..Left PROVE v[j] = Seen(j)
  <2>0. /\ Len(readBuf) \in Nat /\ Len(file) \in Nat /\ pos \in Nat /\ pos <= Len(file)
        /\ j \in Nat /\ 1 <= j /\ j <= Len(readBuf) + (Len(file) - pos)
    BY ChCounts DEF Left
  <2>1. CASE j <= Len(readBuf)
    <3>1. v[j] = r[j]
      BY <1>2, <1>4, <1>6, <2>0, <2>1
    <3>2. r[j] = readBuf[(Len(readBuf) - j) + 1]
      BY <1>2, <2>0, <2>1
    <3> QED BY <2>1, <3>1, <3>2 DEF Seen
  <2>2. CASE ~(j <= Len(readBuf))
    <3>1. PICK e : e = j - Len(readBuf)
      OBVIOUS
    <3>2. e \in 1..(Len(file) - pos)
      BY <2>0, <2>2, <3>1
    <3>3. v[j] = z[e]
      BY <1>2, <1>4, <1>6, <2>0, <2>2, <3>1
    <3>4. z[e] = file[pos + e]
      BY <1>4, <3>2
    <3> QED BY <2>2, <3>1, <3>3, <3>4 DEF Seen
  <2> QED BY <2>1, <2>2
<1> QED BY <1>6, <1>7, <1>8, <1>9

(* A call has consumed c characters, and shows the next one or none. *)
Takes(c) ==
    /\ file' = file /\ nextByte' = nextByte /\ era' = era
    /\ c \in Nat /\ pos' - Len(readBuf') = (pos - Len(readBuf)) + c
    /\ Left' = Left - c /\ \A j \in 1..Left' : Seen(j)' = Seen(c + j)
    /\ took' \in Seq(Nat) /\ Len(took') = c /\ \A j \in 1..c : took'[j] = Seen(j)
    /\ peeked' # NoChar => Left' > 0 /\ peeked' = Seen(1)'

(* The stack loses what was consumed, or holds what was read ahead.        *)
LEMMA StackMoves ==
    ASSUME ChTypes, ChTypes', NEW c \in Nat, NEW k \in Nat, file' = file, pos' = pos + k,
           Len(readBuf') + c = Len(readBuf) + k,
           \/ k = 0 /\ \A i \in 1..Len(readBuf') : readBuf'[i] = readBuf[i]
           \/ /\ Len(readBuf') <= k
              /\ \A i \in 1..Len(readBuf') : readBuf'[i] = file[((pos + k) - i) + 1]
    PROVE  /\ Left' = Left - c
           /\ \A j \in 1..Left' : Seen(j)' = Seen(c + j)
<1>1. PICK m : m = Len(readBuf)
  OBVIOUS
<1>2. PICK n : n = Len(readBuf')
  OBVIOUS
<1>3. PICK p : p = pos
  OBVIOUS
<1>4. PICK l : l = Len(file)
  OBVIOUS
<1>5. /\ m \in Nat /\ p \in Nat /\ l \in Nat /\ p <= l
  BY <1>1, <1>3, <1>4, ChCounts
<1>6. n \in Nat /\ p + k <= l
  BY <1>2, <1>3, <1>4 DEF ChTypes
<1>7. n + c = m + k /\ pos' = p + k
  BY <1>1, <1>2, <1>3
<1>8. Left = m + (l - p) /\ Left' = n + (l - (p + k))
  BY <1>1, <1>2, <1>3, <1>4, <1>7 DEF Left
<1>9. Left' = Left - c
  BY <1>5, <1>6, <1>7, <1>8
<1>10. ASSUME NEW j \in 1..Left' PROVE Seen(j)' = Seen(c + j)
  <2>1. j \in Nat /\ 1 <= j /\ j <= n + (l - (p + k))
    BY <1>5, <1>6, <1>8
  <2>2. /\ j <= n => Seen(j)' = readBuf'[(n - j) + 1]
        /\ n < j => Seen(j)' = file[(p + k) + (j - n)]
    BY <1>2, <1>6, <1>7, <2>1 DEF Seen
  <2>3. /\ c + j <= m => Seen(c + j) = readBuf[(m - (c + j)) + 1]
        /\ m < c + j => Seen(c + j) = file[p + ((c + j) - m)]
    BY <1>1, <1>3, <1>5, <2>1 DEF Seen
  <2>4. CASE n < j
    <3>1. m < c + j /\ (p + k) + (j - n) = p + ((c + j) - m)
      BY <1>5, <1>6, <1>7, <2>1, <2>4
    <3> QED BY <2>2, <2>3, <2>4, <3>1
  <2>5. CASE j <= n /\ k = 0 /\ \A i \in 1..Len(readBuf') : readBuf'[i] = readBuf[i]
    <3>1. PICK i : i = (n - j) + 1
      OBVIOUS
    <3>2. i \in 1..n /\ c + j <= m /\ i = (m - (c + j)) + 1
      BY <1>5, <1>6, <1>7, <2>1, <2>5, <3>1
    <3>3. readBuf'[i] = readBuf[i]
      BY <1>2, <2>5, <3>2
    <3> QED BY <2>2, <2>3, <2>5, <3>1, <3>2, <3>3
  <2>6. CASE /\ j <= n /\ Len(readBuf') <= k
             /\ \A i \in 1..Len(readBuf') : readBuf'[i] = file[((pos + k) - i) + 1]
    <3>1. PICK i : i = (n - j) + 1
      OBVIOUS
    <3>2. i \in 1..n /\ m < c + j /\ ((p + k) - i) + 1 = p + ((c + j) - m)
      <4>1. n <= k
        BY <1>2, <2>6
      <4>2. j <= n
        BY <2>6
      <4> QED BY ONLY <1>5, <1>6, <1>7, <2>1, <3>1, <4>1, <4>2, c \in Nat, k \in Nat
    <3>3. readBuf'[i] = file[((p + k) - i) + 1]
      BY <1>2, <1>3, <2>6, <3>2
    <3> QED BY <2>2, <2>3, <2>6, <3>1, <3>2, <3>3
  <2> QED BY <1>2, <1>6, <2>1, <2>4, <2>5, <2>6
<1> QED BY <1>9, <1>10

(* What KeepsPlace says of a read. *)
LEMMA TakenFromView ==
    ASSUME ChTypes, ChTypes', NEW c, Takes(c)
    PROVE  /\ Ch!View = took' \o Ch!View'
           /\ peeked' # NoChar => Ch!View' # <<>> /\ peeked' = Head(Ch!View')
<1>1. PICK v : v = Ch!View
  OBVIOUS
<1>2. PICK w : w = Ch!View'
  OBVIOUS
<1>3. PICK x : x = took'
  OBVIOUS
<1>4. PICK a : a = Left
  OBVIOUS
<1>5. PICK d : d = Left'
  OBVIOUS
<1>6. v \in Seq(Nat) /\ Len(v) = a /\ \A j \in 1..a : v[j] = Seen(j)
  BY <1>1, <1>4, ViewElements
<1>7. (ChTypes => /\ Ch!View \in Seq(Nat) /\ Len(Ch!View) = Left
                  /\ \A j \in 1..Left : Ch!View[j] = Seen(j))'
  BY ViewElements, PTL
<1>8. w \in Seq(Nat) /\ Len(w) = d /\ \A j \in 1..d : w[j] = Seen(j)'
  BY <1>2, <1>5, <1>7
<1>9. /\ c \in Nat /\ x \in Seq(Nat) /\ Len(x) = c /\ \A j \in 1..c : x[j] = Seen(j)
  BY <1>3 DEF Takes
<1>10. d = a - c /\ a \in Nat /\ d \in Nat
  BY <1>4, <1>5, <1>6, <1>8, ChCounts DEF Takes
<1>11. \A j \in 1..d : w[j] = Seen(c + j)
  BY <1>5, <1>8 DEF Takes
<1>12. PICK y : y = x \o w
  OBVIOUS
<1>13. y \in Seq(Nat) /\ Len(y) = c + d
  BY ONLY <1>8, <1>9, <1>12, ConcatElements
<1>14. \A j \in 1..(c + d) : y[j] = IF j <= c THEN x[j] ELSE w[j - c]
  BY ONLY <1>8, <1>9, <1>12, ConcatElements
<1>15. ASSUME NEW j \in 1..a PROVE v[j] = y[j]
  <2>1. j \in Nat /\ 1 <= j /\ j <= a /\ j \in 1..(c + d)
    BY <1>9, <1>10
  <2>2. CASE j <= c
    <3>1. y[j] = x[j] /\ x[j] = Seen(j)
      BY <1>9, <1>14, <2>1, <2>2
    <3> QED BY <1>6, <3>1
  <2>3. CASE c < j
    <3>1. PICK e : e = j - c
      OBVIOUS
    <3>2. e \in 1..d /\ c + e = j
      BY <1>9, <1>10, <2>1, <2>3, <3>1
    <3>3. y[j] = w[e]
      BY <1>9, <1>14, <2>1, <2>3, <3>1
    <3>4. w[e] = Seen(j)
      BY <1>11, <3>2
    <3> QED BY <1>6, <3>3, <3>4
  <2> QED BY <1>9, <2>1, <2>2, <2>3
<1>16. Len(v) = Len(y)
  BY <1>6, <1>10, <1>13, <1>9
<1>17. v = y
  BY ONLY <1>6, <1>13, <1>15, <1>16
<1>18. ASSUME peeked' # NoChar PROVE w # <<>> /\ peeked' = Head(w)
  <2>1. d > 0 /\ peeked' = Seen(1)'
    BY <1>5, <1>18 DEF Takes
  <2>2. w[1] = Seen(1)'
    BY <1>8, <1>10, <2>1
  <2> QED BY <1>8, <1>10, <2>1, <2>2
<1> QED BY <1>1, <1>2, <1>3, <1>12, <1>17, <1>18

(* And of the position, on a call that has consumed nothing. *)
LEMMA TakesKeepsTell ==
    ASSUME ChTypes, ChTypes', NEW c, Takes(c), took' = <<>>
    PROVE  Ch!Tell' = Ch!Tell
<1>1. c = 0
  BY DEF Takes
<1>2. pos' - Len(readBuf') = pos - Len(readBuf)
  BY <1>1, ChCounts DEF Takes
<1>3. Len(readBuf') \in Nat /\ pos' \in Nat
  BY DEF ChTypes
<1>4. Len(readBuf) \in Nat /\ pos \in Nat
  BY DEF ChTypes
<1> QED BY <1>2, <1>3, <1>4 DEF Ch!Tell

(* An honest caller has read c characters of the file. *)
LEMMA TakesIsRead ==
    ASSUME ChTypes, ChTypes', StackIsFile, honest, honest' = honest, NEW c, Takes(c)
    PROVE  StackIsFile' /\ Bytes!Next
<1>1. PICK m : m = Len(readBuf)
  OBVIOUS
<1>2. PICK n : n = Len(readBuf')
  OBVIOUS
<1>3. PICK p : p = pos
  OBVIOUS
<1>4. PICK q : q = pos'
  OBVIOUS
<1>5. /\ m \in Nat /\ p \in Nat /\ n \in Nat /\ q \in Nat /\ c \in Nat
      /\ Len(file) \in Nat /\ p <= Len(file) /\ q <= Len(file)
  BY <1>1, <1>2, <1>3, <1>4 DEF ChTypes, Takes
<1>6. q - n = (p - m) + c /\ m <= p
  BY <1>1, <1>2, <1>3, <1>4 DEF Takes, StackIsFile
<1>7. PICK t : t = p - m
  OBVIOUS
<1>8. t \in Nat /\ n <= q /\ q - n = t + c /\ Left = Len(file) - t /\ Left' = Len(file) - (t + c)
  <2>1. Left = m + (Len(file) - p) /\ Left' = n + (Len(file) - q)
    BY <1>1, <1>2, <1>3, <1>4 DEF Left, Takes
  <2> QED BY <1>5, <1>6, <1>7, <2>1
<1>9. Ch!Tell = t /\ Ch!Tell' = t + c
  BY <1>1, <1>2, <1>3, <1>4, <1>5, <1>6, <1>7, <1>8 DEF Ch!Tell
<1>10. \A j \in 1..(Len(file) - t) : Seen(j) = file[t + j]
  BY <1>1, <1>3, <1>7, <1>8 DEF StackIsFile
<1>11. c \in 0..(Len(file) - t)
  BY <1>5, <1>8, <1>2, <1>4
<1>12. StackIsFile'
  <2>1. ASSUME NEW j \in 1..Left' PROVE Seen(j)' = file[(t + c) + j]
    <3>1. c + j \in 1..(Len(file) - t) /\ t + (c + j) = (t + c) + j
      BY <1>5, <1>8, <1>11
    <3>2. Seen(j)' = Seen(c + j)
      BY DEF Takes
    <3>3. Seen(c + j) = file[t + (c + j)]
      BY <1>10, <3>1
    <3> QED BY <3>1, <3>2, <3>3
  <2>2. file' = file /\ Len(readBuf') <= pos' /\ pos' - Len(readBuf') = t + c
    BY <1>2, <1>4, <1>8 DEF Takes
  <2> QED BY <2>1, <2>2 DEF StackIsFile
<1>13. took' = SubSeq(file, t + 1, t + c)
  <2>1. PICK x : x = took'
    OBVIOUS
  <2>2. x \in Seq(Nat) /\ Len(x) = c /\ \A j \in 1..c : x[j] = Seen(j)
    BY <2>1 DEF Takes
  <2>3. \A j \in 1..c : x[j] = file[t + j]
    BY <1>5, <1>8, <1>10, <1>11, <2>2
  <2>4. PICK y : y = SubSeq(file, t + 1, t + c)
    OBVIOUS
  <2>5. file \in Seq(Nat) /\ t <= t + c /\ t + c <= Len(file) /\ t + c \in Nat
    BY <1>5, <1>8, <1>11 DEF ChTypes
  <2>6. y \in Seq(Nat) /\ Len(y) = (t + c) - t
    BY <1>8, <2>4, <2>5, PieceElements
  <2>7. \A i \in 1..((t + c) - t) : y[i] = file[t + i]
    BY <1>8, <2>4, <2>5, PieceElements
  <2>8. (t + c) - t = c
    BY <1>5, <1>8
  <2>9. Len(y) = c /\ \A i \in 1..c : y[i] = file[t + i]
    BY ONLY <2>6, <2>7, <2>8
  <2>10. x = y
    BY ONLY <2>2, <2>3, <2>6, <2>9
  <2> QED BY <2>1, <2>4, <2>10
<1>14. Bytes!Read(c)
  BY <1>8, <1>9, <1>13 DEF Bytes!Read, Takes
<1> QED BY <1>9, <1>11, <1>12, <1>14 DEF Bytes!Next

(* What a read leaves of the converter. *)
LEMMA ReadTypes ==
    ASSUME ChTypes, Ch!Mirrors, NEW k \in Nat, NEW turns \in BOOLEAN, Ch!Read(k, turns),
           pos + k <= Len(file), readBuf' \in Seq(Nat)
    PROVE  /\ ChTypes' /\ Ch!Mirrors'
           /\ file' = file /\ nextByte' = nextByte /\ era' = era /\ pos' = pos + k
<1>1. /\ file' = file /\ nextByte' = nextByte /\ era' = era /\ pos' = pos + k
      /\ mirror' = "input" /\ kernel' \in {"input", "neutral"}
  BY DEF Ch!Read, ChTypes, Ch!Mirrors
<1>2. pos' \in Nat /\ pos' <= Len(file')
  BY <1>1 DEF ChTypes
<1>3. Ch!Mirrors'
  BY <1>1 DEF Ch!Mirrors
<1> QED BY <1>1, <1>2, <1>3 DEF ChTypes

LEMMA MovesTakes ==
    ASSUME ChTypes, Ch!Mirrors, NEW c \in Nat, NEW k \in Nat, NEW turns \in BOOLEAN,
           Ch!Read(k, turns), pos + k <= Len(file), readBuf' \in Seq(Nat),
           Len(readBuf') + c = Len(readBuf) + k,
           \/ k = 0 /\ \A i \in 1..Len(readBuf') : readBuf'[i] = readBuf[i]
           \/ /\ Len(readBuf') <= k
              /\ \A i \in 1..Len(readBuf') : readBuf'[i] = file[((pos + k) - i) + 1],
           took' \in Seq(Nat), Len(took') = c, \A j \in 1..c : took'[j] = Seen(j),
           peeked' # NoChar => Len(readBuf') > 0 /\ peeked' = readBuf'[Len(readBuf')]
    PROVE  ChTypes' /\ Ch!Mirrors' /\ Takes(c)
<1>1. ChTypes' /\ Ch!Mirrors'
  BY ReadTypes
<1>2. file' = file /\ nextByte' = nextByte /\ era' = era /\ pos' = pos + k
  BY ReadTypes
<1>3. Left' = Left - c /\ \A j \in 1..Left' : Seen(j)' = Seen(c + j)
  BY <1>1, <1>2, StackMoves
<1>4. pos' - Len(readBuf') = (pos - Len(readBuf)) + c
  <2>1. PICK m : m = Len(readBuf)
    OBVIOUS
  <2>2. PICK n : n = Len(readBuf')
    OBVIOUS
  <2>3. m \in Nat /\ n \in Nat /\ pos \in Nat
    BY <2>1, <2>2 DEF ChTypes
  <2>4. n + c = m + k
    BY <2>1, <2>2
  <2>5. (pos + k) - n = (pos - m) + c
    BY ONLY c \in Nat, k \in Nat, <2>3, <2>4
  <2> QED BY <1>2, <2>1, <2>2, <2>5
<1>5. ASSUME peeked' # NoChar PROVE Left' > 0 /\ peeked' = Seen(1)'
  <2>1. Len(readBuf') \in Nat /\ Len(readBuf') > 0 /\ peeked' = readBuf'[Len(readBuf')]
    BY <1>5
  <2>2. Len(file') \in Nat /\ pos' \in Nat /\ pos' <= Len(file')
    BY <1>1 DEF ChTypes
  <2>3. Left' > 0
    BY <2>1, <2>2 DEF Left
  <2>4. (Len(readBuf') - 1) + 1 = Len(readBuf') /\ 1 <= Len(readBuf')
    BY <2>1
  <2>5. Seen(1)' = readBuf'[Len(readBuf')]
    BY <2>4 DEF Seen
  <2> QED BY <2>1, <2>3, <2>5
<1> QED BY <1>1, <1>2, <1>3, <1>4, <1>5 DEF Takes

(* is_eof(), a getc() that finds nothing, and whatever throws at once. *)
LEMMA ShowsNothing ==
    ASSUME ChTypes, Ch!Mirrors, NEW turns \in BOOLEAN, Ch!Read(0, turns),
           readBuf' = readBuf, took' = <<>>, peeked' = NoChar
    PROVE  ChTypes' /\ Ch!Mirrors' /\ Takes(0)
<1>1. /\ readBuf' \in Seq(Nat) /\ Len(readBuf') + 0 = Len(readBuf) + 0
      /\ \A i \in 1..Len(readBuf') : readBuf'[i] = readBuf[i]
  BY DEF ChTypes
<1>2. took' \in Seq(Nat) /\ Len(took') = 0 /\ \A j \in 1..0 : took'[j] = Seen(j)
  OBVIOUS
<1>3. 0 \in Nat /\ pos + 0 <= Len(file)
  BY DEF ChTypes
<1> QED BY <1>1, <1>2, <1>3, MovesTakes

(* The first k = 1 or 2 characters of the file go to the stack, or through. *)
LEMMA GetcTakes ==
    ASSUME ChTypes, Ch!Mirrors, Ch!Getc
    PROVE  ChTypes' /\ Ch!Mirrors' /\ Takes(0)
<1>1. CASE readBuf # <<>>
  <2>1. /\ Ch!Read(0, FALSE) /\ took' = <<>> /\ peeked' = Ch!Last(readBuf) /\ readBuf' = readBuf
    BY <1>1 DEF Ch!Getc, Ch!Result
  <2>2. /\ readBuf' \in Seq(Nat) /\ Len(readBuf') + 0 = Len(readBuf) + 0
        /\ \A i \in 1..Len(readBuf') : readBuf'[i] = readBuf[i]
    BY <2>1 DEF ChTypes
  <2>3. Len(readBuf') > 0 /\ peeked' = readBuf'[Len(readBuf')]
    BY <1>1, <2>1 DEF ChTypes, Ch!Last
  <2>4. took' \in Seq(Nat) /\ Len(took') = 0 /\ \A j \in 1..0 : took'[j] = Seen(j)
    BY <2>1
  <2>5. 0 \in Nat /\ pos + 0 <= Len(file) /\ FALSE \in BOOLEAN
    BY DEF ChTypes
  <2> QED BY <2>1, <2>2, <2>3, <2>4, <2>5, MovesTakes
<1>2. CASE readBuf = <<>> /\ pos = Len(file)
  <2>1. Ch!Read(0, TRUE) /\ took' = <<>> /\ peeked' = NoChar /\ readBuf' = readBuf
    BY <1>2 DEF Ch!Getc, Ch!Quiet, Ch!Result
  <2> QED BY <2>1, ShowsNothing
<1>3. CASE readBuf = <<>> /\ pos # Len(file)
  <2>1. /\ Ch!Read(1, TRUE) /\ took' = <<>> /\ peeked' = file[pos + 1]
        /\ readBuf' = <<file[pos + 1]>>
    BY <1>3 DEF Ch!Getc, Ch!Result
  <2>2. pos \in Nat /\ pos + 1 <= Len(file) /\ file[pos + 1] \in Nat
    BY <1>3 DEF ChTypes
  <2>3. PICK x : x = file[pos + 1]
    OBVIOUS
  <2>4. /\ readBuf' \in Seq(Nat) /\ Len(readBuf') = 1 /\ readBuf'[1] = x
    BY <2>1, <2>2, <2>3
  <2>5. Len(readBuf') + 0 = Len(readBuf) + 1
    BY <1>3, <2>4
  <2>6. ((pos + 1) - 1) + 1 = pos + 1
    BY <2>2
  <2>7. \A i \in 1..Len(readBuf') : readBuf'[i] = file[((pos + 1) - i) + 1]
    BY <2>3, <2>4, <2>6
  <2>8. Len(readBuf') > 0 /\ peeked' = readBuf'[Len(readBuf')]
    BY <2>1, <2>3, <2>4
  <2>9. took' \in Seq(Nat) /\ Len(took') = 0 /\ \A j \in 1..0 : took'[j] = Seen(j)
    BY <2>1
  <2>10. Len(readBuf') <= 1 /\ TRUE \in BOOLEAN /\ 0 \in Nat /\ 1 \in Nat
    BY <2>4
  <2> QED BY <2>1, <2>2, <2>4, <2>5, <2>7, <2>8, <2>9, <2>10, MovesTakes
<1> QED BY <1>1, <1>2, <1>3

(* getn(): from the stack, which it must empty before it asks the file. *)
LEMMA GetnTakes ==
    ASSUME ChTypes, Ch!Mirrors, NEW n \in Nat, Ch!Getn(n)
    PROVE  ChTypes' /\ Ch!Mirrors' /\ \E c \in Nat : Takes(c)
<1>1. PICK b : b = Ch!Least(n, Len(readBuf))
  OBVIOUS
<1>2. PICK m : m = Len(readBuf)
  OBVIOUS
<1>3. m \in Nat /\ readBuf \in Seq(Nat) /\ file \in Seq(Nat) /\ pos \in Nat
      /\ Len(file) \in Nat /\ pos <= Len(file)
  BY <1>2 DEF ChTypes
<1>4. b \in Nat /\ b <= m /\ b <= n /\ (b < n => b = m)
  BY <1>1, <1>2, <1>3 DEF Ch!Least
<1>5. PICK k \in 0..Ch!Least(n - b, Len(file) - pos) :
        /\ Ch!Read(k, n > b)
        /\ readBuf' = SubSeq(readBuf, 1, m - b)
        /\ took' = SubSeq(Ch!Reverse(readBuf), 1, b) \o SubSeq(file, pos + 1, pos + k)
        /\ peeked' = NoChar
  BY <1>1, <1>2 DEF Ch!Getn, Ch!Result
<1>6. k \in Nat /\ pos + k <= Len(file) /\ (k # 0 => b = m)
  <2>1. Ch!Least(n - b, Len(file) - pos) \in Nat
    BY <1>3, <1>4 DEF Ch!Least
  <2>2. k \in Nat /\ k <= n - b /\ k <= Len(file) - pos
    BY <1>3, <1>4, <1>5, <2>1 DEF Ch!Least
  <2> QED BY <1>3, <1>4, <2>2
<1>7. readBuf' \in Seq(Nat) /\ Len(readBuf') = m - b /\ m - b \in Nat
      /\ \A i \in 1..(m - b) : readBuf'[i] = readBuf[i]
  <2>1. PICK l : l = m - b
    OBVIOUS
  <2>2. l \in Nat /\ l <= Len(readBuf)
    BY <1>2, <1>3, <1>4, <2>1
  <2>3. SubSeq(readBuf, 1, l) \in Seq(Nat) /\ Len(SubSeq(readBuf, 1, l)) = l
    BY <1>3, <2>2, PrefixElements
  <2>4. \A i \in 1..l : SubSeq(readBuf, 1, l)[i] = readBuf[i]
    BY <1>3, <2>2, PrefixElements
  <2> QED BY <1>5, <2>1, <2>2, <2>3, <2>4
<1>8. PICK x : x = SubSeq(Ch!Reverse(readBuf), 1, b)
  OBVIOUS
<1>9. x \in Seq(Nat) /\ Len(x) = b /\ \A j \in 1..b : x[j] = Seen(j)
  <2>1. PICK r : r = Ch!Reverse(readBuf)
    OBVIOUS
  <2>2. /\ r \in Seq(Nat) /\ Len(r) = m
        /\ \A j \in 1..m : r[j] = readBuf[(m - j) + 1]
    BY <1>2, <1>3, <2>1, ReversedElements
  <2>3. x \in Seq(Nat) /\ Len(x) = b
    BY <1>4, <1>8, <2>1, <2>2, PrefixElements
  <2>4. \A j \in 1..b : x[j] = r[j]
    BY <1>4, <1>8, <2>1, <2>2, PrefixElements
  <2>5. ASSUME NEW j \in 1..b PROVE x[j] = Seen(j)
    <3>1. j \in 1..m /\ j <= m
      BY <1>3, <1>4
    <3>2. r[j] = readBuf[(m - j) + 1]
      BY <2>2, <3>1
    <3>3. Seen(j) = readBuf[(m - j) + 1]
      BY <1>2, <3>1 DEF Seen
    <3> QED BY <2>4, <3>2, <3>3
  <2> QED BY <2>3, <2>5
<1>10. PICK y : y = SubSeq(file, pos + 1, pos + k)
  OBVIOUS
<1>11. y \in Seq(Nat) /\ Len(y) = k /\ \A i \in 1..k : y[i] = file[pos + i]
  <2>1. PICK q : q = pos + k
    OBVIOUS
  <2>2. q \in Nat /\ pos <= q /\ q <= Len(file) /\ q - pos = k
    BY <1>3, <1>6, <2>1
  <2>3. y \in Seq(Nat) /\ Len(y) = q - pos
    BY ONLY <1>3, <1>10, <2>1, <2>2, PieceElements
  <2>4. \A i \in 1..(q - pos) : y[i] = file[pos + i]
    BY ONLY <1>3, <1>10, <2>1, <2>2, PieceElements
  <2> QED BY <2>2, <2>3, <2>4
<1>12. PICK w : w = x \o y
  OBVIOUS
<1>13. /\ w \in Seq(Nat) /\ Len(w) = b + k
       /\ \A j \in 1..(b + k) : w[j] = IF j <= b THEN x[j] ELSE y[j - b]
  <2>1. x \in Seq(Nat) /\ y \in Seq(Nat)
    BY <1>9, <1>11
  <2>2. w \in Seq(Nat) /\ Len(w) = Len(x) + Len(y)
    BY ONLY <1>12, <2>1, ConcatElements
  <2>3. \A j \in 1..(Len(x) + Len(y)) : w[j] = IF j <= Len(x) THEN x[j] ELSE y[j - Len(x)]
    BY ONLY <1>12, <2>1, ConcatElements
  <2>4. Len(x) = b /\ Len(y) = k
    BY <1>9, <1>11
  <2> QED BY ONLY <2>2, <2>3, <2>4
<1>14. \A j \in 1..(b + k) : w[j] = IF j <= b THEN x[j] ELSE y[j - b]
  BY <1>13
<1>15. ASSUME NEW j \in 1..(b + k) PROVE w[j] = Seen(j)
  <2>1. j \in Nat /\ 1 <= j /\ j <= b + k
    BY <1>4, <1>6
  <2>2. CASE j <= b
    <3>1. w[j] = x[j] /\ j \in 1..b
      BY <1>4, <1>14, <2>1, <2>2
    <3> QED BY <1>9, <3>1
  <2>3. CASE ~(j <= b)
    <3>1. PICK i : i = j - b
      OBVIOUS
    <3>2. i \in 1..k /\ b = m
      BY <1>4, <1>6, <2>1, <2>3, <3>1
    <3>3. w[j] = y[i]
      BY <1>14, <2>3, <3>1
    <3>4. y[i] = file[pos + i]
      BY <1>11, <3>2
    <3>5. Seen(j) = file[pos + (j - m)]
      BY <1>2, <2>3, <3>2 DEF Seen
    <3> QED BY <3>1, <3>2, <3>3, <3>4, <3>5
  <2> QED BY <2>2, <2>3
<1>16. PICK c : c = b + k
  OBVIOUS
<1>17. c \in Nat /\ Len(readBuf') + c = Len(readBuf) + k
  BY <1>2, <1>3, <1>4, <1>6, <1>7, <1>16
<1>18. \/ k = 0 /\ \A i \in 1..Len(readBuf') : readBuf'[i] = readBuf[i]
       \/ /\ Len(readBuf') <= k
          /\ \A i \in 1..Len(readBuf') : readBuf'[i] = file[((pos + k) - i) + 1]
  <2>1. CASE k = 0
    BY <1>7, <2>1
  <2>2. CASE k # 0
    <3>1. Len(readBuf') = 0
      BY <1>3, <1>6, <1>7, <2>2
    <3> QED BY <1>6, <3>1
  <2> QED BY <2>1, <2>2
<1>19. took' \in Seq(Nat) /\ Len(took') = c /\ \A j \in 1..c : took'[j] = Seen(j)
  BY <1>5, <1>8, <1>10, <1>12, <1>13, <1>15, <1>16
<1>20. (n > b) \in BOOLEAN
  OBVIOUS
<1>21. ChTypes' /\ Ch!Mirrors' /\ Takes(c)
  BY <1>5, <1>6, <1>7, <1>17, <1>18, <1>19, <1>20, MovesTakes
<1> QED BY <1>17, <1>21

(* nextc(): the head of the view goes, and what follows it is shown, from  *)
(* the stack or read ahead, or not at all.                                 *)
LEMMA NextcTakes ==
    ASSUME ChTypes, Ch!Mirrors, Ch!Nextc, Left > 0
    PROVE  ChTypes' /\ Ch!Mirrors' /\ \E c \in Nat : Takes(c)
<1>1. PICK m : m = Len(readBuf)
  OBVIOUS
<1>2. m \in Nat /\ readBuf \in Seq(Nat) /\ file \in Seq(Nat) /\ pos \in Nat
      /\ Len(file) \in Nat /\ pos <= Len(file)
  BY <1>1 DEF ChTypes
<1>3. Head(Ch!View) = Seen(1) /\ Seen(1) \in Nat
  <2>1. PICK v : v = Ch!View
    OBVIOUS
  <2>2. PICK l : l = Left
    OBVIOUS
  <2>3. v \in Seq(Nat) /\ Len(v) = l /\ \A j \in 1..l : v[j] = Seen(j)
    BY <2>1, <2>2, ViewElements
  <2>4. l \in Nat /\ l > 0 /\ Seen(1) \in Nat
    BY <2>2, ChCounts
  <2>5. 1 \in 1..l
    BY <2>4
  <2>6. v[1] = Seen(1) /\ v # <<>>
    BY <2>3, <2>4, <2>5
  <2> QED BY <2>1, <2>3, <2>4, <2>6
<1>4. PICK h : h = Seen(1)
  OBVIOUS
<1>5. ASSUME took' = <<h>>
      PROVE  took' \in Seq(Nat) /\ Len(took') = 1 /\ \A j \in 1..1 : took'[j] = Seen(j)
  <2>1. h \in Nat
    BY <1>3, <1>4
  <2>2. took' \in Seq(Nat) /\ Len(took') = 1 /\ took'[1] = h
    BY <1>5, <2>1
  <2>3. ASSUME NEW j \in 1..1 PROVE j = 1
    OBVIOUS
  <2> QED BY <1>4, <2>2, <2>3
<1>6. CASE m > 1
  <2>1. /\ Ch!Read(0, FALSE) /\ readBuf' = Ch!Front(readBuf) /\ took' = <<Ch!Last(readBuf)>>
        /\ peeked' = Ch!Last(Ch!Front(readBuf))
    BY <1>1, <1>6 DEF Ch!Nextc, Ch!Result
  <2>2. PICK s : s = SubSeq(readBuf, 1, m - 1)
    OBVIOUS
  <2>3. readBuf' = s
    BY <1>1, <2>1, <2>2 DEF Ch!Front
  <2>4. m - 1 \in Nat /\ m - 1 <= Len(readBuf) /\ m - 1 > 0
    BY <1>1, <1>2, <1>6
  <2>5. s \in Seq(Nat) /\ Len(s) = m - 1
    BY <1>2, <2>2, <2>4, PrefixElements
  <2>6. \A i \in 1..(m - 1) : s[i] = readBuf[i]
    BY <1>2, <2>2, <2>4, PrefixElements
  <2>7. Ch!Last(readBuf) = h
    <3>1. Seen(1) = readBuf[(m - 1) + 1]
      BY <1>1, <1>6 DEF Seen
    <3>2. (m - 1) + 1 = m
      BY <1>2
    <3> QED BY <1>1, <1>4, <3>1, <3>2 DEF Ch!Last
  <2>8. Len(readBuf') > 0 /\ peeked' = readBuf'[Len(readBuf')] /\ Len(readBuf') = m - 1
    BY <2>1, <2>3, <2>4, <2>5 DEF Ch!Last
  <2>9. Len(readBuf') + 1 = Len(readBuf) + 0
    BY <1>1, <1>2, <2>8
  <2>10. \A i \in 1..Len(readBuf') : readBuf'[i] = readBuf[i]
    BY <2>3, <2>6, <2>8
  <2>11. pos + 0 <= Len(file) /\ 0 \in Nat /\ 1 \in Nat /\ FALSE \in BOOLEAN /\ readBuf' \in Seq(Nat)
    BY <1>2, <2>3, <2>5
  <2>12. took' = <<h>>
    BY <2>1, <2>7
  <2>13. ChTypes' /\ Ch!Mirrors' /\ Takes(1)
    BY <1>5, <2>1, <2>8, <2>9, <2>10, <2>11, <2>12, MovesTakes
  <2> QED BY <2>11, <2>13
<1>7. CASE ~(m > 1)
  <2>1. PICK d : d = IF readBuf = <<>> THEN 1 ELSE 0
    OBVIOUS
  <2>2. d \in Nat /\ m + d = 1 /\ d <= 1
    BY <1>1, <1>2, <1>7, <2>1
  <2>3. pos + d <= Len(file) /\ took' = <<h>>
        /\ \/ /\ pos + d < Len(file)
              /\ Ch!Read(d + 1, TRUE)
              /\ readBuf' = <<file[(pos + d) + 1]>>
              /\ peeked' = file[(pos + d) + 1]
           \/ /\ Ch!Read(d, TRUE)
              /\ readBuf' = <<>>
              /\ peeked' = NoChar
    BY <1>1, <1>3, <1>4, <1>7, <2>1 DEF Ch!Nextc, Ch!Result
  <2>4. CASE /\ pos + d < Len(file)
             /\ Ch!Read(d + 1, TRUE)
             /\ readBuf' = <<file[(pos + d) + 1]>>
             /\ peeked' = file[(pos + d) + 1]
    <3>1. PICK k : k = d + 1
      OBVIOUS
    <3>2. PICK q : q = (pos + d) + 1
      OBVIOUS
    <3>3. k \in Nat /\ q = pos + k /\ q \in 1..Len(file) /\ pos + k <= Len(file) /\ 1 <= k
      BY <1>2, <2>2, <2>4, <3>1, <3>2
    <3>4. PICK x : x = file[q]
      OBVIOUS
    <3>5. x \in Nat
      BY <1>2, <3>3, <3>4
    <3>6. readBuf' \in Seq(Nat) /\ Len(readBuf') = 1 /\ readBuf'[1] = x /\ peeked' = x
      BY <2>4, <3>2, <3>4, <3>5
    <3>7. Len(readBuf') + 1 = Len(readBuf) + k
      BY <1>1, <1>2, <2>2, <3>1, <3>6
    <3>8. \A i \in 1..Len(readBuf') : readBuf'[i] = file[((pos + k) - i) + 1]
      <4>1. ASSUME NEW i \in 1..1 PROVE i = 1
        OBVIOUS
      <4>2. ((pos + k) - 1) + 1 = q
        BY <1>2, <3>3
      <4> QED BY <3>4, <3>6, <4>1, <4>2
    <3>9. Len(readBuf') <= k /\ Len(readBuf') > 0 /\ peeked' = readBuf'[Len(readBuf')]
      BY <3>3, <3>6
    <3>10. Ch!Read(k, TRUE) /\ TRUE \in BOOLEAN /\ 1 \in Nat
      BY <2>4, <3>1
    <3>11. ChTypes' /\ Ch!Mirrors' /\ Takes(1)
      BY <1>5, <2>3, <3>3, <3>6, <3>7, <3>8, <3>9, <3>10, MovesTakes
    <3> QED BY <3>10, <3>11
  <2>5. CASE Ch!Read(d, TRUE) /\ readBuf' = <<>> /\ peeked' = NoChar
    <3>1. readBuf' \in Seq(Nat) /\ Len(readBuf') = 0
      BY <2>5
    <3>2. Len(readBuf') + 1 = Len(readBuf) + d
      BY <1>1, <1>2, <2>2, <3>1
    <3>3. Len(readBuf') <= d /\ \A i \in 1..Len(readBuf') : readBuf'[i] = file[((pos + d) - i) + 1]
      BY <2>2, <3>1
    <3>4. TRUE \in BOOLEAN /\ 1 \in Nat
      OBVIOUS
    <3>5. ChTypes' /\ Ch!Mirrors' /\ Takes(1)
      BY <1>5, <2>2, <2>3, <2>5, <3>1, <3>2, <3>3, <3>4, MovesTakes
    <3> QED BY <3>4, <3>5
  <2> QED BY <2>3, <2>4, <2>5
<1> QED BY <1>1, <1>2, <1>6, <1>7

(* Every read, whatever it meets. *)
LEMMA ReadTakes ==
    ASSUME ChTypes, Ch!Mirrors, Ch!ReadStep
    PROVE  ChTypes' /\ Ch!Mirrors' /\ \E c \in Nat : Takes(c)
<1>0. 0 \in Nat /\ FALSE \in BOOLEAN /\ TRUE \in BOOLEAN
  OBVIOUS
<1>1. CASE Ch!InSwitchFails
  <2>1. /\ file' = file /\ pos' = pos /\ kernel' = kernel /\ mirror' = mirror
        /\ readBuf' = readBuf /\ nextByte' = nextByte /\ era' = era
        /\ took' = <<>> /\ peeked' = NoChar
    BY <1>1 DEF Ch!InSwitchFails, Ch!Quiet, Ch!Result, Ch!cvt
  <2>2. ChTypes' /\ Ch!Mirrors'
    BY <2>1 DEF ChTypes, Ch!Mirrors
  <2>3. pos' + 0 = pos' /\ Len(readBuf') + 0 = Len(readBuf) + 0 /\ pos' = pos + 0
    BY <2>1 DEF ChTypes
  <2>4. \A i \in 1..Len(readBuf') : readBuf'[i] = readBuf[i]
    BY <2>1
  <2>5. Left' = Left - 0 /\ \A j \in 1..Left' : Seen(j)' = Seen(0 + j)
    BY <1>0, <2>1, <2>2, <2>3, <2>4, StackMoves
  <2>6. pos' - Len(readBuf') = (pos - Len(readBuf)) + 0
    BY <2>1 DEF ChTypes
  <2>7. took' \in Seq(Nat) /\ Len(took') = 0 /\ \A j \in 1..0 : took'[j] = Seen(j)
    BY <2>1
  <2>8. Takes(0)
    BY <1>0, <2>1, <2>5, <2>6, <2>7 DEF Takes
  <2> QED BY <1>0, <2>2, <2>8
<1>2. CASE Ch!ReadFails
  BY <1>0, <1>2, ShowsNothing DEF Ch!ReadFails, Ch!Quiet, Ch!Result
<1>3. CASE Ch!Getc
  BY <1>0, <1>3, GetcTakes
<1>4. CASE Ch!Nextc
  <2>1. Left > 0
    <3>1. PICK m : m = Len(readBuf)
      OBVIOUS
    <3>2. m \in Nat /\ pos \in Nat /\ Len(file) \in Nat /\ pos <= Len(file)
      BY <3>1 DEF ChTypes
    <3>3. m > 1 \/ m = 1 \/ (m = 0 /\ readBuf = <<>>)
      BY <3>1, <3>2 DEF ChTypes
    <3>4. m > 1 \/ m = 1 \/ pos + 1 <= Len(file)
      BY <1>4, <3>1, <3>3 DEF Ch!Nextc
    <3> QED BY <3>1, <3>2, <3>4 DEF Left
  <2> QED BY <1>4, <2>1, NextcTakes
<1>5. CASE Ch!IsEof
  BY <1>0, <1>5, ShowsNothing DEF Ch!IsEof, Ch!Quiet, Ch!Result
<1>6. ASSUME NEW n \in 1..MaxGet, Ch!Getn(n)
      PROVE  ChTypes' /\ Ch!Mirrors' /\ \E c \in Nat : Takes(c)
  <2>1. n \in Nat
    BY MCChannelAssumption DEF Ch!ChannelAssumption
  <2> QED BY <1>6, <2>1, GetnTakes
<1> QED BY <1>1, <1>2, <1>3, <1>4, <1>5, <1>6 DEF Ch!ReadStep

(* Nothing read ahead, nothing to compare. *)
LEMMA EmptyIsFile ==
    ASSUME ChTypes, readBuf = <<>>
    PROVE  StackIsFile /\ Ch!Tell = pos
<1>1. pos \in Nat /\ Len(readBuf) = 0 /\ Len(file) \in Nat /\ pos <= Len(file)
  BY DEF ChTypes
<1>2. ASSUME NEW j \in 1..Left PROVE Seen(j) = file[(pos - Len(readBuf)) + j]
  <2>1. j \in Nat /\ j > 0
    BY <1>1 DEF Left
  <2>2. ~(j <= 0) /\ pos + (j - 0) = (pos - 0) + j
    BY <1>1, <2>1
  <2> QED BY <1>1, <2>2 DEF Seen
<1>3. Ch!Tell = pos
  <2>1. ~(pos < 0) /\ pos - 0 = pos
    BY <1>1
  <2> QED BY <1>1, <2>1 DEF Ch!Tell
<1> QED BY <1>1, <1>2, <1>3 DEF StackIsFile

LEMMA TellInFile ==
    ASSUME ChTypes
    PROVE  Ch!Tell \in 0..Len(file) /\ Ch!Tell <= pos /\ Ch!OutAt = Ch!Tell
<1>1. PICK m : m = Len(readBuf)
  OBVIOUS
<1>2. m \in Nat /\ pos \in Nat /\ Len(file) \in Nat /\ pos <= Len(file)
  BY <1>1 DEF ChTypes
<1>3. Ch!Tell \in 0..Len(file) /\ Ch!Tell <= pos
  BY <1>1, <1>2 DEF Ch!Tell
<1>4. Ch!OutAt = Ch!Tell
  BY EmptyIsFile DEF Ch!OutAt
<1> QED BY <1>3, <1>4

(* A write takes a prefix of its characters, laid over the file from the   *)
(* position on, and leaves nothing on the stack.                           *)
LEMMA OutIsWrite ==
    ASSUME ChTypes, Ch!Mirrors, NEW n \in Nat, NEW k \in Nat, k <= n, NEW turns \in BOOLEAN,
           Ch!Out(k, turns), nextByte' = nextByte + n, took' = <<>>, era' = era
    PROVE  /\ ChTypes' /\ Ch!Mirrors' /\ readBuf' = <<>>
           /\ Bytes!Write(n, k) /\ Ch!Tell' = Ch!Tell + k
<1>1. PICK f : f = file
  OBVIOUS
<1>2. PICK p : p = Ch!Tell
  OBVIOUS
<1>3. f \in Seq(Nat) /\ p \in Nat /\ p <= Len(f) /\ Ch!OutAt = p
  BY <1>1, <1>2, TellInFile DEF ChTypes
<1>4. PICK d : d = [i \in 1..k |-> nextByte + i - 1]
  OBVIOUS
<1>5. d \in Seq(Nat) /\ Len(d) = k
  <2>1. \A i \in 1..k : nextByte + i - 1 \in Nat
    BY DEF ChTypes
  <2> QED BY <1>4, <2>1
<1>6. PICK g : g = SubSeq(f, 1, p) \o d \o SubSeq(f, p + Len(d) + 1, Len(f))
  OBVIOUS
<1>7. IsLaidOver(g, Nat, f, p, d)
  BY <1>3, <1>5, <1>6, LaidOverElements
<1>8. g \in Seq(Nat) /\ Len(g) = IF Len(f) < p + k THEN p + k ELSE Len(f)
  BY <1>5, <1>7 DEF IsLaidOver
<1>9. file' = g /\ pos' = p + k /\ readBuf' = <<>> /\ mirror' = "output"
  BY <1>1, <1>3, <1>4, <1>5, <1>6 DEF Ch!Out
<1>10. kernel' \in {"output", "neutral"}
  BY DEF Ch!Out, Ch!Mirrors
<1>11. pos' \in Nat /\ pos' <= Len(file')
  BY <1>3, <1>8, <1>9
<1>12. nextByte' \in Nat /\ era' \in Nat
  BY DEF ChTypes
<1>13. readBuf' \in Seq(Nat)
  BY <1>9
<1>14. ChTypes' /\ Ch!Mirrors'
  BY <1>8, <1>9, <1>10, <1>11, <1>12, <1>13 DEF ChTypes, Ch!Mirrors
<1>15. Ch!Tell' = p + k
  <2>1. (ChTypes /\ readBuf = <<>> => StackIsFile /\ Ch!Tell = pos)'
    BY EmptyIsFile, PTL
  <2> QED BY <1>9, <1>14, <2>1
<1>16. Bytes!Overwrite(file, Ch!Tell, Bytes!Numbered(nextByte, k)) = g
  <2>1. Bytes!Numbered(nextByte, k) = d
    BY <1>4 DEF Bytes!Numbered
  <2> QED BY <1>1, <1>2, <1>6, <2>1 DEF Bytes!Overwrite
<1>17. Bytes!Write(n, k)
  BY <1>2, <1>9, <1>15, <1>16 DEF Bytes!Write
<1> QED BY <1>2, <1>9, <1>14, <1>15, <1>17

(* What an honest caller puts back is what the file has there. *)
LEMMA PutBackIsSeek ==
    ASSUME ChInv, honest' = honest, NEW ch \in Ch!PutBacks, Ch!Putbackc(ch)
    PROVE  ChInv' /\ (honest => Bytes!Seek)
<1>1. PICK m : m = Len(readBuf)
  OBVIOUS
<1>2. PICK p : p = pos
  OBVIOUS
<1>3. PICK l : l = Len(file)
  OBVIOUS
<1>4. /\ ChTypes /\ Ch!Mirrors /\ m \in Nat /\ p \in Nat /\ l \in Nat /\ p <= l
      /\ readBuf \in Seq(Nat) /\ file \in Seq(Nat)
  BY <1>1, <1>2, <1>3 DEF ChInv, ChTypes
<1>5. /\ Ch!Read(0, FALSE) /\ readBuf' = Append(readBuf, ch) /\ took' = <<>>
  BY DEF Ch!Putbackc, Ch!Result
<1>6. ch \in Nat /\ (honest => m < p /\ ch = file[p - m])
  <2>1. ASSUME Ch!Tell > 0, p >= m PROVE m < p /\ Ch!Tell = p - m /\ file[Ch!Tell] \in Nat
    <3>1. m < p /\ Ch!Tell = p - m
      BY <1>1, <1>2, <1>4, <2>1 DEF Ch!Tell
    <3>2. p - m \in 1..l
      BY <1>4, <3>1
    <3> QED BY <1>3, <1>4, <3>1, <3>2
  <2>2. Foreign \subseteq Nat
    BY MCChannelAssumption DEF Ch!ChannelAssumption
  <2>3. CASE ~honest /\ ch \in Foreign
    BY <2>2, <2>3
  <2>4. CASE Ch!Tell > 0 /\ p >= m /\ ch = file[Ch!Tell]
    BY <2>1, <2>4
  <2> QED BY <1>1, <1>2, <2>3, <2>4 DEF Ch!PutBacks
<1>7. PICK s : s = readBuf'
  OBVIOUS
<1>8. s \in Seq(Nat) /\ Len(s) = m + 1 /\ s[m + 1] = ch /\ \A i \in 1..m : s[i] = readBuf[i]
  BY <1>1, <1>4, <1>5, <1>6, <1>7
<1>9. /\ ChTypes' /\ Ch!Mirrors'
      /\ file' = file /\ nextByte' = nextByte /\ era' = era /\ pos' = p
  <2>1. pos + 0 <= Len(file) /\ 0 \in Nat /\ FALSE \in BOOLEAN /\ pos + 0 = p
    BY <1>2, <1>3, <1>4
  <2>2. readBuf' \in Seq(Nat)
    BY <1>7, <1>8
  <2>3. /\ ChTypes' /\ Ch!Mirrors'
        /\ file' = file /\ nextByte' = nextByte /\ era' = era /\ pos' = pos + 0
    BY <1>4, <1>5, <2>1, <2>2, ReadTypes
  <2> QED BY <2>1, <2>3
<1>10. ASSUME honest PROVE StackIsFile'
  <2>1. m + 1 <= p /\ ch = file[p - m]
    BY <1>4, <1>6, <1>10
  <2>2. Left = m + (l - p) /\ Left' = (m + 1) + (l - p)
    BY <1>1, <1>2, <1>3, <1>7, <1>8, <1>9 DEF Left
  <2>3. ASSUME NEW j \in 1..Left' PROVE Seen(j)' = file[(p - (m + 1)) + j]
    <3>1. j \in Nat /\ 1 <= j /\ j <= (m + 1) + (l - p)
      BY <1>4, <2>2
    <3>2. /\ j <= m + 1 => Seen(j)' = s[((m + 1) - j) + 1]
          /\ ~(j <= m + 1) => Seen(j)' = file[p + (j - (m + 1))]
      BY <1>7, <1>8, <1>9 DEF Seen
    <3>3. CASE j = 1
      <4>1. ((m + 1) - j) + 1 = m + 1 /\ (p - (m + 1)) + j = p - m /\ j <= m + 1
        BY <1>4, <3>3
      <4> QED BY <1>8, <2>1, <3>2, <4>1
    <3>4. CASE 1 < j
      <4>1. PICK i : i = j - 1
        OBVIOUS
      <4>2. i \in 1..Left /\ i \in Nat /\ 1 <= i /\ (p - (m + 1)) + j = (p - m) + i
        BY <1>4, <2>2, <3>1, <3>4, <4>1
      <4>3. Seen(i) = file[(p - m) + i]
        BY <1>1, <1>2, <1>10, <4>2 DEF ChInv, StackIsFile
      <4>4. CASE j <= m + 1
        <5>1. PICK e : e = (m - i) + 1
          OBVIOUS
        <5>2. i <= m /\ e = ((m + 1) - j) + 1 /\ e \in 1..m
          BY <1>4, <4>1, <4>2, <4>4, <3>1, <5>1
        <5>3. Seen(i) = readBuf[e]
          BY <1>1, <5>1, <5>2 DEF Seen
        <5>4. s[e] = readBuf[e]
          BY <1>8, <5>2
        <5> QED BY <3>2, <4>2, <4>3, <4>4, <5>2, <5>3, <5>4
      <4>5. CASE ~(j <= m + 1)
        <5>1. ~(i <= m) /\ p + (i - m) = p + (j - (m + 1))
          BY <1>4, <3>1, <4>1, <4>5
        <5>2. Seen(i) = file[p + (i - m)]
          BY <1>1, <1>2, <5>1 DEF Seen
        <5> QED BY <3>2, <4>2, <4>3, <4>5, <5>1, <5>2
      <4> QED BY <4>4, <4>5
    <3> QED BY <3>1, <3>3, <3>4
  <2> QED BY <1>7, <1>8, <1>9, <2>1, <2>3 DEF StackIsFile
<1>11. StackIsFile'
  BY <1>10 DEF StackIsFile
<1>12. ASSUME honest PROVE Bytes!Seek
  <2>1. (ChTypes => Ch!Tell \in 0..Len(file) /\ Ch!Tell <= pos /\ Ch!OutAt = Ch!Tell)'
    BY TellInFile, PTL
  <2>2. Ch!Tell' \in 0..Len(file)
    BY <1>9, <2>1
  <2> QED BY <1>5, <1>9, <2>2 DEF Bytes!Seek
<1> QED BY <1>9, <1>11, <1>12 DEF ChInv

(* A throwing call that moved nothing has not moved the position. *)
StaysWhenThrown ==
    chThrew' /\ era' = era /\ took' = <<>> /\ file' = file =>
        nextByte' # nextByte \/ Ch!Tell' = Ch!Tell

(* What a step of the channel is for those who do not see the stack. *)
StepKeeps ==
    ChInv' /\ StaysWhenThrown
    /\ (honest => Bytes!Next \/ UNCHANGED <<file, Ch!Tell, nextByte, took, era>>)

LEMMA ReadKeeps ==
    ASSUME ChInv, honest' = honest, Ch!ReadStep
    PROVE  StepKeeps
<1>1. ChTypes /\ Ch!Mirrors /\ StackIsFile
  BY DEF ChInv
<1>2. ChTypes' /\ Ch!Mirrors' /\ \E c \in Nat : Takes(c)
  BY <1>1, ReadTakes
<1>3. PICK c \in Nat : Takes(c)
  BY <1>2
<1>4. took' = <<>> => Ch!Tell' = Ch!Tell
  BY <1>1, <1>2, <1>3, TakesKeepsTell
<1>5. honest => StackIsFile' /\ Bytes!Next
  BY <1>1, <1>2, <1>3, TakesIsRead
<1>6. ~honest => StackIsFile'
  BY DEF StackIsFile
<1> QED BY <1>2, <1>4, <1>5, <1>6 DEF StepKeeps, StaysWhenThrown, ChInv

(* A call that fails before it has done anything. *)
LEMMA NothingKeeps ==
    ASSUME ChInv, honest' = honest, file' = file, pos' = pos, kernel' = kernel, mirror' = mirror,
           readBuf' = readBuf, nextByte' = nextByte, took' = <<>>, era' = era
    PROVE  StepKeeps
<1>1. ChInv'
  BY DEF ChInv, ChTypes, Ch!Mirrors, StackIsFile, Seen, Left
<1>2. Ch!Tell' = Ch!Tell
  BY DEF Ch!Tell
<1>3. Ch!Tell' \in 0..Len(file)
  BY <1>2, TellInFile DEF ChInv
<1>4. Bytes!Next
  BY <1>3 DEF Bytes!Next, Bytes!Seek
<1> QED BY <1>1, <1>2, <1>4 DEF StepKeeps, StaysWhenThrown

(* A seek, whoever makes it, gives up the stack. *)
LEMMA SeekKeeps ==
    ASSUME ChInv, honest' = honest, file' = file, pos' \in 0..Len(file), kernel' = kernel,
           mirror' = mirror, readBuf' = <<>>, nextByte' = nextByte, took' = <<>>, era' = era,
           ~chThrew' \/ pos' = Ch!Tell
    PROVE  StepKeeps
<1>1. ChTypes'
  <2>1. pos' \in Nat /\ pos' <= Len(file') /\ readBuf' \in Seq(Nat)
    BY DEF ChInv, ChTypes
  <2> QED BY <2>1 DEF ChInv, ChTypes
<1>2. Ch!Mirrors'
  BY DEF ChInv, Ch!Mirrors
<1>3. StackIsFile' /\ Ch!Tell' = pos'
  <2>1. (ChTypes /\ readBuf = <<>> => StackIsFile /\ Ch!Tell = pos)'
    BY EmptyIsFile, PTL
  <2> QED BY <1>1, <2>1
<1>4. Bytes!Next
  BY <1>3 DEF Bytes!Next, Bytes!Seek
<1> QED BY <1>1, <1>2, <1>3, <1>4 DEF StepKeeps, StaysWhenThrown, ChInv

LEMMA AttachKeeps ==
    ASSUME ChInv, honest' = honest, NEW f \in Contents, Ch!Attach(f)
    PROVE  StepKeeps
<1>1. f \in Seq(Nat)
  BY MCChannelAssumption DEF Ch!ChannelAssumption
<1>2. /\ file' = f /\ pos' = 0 /\ readBuf' = <<>> /\ nextByte' = nextByte /\ era' = era + 1
      /\ took' = <<>>
  BY DEF Ch!Attach, Ch!Result
<1>3. /\ kernel' \in {mirror', "neutral"} /\ mirror' \in {"input", "output"}
  BY DEF Ch!Attach, Ch!Start, ChInv, ChTypes
<1>4. ChTypes'
  <2>1. era' \in Nat /\ pos' <= Len(file') /\ readBuf' \in Seq(Nat) /\ nextByte' \in Nat
    BY <1>1, <1>2 DEF ChInv, ChTypes
  <2> QED BY <1>1, <1>2, <1>3, <2>1 DEF ChTypes
<1>5. Ch!Mirrors'
  BY <1>2, <1>3 DEF Ch!Mirrors
<1>6. StackIsFile' /\ Ch!Tell' = pos'
  <2>1. (ChTypes /\ readBuf = <<>> => StackIsFile /\ Ch!Tell = pos)'
    BY EmptyIsFile, PTL
  <2> QED BY <1>2, <1>4, <2>1
<1>7. Bytes!Next
  <2>1. 0 \in 0..Len(f)
    BY <1>1
  <2> QED BY <1>1, <1>2, <1>6, <2>1 DEF Bytes!Next, Bytes!Replace
<1>8. era' # era
  BY <1>2 DEF ChInv, ChTypes
<1> QED BY <1>4, <1>5, <1>6, <1>7, <1>8 DEF StepKeeps, StaysWhenThrown, ChInv

LEMMA OutKeeps ==
    ASSUME ChInv, honest' = honest, NEW n \in 0..2, NEW k \in 0..n, NEW turns \in BOOLEAN,
           Ch!Out(k, turns), nextByte' = nextByte + n, took' = <<>>, era' = era
    PROVE  StepKeeps
<1>1. n \in Nat /\ k \in Nat /\ k <= n
  OBVIOUS
<1>2. ChTypes /\ Ch!Mirrors
  BY DEF ChInv
<1>3. ChTypes' /\ Ch!Mirrors' /\ readBuf' = <<>> /\ Bytes!Write(n, k) /\ Ch!Tell' = Ch!Tell + k
  BY <1>1, <1>2, OutIsWrite
<1>4. StackIsFile'
  <2>1. (ChTypes /\ readBuf = <<>> => StackIsFile /\ Ch!Tell = pos)'
    BY EmptyIsFile, PTL
  <2> QED BY <1>3, <2>1
<1>5. Bytes!Next
  BY <1>3 DEF Bytes!Next
<1>6. nextByte' # nextByte \/ Ch!Tell' = Ch!Tell
  <2>1. CASE n = 0
    <3>1. k = 0 /\ Ch!Tell \in Nat
      BY <1>1, <1>2, <2>1, TellInFile
    <3> QED BY <1>3, <3>1
  <2>2. CASE n # 0
    BY <1>1, <1>2, <2>2 DEF ChTypes
  <2> QED BY <2>1, <2>2
<1> QED BY <1>3, <1>4, <1>5, <1>6 DEF StepKeeps, StaysWhenThrown, ChInv

LEMMA ChannelStep ==
    ASSUME ChInv, Ch!Next
    PROVE  StepKeeps
<1>0. honest' = honest
  BY DEF Ch!Next
<1>1. CASE Ch!ReadStep
  BY <1>0, <1>1, ReadKeeps
<1>2. ASSUME NEW ch \in Ch!PutBacks, Ch!Putbackc(ch)
      PROVE  StepKeeps
  <2>1. ChInv' /\ (honest => Bytes!Seek)
    BY <1>0, <1>2, PutBackIsSeek
  <2>2. ~chThrew'
    BY <1>2 DEF Ch!Putbackc, Ch!Result
  <2> QED BY <2>1, <2>2 DEF StepKeeps, StaysWhenThrown, Bytes!Next
<1>3. CASE Ch!OutSeekFails \/ Ch!SeekFails
  <2>1. /\ file' = file /\ pos' = pos /\ kernel' = kernel /\ mirror' = mirror
        /\ readBuf' = readBuf /\ nextByte' = nextByte /\ took' = <<>> /\ era' = era
    BY <1>3 DEF Ch!OutSeekFails, Ch!SeekFails, Ch!Quiet, Ch!Result, Ch!cvt
  <2> QED BY <1>0, <2>1, NothingKeeps
<1>4. CASE Ch!OutTurnFails
  <2>1. /\ file' = file /\ pos' = Ch!Tell /\ kernel' = kernel /\ mirror' = mirror
        /\ readBuf' = <<>> /\ nextByte' = nextByte /\ took' = <<>> /\ era' = era
    BY <1>4 DEF Ch!OutTurnFails, Ch!Quiet, Ch!Result
  <2>2. pos' \in 0..Len(file)
    BY <2>1, TellInFile DEF ChInv
  <2> QED BY <1>0, <2>1, <2>2, SeekKeeps
<1>5. ASSUME NEW n \in 1..2, Ch!Putn(n)
      PROVE  StepKeeps
  <2>1. PICK k \in 0..n : Ch!Out(k, TRUE) /\ took' = <<>> /\ era' = era /\ nextByte' = nextByte + n
    BY <1>5 DEF Ch!Putn, Ch!Quiet, Ch!Result
  <2>2. n \in 0..2 /\ TRUE \in BOOLEAN
    OBVIOUS
  <2> QED BY <1>0, <2>1, <2>2, OutKeeps
<1>6. CASE Ch!Flush
  <2>1. Ch!Out(0, FALSE) /\ took' = <<>> /\ era' = era /\ nextByte' = nextByte
    BY <1>6 DEF Ch!Flush, Ch!Quiet, Ch!Result
  <2>2. nextByte' = nextByte + 0 /\ 0 \in 0..2 /\ 0 \in 0..0 /\ FALSE \in BOOLEAN
    BY <2>1 DEF ChInv, ChTypes
  <2> QED BY <1>0, <2>1, <2>2, OutKeeps
<1>7. CASE Ch!Seek
  <2>1. /\ file' = file /\ pos' \in 0..Len(file) /\ kernel' = kernel /\ mirror' = mirror
        /\ readBuf' = <<>> /\ nextByte' = nextByte /\ took' = <<>> /\ era' = era /\ ~chThrew'
    BY <1>7 DEF Ch!Seek, Ch!Quiet, Ch!Result
  <2> QED BY <1>0, <2>1, SeekKeeps
<1>8. ASSUME NEW f \in Contents, Ch!Attach(f)
      PROVE  StepKeeps
  BY <1>0, <1>8, AttachKeeps
<1> QED BY <1>1, <1>2, <1>3, <1>4, <1>5, <1>6, <1>7, <1>8 DEF Ch!Next

LEMMA ChannelReadStep ==
    ASSUME ChInv, Ch!ReadStep
    PROVE  /\ Ch!View = took' \o Ch!View'
           /\ peeked' # NoChar => Ch!View' # <<>> /\ peeked' = Head(Ch!View')
<1>1. ChTypes /\ Ch!Mirrors
  BY DEF ChInv
<1>2. ChTypes' /\ \E c \in Nat : Takes(c)
  BY <1>1, ReadTakes
<1> QED BY <1>1, <1>2, TakenFromView

LEMMA ChannelInit == MCInit => ChInv /\ (honest => Bytes!Init)
<1> SUFFICES ASSUME MCInit PROVE ChInv /\ (honest => Bytes!Init)
  OBVIOUS
<1>1. /\ file \in Seq(Nat) /\ pos = 0 /\ kernel = mirror /\ mirror \in {"input", "output"}
      /\ readBuf = <<>> /\ nextByte = 1 /\ took = <<>> /\ era = 0
  BY MCChannelAssumption DEF MCInit, Ch!Init, Ch!Start, Ch!ChannelAssumption
<1>2. ChTypes
  <2>1. pos \in Nat /\ pos <= Len(file) /\ readBuf \in Seq(Nat) /\ nextByte \in Nat /\ era \in Nat
    BY <1>1
  <2> QED BY <1>1, <2>1 DEF ChTypes
<1>3. Ch!Mirrors /\ StackIsFile
  BY <1>1, <1>2, EmptyIsFile DEF Ch!Mirrors
<1>4. Bytes!Init
  BY <1>1, <1>2, TellInFile DEF Bytes!Init
<1> QED BY <1>2, <1>3, <1>4 DEF ChInv

LEMMA ChannelInvariant == MCSpec => []ChInv
<1>1. ChInv /\ [MCNext]_<<part, vars, input, channel>> => ChInv'
  <2> SUFFICES ASSUME ChInv, [MCNext]_<<part, vars, input, channel>> PROVE ChInv'
    OBVIOUS
  <2>1. CASE Ch!Next
    BY <2>1, ChannelStep DEF StepKeeps
  <2>2. CASE UNCHANGED channel
    BY <2>2 DEF channel, ChInv, ChTypes, Ch!Mirrors, StackIsFile, Seen, Left
  <2> QED BY <2>1, <2>2 DEF MCNext
<1>2. MCInit => ChInv
  BY ChannelInit
<1> QED BY <1>1, <1>2, PTL DEF MCSpec

(* No read of the channel, whatever it returns or throws, loses a character *)
(* or yields one twice; and a call that throws moves nothing it has not    *)
(* reported.                                                               *)
THEOREM ReadsKeepTheirPlace == MCSpec => PlaceKept
<1>1. ChInv /\ [MCNext]_<<part, vars, input, channel>> => [Ch!KeepsPlace]_channel
  <2> SUFFICES ASSUME ChInv, [MCNext]_<<part, vars, input, channel>>, ~UNCHANGED channel
               PROVE  Ch!KeepsPlace
    OBVIOUS
  <2>1. Ch!Next
    BY DEF MCNext
  <2>2. StaysWhenThrown
    BY <2>1, ChannelStep DEF StepKeeps
  <2> QED BY <2>2, ChannelReadStep DEF Ch!KeepsPlace, StaysWhenThrown
<1>2. ChInv => Ch!Mirrors
  BY DEF ChInv
<1> QED BY <1>1, <1>2, ChannelInvariant, PTL DEF MCSpec, PlaceKept

(* For a caller who puts back only what was read, the stack is invisible:  *)
(* every call is one of a file with a position.                            *)
THEOREM StackIsInvisible == MCSpec => ChannelIsAFile
<1>1. ChInv /\ [MCNext]_<<part, vars, input, channel>> =>
        [honest => Bytes!Next \/ UNCHANGED <<file, Ch!Tell, nextByte, took, era>>]_channel
  <2> SUFFICES ASSUME ChInv, [MCNext]_<<part, vars, input, channel>>, ~UNCHANGED channel, honest
               PROVE  Bytes!Next \/ UNCHANGED <<file, Ch!Tell, nextByte, took, era>>
    OBVIOUS
  <2>1. Ch!Next
    BY DEF MCNext
  <2> QED BY <2>1, ChannelStep DEF StepKeeps
<1>2. MCInit => (honest => Bytes!Init)
  BY ChannelInit
<1> QED BY <1>1, <1>2, ChannelInvariant, PTL DEF MCSpec, ChannelIsAFile
-----------------------------------------------------------------------------
(* What operations take from the channel.                                  *)

InpTypes ==
    /\ due \in Seq(In!Chars) /\ shown \in 0..Len(due)
    /\ eof \in BOOLEAN /\ failed \in BOOLEAN /\ width \in Nat

LEMMA MinIsLeast ==
  ASSUME NEW T \in SUBSET Nat, T # {}
  PROVE  In!Min(T) \in T /\ \A y \in T : In!Min(T) <= y
<1>1. \E x \in T : \A y \in T : x <= y
  BY LeastElement
<1>2. QED  BY <1>1 DEF In!Min

LEMMA MinOfTwo ==
  ASSUME NEW x \in Nat, NEW y \in Nat
  PROVE  In!Min({x, y}) = IF x <= y THEN x ELSE y
<1>1. In!Min({x, y}) \in {x, y} /\ \A z \in {x, y} : In!Min({x, y}) <= z
  <2>1. {x, y} \in SUBSET Nat /\ {x, y} # {}
    OBVIOUS
  <2>2. QED  BY <2>1, MinIsLeast
<1>2. PICK m : m = In!Min({x, y})
  OBVIOUS
<1>3. m \in {x, y} /\ m <= x /\ m <= y
  BY <1>1, <1>2
<1>4. m = IF x <= y THEN x ELSE y
  BY <1>3
<1>5. QED  BY <1>2, <1>4

LEMMA MinOfThree ==
  ASSUME NEW x \in Nat, NEW y \in Nat, NEW z \in Nat
  PROVE  /\ In!Min({x, y, z}) \in {x, y, z}
         /\ In!Min({x, y, z}) <= x /\ In!Min({x, y, z}) <= y /\ In!Min({x, y, z}) <= z
<1>1. {x, y, z} \in SUBSET Nat /\ {x, y, z} # {}
  OBVIOUS
<1>2. QED  BY <1>1, MinIsLeast

LEMMA MaxOfThree ==
  ASSUME NEW x \in Nat, NEW y \in Nat, NEW z \in Nat
  PROVE  /\ In!Max({x, y, z}) \in {x, y, z}
         /\ x <= In!Max({x, y, z}) /\ y <= In!Max({x, y, z}) /\ z <= In!Max({x, y, z})
<1>1. \E m \in {x, y, z} : \A w \in {x, y, z} : m >= w
  <2>1. CASE x >= y /\ x >= z
    BY <2>1
  <2>2. CASE y >= x /\ y >= z
    BY <2>2
  <2>3. CASE z >= x /\ z >= y
    BY <2>3
  <2>4. QED  BY <2>1, <2>2, <2>3
<1>2. PICK m : m = In!Max({x, y, z})
  OBVIOUS
<1>3. m \in {x, y, z} /\ \A w \in {x, y, z} : m >= w
  BY <1>1, <1>2 DEF In!Max
<1>4. m \in {x, y, z} /\ x <= m /\ y <= m /\ z <= m
  BY <1>3
<1>5. QED  BY <1>2, <1>4

LEMMA MaxOfTwo ==
  ASSUME NEW x \in Nat, NEW y \in Nat
  PROVE  In!Max({x, y}) = IF x <= y THEN y ELSE x
<1>1. \E m \in {x, y} : \A w \in {x, y} : m >= w
  <2>1. CASE x >= y
    BY <2>1
  <2>2. CASE y >= x
    BY <2>2
  <2>3. QED  BY <2>1, <2>2
<1>2. PICK m : m = In!Max({x, y})
  OBVIOUS
<1>3. m \in {x, y} /\ \A w \in {x, y} : m >= w
  BY <1>1, <1>2 DEF In!Max
<1>4. m = IF x <= y THEN y ELSE x
  BY <1>3
<1>5. QED  BY <1>2, <1>4

(* Find is the place of the first one, or the end. *)
LEMMA FindIsFirst ==
  ASSUME due \in Seq(In!Chars), NEW i \in 0..Len(due), NEW T
  PROVE  /\ In!Find(i, T) \in (i + 1)..(Len(due) + 1)
         /\ In!Find(i, T) <= Len(due) => due[In!Find(i, T)] \in T
         /\ \A j \in (i + 1)..(In!Find(i, T) - 1) : due[j] \notin T
<1>1. PICK l \in Nat : l = Len(due)
  OBVIOUS
<1>2. PICK U : U = {j \in (i + 1)..l : due[j] \in T} \cup {l + 1}
  OBVIOUS
<1>3. U \in SUBSET Nat /\ U # {}
  BY <1>1, <1>2
<1>4. PICK m : m = In!Find(i, T)
  OBVIOUS
<1>5. m = In!Min(U)
  BY <1>1, <1>2, <1>4 DEF In!Find, In!End
<1>6. m \in U /\ \A y \in U : m <= y
  BY <1>3, <1>5, MinIsLeast
<1>7. m \in (i + 1)..(l + 1) /\ (m <= l => due[m] \in T)
  BY <1>1, <1>2, <1>6
<1>8. ASSUME NEW j \in (i + 1)..(m - 1), due[j] \in T PROVE FALSE
  <2>1. j \in (i + 1)..l /\ ~(m <= j)
    BY <1>1, <1>7, <1>8
  <2>2. j \in U
    BY <1>2, <1>8, <2>1
  <2>3. QED  BY <1>6, <2>1, <2>2
<1>9. QED  BY <1>1, <1>4, <1>7, <1>8

(* What an operation means to do: it drops s characters, hands over k and  *)
(* consumes n, looks as far as upTo, and reports the end or a failure.     *)
Ends(name, k, n, upTo, fails) ==
    upTo > n =>
        /\ upTo = n + 1
        /\ \/ name \in {"peek", "ws"} \/ upTo = Len(due) + 1
           \/ name \in {"upTo", "ignoreTo"} /\ due[upTo] = "d"
           \/ name = "word" /\ (due[upTo] \in In!Spaces \/ (k = 0 /\ fails))
           \/ name = "line" /\ fails

Tells(name, n, upTo, ends, fails) ==
    /\ ends \in BOOLEAN /\ fails \in BOOLEAN
    /\ ends => upTo = Len(due) + 1
    /\ name # "line" /\ upTo = Len(due) + 1 => ends
    /\ name \in {"upTo", "line", "word"} /\ ~fails => n > 0
    /\ name \in {"peek", "ws", "ignore", "ignoreTo"} => ~fails

Parts(name, s, k, n) ==
    /\ s \in Nat /\ k \in Nat /\ n \in Nat /\ s + k <= n /\ n <= Len(due)
    /\ name \notin {"ignore", "ignoreTo"} => \A i \in 1..s : due[i] \in In!Spaces
    /\ n = s + k \/ (n = s + k + 1 /\ due[n] = "d")

Reads(name) == name # ""

MeansTo(name, s, k, n, upTo, ends, fails) ==
    /\ Reads(name) /\ Parts(name, s, k, n)
    /\ upTo \in 0..(Len(due) + 1)
    /\ Ends(name, k, n, upTo, fails) /\ Tells(name, n, upTo, ends, fails)

(* The characters of an operation are the first of those that were due. *)
LEMMA ConsumesThese ==
  ASSUME InpTypes, NEW name, NEW s, NEW k, NEW n, NEW upTo \in 0..(Len(due) + 1),
         Parts(name, s, k, n), In!Consumes(name, s, k, n, upTo)
  PROVE  /\ due' \in Seq(In!Chars) /\ Len(due') = Len(due) - n
         /\ shown' \in 0..Len(due')
         /\ due = skipped' \o got' \o delim' \o due'
         /\ name \notin {"ignore", "ignoreTo"} =>
               \A i \in DOMAIN skipped' : skipped'[i] \in In!Spaces
         /\ delim' \in {<<>>, <<"d">>}
         /\ Len(got') = k
<1>1. PICK l \in Nat : l = Len(due)
  BY DEF InpTypes
<1>2. /\ s \in Nat /\ k \in Nat /\ n \in Nat /\ s + k <= n /\ n <= l /\ s <= s + k
      /\ s + k \in Nat /\ s + k <= l /\ s <= l
  BY <1>1 DEF Parts
<1>3. due \in Seq(In!Chars)
  BY DEF InpTypes
<1>4. PICK x : x = SubSeq(due, 1, s)
  OBVIOUS
<1>5. PICK y : y = SubSeq(due, s + 1, s + k)
  OBVIOUS
<1>6. PICK z : z = SubSeq(due, s + k + 1, n)
  OBVIOUS
<1>7. PICK w : w = SubSeq(due, n + 1, l)
  OBVIOUS
<1>8. /\ skipped' = x /\ got' = y /\ delim' = z /\ due' = w
      /\ shown' = In!Max({In!Min({upTo, l}), shown, n}) - n
  BY <1>1, <1>4, <1>5, <1>6, <1>7 DEF In!Consumes
<1>9. x \in Seq(In!Chars) /\ Len(x) = s /\ \A i \in 1..s : x[i] = due[i]
  BY <1>1, <1>2, <1>3, <1>4, PrefixElements
<1>10. y \in Seq(In!Chars) /\ Len(y) = k
  <2>1. y \in Seq(In!Chars) /\ Len(y) = (s + k) - s
    BY <1>1, <1>2, <1>3, <1>5, PieceElements
  <2>2. QED  BY <1>2, <2>1
<1>11. z \in Seq(In!Chars) /\ Len(z) = n - (s + k) /\ \A i \in 1..(n - (s + k)) : z[i] = due[(s + k) + i]
  BY <1>1, <1>2, <1>3, <1>6, PieceElements
<1>12. w \in Seq(In!Chars) /\ Len(w) = l - n
  BY <1>1, <1>2, <1>3, <1>7, SuffixElements
<1>13. x \o y \o z \o w = due
  <2>1. x \o y = SubSeq(due, 1, s + k)
    <3>1. s + k <= Len(due) /\ s <= s + k
      BY <1>1, <1>2
    <3>2. SubSeq(due, 1, s) \o SubSeq(due, s + 1, s + k) = SubSeq(due, 1, s + k)
      BY ONLY <1>2, <1>3, <3>1, PrefixAndPiece
    <3>3. QED  BY ONLY <1>4, <1>5, <3>2
  <2>2. SubSeq(due, 1, s + k) \o z = SubSeq(due, 1, n)
    <3>1. n <= Len(due) /\ s + k <= n
      BY <1>1, <1>2
    <3>2. SubSeq(due, 1, s + k) \o SubSeq(due, (s + k) + 1, n) = SubSeq(due, 1, n)
      BY ONLY <1>2, <1>3, <3>1, PrefixAndPiece
    <3>3. QED  BY ONLY <1>6, <3>2
  <2>3. SubSeq(due, 1, n) \o w = SubSeq(due, 1, l)
    <3>1. l <= Len(due) /\ n <= l
      BY <1>1, <1>2
    <3>2. SubSeq(due, 1, n) \o SubSeq(due, n + 1, l) = SubSeq(due, 1, l)
      BY ONLY <1>2, <1>3, <3>1, l \in Nat, PrefixAndPiece
    <3>3. QED  BY ONLY <1>7, <3>2
  <2>4. SubSeq(due, 1, l) = due
    BY <1>1, <1>3, WholePiece
  <2>5. QED  BY ONLY <2>1, <2>2, <2>3, <2>4
<1>14. w \in Seq(In!Chars) /\ Len(w) = Len(due) - n
  BY <1>1, <1>12
<1>15. shown' \in 0..Len(w)
  <2>1. PICK v : v = In!Min({upTo, l})
    OBVIOUS
  <2>2. v \in Nat /\ v <= l
    <3>1. upTo \in Nat
      BY <1>1
    <3>2. v = IF upTo <= l THEN upTo ELSE l
      BY <2>1, <3>1, MinOfTwo
    <3>3. QED  BY <3>1, <3>2
  <2>3. shown \in Nat /\ shown <= l
    BY <1>1 DEF InpTypes
  <2>4. PICK u : u = In!Max({v, shown, n})
    OBVIOUS
  <2>5. u \in {v, shown, n} /\ n <= u
    BY <1>2, <2>2, <2>3, <2>4, MaxOfThree
  <2>6. u \in Nat /\ u <= l /\ u - n \in 0..(l - n)
    BY ONLY <1>2, <2>2, <2>3, <2>5, l \in Nat
  <2>7. QED  BY <1>8, <1>12, <2>1, <2>4, <2>6
<1>16. name \notin {"ignore", "ignoreTo"} => \A i \in DOMAIN x : x[i] \in In!Spaces
  <2>1. DOMAIN x = 1..s
    BY <1>9
  <2>2. QED  BY <1>9, <2>1 DEF Parts
<1>17. z \in {<<>>, <<"d">>}
  <2>1. CASE n = s + k
    <3>1. Len(z) = 0
      BY <1>2, <1>11, <2>1
    <3>2. QED  BY <1>11, <3>1
  <2>2. CASE n = s + k + 1 /\ due[n] = "d"
    <3>1. Len(z) = 1 /\ z[1] = "d"
      BY <1>2, <1>11, <2>2
    <3>2. PICK e : e = "d"
      OBVIOUS
    <3>3. z \in Seq(In!Chars) /\ Len(z) = 1 /\ z[1] = e
      BY <1>11, <3>1, <3>2
    <3>4. z = <<e>>
      BY ONLY <3>3
    <3>5. QED  BY <3>2, <3>4
  <2>3. QED  BY <2>1, <2>2 DEF Parts
<1>18. QED  BY <1>8, <1>10, <1>13, <1>14, <1>15, <1>16, <1>17

(* A read that does what it means to keeps to the three properties, and so *)
(* does one that is cut short.                                             *)
InpKeeps ==
    InpTypes' /\ In!LosesNothing /\ In!LooksNoFurther /\ In!TellsTheEnd

LEMMA PerformsKeeps ==
  ASSUME InpTypes, In!Good, NEW name, NEW s, NEW k, NEW n, NEW upTo,
         NEW ends, NEW fails, MeansTo(name, s, k, n, upTo, ends, fails),
         In!Performs(name, s, k, n, upTo, ends, fails), width' \in Nat
  PROVE  InpKeeps
<1>1. PICK l \in Nat : l = Len(due)
  BY DEF InpTypes
<1>2. /\ s \in Nat /\ k \in Nat /\ n \in Nat /\ s + k <= n /\ n <= l
      /\ upTo \in 0..(l + 1) /\ Reads(name)
      /\ ends \in BOOLEAN /\ fails \in BOOLEAN
  BY <1>1 DEF MeansTo, Parts, Tells
<1>3. ~eof /\ ~failed
  BY DEF In!Good
<1>4. CASE In!Consumes(name, s, k, n, upTo) /\ In!Reports(ends, fails, FALSE)
  <2>1. /\ due' \in Seq(In!Chars) /\ Len(due') = l - n
        /\ shown' \in 0..Len(due')
        /\ due = skipped' \o got' \o delim' \o due'
        /\ name \notin {"ignore", "ignoreTo"} =>
              \A i \in DOMAIN skipped' : skipped'[i] \in In!Spaces
        /\ delim' \in {<<>>, <<"d">>}
        /\ Len(got') = k
    BY <1>1, <1>4, ConsumesThese DEF MeansTo
  <2>2. op' = name /\ asked' = upTo
    BY <1>4 DEF In!Consumes
  <2>3. (eof' <=> ends) /\ (failed' <=> fails) /\ ~threw'
    <3>1. (eof' <=> eof \/ ends) /\ (failed' <=> failed \/ fails) /\ ~threw'
      BY <1>4 DEF In!Reports
    <3>2. QED  BY ONLY <1>3, <3>1, Zenon
  <2>4. eof' \in BOOLEAN /\ failed' \in BOOLEAN
    BY <1>4 DEF In!Reports
  <2>5. InpTypes'
    BY <2>1, <2>4 DEF InpTypes
  <2>6. In!LosesNothing
    BY <2>1, <2>2 DEF In!LosesNothing
  <2>7. In!LooksNoFurther
    <3>1. PICK used : used = Len(due) - Len(due')
      OBVIOUS
    <3>2. used = n
      <4>1. used = l - (l - n)
        BY <1>1, <2>1, <3>1
      <4>2. QED  BY <1>2, <4>1
    <3>3. k = 0 => got' = <<>>
      BY <2>1 DEF In!Consumes
    <3>4. PICK ahead : ahead = IF upTo = l + 1 THEN "end" ELSE due[upTo]
      OBVIOUS
    <3>5. ASSUME upTo > n
          PROVE  /\ upTo = n + 1
                 /\ \/ name \in {"peek", "ws"} \/ ahead = "end"
                    \/ name \in {"upTo", "ignoreTo"} /\ ahead = "d"
                    \/ name = "word" /\ (ahead \in In!Spaces \/ (got' = <<>> /\ fails))
                    \/ name = "line" /\ fails
      <4>1. CASE upTo = l + 1
        BY <1>1, <3>4, <3>5, <4>1 DEF MeansTo, Ends
      <4>2. CASE upTo # l + 1
        <5>1. ahead = due[upTo]
          BY <3>4, <4>2
        <5>2. QED  BY <1>1, <3>3, <3>5, <4>2, <5>1 DEF MeansTo, Ends
      <4>3. QED  BY <4>1, <4>2
    <3>6. QED  BY <1>1, <2>2, <2>3, <3>1, <3>2, <3>4, <3>5 DEF In!LooksNoFurther
  <2>8. In!TellsTheEnd
    <3>1. n > 0 => due' # due
      BY <1>1, <1>2, <2>1
    <3>2. Tells(name, n, upTo, ends, fails)
      BY DEF MeansTo
    <3>3. /\ eof' => asked' = Len(due) + 1
          /\ op' # "line" /\ asked' = Len(due) + 1 => eof'
          /\ op' \in {"upTo", "line", "word"} /\ ~failed' => due' # due
      BY ONLY <2>2, <2>3, <3>1, <3>2 DEF Tells
    <3>4. op' \in {"peek", "ws", "ignore", "ignoreTo"} => ~failed'
      BY ONLY <2>2, <2>3, <3>2 DEF Tells
    <3>5. ~failed' => failed' = failed
      <4>1. failed' \in BOOLEAN /\ failed \in BOOLEAN
        BY <2>4 DEF InpTypes
      <4>2. QED  BY ONLY <1>3, <4>1
    <3>6. QED  BY ONLY <3>3, <3>4, <3>5, Zenon DEF In!TellsTheEnd
  <2>9. QED  BY <2>5, <2>6, <2>7, <2>8 DEF InpKeeps
<1>5. ASSUME NEW most \in shown..In!End, ~(upTo <= most),
             In!Consumes(name, In!Min({s, most}), most - In!Min({s, most}), most, most + 1),
             In!Reports(FALSE, TRUE, TRUE)
      PROVE  InpKeeps
  <2>1. most \in Nat /\ most <= l /\ most + 1 \in 0..(l + 1)
    <3>1. shown \in Nat /\ most \in shown..(l + 1)
      BY <1>1, <1>5 DEF InpTypes, In!End
    <3>2. QED  BY <1>2, <1>5, <3>1
  <2>2. PICK d : d = In!Min({s, most})
    OBVIOUS
  <2>3. d \in Nat /\ d <= s /\ d <= most
    <3>1. d = IF s <= most THEN s ELSE most
      BY <1>2, <2>1, <2>2, MinOfTwo
    <3>2. QED  BY <1>2, <2>1, <3>1
  <2>4. PICK m : m = most - d
    OBVIOUS
  <2>5. m \in Nat /\ d + m = most
    BY <2>1, <2>3, <2>4
  <2>6. Parts(name, d, m, most)
    <3>1. name \notin {"ignore", "ignoreTo"} => \A i \in 1..d : due[i] \in In!Spaces
      <4>1. \A i \in 1..d : i \in 1..s
        BY <1>2, <2>3
      <4>2. QED  BY <4>1 DEF MeansTo, Parts
    <3>2. most = d + m /\ d + m <= most /\ most <= Len(due)
      BY <1>1, <2>1, <2>5
    <3>3. QED  BY <2>1, <2>3, <2>5, <3>1, <3>2 DEF Parts
  <2>7. In!Consumes(name, d, m, most, most + 1)
    BY <1>5, <2>2, <2>4
  <2>8. /\ due' \in Seq(In!Chars) /\ shown' \in 0..Len(due')
        /\ due = skipped' \o got' \o delim' \o due'
        /\ name \notin {"ignore", "ignoreTo"} =>
              \A i \in DOMAIN skipped' : skipped'[i] \in In!Spaces
        /\ delim' \in {<<>>, <<"d">>}
    <3>1. most + 1 \in 0..(Len(due) + 1)
      BY <1>1, <2>1
    <3>2. QED  BY <2>6, <2>7, <3>1, ConsumesThese
  <2>9. op' = name
    BY <2>7 DEF In!Consumes
  <2>10. eof' \in BOOLEAN /\ failed' \in BOOLEAN /\ threw'
    BY <1>5 DEF In!Reports
  <2>11. InpTypes'
    BY <2>8, <2>10 DEF InpTypes
  <2>12. In!LosesNothing
    BY <2>8, <2>9 DEF In!LosesNothing
  <2>13. In!LooksNoFurther /\ In!TellsTheEnd
    BY <2>10 DEF In!LooksNoFurther, In!TellsTheEnd
  <2>14. QED  BY <2>11, <2>12, <2>13 DEF InpKeeps
<1>6. QED  BY <1>4, <1>5 DEF In!Performs

(* What reads nothing. *)
LEMMA QuietKeeps ==
  ASSUME op' = "", InpTypes'
  PROVE  InpKeeps
  BY DEF InpKeeps, In!LosesNothing, In!LooksNoFurther, In!TellsTheEnd

LEMMA RefuseKeeps ==
  ASSUME InpTypes, In!Refuse, UNCHANGED width
  PROVE  InpKeeps
<1>1. due \in Seq(In!Chars) /\ 0 \in 0..(Len(due) + 1)
  BY DEF InpTypes
<1>2. Parts("", 0, 0, 0)
  BY <1>1 DEF Parts
<1>3. In!Consumes("", 0, 0, 0, 0)
  BY DEF In!Refuse
<1>4. due' \in Seq(In!Chars) /\ shown' \in 0..Len(due')
  BY <1>1, <1>2, <1>3, ConsumesThese
<1>5. op' = ""
  BY <1>3 DEF In!Consumes
<1>6. eof' \in BOOLEAN /\ failed' \in BOOLEAN
  BY DEF In!Refuse, In!Reports
<1>7. InpTypes'
  BY <1>4, <1>6 DEF InpTypes
<1>8. QED  BY <1>5, <1>7, QuietKeeps

LEMMA NamesRead ==
  /\ Reads("read") /\ Reads("upTo") /\ Reads("line") /\ Reads("peek") /\ Reads("ignore")
  /\ Reads("ignoreTo") /\ Reads("word") /\ Reads("ws")
  BY Zenon DEF Reads

LEMMA InpNumbers ==
  ASSUME InpTypes
  PROVE  Len(due) \in Nat /\ due \in Seq(In!Chars) /\ In!End = Len(due) + 1 /\ MaxRoom \in Nat
         /\ MaxLen \in Nat
  BY MCInputAssumption DEF InpTypes, In!End, In!InputAssumption

LEMMA ReadKeepsAll ==
  ASSUME InpTypes, NEW n \in Nat, In!Read(n)
  PROVE  InpKeeps
<1>1. PICK l \in Nat : l = Len(due)
  BY InpNumbers
<1>2. PICK k : k = In!Min({n, l})
  OBVIOUS
<1>3. k = IF n <= l THEN n ELSE l
  BY <1>2, MinOfTwo
<1>4. PICK u : u = IF k = n THEN n ELSE l + 1
  OBVIOUS
<1>5. In!Good /\ In!Performs("read", 0, k, k, u, k < n, k < n) /\ width' = width
  BY <1>1, <1>2, <1>4, InpNumbers DEF In!Read
<1>6. Parts("read", 0, k, k)
  BY <1>1, <1>3 DEF Parts
<1>7. u \in 0..(Len(due) + 1) /\ Ends("read", k, k, u, k < n) /\ Tells("read", k, u, k < n, k < n)
  BY <1>1, <1>3, <1>4 DEF Ends, Tells
<1>8. MeansTo("read", 0, k, k, u, k < n, k < n)
  BY <1>6, <1>7, NamesRead DEF MeansTo
<1>9. QED  BY <1>5, <1>8, PerformsKeeps DEF InpTypes

LEMMA UpToKeeps ==
  ASSUME InpTypes, NEW n \in Nat \ {0}, In!UpTo(n)
  PROVE  InpKeeps
<1>1. PICK l \in Nat : l = Len(due)
  BY InpNumbers
<1>2. PICK f : f = In!Find(0, {"d"})
  OBVIOUS
<1>3. f \in 1..(l + 1) /\ (f <= l => due[f] = "d")
  <2>1. 0 \in 0..Len(due) /\ due \in Seq(In!Chars)
    BY <1>1, InpNumbers
  <2>2. f \in (0 + 1)..(l + 1) /\ (f <= l => due[f] \in {"d"})
    BY ONLY <1>1, <1>2, <2>1, FindIsFirst
  <2>3. QED  BY <2>2
<1>4. PICK k : k = In!Min({n, f - 1})
  OBVIOUS
<1>5. k = IF n <= f - 1 THEN n ELSE f - 1
  <2>1. f - 1 \in Nat
    BY <1>3
  <2>2. QED  BY <1>4, <2>1, MinOfTwo
<1>6. PICK u : u = In!Min({n, f})
  OBVIOUS
<1>7. u = IF n <= f THEN n ELSE f
  <2>1. f \in Nat
    BY <1>3
  <2>2. QED  BY <1>6, <2>1, MinOfTwo
<1>8. In!Good /\ In!Performs("upTo", 0, k, k, u, k < n /\ f = l + 1, k = 0) /\ width' = width
  BY <1>1, <1>2, <1>4, <1>6, InpNumbers DEF In!UpTo
<1>9. Parts("upTo", 0, k, k)
  BY <1>1, <1>3, <1>5 DEF Parts
<1>10. u \in 0..(Len(due) + 1) /\ Ends("upTo", k, k, u, k = 0)
  BY <1>1, <1>3, <1>5, <1>7 DEF Ends
<1>11. Tells("upTo", k, u, k < n /\ f = l + 1, k = 0)
  BY <1>1, <1>3, <1>5, <1>7 DEF Tells
<1>12. MeansTo("upTo", 0, k, k, u, k < n /\ f = l + 1, k = 0)
  BY <1>9, <1>10, <1>11, NamesRead DEF MeansTo
<1>13. QED  BY <1>8, <1>12, PerformsKeeps DEF InpTypes

LEMMA LineKeeps ==
  ASSUME InpTypes, NEW r \in Nat, In!Line(r)
  PROVE  InpKeeps
<1>1. PICK l \in Nat : l = Len(due)
  BY InpNumbers
<1>2. PICK f : f = In!Find(0, {"d"})
  OBVIOUS
<1>3. f \in 1..(l + 1) /\ (f <= l => due[f] = "d")
  <2>1. 0 \in 0..Len(due) /\ due \in Seq(In!Chars)
    BY <1>1, InpNumbers
  <2>2. f \in (0 + 1)..(l + 1) /\ (f <= l => due[f] \in {"d"})
    BY ONLY <1>1, <1>2, <2>1, FindIsFirst
  <2>3. QED  BY <2>2
<1>4. PICK k : k = In!Min({r, f - 1})
  OBVIOUS
<1>5. k = IF r <= f - 1 THEN r ELSE f - 1
  <2>1. f - 1 \in Nat
    BY <1>3
  <2>2. QED  BY <1>4, <2>1, MinOfTwo
<1>6. PICK u : u = In!Min({r + 1, f})
  OBVIOUS
<1>7. u = IF r + 1 <= f THEN r + 1 ELSE f
  <2>1. f \in Nat /\ r + 1 \in Nat
    BY <1>3
  <2>2. QED  BY <1>6, <2>1, MinOfTwo
<1>8. PICK n : n = IF f # l + 1 /\ f <= r + 1 THEN f ELSE k
  OBVIOUS
<1>9. In!Good /\ In!Performs("line", 0, k, n, u, k < r /\ f = l + 1, n = 0 \/ f > r + 1) /\ width' = width
  BY <1>1, <1>2, <1>4, <1>6, <1>8, InpNumbers DEF In!Line
<1>10. Parts("line", 0, k, n)
  BY <1>1, <1>3, <1>5, <1>8 DEF Parts
<1>11. u \in 0..(Len(due) + 1) /\ Ends("line", k, n, u, n = 0 \/ f > r + 1)
  BY <1>1, <1>3, <1>5, <1>7, <1>8 DEF Ends
<1>12. Tells("line", n, u, k < r /\ f = l + 1, n = 0 \/ f > r + 1)
  BY <1>1, <1>3, <1>5, <1>7, <1>8 DEF Tells
<1>13. MeansTo("line", 0, k, n, u, k < r /\ f = l + 1, n = 0 \/ f > r + 1)
  BY <1>10, <1>11, <1>12, NamesRead DEF MeansTo
<1>14. QED  BY <1>9, <1>13, PerformsKeeps DEF InpTypes

LEMMA PeekKeeps ==
  ASSUME InpTypes, In!Peek
  PROVE  InpKeeps
<1>1. PICK l \in Nat : l = Len(due)
  BY InpNumbers
<1>2. due = <<>> <=> l = 0
  BY <1>1, InpNumbers
<1>3. In!Good /\ In!Performs("peek", 0, 0, 0, 1, due = <<>>, FALSE) /\ width' = width
  BY DEF In!Peek
<1>4. Parts("peek", 0, 0, 0)
  BY <1>1 DEF Parts
<1>5. 1 \in 0..(Len(due) + 1) /\ Ends("peek", 0, 0, 1, FALSE)
  BY <1>1 DEF Ends
<1>6. Tells("peek", 0, 1, due = <<>>, FALSE)
  BY <1>1, <1>2 DEF Tells
<1>7. MeansTo("peek", 0, 0, 0, 1, due = <<>>, FALSE)
  BY <1>4, <1>5, <1>6, NamesRead DEF MeansTo
<1>8. QED  BY <1>3, <1>7, PerformsKeeps DEF InpTypes

LEMMA IgnoreKeeps ==
  ASSUME InpTypes, NEW n \in Nat, In!Ignore(n)
  PROVE  InpKeeps
<1>1. PICK l \in Nat : l = Len(due)
  BY InpNumbers
<1>2. PICK k : k = In!Min({n, l})
  OBVIOUS
<1>3. k = IF n <= l THEN n ELSE l
  BY <1>2, MinOfTwo
<1>4. PICK u : u = IF k = n THEN n ELSE l + 1
  OBVIOUS
<1>5. In!Good /\ In!Performs("ignore", k, 0, k, u, k < n, FALSE) /\ width' = width
  BY <1>1, <1>2, <1>4, InpNumbers DEF In!Ignore
<1>6. Parts("ignore", k, 0, k)
  BY <1>1, <1>3 DEF Parts
<1>7. u \in 0..(Len(due) + 1) /\ Ends("ignore", 0, k, u, FALSE) /\ Tells("ignore", k, u, k < n, FALSE)
  BY <1>1, <1>3, <1>4 DEF Ends, Tells
<1>8. MeansTo("ignore", k, 0, k, u, k < n, FALSE)
  BY <1>6, <1>7, NamesRead DEF MeansTo
<1>9. QED  BY <1>5, <1>8, PerformsKeeps DEF InpTypes

LEMMA IgnoreToKeeps ==
  ASSUME InpTypes, NEW n \in Nat, In!IgnoreTo(n)
  PROVE  InpKeeps
<1>1. PICK l \in Nat : l = Len(due)
  BY InpNumbers
<1>2. PICK f : f = In!Find(0, {"d"})
  OBVIOUS
<1>3. f \in 1..(l + 1) /\ (f <= l => due[f] = "d")
  <2>1. 0 \in 0..Len(due) /\ due \in Seq(In!Chars)
    BY <1>1, InpNumbers
  <2>2. f \in (0 + 1)..(l + 1) /\ (f <= l => due[f] \in {"d"})
    BY ONLY <1>1, <1>2, <2>1, FindIsFirst
  <2>3. QED  BY <2>2
<1>4. PICK k : k = In!Min({n, f, l})
  OBVIOUS
<1>5. f \in Nat
  BY <1>3
<1>6. k \in {n, f, l} /\ k <= n /\ k <= f /\ k <= l
  BY <1>4, <1>5, MinOfThree
<1>7. PICK u : u = In!Min({n, f})
  OBVIOUS
<1>8. u = IF n <= f THEN n ELSE f
  BY <1>5, <1>7, MinOfTwo
<1>9. In!Good /\ In!Performs("ignoreTo", k, 0, k, u, f = l + 1 /\ k < n, FALSE) /\ width' = width
  BY <1>1, <1>2, <1>4, <1>7, InpNumbers DEF In!IgnoreTo
<1>10. Parts("ignoreTo", k, 0, k)
  BY <1>1, <1>5, <1>6 DEF Parts
<1>11. u \in 0..(Len(due) + 1) /\ Ends("ignoreTo", 0, k, u, FALSE)
  BY <1>1, <1>3, <1>6, <1>8 DEF Ends
<1>12. Tells("ignoreTo", k, u, f = l + 1 /\ k < n, FALSE)
  BY <1>1, <1>3, <1>6, <1>8 DEF Tells
<1>13. MeansTo("ignoreTo", k, 0, k, u, f = l + 1 /\ k < n, FALSE)
  BY <1>10, <1>11, <1>12, NamesRead DEF MeansTo
<1>14. QED  BY <1>9, <1>13, PerformsKeeps DEF InpTypes

(* What in_sentry drops are spaces. *)
LEMMA LeadIsSpaces ==
  ASSUME InpTypes, NEW skip \in BOOLEAN
  PROVE  In!Lead(skip) \in 0..Len(due) /\ \A i \in 1..In!Lead(skip) : due[i] \in In!Spaces
<1>1. PICK l \in Nat : l = Len(due)
  BY InpNumbers
<1>2. CASE skip
  <2>1. PICK f : f = In!Find(0, {"a"})
    OBVIOUS
  <2>2. f \in (0 + 1)..(l + 1) /\ \A i \in (0 + 1)..(f - 1) : due[i] \notin {"a"}
    <3>1. 0 \in 0..Len(due) /\ due \in Seq(In!Chars)
      BY <1>1, InpNumbers
    <3>2. QED  BY ONLY <1>1, <2>1, <3>1, FindIsFirst
  <2>3. In!Lead(skip) = f - 1
    BY <1>2, <2>1 DEF In!Lead
  <2>4. ASSUME NEW i \in 1..(f - 1) PROVE due[i] \in In!Spaces
    <3>1. i \in (0 + 1)..(f - 1) /\ i \in 1..Len(due)
      BY <1>1, <2>2
    <3>2. due[i] \in In!Chars /\ due[i] # "a"
      BY <2>2, <3>1, InpNumbers
    <3>3. QED  BY <3>2 DEF In!Chars, In!Spaces
  <2>5. f - 1 \in 0..Len(due)
    BY <1>1, <2>2
  <2>6. QED  BY <2>3, <2>4, <2>5
<1>3. CASE ~skip
  BY <1>1, <1>3 DEF In!Lead
<1>4. QED  BY <1>2, <1>3

LEMMA NothingThereKeeps ==
  ASSUME InpTypes, NEW skip \in BOOLEAN, In!NothingThere(skip)
  PROVE  InpKeeps
<1>1. PICK l \in Nat : l = Len(due)
  BY InpNumbers
<1>2. /\ In!Good /\ In!Lead(skip) = l /\ width' = width
      /\ In!Performs("word", l, 0, l, l + 1, TRUE, TRUE)
  BY <1>1, InpNumbers DEF In!NothingThere
<1>3. Parts("word", l, 0, l)
  BY <1>1, <1>2, LeadIsSpaces DEF Parts
<1>4. l + 1 \in 0..(Len(due) + 1) /\ Ends("word", 0, l, l + 1, TRUE)
  BY <1>1 DEF Ends
<1>5. Tells("word", l, l + 1, TRUE, TRUE)
  BY <1>1 DEF Tells
<1>6. MeansTo("word", l, 0, l, l + 1, TRUE, TRUE)
  BY <1>3, <1>4, <1>5, NamesRead DEF MeansTo
<1>7. QED  BY <1>2, <1>6, PerformsKeeps DEF InpTypes

LEMMA WordRoomIsNat ==
  ASSUME InpTypes, NEW array \in 0..(MaxRoom + 1)
  PROVE  In!WordRoom(array) \in Nat
<1>1. width \in Nat /\ array \in Nat /\ MaxLen \in Nat
  BY InpNumbers DEF InpTypes
<1>2. QED  BY ONLY <1>1 DEF In!WordRoom

LEMMA WordKeeps ==
  ASSUME InpTypes, NEW skip \in BOOLEAN, NEW array \in 0..(MaxRoom + 1), In!Word(skip, array)
  PROVE  InpKeeps
<1>1. PICK l \in Nat : l = Len(due)
  BY InpNumbers
<1>2. PICK s : s = In!Lead(skip)
  OBVIOUS
<1>3. s \in 0..l /\ \A i \in 1..s : due[i] \in In!Spaces
  BY <1>1, <1>2, LeadIsSpaces
<1>4. PICK r \in Nat : r = In!WordRoom(array)
  BY WordRoomIsNat
<1>5. PICK f : f = In!Find(s, In!Spaces)
  OBVIOUS
<1>6. f \in (s + 1)..(l + 1) /\ (f <= l => due[f] \in In!Spaces)
  <2>1. s \in 0..Len(due) /\ due \in Seq(In!Chars)
    BY <1>1, <1>3, InpNumbers
  <2>2. QED  BY ONLY <1>1, <1>5, <2>1, FindIsFirst
<1>7. PICK k : k = In!Min({r, f - s - 1})
  OBVIOUS
<1>8. k = IF r <= f - s - 1 THEN r ELSE f - s - 1
  <2>1. f - s - 1 \in Nat
    BY <1>3, <1>6
  <2>2. QED  BY <1>7, <2>1, MinOfTwo
<1>9. PICK v : v = In!Min({s + r, f})
  OBVIOUS
<1>10. v = IF s + r <= f THEN s + r ELSE f
  <2>1. s + r \in Nat /\ f \in Nat
    BY <1>3, <1>6
  <2>2. QED  BY <1>9, <2>1, MinOfTwo
<1>11. PICK w : w = IF skip THEN s + 1 ELSE 0
  OBVIOUS
<1>12. PICK u : u = In!Max({v, w})
  OBVIOUS
<1>13. w \in {0, s + 1}
  BY <1>11
<1>14. u = IF v <= w THEN w ELSE v
  <2>1. v \in Nat /\ w \in Nat
    BY <1>3, <1>6, <1>10, <1>13
  <2>2. QED  BY <1>12, <2>1, MaxOfTwo
<1>15. In!Good /\ In!Performs("word", s, k, s + k, u, u = l + 1, k = 0) /\ In!UsesWidth(skip)
  BY <1>1, <1>2, <1>4, <1>5, <1>7, <1>9, <1>11, <1>12, InpNumbers DEF In!Word
<1>16. Parts("word", s, k, s + k)
  <2>1. s \in Nat /\ k \in Nat /\ s + k \in Nat /\ s + k <= l
    BY <1>3, <1>6, <1>8
  <2>2. QED  BY <1>1, <1>3, <2>1 DEF Parts
<1>17. u \in 0..(Len(due) + 1)
  BY <1>1, <1>3, <1>6, <1>10, <1>13, <1>14
<1>18. Ends("word", k, s + k, u, k = 0)
  <2>1. CASE f <= s + r
    <3>1. k = f - s - 1 /\ v = f
      BY <1>3, <1>6, <1>8, <1>10, <2>1
    <3>2. u = f /\ s + k = f - 1
      BY <1>3, <1>6, <1>13, <1>14, <3>1
    <3>3. QED  BY <1>1, <1>6, <3>2 DEF Ends
  <2>2. CASE ~(f <= s + r)
    <3>1. k = r /\ v = s + r
      BY <1>3, <1>6, <1>8, <1>10, <2>2
    <3>2. u > s + k => u = s + 1 /\ k = 0
      BY <1>3, <1>13, <1>14, <3>1
    <3>3. QED  BY <1>3, <3>2 DEF Ends
  <2>3. QED  BY <2>1, <2>2
<1>19. Tells("word", s + k, u, u = l + 1, k = 0)
  <2>1. s \in Nat /\ k \in Nat
    BY <1>3, <1>6, <1>8
  <2>2. QED  BY <1>1, <2>1 DEF Tells
<1>20. MeansTo("word", s, k, s + k, u, u = l + 1, k = 0)
  BY <1>16, <1>17, <1>18, <1>19, NamesRead DEF MeansTo
<1>21. width' \in Nat
  BY <1>15 DEF In!UsesWidth, InpTypes
<1>22. QED  BY <1>15, <1>20, <1>21, PerformsKeeps

LEMMA CharKeeps ==
  ASSUME InpTypes, NEW skip \in BOOLEAN, In!Char(skip)
  PROVE  InpKeeps
<1>1. PICK l \in Nat : l = Len(due)
  BY InpNumbers
<1>2. PICK s : s = In!Lead(skip)
  OBVIOUS
<1>3. s \in 0..l /\ \A i \in 1..s : due[i] \in In!Spaces
  BY <1>1, <1>2, LeadIsSpaces
<1>4. PICK k : k = In!Min({1, l - s})
  OBVIOUS
<1>5. k = IF 1 <= l - s THEN 1 ELSE l - s
  <2>1. l - s \in Nat
    BY <1>3
  <2>2. QED  BY <1>4, <2>1, MinOfTwo
<1>6. In!Good /\ In!Performs("word", s, k, s + k, s + 1, k = 0, k = 0) /\ width' = width
  BY <1>1, <1>2, <1>4 DEF In!Char
<1>7. Parts("word", s, k, s + k)
  <2>1. s \in Nat /\ k \in Nat /\ s + k \in Nat /\ s + k <= l
    BY <1>3, <1>5
  <2>2. QED  BY <1>1, <1>3, <2>1 DEF Parts
<1>8. s + 1 \in 0..(Len(due) + 1) /\ Ends("word", k, s + k, s + 1, k = 0)
  BY <1>1, <1>3, <1>5 DEF Ends
<1>9. Tells("word", s + k, s + 1, k = 0, k = 0)
  BY <1>1, <1>3, <1>5 DEF Tells
<1>10. MeansTo("word", s, k, s + k, s + 1, k = 0, k = 0)
  BY <1>7, <1>8, <1>9, NamesRead DEF MeansTo
<1>11. QED  BY <1>6, <1>10, PerformsKeeps DEF InpTypes

LEMMA WsKeeps ==
  ASSUME InpTypes, In!Ws
  PROVE  InpKeeps
<1>1. PICK l \in Nat : l = Len(due)
  BY InpNumbers
<1>2. PICK s : s = In!Lead(TRUE)
  OBVIOUS
<1>3. s \in 0..l /\ \A i \in 1..s : due[i] \in In!Spaces
  BY <1>1, <1>2, LeadIsSpaces
<1>4. In!Good /\ In!Performs("ws", s, 0, s, s + 1, s + 1 = l + 1, FALSE) /\ width' = width
  BY <1>1, <1>2, InpNumbers DEF In!Ws
<1>5. Parts("ws", s, 0, s)
  BY <1>1, <1>3 DEF Parts
<1>6. s + 1 \in 0..(Len(due) + 1) /\ Ends("ws", 0, s, s + 1, FALSE)
  BY <1>1, <1>3 DEF Ends
<1>7. Tells("ws", s, s + 1, s + 1 = l + 1, FALSE)
  BY <1>1, <1>3 DEF Tells
<1>8. MeansTo("ws", s, 0, s, s + 1, s + 1 = l + 1, FALSE)
  BY <1>5, <1>6, <1>7, NamesRead DEF MeansTo
<1>9. QED  BY <1>4, <1>8, PerformsKeeps DEF InpTypes

LEMMA PutbackKeeps ==
  ASSUME InpTypes, NEW e \in In!Chars, In!Putback(e)
  PROVE  InpKeeps
<1>1. /\ IF failed THEN UNCHANGED <<due, shown>>
                   ELSE due' = <<e>> \o due /\ shown' = shown + 1
      /\ eof' = FALSE /\ UNCHANGED <<failed, width>>
  BY Zenon DEF In!Putback
<1>2. op' = ""
  BY DEF In!Putback
<1>3. due' \in Seq(In!Chars) /\ shown' \in 0..Len(due')
  <2>1. CASE failed
    BY <1>1, <2>1 DEF InpTypes
  <2>2. CASE ~failed
    <3>1. due \in Seq(In!Chars) /\ shown \in 0..Len(due)
      BY DEF InpTypes
    <3>2. due' = <<e>> \o due /\ shown' = shown + 1
      BY <1>1, <2>2
    <3>3. due' \in Seq(In!Chars) /\ Len(due') = Len(due) + 1
      BY <3>1, <3>2, ConsElements
    <3>4. shown' \in 0..Len(due')
      BY ONLY <3>1, <3>2, <3>3
    <3>5. QED  BY <3>3, <3>4
  <2>3. QED  BY <2>1, <2>2
<1>4. InpTypes'
  BY ONLY InpTypes, <1>1, <1>3 DEF InpTypes
<1>5. QED  BY <1>2, <1>4, QuietKeeps

LEMMA ArriveKeeps ==
  ASSUME InpTypes, NEW line \in Lines, In!Arrive(line)
  PROVE  InpKeeps
<1>1. due' = due \o line /\ UNCHANGED <<shown, eof, failed, width>>
  BY Zenon DEF In!Arrive
<1>2. op' = ""
  BY Zenon DEF In!Arrive, In!Quiet
<1>3. line \in Seq(In!Chars) /\ due \in Seq(In!Chars)
  BY MCInputAssumption DEF InpTypes, In!InputAssumption
<1>4. due' \in Seq(In!Chars) /\ Len(due') = Len(due) + Len(line)
  BY ONLY <1>1, <1>3, ConcatElements
<1>5. shown' \in 0..Len(due')
  <2>1. shown \in 0..Len(due) /\ Len(due) \in Nat /\ Len(line) \in Nat
    BY ONLY InpTypes, <1>3 DEF InpTypes
  <2>2. QED  BY ONLY <1>1, <1>4, <2>1
<1>6. InpTypes'
  BY ONLY InpTypes, <1>1, <1>4, <1>5 DEF InpTypes
<1>7. QED  BY <1>2, <1>6, QuietKeeps

LEMMA ClearKeeps ==
  ASSUME InpTypes, In!Clear
  PROVE  InpKeeps
<1>1. eof' = FALSE /\ failed' = FALSE /\ UNCHANGED <<due, shown, width>>
  BY Zenon DEF In!Clear
<1>2. op' = ""
  BY Zenon DEF In!Clear, In!Quiet
<1>3. InpTypes'
  BY ONLY InpTypes, <1>1 DEF InpTypes
<1>4. QED  BY <1>2, <1>3, QuietKeeps

LEMMA WidthKeeps ==
  ASSUME InpTypes, NEW w \in Nat, In!Width(w)
  PROVE  InpKeeps
<1>1. width' = w /\ UNCHANGED <<due, shown, eof, failed>>
  BY Zenon DEF In!Width
<1>2. op' = ""
  BY Zenon DEF In!Width, In!Quiet
<1>3. InpTypes'
  BY ONLY InpTypes, <1>1, w \in Nat DEF InpTypes
<1>4. QED  BY <1>2, <1>3, QuietKeeps

LEMMA InputStep ==
  ASSUME InpTypes, In!Next
  PROVE  InpKeeps
<1>1. ASSUME NEW n \in 0..MaxRoom,
             In!Read(n) \/ In!Line(n) \/ In!Ignore(n) \/ In!IgnoreTo(n) \/ In!Width(n)
      PROVE  InpKeeps
  <2>1. n \in Nat
    BY InpNumbers
  <2>2. QED
    BY <1>1, <2>1, ReadKeepsAll, LineKeeps, IgnoreKeeps, IgnoreToKeeps, WidthKeeps
<1>2. ASSUME NEW n \in 1..MaxRoom, In!UpTo(n) PROVE InpKeeps
  <2>1. n \in Nat \ {0}
    BY InpNumbers
  <2>2. QED  BY <1>2, <2>1, UpToKeeps
<1>3. ASSUME NEW e \in In!Chars, In!Putback(e) PROVE InpKeeps
  BY <1>3, PutbackKeeps
<1>4. ASSUME NEW skip \in BOOLEAN, In!NothingThere(skip) \/ In!Char(skip) PROVE InpKeeps
  BY <1>4, NothingThereKeeps, CharKeeps
<1>5. ASSUME NEW skip \in BOOLEAN, NEW array \in 0..(MaxRoom + 1), In!Word(skip, array)
      PROVE  InpKeeps
  BY <1>5, WordKeeps
<1>6. ASSUME NEW line \in Lines, In!Arrive(line) PROVE InpKeeps
  BY <1>6, ArriveKeeps
<1>7. CASE In!Refused \/ In!NoRoom
  BY <1>7, RefuseKeeps DEF In!Refused, In!NoRoom
<1>8. CASE In!Peek \/ In!Ws \/ In!Clear
  BY <1>8, PeekKeeps, WsKeeps, ClearKeeps
<1>9. QED  BY <1>1, <1>2, <1>3, <1>4, <1>5, <1>6, <1>7, <1>8 DEF In!Next

LEMMA InputKeeps ==
  MCSpec => [][In!LosesNothing /\ In!LooksNoFurther /\ In!TellsTheEnd]_input
<1>1. MCInit => InpTypes
  <2> SUFFICES ASSUME In!Init PROVE InpTypes
    BY DEF MCInit
  <2>1. due = <<>> /\ shown = 0 /\ eof = FALSE /\ failed = FALSE /\ width = 0
    BY Zenon DEF In!Init
  <2>2. due \in Seq(In!Chars) /\ shown \in 0..Len(due)
    <3>1. due = <<>> /\ shown = 0
      BY <2>1
    <3>2. QED  BY ONLY <3>1
  <2>3. eof \in BOOLEAN /\ failed \in BOOLEAN /\ width \in Nat
    <3>1. eof = FALSE /\ failed = FALSE /\ width = 0
      BY <2>1
    <3>2. QED  BY ONLY <3>1
  <2>4. QED  BY <2>2, <2>3 DEF InpTypes
<1>2. InpTypes /\ [MCNext]_<<part, vars, input, channel>> =>
         /\ InpTypes'
         /\ [In!LosesNothing /\ In!LooksNoFurther /\ In!TellsTheEnd]_input
  <2> SUFFICES ASSUME InpTypes, [MCNext]_<<part, vars, input, channel>>
               PROVE  /\ InpTypes'
                      /\ [In!LosesNothing /\ In!LooksNoFurther /\ In!TellsTheEnd]_input
    OBVIOUS
  <2>1. CASE In!Next
    BY <2>1, InputStep DEF InpKeeps
  <2>2. CASE UNCHANGED input
    <3>1. UNCHANGED <<due, shown, eof, failed, width>>
      BY <2>2 DEF input
    <3>2. InpTypes'
      BY <3>1 DEF InpTypes
    <3>3. QED  BY <2>2, <3>2
  <2>3. In!Next \/ UNCHANGED input
    BY DEF MCNext
  <2>4. QED  BY <2>1, <2>2, <2>3
<1>3. QED  BY <1>1, <1>2, PTL DEF MCSpec

(* No character is lost: those that an operation consumed are those that   *)
(* it handed over, after spaces or what it was told to ignore, and at most *)
(* a delimiter, also when the channel threw in the middle.                 *)
THEOREM OperationsLoseNothing == MCSpec => NothingLost
<1>1. QED  BY InputKeeps, PTL DEF NothingLost

(* No operation waits for a character that it can do without.              *)
THEOREM OperationsAskNoMore == MCSpec => AsksNoMore
<1>1. QED  BY InputKeeps, PTL DEF AsksNoMore

(* eofbit is set by who met the end, and the end is a failure only for who *)
(* needed a character.                                                     *)
THEOREM BitsTellTheEnd == MCSpec => ReportsTheEnd
<1>1. QED  BY InputKeeps, PTL DEF ReportsTheEnd
=============================================================================
