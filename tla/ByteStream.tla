----------------------------- MODULE ByteStream -----------------------------
(***************************************************************************)
(* What a root converter promises the layers above it: a file of bytes and *)
(* a position, with no buffer in sight.  Writing overwrites from the       *)
(* position on, reading returns what is there, and a write that fails has  *)
(* taken some prefix of its bytes and disturbed nothing else.              *)
(*                                                                         *)
(* The caller numbers the bytes it writes in the order it writes them.     *)
(***************************************************************************)
EXTENDS Naturals, Sequences

CONSTANT MaxChunk  (* the longest chunk one call writes                     *)

VARIABLES
    file,  (* the bytes                                                     *)
    pos,   (* how many of them are before the position                      *)
    next,  (* the number of the next byte the caller writes                 *)
    got,   (* what the last call read                                       *)
    era    (* how often the file was taken away or replaced                 *)

vars == <<file, pos, next, got, era>>

(* The file f with `data` written p bytes from its start. *)
Overwrite(f, p, data) ==
    SubSeq(f, 1, p) \o data \o SubSeq(f, p + Len(data) + 1, Len(f))

Numbered(first, n) == [i \in 1..n |-> first + i - 1]

Init ==
    /\ file \in Seq(Nat)
    /\ pos \in 0..Len(file)
    /\ next = 1
    /\ got = <<>>
    /\ era = 0

(* The caller writes n bytes, of which the first k are taken. *)
Write(n, k) ==
    /\ next' = next + n
    /\ pos' = pos + k
    /\ got' = <<>>
    /\ UNCHANGED era
    /\ file' = Overwrite(file, pos, Numbered(next, k))

Read(k) ==
    /\ pos' = pos + k
    /\ UNCHANGED <<file, next, era>>
    /\ got' = SubSeq(file, pos + 1, pos + k)

(* A call that moves nowhere included. *)
Seek ==
    /\ pos' \in 0..Len(file)
    /\ got' = <<>>
    /\ UNCHANGED <<file, next, era>>

(* Another file takes the place of this one. *)
Replace ==
    /\ file' \in Seq(Nat)
    /\ pos' \in 0..Len(file')
    /\ era' = era + 1
    /\ got' = <<>>
    /\ UNCHANGED next

Next ==
    \/ \E n \in 0..MaxChunk : \E k \in 0..n : Write(n, k)
    \/ \E k \in 0..(Len(file) - pos) : Read(k)
    \/ Seek
    \/ Replace

Spec == Init /\ [][Next]_vars
=============================================================================
