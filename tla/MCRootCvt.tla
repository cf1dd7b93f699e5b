----------------------------- MODULE MCRootCvt -----------------------------
(* The roots of three stacks: root_cvt over a device that comes empty or   *)
(* with two bytes the caller never writes; root_cvt over a mem_device; and *)
(* stdin_root_cvt over an input longer than its buffer, so that it is      *)
(* refilled.  They share nothing and one of them runs, so that each is     *)
(* checked as it is.                                                       *)
EXTENDS RootCvt

CONSTANTS InputLen, InBufLen, MaxAsk, MaxChunk, MemMaxByte, MemMaxEra, NoMark
VARIABLES part, fd, file, probed, ended, hitEnd, rest, synced, held, inBuf, kept,
          byC, mixed, str, at, mark, memStatus, memBosLen, lent, memNext, memGot, memThrew, memEra

In == INSTANCE StdIn WITH BufLen <- InBufLen

Mem == INSTANCE MemRoot WITH status <- memStatus, bosLen <- memBosLen,
    nextByte <- memNext, got <- memGot, threw <- memThrew, era <- memEra,
    MaxByte <- MemMaxByte, MaxEra <- MemMaxEra

ASSUME MCStdInAssumption == In!StdInAssumption
ASSUME MCMemAssumption == Mem!MemAssumption

MCFiles == {<<>>, <<91, 92>>}

input == <<fd, file, probed, ended, hitEnd, rest, synced, held, inBuf, kept, byC, mixed>>
memory == <<str, at, mark, memStatus, memBosLen, lent, memNext, memGot, memThrew, memEra>>

(* A memory that is not used is of one kind. *)
MCInit ==
    /\ part \in {"root", "memory", "stdin"}
    /\ Init /\ In!Init /\ Mem!Init
    /\ part # "memory" => str = <<>>
    /\ part # "root" => dev.data = <<>>

MCNext ==
    \/ part = "root" /\ Next /\ UNCHANGED <<part, input, memory>>
    \/ part = "memory" /\ Mem!Next /\ UNCHANGED <<part, vars, input>>
    \/ part = "stdin" /\ In!Next /\ UNCHANGED <<part, vars, memory>>

MCSpec == MCInit /\ [][MCNext]_<<part, vars, input, memory>>

(* No byte is lost, doubled or reordered between the caller and a device,  *)
(* be it buffered or lent out from memory that grows and shrinks: either   *)
(* root is a plain file with a position, and that is where tell() can      *)
(* count from the start of the content.                                    *)
RootsAreFiles == ImplementsByteStream /\ Mem!Bytes!Spec /\ []Mem!InBounds

(* Whatever is probed, rolled back, handed back, refused or switched, no   *)
(* byte of the standard input is lost and none is read twice; and what the *)
(* streams will read next stays in its order, an extraction taking what it *)
(* keeps from its front.  A synchronized stream leaves nothing behind      *)
(* between two extractions that C stdio cannot see, and an end that stdio  *)
(* or the device remembers hides nothing that was probed or handed back.   *)
EachByteOnceInOrder ==
    /\ [][In!ReadOn]_input
    /\ []In!LeavesToStdio
    /\ []In!EndComesLast
=============================================================================
