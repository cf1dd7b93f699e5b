--------------------------- MODULE MCStreamState ---------------------------
(* A stream: its state bits, what its operations take from the channel, or *)
(* the channel below it.  The three machines share nothing and one of them *)
(* runs, so that each is checked as it is.  The arguments: no bit, each    *)
(* bit alone, a pair, all of them; lines that a terminal delivers; a       *)
(* device that comes empty, or with three characters.                      *)
EXTENDS StreamState

CONSTANTS Lines, MaxRoom, MaxLen,
          Contents, Foreign, NoChar, MaxGet, MaxBack, MaxByte, MaxEra
VARIABLES part, due, shown, eof, failed, width, op, skipped, got, delim, asked, threw,
          file, pos, kernel, mirror, readBuf, nextByte, took, peeked, chThrew, era,
          honest

In == INSTANCE TypedInput
Ch == INSTANCE Channel WITH threw <- chThrew

ASSUME MCInputAssumption == In!InputAssumption
ASSUME MCChannelAssumption == Ch!ChannelAssumption

MCBitSets == {{}, Bits, {"dev", "str"}} \cup {{b} : b \in Bits}
MCLines == {<<"a", "d">>, <<"s", "a">>}
MCContents == {<<>>, <<91, 92, 93>>}

input == <<due, shown, eof, failed, width, op, skipped, got, delim, asked, threw>>
channel == <<file, pos, kernel, mirror, readBuf, nextByte, took, peeked, chThrew, era, honest>>

(* A channel that does not run starts in one way. *)
MCInit ==
    /\ part \in {"state", "input", "channel"} /\ Init /\ In!Init /\ Ch!Init
    /\ part # "channel" => file = <<>> /\ honest

MCNext ==
    \/ part = "state" /\ Next /\ UNCHANGED <<part, input, channel>>
    \/ part = "input" /\ In!Next /\ UNCHANGED <<part, vars, channel>>
    \/ part = "channel" /\ Ch!Next /\ UNCHANGED <<part, vars, input>>

MCSpec == MCInit /\ [][MCNext]_<<part, vars, input, channel>>

(* Whatever throws, is too small or is cut short, no character that an      *)
(* operation of TypedInput consumed is lost.                               *)
NothingLost == [][In!LosesNothing]_input

(* And none needs a character that it can do without. *)
AsksNoMore == [][In!LooksNoFurther]_input

(* And eofbit and the failure bits say what it met. *)
ReportsTheEnd == [][In!TellsTheEnd]_input

(* Whatever a read of the channel returns, or throws, no character is lost *)
(* or turns up twice, and one that was shown is the next; a call that      *)
(* throws and has moved none leaves the position.  And switch_to_get() and *)
(* switch_to_put() of runtime_cvt go by a copy of the direction which is   *)
(* never the opposite of the converter's.                                  *)
PlaceKept == [][Ch!KeepsPlace]_channel /\ []Ch!Mirrors

(* As long as callers only put back what they have read, the stack is      *)
(* invisible: the channel is a file with a position, through every mixture *)
(* of reading, writing, seeking and failing.                               *)
Bytes == INSTANCE ByteStream WITH pos <- Ch!Tell, next <- nextByte, got <- took, MaxChunk <- 2

ChannelIsAFile ==
    /\ honest => Bytes!Init
    /\ [][honest => Bytes!Next \/ UNCHANGED <<file, Ch!Tell, nextByte, took, era>>]_channel
=============================================================================
