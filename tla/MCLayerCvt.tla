----------------------------- MODULE MCLayerCvt -----------------------------
(* Three converters on abs_cvt.  vigenere_cvt: characters 0..6, a key of   *)
(* two, and a device that comes empty or with one character of header and  *)
(* two of content.  code_cvt: devices with valid, bad, cut-off and zero    *)
(* units and both shift states.  zlib_cvt: devices that are no stream, a   *)
(* stream with more behind it, one with a wrong checksum, one that is cut  *)
(* off and one that turns bad.  They share nothing and one of them runs,   *)
(* so that each is checked as it is.                                       *)
EXTENDS LayerCvt

CONSTANTS CodeContents, Texts, MaxLen, MaxOpen, Foreign, Sizes, MaxBytes, MaxOpens

VARIABLES part, kind, cFile, cPos, cStatus, cUnread, cGetError, cTainted, shifted, accu,
          skipped, reads, cGot, put, cShort, threw, opened,
          size, zFile, zPos, strm, held, sum, marked, ended, syncFlush, zStatus, zBosDone,
          zGetError, zTainted, given, zGot, zShort, missed, told, blamed, promised, opens

Code == INSTANCE CodeCvt WITH
    Contents <- CodeContents, file <- cFile, pos <- cPos, status <- cStatus,
    unread <- cUnread, getError <- cGetError, tainted <- cTainted,
    got <- cGot, short <- cShort

Zlib == INSTANCE ZlibCvt WITH
    file <- zFile, pos <- zPos, status <- zStatus, bosDone <- zBosDone,
    getError <- zGetError, tainted <- zTainted, got <- zGot, short <- zShort

ASSUME MCCodeAssumption == Code!CodeAssumption
ASSUME MCZlibAssumption == Zlib!ZlibAssumption

MCKey == <<3, 5>>
MCContents == {<<>>, <<4, 6, 1>>}

MCCodeContents ==
    [fixed |-> {<<>>, <<"a", "x", "a", "z">>},
     multi |-> {<<>>, <<"l", "a", "l", "t">>, <<"a", "l", "t", "l">>},
     shift |-> {<<>>, <<"o", "l", "t", "x", "i", "a">>, <<"o", "i", "l", "z", "a">>,
                <<"a", "o", "a", "z", "o", "l">>}]

MCTexts == {<<>>, <<"a">>, <<"lt", "a">>, <<"a", "c">>, <<"lt", "z">>, <<"c", "none", "a">>}

MCUnit(kindOf, bytes) == [kind |-> kindOf, bytes |-> bytes]
MCHead == <<MCUnit("head1", <<>>), MCUnit("head2", <<>>)>>
MCEnd(bytes) == <<MCUnit("end", <<>>), MCUnit("sum", bytes)>>
MCJunk == <<MCUnit("junk", <<>>)>>

MCForeign ==
    {MCJunk,
     MCHead \o <<MCUnit("data", <<0>>), MCUnit("data", <<1, 2>>)>> \o MCEnd(<<0, 1, 2>>) \o MCJunk,
     MCHead \o <<MCUnit("data", <<0, 1>>)>> \o MCEnd(<<0>>),
     MCHead \o <<MCUnit("data", <<0, 1, 2>>), MCUnit("mark", <<>>), MCUnit("data", <<3>>)>>,
     MCHead \o <<MCUnit("data", <<0, 1>>)>> \o MCJunk}

code == <<kind, cFile, cPos, cStatus, cUnread, cGetError, cTainted, shifted, accu,
          skipped, reads, cGot, put, cShort, threw, opened>>
zlib == <<size, zFile, zPos, strm, held, sum, marked, ended, syncFlush, zStatus, zBosDone,
          zGetError, zTainted, given, zGot, zShort, missed, told, blamed, promised, opens>>

(* Those that do not run are in one fixed state. *)
MCInit ==
    /\ part \in {"layer", "code", "zlib"} /\ Init /\ Code!Init /\ Zlib!Init
    /\ part # "layer" => file = <<>>
    /\ part # "code" => kind = "fixed" /\ cFile = <<>>
    /\ part # "zlib" => zFile = <<>> /\ size = 1

MCNext ==
    \/ part = "layer" /\ Next /\ UNCHANGED <<part, code, zlib>>
    \/ part = "code" /\ Code!Next /\ UNCHANGED <<part, vars, zlib>>
    \/ part = "zlib" /\ Zlib!Next /\ UNCHANGED <<part, vars, code>>

MCSpec == MCInit /\ [][MCNext]_<<part, vars, code, zlib>>

(* code_cvt: however reads cut the text up and whenever the kernel fails   *)
(* between them, they deliver the same characters and bad units in order.  *)
ReadsInOrder == [][Code!ReadOn]_code

(* code_cvt: tell()'s count, the shift state and the kernel's position     *)
(* agree, through skipped units, turns, seeks and failing calls.           *)
CountInStep == Code!CountsInStep

(* code_cvt: what a put wrote is read back as its text, and a closed       *)
(* stream ends in the state the next text on the device starts in.         *)
WritesReadBack == [][Code!ReadsBackAs]_code

(* zlib_cvt: what a writer leaves who closed the device and heard of no    *)
(* failure is a whole stream of all that was put.                          *)
ClosedIsWhole == Zlib!ClosesWhole

(* zlib_cvt: a reader who is told of no error and gets less than it asked  *)
(* for, or comes to the end, has read the whole of a stream.               *)
EndIsAll == Zlib!EndsWithAll

(* zlib_cvt: flush() with zlib_sync_flush{true} "inserts a 5-byte empty    *)
(* stored block" at "each invocation", and taints the converter only when  *)
(* the kernel fails.  A second flush() with no put() between taints it.    *)
SyncFlushGoesOn == Zlib!TaintHasCause
=============================================================================
