------------------------------ MODULE MCCodecs ------------------------------
(***************************************************************************)
(* The codecs for TLC.  codec says which coder is tried, data is what it   *)
(* codes: it grows by one unit (a symbol, a byte, a frequency, a token) at *)
(* a time, so every input up to a length is tried.  Seeds let the search   *)
(* also start at long data, where refills, splits into several streams and *)
(* long runs happen.                                                       *)
(***************************************************************************)
EXTENDS LZ, LZH, VVBlock, Transforms, ArchivePaths

VARIABLES codec, data

codecVars == <<codec, data>>

-----------------------------------------------------------------------------
(* Constants of the coders, small versions of the program's tables. *)

MCMLBase == <<4, 5, 6, 8>>
MCMLExtra == <<0, 0, 1, 2>>
MCLLBase == <<0, 1, 2, 4>>
MCLLExtra == <<0, 0, 1, 1>>
MCCLRepeat == <<2, 3>>
MCCLZeros == <<2, 4>>
MCCLMany == <<5, 7>>

\* The tables of LZH, which have their real size, say every match and distance.
ASSUME LZHTablesCover == TablesCover(4322, 1048576)

-----------------------------------------------------------------------------
(* What is coded. *)

Literals3(n, s) == [k \in 1 .. n |-> (k * k + s) % 3]
TokenOf(n, l, o) == [lits |-> Literals3(n, n + o), len |-> l, off |-> o]

\* What a frame holds before the block.
History == Literals3(12, 1)

Mixed(n, symbols) == [i \in 1 .. n |-> (i * i * i + (i \div 7)) % symbols]
Skewed(n) == [i \in 1 .. n |-> Min({s \in 0 .. 5 : s = 5 \/ i % <<2, 3, 5, 7, 11>>[s + 1] = 0})]
Bits(n) == [i \in 1 .. n |-> ((i * i) % 3) % 2]

\* A match, and a longer one if a literal is written first.
BetterLater == <<0, 1, 2, 2, 2, 1, 2, 0, 0, 2, 2, 1, 1, 1, 0, 1, 2, 0, 0, 2, 2>>

Codecs == {"lz", "lzh", "rle", "lzhTree", "lengths", "huffman", "huffmanTree", "ans", "ansTable",
           "sequences", "blocks", "calls", "words", "numbers", "predict", "paths"}

\* What data may begin with.
Seeds(c) ==
  CASE c = "lz"      -> {<<>>, Bits(14)}
    [] c = "lzh"     -> {<<>>, Bits(30) \o [i \in 1 .. 50 |-> 0], BetterLater}
    [] c = "huffman" -> {<<>>, Mixed(60, 5), Skewed(120)}
    [] c = "ans"     -> {<<>>, Mixed(40, 3)}
    [] c = "sequences" -> {<<>>, <<TokenOf(3, 4, 2), TokenOf(0, 11, 1), TokenOf(2, 5, 2)>>}
    [] OTHER -> {<<>>}

\* What it may grow by, and the lengths where it stops.
Units(c) ==
  CASE c \in {"lz", "rle", "lengths"} -> 0 .. 1
    [] c \in {"lzh", "ans"} -> 0 .. 2
    [] c = "huffman"  -> 0 .. 5
    [] c \in {"lzhTree", "huffmanTree"} -> {0, 1, 2, 4, 8}
    [] c = "ansTable" -> {0, 1, 2, 7, 40}
    [] c = "sequences" ->
         {TokenOf(1, 4, 1)} \cup {TokenOf(n, l, o) : n \in {0, 5}, l \in {3, 4, 7, 10, 11}, o \in {6, 12}}
    [] c = "blocks" ->
         {TokenOf(1, 4, 1), TokenOf(4, 9, 8)}
           \cup {TokenOf(n, l, o) : n \in {0, 4, 6}, l \in {4, 10}, o \in {6, 8, 12}}
    [] c = "calls"   -> {232, 0, 254, 249}
    [] c = "words"   -> [op : {"BL", "ADRP", "other"}, imm : {0, 1, 3}]
    [] c = "numbers" -> [digit : 0 .. 3, more : BOOLEAN]
    [] c = "predict" -> 0 .. 3
    [] c = "paths" ->
         {<<97>>, <<65>>, <<97, 47, 98>>, <<97, 47, 47, 98>>, <<97, 92, 98>>, <<97, 45, 98>>,
          <<46, 46, 47, 97>>, <<97, 47, 46, 46>>, <<47, 97>>, <<110, 117, 108>>, <<97, 46>>}

Stops(c) ==
  CASE c = "lz"       -> {10, 20}
    [] c = "lzh"      -> {7, 22, 82}
    [] c \in {"rle", "lengths"} -> {12}
    [] c \in {"lzhTree", "huffmanTree"} -> {6}
    [] c = "ansTable" -> {5}
    [] c = "huffman"  -> {4, 62, 122}
    [] c = "ans"      -> {6, 43}
    [] c = "sequences" -> {2, 4}
    [] c = "blocks"   -> {2}
    [] c = "calls"    -> {7}
    [] c = "numbers"  -> {4}
    [] c = "predict"  -> {5}
    [] c \in {"words", "paths"} -> {3}

\* A match reaches back no further than there is data.
Fits(u) ==
  codec \in {"sequences", "blocks"} => u.off <= Len(Expand(data, History)) + Len(u.lits)

CodecInit == \E c \in Codecs : codec = c /\ data \in Seeds(c)

CodecNext ==
  /\ Len(data) \notin Stops(codec)
  /\ \E u \in Units(codec) : Fits(u) /\ data' = Append(data, u)
  /\ UNCHANGED codec

-----------------------------------------------------------------------------
(* The properties, each for the data of its codec: whatever unit is added, *)
(* what comes out is what went in.                                         *)

LZHConfigs == {[window |-> 16, chain |-> c, lazy |-> l, minMatch |-> 3] : c \in {1, 4}, l \in {0, 1, 3}}

\* PROPERTY: a payload of the zupt codecs is decoded to the data it was made of,
\* at every level and in a buffer of the size the reader has; so are the runs of
\* zeros, wherever they are cut, and the code lengths in its header
\* (zupt_lz.c:108-240, zupt_lzh.c:112-146, 382-457, 543-863).
LZRoundTrips ==
  [][/\ codec = "lz" =>
          LET n == Len(data') IN LZIsInverted(data', {n, n * 3 + 4}, {1, 3})
     /\ codec = "lzh" => LZHIsInverted(data', LZHConfigs)
     /\ codec = "rle" => RLEIsInverted(data')
     /\ codec = "lengths" => CodeLengthsSurvive(data')]_codecVars

\* PROPERTY: both tree builders make a code of any frequencies, within the length
\* limit; scaled frequencies fill the table and leave no symbol without a state;
\* and what was coded is read back, in one stream or four, with contexts or
\* without, away from the end of the stream or at it (zupt_lzh.c:208-329,
\* vv_huffman.c:156-900, vv_ans.c:113-339, 559-1403).
EntropyCodersAgree ==
  [][/\ codec = "lzhTree" => HuffBuildMakesACode(data')
     /\ codec = "huffmanTree" => LengthsMakeACode(data')
     /\ codec = "huffman" => HuffmanIsInverted(data', 6)
     /\ codec = "ansTable" => TablesAreFull(data')
     /\ codec = "ans" => AnsIsInverted(data', 3)]_codecVars

\* The bases in which all matches of the tokens can be said.
Bases(tokens) ==
  {base \in {MLBase, Shorter(MLBase)} :
     \A k \in DOMAIN tokens : tokens[k].len \in base[1] .. Reach(base, MLExtra)}

\* The tokens with and without literals after the last match.
WithTails(tokens, tails) == {Append(tokens, TokenOf(tail, 0, 0)) : tail \in tails}

BlockCases ==
  {c \in [mode : {"fast", "balanced"}, oldReader : BOOLEAN, v2 : BOOLEAN] :
     c.v2 \in FormatChoices(c.mode, FALSE, c.oldReader)}

\* PROPERTY: sequences of literals and matches are read back in every form, with
\* literals at the end or without; the block an encoder mode chooses is read back,
\* as are those of earlier encoders, except literal blocks with more literals than
\* two bytes count; the wide copies of the decoders neither write past the block
\* nor read outside of it or of their input, however damaged its numbers are; and
\* the program's own tables say every run and every match the parsers hand over
\* (vv_ans.c:1428-3028, vv_encoder.c:1803-1982, vv_decoder.c:136-858).
BlocksRoundTrip ==
  [][/\ codec = "sequences" =>
          /\ \A tokens \in WithTails(data', {0, 2, 6}), base \in Bases(data') :
               SequencesAreInverted(tokens, History, base, 14, FALSE)
          /\ SequenceTablesReach(65535, 65535, 65535)
     /\ codec = "blocks" =>
          \A tokens \in WithTails(data', {0, 2}) :
            /\ \A c \in BlockCases :
                 BlocksAreLossless(tokens, History, c.mode, c.v2, c.oldReader, 14)
            /\ TokensStayInside(tokens, History, 14)]_codecVars

\* PROPERTY: "the caller has lossless fallback block formats" (vv_ans.c:1643).
FallbackRoundTrips ==
  [][codec = "blocks" => 
       \A tokens \in WithTails(data', {0, 2}), c \in BlockCases :
         FallbackIsLossless(tokens, History, c.mode, c.v2, c.oldReader, 14)]_codecVars

WithinItself(tokens) ==
  \A k \in DOMAIN tokens :
    tokens[k].off <= Len(Expand(SubSeq(tokens, 1, k - 1), <<>>)) + Len(tokens[k].lits)

\* PROPERTY: what vvz_compress hands over is readable, whatever the encoder made
\* of it (vaptvupt_api.c:67-97).
AcceptedRoundTrips ==
  [][codec = "blocks" => 
       \A tokens \in WithTails(data', {0, 2}), c \in BlockCases :
         WithinItself(data') => AcceptedIsReadable(tokens, c.mode, c.v2, c.oldReader, 14, 3)]_codecVars

\* PROPERTY: the branch filters are undone on any bytes, code or not:
\* "inverse(forward(x)) == x" (vv_bcj.c:20-22, 38-187); so is prediction
\* (zupt_predict.c:31-85), and a number has one form on the wire, from which it is
\* read back (zupt_format.c:262-312).
TransformsAreUndone ==
  [][/\ codec = "calls" => FilterX86IsUndone(data')
     /\ codec = "words" => FilterArm64IsUndone(data')
     /\ codec = "predict" => PredictionIsUndone(data')
     /\ codec = "numbers" =>
          /\ OneFormOfANumber(data')
          /\ Len(data') <= 2 => EveryNumberIsReadBack(data')]_codecVars

\* PROPERTY: no two entries of an accepted archive come out in one place, and none
\* outside the destination; names that fit together are accepted
\* (zupt_format.c:2056-2149).
PathsFitTogether ==
  [][codec = "paths" => EntriesKeepApart(data') /\ EntriesThatFitAreTaken(data')]_codecVars
=============================================================================
