-------------------------------- MODULE LZH --------------------------------
(***************************************************************************)
(* The LZ77 and Huffman coder, codec 0x0010 (zupt_lzh.c): zero runs, a     *)
(* parse that looks up to three positions ahead, two Huffman codes whose   *)
(* lengths are themselves run-length coded, and one stream of bits.        *)
(* Byte order and the sizes of the header's fields are left out: a coded   *)
(* block is a record of its parts.                                         *)
(***************************************************************************)
EXTENDS MatchFinder, PrefixCode

CONSTANTS
  Literals,   \* 256: literals are 0 .. Literals - 1, the end of block is Literals
  RunMax,     \* 65535: zeros counted at a time
  ChunkMax,   \* 255: zeros one count byte can say
  CLRepeat,   \* <<3, 6>>: how often code 16 repeats a length
  CLZeros,    \* <<3, 10>>: how many zeros code 17 stands for
  CLMany      \* <<11, 138>>: and code 18

ASSUME LZHAssumption ==
  /\ Literals \in Nat \ {0}
  /\ ChunkMax \in 1 .. Literals - 1   \* a count is written as a unit
  /\ RunMax \in Nat /\ RunMax % ChunkMax = 0

EOB == Literals
NoPayload == <<>>

LenBase ==
  <<3, 4, 5, 6, 7, 8, 9, 10, 11, 13, 15, 17, 19, 23, 27, 31, 35, 43, 51, 59,
    67, 83, 99, 115, 131, 163, 195, 227, 258, 259, 291, 355, 483, 739, 1251, 2275>>
LenExtra ==
  <<0, 0, 0, 0, 0, 0, 0, 0, 1, 1, 1, 1, 2, 2, 2, 2, 3, 3, 3, 3,
    4, 4, 4, 4, 5, 5, 5, 5, 0, 5, 6, 7, 8, 9, 10, 11>>
DistBase ==
  <<1, 2, 3, 4, 5, 7, 9, 13, 17, 25, 33, 49, 65, 97, 129, 193, 257, 385, 513, 769,
    1025, 1537, 2049, 3073, 4097, 6145, 8193, 12289, 16385, 24577,
    32769, 49153, 65537, 98305, 131073, 196609, 262145, 393217, 524289, 786433>>
DistExtra ==
  <<0, 0, 0, 0, 1, 1, 2, 2, 3, 3, 4, 4, 5, 5, 6, 6, 7, 7, 8, 8, 9, 9, 10, 10,
    11, 11, 12, 12, 13, 13, 14, 14, 15, 15, 16, 16, 17, 17, 18, 18>>

\* len_to_code and dist_to_code: the last base that is not above the value.
CodeOf(base, value) == Max({i \in DOMAIN base : base[i] <= value}) - 1

\* lzh_config: the level's window, chain, look-ahead and shortest match.
LZHConfig(level) ==
  LET Config(win, chain, lazy, min) ==
        [window |-> win, chain |-> chain, lazy |-> lazy, minMatch |-> min]
  IN  CASE level = 1 -> Config(65536, 12, 0, 4)
        [] level = 2 -> Config(131072, 24, 1, 4)
        [] level = 3 -> Config(131072, 48, 1, 3)
        [] level = 4 -> Config(262144, 96, 2, 3)
        [] level = 5 -> Config(524288, 160, 2, 3)
        [] level = 7 -> Config(1048576, 384, 3, 3)
        [] level = 8 -> Config(1048576, 512, 4, 3)
        [] level = 9 -> Config(1048576, 768, 5, 3)
        [] OTHER -> Config(524288, 256, 3, 3)

-----------------------------------------------------------------------------
(* Runs of zeros. *)

ZeroRun(data, i) ==
  Max({n \in 0 .. Min({Len(data) - i, RunMax}) : \A k \in 0 .. n - 1 : At(data, i + k) = 0})

RECURSIVE RunChunks(_)
RunChunks(run) ==
  IF run = 0 THEN <<>>
  ELSE IF run > ChunkMax THEN <<0, ChunkMax>> \o RunChunks(run - ChunkMax)
  ELSE <<0, run>>

\* rle_encode: a zero and a count; a single zero is a zero and the count 0.
RLEEncode(data) ==
  LET RECURSIVE From(_)
      From(i) == IF i >= Len(data) THEN <<>>
                 ELSE IF At(data, i) # 0 THEN <<At(data, i)>> \o From(i + 1)
                 ELSE LET run == ZeroRun(data, i)
                      IN  (IF run = 1 THEN <<0, 0>> ELSE RunChunks(run)) \o From(i + run)
      coded == From(0)
  IN  IF Len(coded) < Len(data) THEN coded ELSE NoPayload

Zeros(n) == [k \in 1 .. n |-> 0]

\* rle_decode into a buffer of cap units.
RLEDecode(coded, cap) ==
  LET RECURSIVE From(_, _)
      From(i, out) ==
        IF i >= Len(coded) \/ Len(out) >= cap THEN out
        ELSE IF At(coded, i) # 0 \/ i + 1 >= Len(coded) THEN From(i + 1, Append(out, At(coded, i)))
        ELSE IF At(coded, i + 1) = 0 THEN From(i + 2, Append(out, 0))
        ELSE IF Len(out) + At(coded, i + 1) > cap THEN NoPayload
        ELSE From(i + 2, out \o Zeros(At(coded, i + 1)))
  IN  From(0, <<>>)

\* When runs are used at all: an eighth of the data is zeros, and a tenth saved.
UsesRLE(data) ==
  /\ Cardinality({i \in DOMAIN data : data[i] = 0}) > Len(data) \div 8
  /\ RLEEncode(data) # NoPayload
  /\ Len(RLEEncode(data)) < (Len(data) * 9) \div 10

-----------------------------------------------------------------------------
(* huff_build. *)

\* Splits the deepest code that is not of the longest length into two, and
\* takes one of the longest away.
SplitOne(counts) ==
  LET b == Max({d \in 1 .. MaxCodeLen - 1 : counts[d] > 0})
      split == [counts EXCEPT ![b] = @ - 1, ![b + 1] = @ + 2]
  IN  [split EXCEPT ![MaxCodeLen] = @ - 1]

\* Until the code space is not overdrawn: one unit less at every turn.
RECURSIVE Fitted(_, _)
Fitted(counts, kraft) ==
  IF kraft <= Pow2[MaxCodeLen] \/ \A d \in 1 .. MaxCodeLen - 1 : counts[d] = 0 THEN counts
  ELSE Fitted(SplitOne(counts), kraft - 1)

\* The code lengths for the frequencies.
HuffBuild(freq) ==
  LET depths  == TreeDepths(freq)
      clamped == [i \in DOMAIN freq |-> Min({depths[i], MaxCodeLen})]
      counts  == LengthCounts(clamped)
      order   == SetToSortSeq(Used(clamped),
                              LAMBDA i, j : freq[i] > freq[j] \/ (freq[i] = freq[j] /\ i < j))
  IN  IF Kraft(counts) <= Pow2[MaxCodeLen] THEN clamped
      ELSE Distribute(clamped, Fitted(counts, Kraft(counts)), order)

\* huff_dec: the bits after the end read as zeros.
HuffDec(codes, bits, pos) ==
  LET peek == [k \in 1 .. MaxCodeLen |-> IF pos + k <= Len(bits) THEN bits[pos + k] ELSE 0]
  IN  Lookup(codes, MaxCodeLen, peek)
-----------------------------------------------------------------------------
(* The code lengths of a block, run-length coded. *)

CLRepeatCode == MaxCodeLen + 1
CLZerosCode  == MaxCodeLen + 2
CLManyCode   == MaxCodeLen + 3

RunOf(lengths, i, value, most) ==
  Max({n \in 0 .. Min({Len(lengths) - i, most}) : \A k \in 0 .. n - 1 : At(lengths, i + k) = value})

Repeat(value, n) == [k \in 1 .. n |-> value]

ZeroCode(run) ==
  IF run >= CLMany[1] THEN <<CLManyCode, run - CLMany[1]>>
  ELSE IF run >= CLZeros[1] THEN <<CLZerosCode, run - CLZeros[1]>>
  ELSE Repeat(0, run)

RepeatCode(value, run) ==
  IF run >= CLRepeat[1] THEN <<CLRepeatCode, run - CLRepeat[1]>> ELSE Repeat(value, run)

\* cl_encode.
CLEncode(lengths) ==
  LET RECURSIVE From(_)
      From(i) ==
        IF i >= Len(lengths) THEN <<>>
        ELSE IF At(lengths, i) = 0
        THEN LET run == RunOf(lengths, i, 0, CLMany[2]) IN ZeroCode(run) \o From(i + run)
        ELSE LET run == RunOf(lengths, i + 1, At(lengths, i), CLRepeat[2])
             IN  <<At(lengths, i)>> \o RepeatCode(At(lengths, i), run) \o From(i + 1 + run)
  IN  From(0)

\* cl_decode of at most count lengths; -1 for a code that is none or is cut off.
CLDecode(coded, count) ==
  LET Cut(lengths) == IF Len(lengths) > count THEN SubSeq(lengths, 1, count) ELSE lengths
      RECURSIVE From(_, _, _)
      From(i, prev, out) ==
        IF Len(out) >= count \/ i >= Len(coded) THEN out \o Zeros(count - Len(out))
        ELSE IF At(coded, i) <= MaxCodeLen
        THEN From(i + 1, At(coded, i), Append(out, At(coded, i)))
        ELSE IF i + 1 >= Len(coded) \/ At(coded, i) > CLManyCode THEN <<-1>>
        ELSE LET n == At(coded, i + 1)
             IN  From(i + 2, prev,
                      Cut(out \o CASE At(coded, i) = CLRepeatCode -> Repeat(prev, CLRepeat[1] + n)
                                   [] At(coded, i) = CLZerosCode -> Zeros(CLZeros[1] + n)
                                   [] OTHER -> Zeros(CLMany[1] + n)))
  IN  From(0, 0, <<>>)

-----------------------------------------------------------------------------
(* The parse: a sequence of matches, and of literals in the same form. *)

Literal(u) == [len |-> u, dist |-> 0]

IsLiteral(sym) == sym.dist = 0

\* Mutant: the position that was given up for a better one is not written.
LookAheadDropped(data, at, config, depth) ==
  LET next == FindMatch(data, at.seen \cup {at.ip}, at.ip + 1, config)
  IN  IF depth > 0 /\ next.len > at.match.len + 1
      THEN [at EXCEPT !.ip = @ + 1, !.match = next, !.seen = @ \cup {at.ip}]
      ELSE at

\* From a match at ip, the better one one, two or three positions on, if each
\* step gains at least two units; the positions passed become literals.
RECURSIVE LookAhead(_, _, _, _)
LookAhead(data, at, config, depth) ==
  IF depth = 0 \/ at.ip + 1 >= Len(data) THEN at
  ELSE LET seen == at.seen \cup {at.ip}
           next == FindMatch(data, seen, at.ip + 1, config)
       IN  IF next.len <= at.match.len + 1 THEN [at EXCEPT !.seen = seen]
           ELSE LookAhead(data,
                          [ip |-> at.ip + 1, match |-> next, seen |-> seen,
                           syms |-> Append(at.syms, Literal(At(data, at.ip)))],
                          config, depth - 1)

\* The symbols of the data.
LZHParse(data, config) ==
  LET RECURSIVE Walk(_, _, _)
      Walk(ip, seen, syms) ==
        IF ip >= Len(data) THEN syms
        ELSE LET first == FindMatch(data, seen, ip, config)
                 best  == LookAhead(data, [ip |-> ip, match |-> first, seen |-> seen, syms |-> syms],
                                    config, Min({config.lazy, 3}))
                 end   == best.ip + best.match.len
             IN  IF first = NoMatch
                 THEN Walk(ip + 1, seen \cup {ip}, Append(syms, Literal(At(data, ip))))
                 ELSE Walk(end,
                           best.seen \cup (best.ip + 1) .. (end - 1)
                             \cup (IF config.lazy < 1 THEN {best.ip} ELSE {}),
                           Append(best.syms, best.match))
  IN  Walk(0, {}, <<>>)

SymbolOf(sym) == IF IsLiteral(sym) THEN sym.len ELSE EOB + 1 + CodeOf(LenBase, sym.len)

Frequencies(values, n) == [i \in 1 .. n |-> Cardinality({k \in DOMAIN values : values[k] = i - 1})]

\* The extra bits of a value, the lowest first.
ExtraBits(base, extra, value) ==
  LET c == CodeOf(base, value) + 1 IN LowBits(value - base[c], extra[c])

MatchBits(codes, sym) ==
  ExtraBits(LenBase, LenExtra, sym.len)
    \o codes[CodeOf(DistBase, sym.dist) + 1]
    \o ExtraBits(DistBase, DistExtra, sym.dist)

\* zupt_lzh_compress.  A result is used only if it is shorter than the data;
\* the size check is left out, and every result is looked at.
LZHCompress(data, config) ==
  LET rle   == UsesRLE(data)
      syms  == LZHParse(IF rle THEN RLEEncode(data) ELSE data, config)
      lits  == Append([k \in DOMAIN syms |-> SymbolOf(syms[k])], EOB)
      dists == [k \in {j \in DOMAIN syms : ~IsLiteral(syms[j])} |-> CodeOf(DistBase, syms[k].dist)]
      llens == HuffBuild(Frequencies(lits, Max({EOB} \cup ToSet(lits)) + 1))
      dlens == HuffBuild(Frequencies(dists, Max({0} \cup {dists[k] : k \in DOMAIN dists}) + 1))
      llcodes == CanonicalCodes(llens)
      dcodes  == CanonicalCodes(dlens)
      bits  == FlattenSeq([k \in DOMAIN lits |->
                 llcodes[lits[k] + 1] \o
                   (IF k \in DOMAIN dists THEN MatchBits(dcodes, syms[k]) ELSE <<>>)])
  IN  [rle |-> rle, lits |-> Len(llens), llens |-> CLEncode(llens),
       dists |-> Len(dlens), dlens |-> CLEncode(dlens), bits |-> bits]

-----------------------------------------------------------------------------

NumberOf(bits, pos, n) ==
  ValueOf([k \in 1 .. n |-> IF pos + k <= Len(bits) THEN bits[pos + k] ELSE 0])

\* zupt_lzh_decompress into a buffer of cap units: it stops at the end of block
\* and at anything it cannot read.
LZHDecompress(block, cap) ==
  LET llcodes == CanonicalCodes(CLDecode(block.llens, block.lits))
      dcodes  == CanonicalCodes(CLDecode(block.dlens, block.dists))
      RECURSIVE From(_, _)
      From(pos, out) ==
        LET sym  == HuffDec(llcodes, block.bits, pos)
            afterSym == pos + Len(llcodes[sym + 1])
            l    == sym - EOB
            len  == LenBase[l] + NumberOf(block.bits, afterSym, LenExtra[l])
            at   == afterSym + LenExtra[l]
            d    == HuffDec(dcodes, block.bits, at)
            afterDist == at + Len(dcodes[d + 1])
            dist == DistBase[d + 1] + NumberOf(block.bits, afterDist, DistExtra[d + 1])
        IN  IF sym = -1 \/ sym = EOB THEN out
            ELSE IF sym < EOB
            THEN IF Len(out) >= cap THEN out ELSE From(afterSym, Append(out, sym))
            ELSE IF l > Len(LenBase) \/ d = -1 THEN out
            ELSE IF dist > Len(out) \/ Len(out) + len > cap THEN out
            ELSE From(afterDist + DistExtra[d + 1], Copy[len, out, dist])
  IN  IF block.rle THEN RLEDecode(From(0, <<>>), cap) ELSE From(0, <<>>)

-----------------------------------------------------------------------------

\* PROPERTY: at every level, the block of some data is decoded to that data
\* (zupt_lzh.c: compress 547-751, decompress 757-863).
LZHIsInverted(data, configs) ==
  \A config \in configs : LZHDecompress(LZHCompress(data, config), Len(data)) = data

\* PROPERTY: rle_decode undoes rle_encode, whatever the runs and wherever the
\* data ends.
RLEIsInverted(data) ==
  RLEEncode(data) = NoPayload \/ RLEDecode(RLEEncode(data), Len(data)) = data

\* PROPERTY: huff_build makes a usable code of every set of frequencies, also
\* where the tree is deeper than the longest code and the space overdrawn.
HuffBuildMakesACode(freq) == IsCodeFor(freq, HuffBuild(freq))

\* PROPERTY: cl_decode undoes cl_encode for every list of code lengths.
CodeLengthsSurvive(lengths) == CLDecode(CLEncode(lengths), Len(lengths)) = lengths

\* PROPERTY: the tables leave no gap: each length up to the longest match and
\* each end of each distance class is written as a code and bits that say it.
TablesCover(maxMatch, window) ==
  LET Says(base, extra, v) == LET c == CodeOf(base, v) + 1
                              IN  v - base[c] < Pow2[extra[c]]
  IN  /\ \A len \in 3 .. maxMatch : Says(LenBase, LenExtra, len)
      /\ \A i \in DOMAIN DistBase : /\ DistBase[i] <= window => Says(DistBase, DistExtra, DistBase[i])
                                    /\ Says(DistBase, DistExtra, Min({DistBase[i] + Pow2[DistExtra[i]] - 1, window}))
      /\ \A i \in DOMAIN DistBase \ {1} : DistBase[i] = DistBase[i - 1] + Pow2[DistExtra[i - 1]]
      /\ DistBase[Len(DistBase)] + Pow2[DistExtra[Len(DistExtra)]] - 1 >= window
=============================================================================
