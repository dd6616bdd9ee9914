---------------------------- MODULE SequenceCode ----------------------------
(***************************************************************************)
(* The sequence coder of VaptVupt's blocks (vv_ans.c, from                 *)
(* vva_encode_sequences on).  A block comes as tokens [lits, len, off]:    *)
(* literals and the match after them, the last token without a match.      *)
(* The literals are coded together; of each token the length of its        *)
(* literals, its offset and its match length become codes of three ANS     *)
(* tables and the bits they leave open, in one stream written backwards.   *)
(***************************************************************************)
EXTENDS ANS, VVHuffman, Window

CONSTANTS
  MLBase, MLExtra,   \* ml_base and ml_extra: match lengths from 4
  LLBase, LLExtra,   \* ll_base and ll_extra: literal run lengths
  OFCodes,           \* VVA_OF_CODES, 27: three repeats and powers of two
  LLMax,             \* LL_MAX, 65535: the longest run a code can say
  SafeRun,           \* SAFEZONE_MAX_RUN, 65535
  LitSymbols,        \* 256
  Short, Wide, Widest  \* 8, 16 and 32: the units one load and store may move

ASSUME SequenceAssumption ==
  /\ Len(MLBase) = Len(MLExtra)
  /\ Len(LLBase) = Len(LLExtra)
  /\ LLMax \in Nat \ {0}
  /\ 4 < Short /\ Short < Wide /\ Wide < Widest /\ Widest <= 2 * Wide

\* The tables of the program.
RealMLBase ==
  <<4, 5, 6, 7, 8, 9, 10, 11, 12, 13, 14, 15, 16, 17, 18, 19, 20, 22, 24, 28, 32, 40, 48,
    64, 96, 128, 192, 256, 384, 512, 1024, 2048, 4096, 8192, 16384, 32768>>
RealMLExtra ==
  <<0, 0, 0, 0, 0, 0, 0, 0, 0, 0, 0, 0, 0, 0, 0, 0, 1, 1, 2, 2, 3, 3, 4, 5, 5, 6, 6, 7, 7,
    9, 10, 11, 12, 13, 14, 15>>
RealLLBase ==
  <<0, 1, 2, 3, 4, 5, 6, 7, 8, 9, 10, 11, 12, 13, 14, 15, 16, 18, 20, 24, 28, 32, 48, 64,
    128, 256, 512, 1024, 2048, 4096, 8192, 16384, 32768, 49152, 57344, 61440>>
RealLLExtra ==
  <<0, 0, 0, 0, 0, 0, 0, 0, 0, 0, 0, 0, 0, 0, 0, 0, 1, 1, 2, 2, 2, 4, 4, 6, 7, 8, 9, 10,
    11, 12, 13, 14, 14, 13, 12, 12>>

\* The tables of the second format say every length one less.
Shorter(base) == [i \in DOMAIN base |-> base[i] - 1]

-----------------------------------------------------------------------------
(* From tokens to codes. *)

\* ml_encode_with and ll_encode: the last base not above the value.
RangeCode(base, value) == Max({1} \cup {i \in DOMAIN base : base[i] <= value}) - 1

\* Code and open bits of a value; more than the code can say is cut off.
RangeBits(base, extra, value) ==
  LET c == RangeCode(base, value) + 1 IN LowBits(value - base[c], extra[c])

RangeValue(base, code, open) == base[code + 1] + open

\* of_encode: codes 0 to 2 repeat one of the last three offsets.
OffsetCode(rep, off) ==
  LET same == {k \in 1 .. 3 : rep[k] = off /\ off # 0}
  IN  IF same # {} THEN Min(same) - 1 ELSE 3 + Min({Log2[off], OFCodes - 4})

OffsetBits(code, off) == IF code < 3 THEN <<>> ELSE LowBits(off - Pow2[code - 3], code - 3)

Repeats(rep, off) == IF off \in {0, rep[1]} THEN rep ELSE <<off, rep[1], rep[2]>>

\* The last three offsets before each entry.
RepeatsBefore(entries) ==
  [k \in DOMAIN entries |->
     FoldLeft(LAMBDA rep, e : Repeats(rep, e.off), <<0, 0, 0>>, SubSeq(entries, 1, k - 1))]

NoMatchEntry(n) == [ll |-> n, len |-> 0, off |-> 0]

\* A long run at the end of the block, in pieces.
Pieces(n) ==
  LET full == (n - 1) \div LLMax
  IN  IF n <= LLMax THEN <<NoMatchEntry(n)>>
      ELSE Append([k \in 1 .. full |-> NoMatchEntry(LLMax)], NoMatchEntry(n - full * LLMax))

\* parse_sequences: which entries have a match is told by a count, so entries
\* without one can only stand at the end; a long run elsewhere is refused.
ParseSequences(tokens) ==
  IF \E k \in DOMAIN tokens : tokens[k].len > 0 /\ Len(tokens[k].lits) > LLMax THEN Failed
  ELSE FlattenSeq([k \in DOMAIN tokens |->
         LET t == tokens[k]
         IN  IF t.len = 0 THEN Pieces(Len(t.lits))
             ELSE <<[ll |-> Len(t.lits), len |-> t.len, off |-> t.off]>>])

LiteralsOf(tokens) == FlattenSeq([k \in DOMAIN tokens |-> tokens[k].lits])

\* The literal coders that may win the race for the smallest result; a reader
\* that is too old for the four-stream Huffman form can be asked for.
LiteralForms(lits, oldReader) ==
  {"raw"} \cup (IF lits = <<>> THEN {} ELSE {"ans4", "ans1", "huff"})
          \cup (IF Len(lits) < MinFour \/ oldReader THEN {} ELSE {"huff4"})

EncodeLiterals(lits, form) ==
  CASE form = "ans4"  -> EncodeAns4(lits, LitSymbols)
    [] form = "ans1"  -> EncodeAns(lits, LitSymbols)
    [] form = "huff"  -> Encode(lits, LitSymbols)
    [] form = "huff4" -> Encode4(lits, LitSymbols)
    [] OTHER          -> lits

DecodeLiterals(coded, form, n) ==
  LET DataOf(result) == IF result = Failed THEN Failed ELSE result.data
  IN  CASE form = "ans4"  -> DecodeAns4(coded, n, LitSymbols)
        [] form = "ans1"  -> DataOf(DecodeAns(coded, n, LitSymbols))
        [] form = "huff"  -> DataOf(DecodeHuffman(coded, n, LitSymbols))
        [] form = "huff4" -> Decode4(coded, n, LitSymbols)
        [] OTHER          -> IF coded = <<>> THEN Unset(n)   \* nothing is decoded at all
                             ELSE IF Len(coded) < n THEN Failed ELSE SubSeq(coded, 1, n)

-----------------------------------------------------------------------------
(* The stream of codes. *)

\* The bits of an entry, and the three states before it, from those after it.
EntryBits(entry, codes, after, norms, decs, base) ==
  LET ll == EncSym(norms.ll, decs.ll, after.ll, codes.ll)
      of == EncSym(norms.of, decs.of, after.of, codes.of)
      ml == EncSym(norms.ml, decs.ml, after.ml, codes.ml)
      run == ll.bits \o RangeBits(LLBase, LLExtra, entry.ll)
  IN  IF entry.len = 0
      THEN [after EXCEPT !.ll = ll.slot, !.bits = run \o @]
      ELSE [ll |-> ll.slot, of |-> of.slot, ml |-> ml.slot,
            bits |-> run \o of.bits \o OffsetBits(codes.of, entry.off)
                         \o ml.bits \o RangeBits(base, MLExtra, entry.len) \o after.bits]

\* vva_encode_sequences_impl with the literals coded in a given form.
EncodeSequences(tokens, base, form) ==
  LET entries == ParseSequences(tokens)
      lits    == LiteralsOf(tokens)
      rep     == RepeatsBefore(entries)
      codes   == [k \in DOMAIN entries |->
                    [ll |-> RangeCode(LLBase, entries[k].ll),
                     of |-> IF entries[k].len = 0 THEN 0 ELSE OffsetCode(rep[k], entries[k].off),
                     ml |-> IF entries[k].len = 0 THEN 0 ELSE RangeCode(base, entries[k].len)]]
      matched == {k \in DOMAIN entries : entries[k].len > 0}
      Freq(Code(_), n, S) == [i \in 1 .. n |-> Cardinality({k \in S : Code(k) = i - 1})]
      Table(freq) == IF Present(freq) = {} THEN freq ELSE NormalizeFreq(freq)
      norms == [ll |-> Table(Freq(LAMBDA k : codes[k].ll, Len(LLBase), DOMAIN entries)),
                of |-> Table(Freq(LAMBDA k : codes[k].of, OFCodes, matched)),
                ml |-> Table(Freq(LAMBDA k : codes[k].ml, Len(base), matched))]
      decs  == [ll |-> DecTable(norms.ll), of |-> DecTable(norms.of), ml |-> DecTable(norms.ml)]
      coded == FoldRight(LAMBDA k, after : EntryBits(entries[k], codes[k], after, norms, decs, base),
                         [k \in DOMAIN entries |-> k],
                         [ll |-> 0, of |-> 0, ml |-> 0, bits |-> <<>>])
  IN  IF entries = Failed THEN Failed
      ELSE [count |-> Len(lits), form |-> form, lits |-> EncodeLiterals(lits, form),
            matches |-> Cardinality(matched), norms |-> norms,
            states |-> [ll |-> coded.ll, of |-> coded.of, ml |-> coded.ml],
            stream |-> Pack(coded.bits)]

-----------------------------------------------------------------------------
(* Decoding. *)

\* copy_match_avx2, and match_copy_32, _16, _8 and match_overlap: a match in steps
\* none of which reads what it writes; no unit past its end is written.  Without
\* AVX2 the widest steps are those of copy_match_sse2, _neon and _scalar.
MatchSteps(off, len, avx2) ==
  CASE avx2 /\ off >= Widest -> FullSteps(len, Widest) \o Steps(len % Widest, Wide)
    [] off >= Wide           -> Steps(len, Wide)
    [] off >= Short          -> FullSteps(len, Short) \o FullSteps(len % Short, 1)
    [] OTHER                 -> FullSteps(len, 1)

CopyMatch(b, off, len, avx2) == CopyInSteps(b, off, MatchSteps(off, len, avx2))

\* Mutant: the same, whether the buffer has room for the step or not.
WildMatchAnywhere(b, off, len) ==
  LET width == IF off >= Wide THEN Wide ELSE Short
  IN  IF off >= Short /\ len \in 4 .. width THEN TransferBack(b, off, width, len)
      ELSE CopyMatch(b, off, len, FALSE)

\* The match copy of vva_decode_sequences_impl: a short match is one step that
\* may write ahead of it, where there is room; a match of 3 is copied alone.
WildMatch(b, off, len) ==
  LET width == IF off >= Wide THEN Wide ELSE Short
  IN  IF off >= Short /\ len \in 4 .. width /\ Room(b) >= width
      THEN TransferBack(b, off, width, len)
      ELSE CopyMatch(b, off, len, FALSE)

\* Its literal copy, from memory that goes on behind the literals.
WildLiterals(b, lits, pos, run) ==
  LET width == IF run \in 1 .. Wide /\ Room(b) >= Wide THEN Wide ELSE run
  IN  Transfer(b, lits \o Unset(Wide), pos, width, run)

\* Away from both ends the bounds of an entry are not checked: any offset finds
\* history, and a run and a match fit.
InSafeZone(produced, history, cap, maxOffset) ==
  /\ cap >= 2 * SafeRun
  /\ history + produced >= maxOffset
  /\ produced <= cap - 2 * SafeRun

\* What corrupt input may take beyond a turn for every literal and match; 16.
ExtraTurns == 16

\* A table code and its open bits: the value, the state after, the reader after.
ReadCode(dec, state, r, Width(_)) ==
  LET d == ReadBits(r, dec[state].nb)
      open == ReadBits(d.r, Width(dec[state].sym))
  IN  [code |-> dec[state].sym, state |-> dec[state].base + d.value,
       open |-> open.value, r |-> open.r]

\* vva_decode_sequences_impl: the buffer starts with the history of the frame,
\* and has room for cap units after it.
DecodeSequences(block, out0, cap, base, maxOffset) ==
  LET history == Len(out0)
      lits == DecodeLiterals(block.lits, block.form, block.count)
      Sum(norm) == SumOver(norm, DOMAIN norm)
      decs == [ll |-> DecTable(block.norms.ll), of |-> DecTable(block.norms.of),
               ml |-> DecTable(block.norms.ml)]
      RECURSIVE From(_, _, _, _, _, _, _)
      From(b, pos, matches, st, rep, r, turns) ==
        LET safe == InSafeZone(b.at - history, history, cap, maxOffset)
            ll  == ReadCode(decs.ll, st.ll, Fill(r), LAMBDA c : LLExtra[c + 1])
            run == RangeValue(LLBase, ll.code, ll.open)
            lit == WildLiterals(b, lits, pos, run)
            of  == ReadCode(decs.of, st.of, ll.r, LAMBDA c : IF c < 3 THEN 0 ELSE c - 3)
            off == IF of.code < 3 THEN rep[of.code + 1] ELSE Pow2[of.code - 3] + of.open
            ml  == ReadCode(decs.ml, st.ml, of.r, LAMBDA c : MLExtra[c + 1])
            len == RangeValue(base, ml.code, ml.open)
        IN  IF b.over THEN Overrun
            ELSE IF pos >= block.count /\ matches >= block.matches THEN Produced(b)
            ELSE IF turns = 0 \/ run > block.count - pos THEN Failed
            ELSE IF ~safe /\ run > Room(b) THEN Failed
            ELSE IF lit.over THEN Overrun
            ELSE IF matches >= block.matches
            THEN From(lit, pos + run, matches, [st EXCEPT !.ll = ll.state], rep, ll.r, turns - 1)
            ELSE IF off = 0 \/ off > maxOffset THEN Failed
            ELSE IF ~safe /\ (off > lit.at \/ len > Room(lit)) THEN Failed
            ELSE From(WildMatch(lit, off, len), pos + run, matches + 1,
                      [ll |-> ll.state, of |-> of.state, ml |-> ml.state],
                      Repeats(rep, off), ml.r, turns - 1)
  IN  IF \/ block.count > 0 /\ lits = Failed
         \/ block.count > cap \/ block.matches > cap THEN Failed
      ELSE IF \/ Sum(block.norms.ll) # TableSize /\ (block.count > 0 \/ block.matches > 0)
              \/ block.matches > 0 /\ (\/ Sum(block.norms.of) # TableSize
                                       \/ Sum(block.norms.ml) # TableSize)
      THEN Failed
      ELSE From(Buffer(out0, cap), 0, 0, block.states, <<0, 0, 0>>, Reader(block.stream),
                block.count + block.matches + ExtraTurns)

-----------------------------------------------------------------------------

\* What tokens stand for, after the history of the frame.
Expand(tokens, out0) ==
  FoldLeft(LAMBDA out, t : LET lit == out \o t.lits
                           IN  IF t.len = 0 THEN lit ELSE Copy[t.len, lit, t.off],
           out0, tokens)

MatchesOf(tokens) == {k \in DOMAIN tokens : tokens[k].len > 0}

\* Blocks some of whose numbers are damaged, with their literals as they are.
DamagedBlocks(block) ==
  {[block EXCEPT !.count = n] : n \in {block.count - 1, block.count + 1} \cap Nat}
          \cup {[block EXCEPT !.matches = n] : n \in {block.matches - 1, block.matches + 1} \cap Nat}
          \cup {[block EXCEPT !.states.ll = x] : x \in {0, TableSize \div 2}}
          \cup {[block EXCEPT !.states.of = x] : x \in {0, TableSize - 1}}
          \cup {[block EXCEPT !.states.ml = x] : x \in {1, TableSize - 1}}
          \cup {[block EXCEPT !.lits = <<>>]}

\* PROPERTY: a sequence block reads back as what its tokens stand for, whatever
\* codes the literals, with the history of the frame before it, and a buffer of
\* exactly its size; in a smaller buffer it is refused.  Whatever its numbers say,
\* nothing outside the buffers is read or written, although short copies write
\* ahead of what they produce (vv_ans.c:1595-1706, 1788-2440, 2490-3028).
SequencesAreInverted(tokens, out0, base, maxOffset, oldReader) ==
  LET whole == Expand(tokens, out0)
      size  == Len(whole) - Len(out0)
      Block(form) == EncodeSequences(tokens, base, form)
      Read(block, cap) == DecodeSequences(block, out0, cap, base, maxOffset)
  IN  ParseSequences(tokens) # Failed /\ size > 0 =>
        /\ \A form \in LiteralForms(LiteralsOf(tokens), oldReader) : Read(Block(form), size) = whole
        /\ \A cap \in {size - 1, size - 2} \cap Nat : Read(Block("raw"), cap) = Failed
        /\ \A damaged \in DamagedBlocks(Block("raw")) : Read(damaged, size) # Overrun
        /\ \A k \in MatchesOf(tokens), off \in {maxOffset, maxOffset + 1} :
             Read(EncodeSequences([tokens EXCEPT ![k].off = off], base, "raw"), size) # Overrun

Reach(base, extra) == Last(base) + Pow2[Last(extra)] - 1

\* PROPERTY: the program's tables leave no gap and reach what the parsers hand
\* over: the longest match of each format, the longest run before it is cut; and
\* no code says more than the safe zone of the decoder allows for.
SequenceTablesReach(maxMatch, llMax, safeRun) ==
  LET NoGap(base, extra) ==
        /\ \A i \in DOMAIN base \ {1} : base[i] \in (base[i - 1] + 1) .. (base[i - 1] + Pow2[extra[i - 1]])
        /\ \A i \in DOMAIN base : base[i] + Pow2[extra[i]] - 1 <= safeRun
  IN  /\ NoGap(RealMLBase, RealMLExtra)
      /\ NoGap(Shorter(RealMLBase), RealMLExtra)
      /\ NoGap(RealLLBase, RealLLExtra)
      /\ Reach(RealMLBase, RealMLExtra) >= maxMatch
      /\ Reach(Shorter(RealMLBase), RealMLExtra) >= maxMatch - 1
      /\ Reach(RealLLBase, RealLLExtra) >= llMax
=============================================================================
