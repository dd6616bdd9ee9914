------------------------------ MODULE VVBlock ------------------------------
(***************************************************************************)
(* A block of a VaptVupt frame: what emit_block (vv_encoder.c) may write   *)
(* for a parsed block, and what the block decoders (vv_decoder.c) make of  *)
(* it.  The parsers' choice of matches is a given list of tokens; which    *)
(* coding is the shortest is left open, so every coding the code would     *)
(* take if it were the shortest is looked at.  How a token's numbers are   *)
(* laid out in bytes is left out.                                          *)
(***************************************************************************)
EXTENDS SequenceCode

CONSTANTS
  CountLimit,       \* 2^16: the literals of an 'A' or 'I' block count in two bytes
  LengthMax,        \* 15: a length in a token from which on bytes extend it
  TokenOffsetBytes,      \* off_bytes: 2, or 3 in a large window
  InputMargin,      \* 48: what an AVX2 build wants before the end of the tokens
  OutputMargin      \* 72: and of the buffer

ASSUME MarginsAssumption ==
  /\ LengthMax - 1 <= Wide
  /\ Wide <= InputMargin /\ Wide <= OutputMargin

Modes == {"fast", "balanced", "extreme"}

\* effective_format_v2 and the trial of vv_compress_inner: whether a frame may
\* be coded with matches from 3.
FormatChoices(mode, wanted, oldReader) ==
  IF mode = "fast" THEN {FALSE}
  ELSE IF wanted THEN {TRUE}
  ELSE IF oldReader THEN {FALSE} ELSE BOOLEAN

BaseOf(v2) == IF v2 THEN Shorter(MLBase) ELSE MLBase

\* emit_block: the codings it may choose for a block's tokens.
Codings(tokens, mode, v2, oldReader) ==
  LET lits == LiteralsOf(tokens)
      raw == [kind |-> "raw", form |-> "raw"]
      plain == [kind |-> "plain", form |-> "raw"]
      sequences == IF ParseSequences(tokens) = Failed THEN {}
                   ELSE [kind : {"seq"}, form : LiteralForms(lits, oldReader)]
      literals == IF lits = <<>> THEN {} ELSE [kind : {"lits"}, form : {"ans4", "ans1"}]
  IN  {raw} \cup (IF mode = "fast" THEN {plain}
                  ELSE sequences \cup (IF v2 THEN {} ELSE literals \cup {plain}))

\* Earlier encoders also wrote literal blocks with the tags 'H' and 'C'.
EarlierCodings(tokens, v2) ==
  IF v2 \/ LiteralsOf(tokens) = <<>> THEN {} ELSE [kind : {"lits"}, form : {"huff", "ctx"}]

\* extract_literals: the literals apart, and the tokens without them.  The
\* number of literals is written in two bytes.
LiteralBlock(tokens, form) ==
  LET lits == LiteralsOf(tokens)
  IN  [count |-> Len(lits) % CountLimit,
       lits |-> IF form = "ctx" THEN EncodeAnsCtx(lits, LitSymbols) ELSE EncodeLiterals(lits, form),
       runs |-> [k \in DOMAIN tokens |->
                   [run |-> Len(tokens[k].lits), len |-> tokens[k].len, off |-> tokens[k].off]]]

\* The block in one of its codings.
WriteBlock(coding, tokens, content, v2) ==
  [kind |-> coding.kind, form |-> coding.form, size |-> Len(content), v2 |-> v2,
   body |-> CASE coding.kind = "raw"   -> content
              [] coding.kind = "plain" -> tokens
              [] coding.kind = "seq"   -> EncodeSequences(tokens, BaseOf(v2), coding.form)
              [] OTHER                 -> LiteralBlock(tokens, coding.form)]

-----------------------------------------------------------------------------

\* The bytes of a token, and of its literals if they stand in it.
ExtensionBytes(n) == IF n < LengthMax THEN 0 ELSE 1 + (n - LengthMax) \div 255

TokenBytes(t) ==
  1 + ExtensionBytes(Len(t.lits)) + Len(t.lits)
    + (IF t.len = 0 THEN 0 ELSE TokenOffsetBytes + ExtensionBytes(t.len - 4))

\* match_copy_32_hot and its guard: one step if that is enough, which may write
\* ahead of the match.
HotMatch(b, off, len) ==
  IF off >= Widest /\ len <= Widest /\ Room(b) >= Widest THEN TransferBack(b, off, Widest, len)
  ELSE CopyMatch(b, off, len, TRUE)

\* decode_block_tokens_impl: out0 is what the frame has produced so far.  An AVX2
\* build copies in wider steps, writing ahead, as long as it is away from the end
\* of its input and of the buffer; behind the literals of a token it then reads
\* the bytes that follow them, and with the whole window behind it it does not ask
\* whether an offset finds history.  decode_stripped_tokens has its literals
\* elsewhere, and only the general loop.
DecodeTokens(tokens, out0, cap, maxOffset, avx2, stripped) ==
  LET Turn(s, t) ==
        LET n == Len(t.lits)
            fast == avx2 /\ ~stripped /\ s.left > InputMargin /\ Room(s.b) > OutputMargin
            wild == fast /\ n < LengthMax
            input == t.lits \o (IF wild THEN Unset(s.left - 1 - n) ELSE <<>>)
            lit == Transfer(s.b, input, 0, IF wild THEN Wide ELSE n, n)
            known == fast /\ s.b.at > maxOffset
        IN  IF ~s.ok \/ s.b.over THEN s
            ELSE IF n > Room(s.b) THEN [s EXCEPT !.ok = FALSE]
            ELSE IF lit.over \/ t.len = 0 THEN [s EXCEPT !.b = lit]
            ELSE IF \/ t.off \notin 1 .. maxOffset
                    \/ ~known /\ t.off > lit.at
                    \/ t.len > Room(lit)
            THEN [s EXCEPT !.ok = FALSE]
            ELSE [s EXCEPT !.b = IF fast THEN HotMatch(lit, t.off, t.len)
                                 ELSE CopyMatch(lit, t.off, t.len, avx2),
                           !.left = @ - TokenBytes(t)]
      all == FoldLeft(Turn, [ok |-> TRUE, b |-> Buffer(out0, cap),
                             left |-> SumOver([k \in DOMAIN tokens |-> TokenBytes(tokens[k])],
                                              DOMAIN tokens)], tokens)
  IN  IF all.b.over THEN Overrun ELSE IF all.ok THEN Produced(all.b) ELSE Failed

\* decode_stripped_tokens: each run takes its literals from those decoded.
Rejoin(runs, lits) ==
  LET Before(k) == SumOver([j \in DOMAIN runs |-> runs[j].run], 1 .. k)
  IN  IF Before(Len(runs)) > Len(lits) THEN Failed
      ELSE [k \in DOMAIN runs |->
              [lits |-> Slice(lits, Before(k - 1), Before(k)), len |-> runs[k].len, off |-> runs[k].off]]

\* decode_block_huffman, decode_block_ans, decode_block_ans4, decode_block_ctx.
DecodeLiteralBlock(block, out0, maxOffset, avx2) ==
  LET n == block.body.count
      ctx == DecodeAnsCtx(block.body.lits, n, LitSymbols)
      lits == IF n = 0 THEN <<>>
              ELSE IF block.form = "ctx" THEN (IF ctx = Failed THEN Failed ELSE ctx.data)
              ELSE DecodeLiterals(block.body.lits, block.form, n)
      tokens == Rejoin(block.body.runs, lits)
  IN  IF lits = Failed \/ tokens = Failed THEN Failed
      ELSE DecodeTokens(tokens, out0, block.size, maxOffset, avx2, TRUE)

\* A block after what the frame has produced, in a buffer with room for cap
\* units: refused if it is larger, or does not make exactly its size; read by a
\* program built for AVX2 or not.
DecodeBlock(block, out0, cap, maxOffset, avx2) ==
  LET out == CASE block.kind = "raw"   -> out0 \o block.body
               [] block.kind = "plain" -> DecodeTokens(block.body, out0, block.size, maxOffset,
                                                       avx2, FALSE)
               [] block.kind = "seq"   -> DecodeSequences(block.body, out0, block.size,
                                                          BaseOf(block.v2), maxOffset)
               [] OTHER                -> DecodeLiteralBlock(block, out0, maxOffset, avx2)
  IN  IF out = Overrun THEN Overrun
      ELSE IF block.size > cap \/ Len(out) # Len(out0) + block.size THEN Failed ELSE out

\* Mutant: handed over as written.
VvzCompressUnread(block, content, maxOffset, slack, avx2) == block

\* vvz_compress on a block that the encoder wrote: handed over only if it reads
\* back, in a buffer with some slack.
VvzCompress(block, content, maxOffset, slack, avx2) ==
  IF DecodeBlock(block, <<>>, Len(content) + slack, maxOffset, avx2) = content
  THEN block ELSE Failed

-----------------------------------------------------------------------------

TokensContent(tokens, out0) ==
  LET whole == Expand(tokens, out0) IN Slice(whole, Len(out0), Len(whole))

\* PROPERTY: whatever a mode, a format and a reader to be served make the encoder
\* choose, the block reads back after the blocks before it, and so does what
\* earlier encoders wrote, in any build of the reader; literal blocks only as long
\* as their literals can be counted in two bytes (vv_encoder.c:1803-1982,
\* vv_decoder.c:136-688).
BlocksAreLossless(tokens, out0, mode, v2, oldReader, maxOffset) ==
  LET content == TokensContent(tokens, out0)
  IN  content # <<>> =>
        \A c \in Codings(tokens, mode, v2, oldReader) \cup EarlierCodings(tokens, v2) :
          \/ c.kind = "lits" /\ Len(LiteralsOf(tokens)) >= CountLimit
          \/ LET block == WriteBlock(c, tokens, content, v2)
             IN  \A avx2 \in BOOLEAN :
                   DecodeBlock(block, out0, Len(content), maxOffset, avx2) = out0 \o content

\* Tokens some of whose numbers are damaged.
DamagedTokens(tokens, maxOffset) ==
  {tokens} \cup {[tokens EXCEPT ![k].len = @ + 20] : k \in MatchesOf(tokens)}
           \cup {[tokens EXCEPT ![k].off = off] :
                   k \in MatchesOf(tokens), off \in {0, Short, Widest, maxOffset, maxOffset + 1}}

\* PROPERTY: whatever the tokens and the size of the block say, the decoder writes
\* nothing outside the block, reads nothing outside its input and the frame, and
\* what it takes for the block has been written (vv_decoder.c:136-427).
TokensStayInside(tokens, out0, maxOffset) ==
  LET whole == Len(TokensContent(tokens, out0))
  IN  \A damaged \in DamagedTokens(tokens, maxOffset), size \in {whole, whole - 1, whole - 3, whole - 8} \cap Nat,
         avx2, stripped \in BOOLEAN :
        LET out == DecodeTokens(damaged, out0, size, maxOffset, avx2, stripped)
        IN  avx2 \/ ~stripped => out # Overrun /\ -1 \notin ToSet(out)

\* PROPERTY: "the caller has lossless fallback block formats" (vv_ans.c:1643): a
\* run of literals that no sequence code can say leaves a block that reads back.
FallbackIsLossless(tokens, out0, mode, v2, oldReader, maxOffset) ==
  LET content == TokensContent(tokens, out0)
  IN  content # <<>> /\ ParseSequences(tokens) = Failed =>
        \A c \in Codings(tokens, mode, v2, oldReader) :
          DecodeBlock(WriteBlock(c, tokens, content, v2), out0, Len(content), maxOffset, FALSE)
            = out0 \o content

\* PROPERTY: what vvz_compress hands over reads back in a buffer of exactly the
\* block's size, whatever the encoder wrote and whichever build reads it
\* (vaptvupt_api.c:67-97).
AcceptedIsReadable(tokens, mode, v2, oldReader, maxOffset, slack) ==
  LET content == TokensContent(tokens, <<>>)
  IN  content # <<>> => \A c \in Codings(tokens, mode, v2, oldReader), avx2 \in BOOLEAN :
        LET kept == VvzCompress(WriteBlock(c, tokens, content, v2), content, maxOffset, slack, avx2)
        IN  kept = Failed \/ DecodeBlock(kept, <<>>, Len(content), maxOffset, ~avx2) = content
=============================================================================
