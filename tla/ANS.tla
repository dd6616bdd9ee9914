-------------------------------- MODULE ANS --------------------------------
(***************************************************************************)
(* VaptVupt's tabled ANS coder (vv_ans.c): frequencies scaled to a table   *)
(* of TableSize slots, symbols spread over the slots, coding from the last *)
(* symbol to the first and decoding from the first to the last; in one     *)
(* stream, in Lanes streams that share a table, or with a table for each   *)
(* preceding symbol.  Symbols count from 0; frequencies are sequences with *)
(* the count of symbol s at s + 1.  Sizes of headers, and giving up when   *)
(* the result is no shorter, are left out: every result is looked at.      *)
(***************************************************************************)
EXTENDS BitStream

CONSTANTS
  TableLog,      \* ANS_LOG, 12
  SparseMax,     \* SPARSE_THRESHOLD, 64: symbols a sparse header lists at most
  MinContext     \* CTX_MIN_OBS, 16: what a context of its own must have seen

TableSize == Pow2[TableLog]
SpreadStep == (TableSize \div 2) + (TableSize \div 8) + 3

ASSUME ANSAssumption ==
  /\ TableLog \in Nat
  \* the spread visits every slot
  /\ SpreadStep % 2 = 1
  \* one refill serves one table read
  /\ TableLog <= (AccBytes - 1) * ByteBits

Present(freq) == {i \in DOMAIN freq : freq[i] > 0}

-----------------------------------------------------------------------------
(* Scaling frequencies to the table. *)

\* The k symbols with the largest remainders get one slot more.
RoundUp(norm, rest, k) ==
  LET order == SetToSortSeq(Present(norm),
                 LAMBDA i, j : rest[i] > rest[j] \/ (rest[i] = rest[j] /\ i < j))
      up == ToSet(SubSeq(order, 1, Min({k, Len(order)})))
  IN  [i \in DOMAIN norm |-> norm[i] + (IF i \in up THEN 1 ELSE 0)]

\* k slots are taken back, from symbols that have more than one: first each one
\* once by the smallest remainder, then the most frequent.
RECURSIVE TakeBack(_, _, _, _)
TakeBack(norm, rest, fresh, k) ==
  LET open  == {i \in fresh : norm[i] > 1}
      least == Min({rest[i] : i \in open})
      most  == Max({norm[i] : i \in DOMAIN norm})
      pick  == IF open # {} THEN Min({i \in open : rest[i] = least})
               ELSE Min({i \in DOMAIN norm : norm[i] = most})
  IN  IF k = 0 \/ most <= 1 THEN norm
      ELSE TakeBack([i \in DOMAIN norm |-> norm[i] - (IF i = pick THEN 1 ELSE 0)],
                    rest, fresh \ {pick}, k - 1)

\* normalize_freq: every symbol that occurs has a slot, and all are given out.
NormalizeFreq(freq) ==
  LET total == SumOver(freq, DOMAIN freq)
      norm == [i \in DOMAIN freq |->
                 IF freq[i] = 0 THEN 0 ELSE Max({1, (freq[i] * TableSize) \div total})]
      rest == [i \in DOMAIN freq |-> (freq[i] * TableSize) % total]
      diff == TableSize - SumOver(norm, DOMAIN norm)
  IN  IF diff >= 0 THEN RoundUp(norm, rest, diff)
      ELSE TakeBack(norm, rest, Present(freq), -diff)

\* NormalizeFreq is not defined on no frequencies at all: the table is empty.
ScaledTable(freq) ==
  IF Present(freq) = {} THEN freq ELSE NormalizeFreq(freq)

-----------------------------------------------------------------------------
(* Tables: slots and occurrences. *)

\* spread_symbols: the symbol (from 0) in each slot (from 0).
Spread(norm) ==
  LET UpTo(i) == SumOver(norm, 1 .. i)
      Owner(k) == Min({i \in DOMAIN norm : UpTo(i) > k}) - 1
      slots == {<<(k * SpreadStep) % TableSize, Owner(k)>> : k \in 0 .. UpTo(Len(norm)) - 1}
  IN  [x \in {p[1] : p \in slots} |-> (CHOOSE p \in slots : p[1] = x)[2]]

\* A decode table entry for the k-th occurrence (from 0) of a symbol with f
\* slots: states are cut into f windows of 2^nb or 2^(nb - 1), the wide first.
Entry(sym, f, k) ==
  LET nb  == TableLog - Log2[f]
      low == Pow2[Log2[f] + 1] - f
  IN  IF f = TableSize THEN [sym |-> sym, nb |-> 0, base |-> 0]
      ELSE IF k < low THEN [sym |-> sym, nb |-> nb, base |-> k * Pow2[nb]]
      ELSE [sym |-> sym, nb |-> nb - 1,
            base |-> low * Pow2[nb] + (k - low) * Pow2[nb - 1]]

\* build_dec and build_dec_direct.
DecTable(norm) ==
  LET sp == Spread(norm)
  IN  [x \in DOMAIN sp |->
         Entry(sp[x], norm[sp[x] + 1], Cardinality({y \in 0 .. x - 1 : sp[y] = sp[x]}))]

\* Which of a symbol's f windows holds the state: computed, not searched for.
WindowOf(f, state) ==
  LET nb  == TableLog - Log2[f]
      low == Pow2[Log2[f] + 1] - f
      wide == low * Pow2[nb]
  IN  IF state < wide THEN state \div Pow2[nb] ELSE low + (state - wide) \div Pow2[nb - 1]

\* enc_sym: from a state, the symbol's slot whose window holds it, and the bits
\* that say where in the window it is.
EncSym(norm, dec, state, sym) ==
  LET f == norm[sym + 1]
      k == WindowOf(f, state)
      slot == CHOOSE x \in DOMAIN dec :
                dec[x].sym = sym /\ Cardinality({y \in 0 .. x - 1 : dec[y].sym = sym}) = k
  IN  IF f = TableSize THEN [slot |-> 0, bits |-> <<>>]
      ELSE [slot |-> slot, bits |-> LowBits(state - dec[slot].base, dec[slot].nb)]

\* write_hdr_v2: the lone symbol, the pairs of a few, or all up to the last.
WriteTable(norm) ==
  LET active == Present(norm)
  IN  IF Cardinality(active) = 1 THEN [form |-> "single", syms |-> <<Max(active) - 1>>]
      ELSE IF Cardinality(active) <= SparseMax
      THEN [form |-> "sparse",
            syms |-> [k \in 1 .. Cardinality(active) |->
                        LET i == SetToSortSeq(active, <)[k] IN <<i - 1, norm[i]>>]]
      ELSE [form |-> "dense", syms |-> SubSeq(norm, 1, Max(active))]

\* read_hdr_v2; the decoders go on only if the sum is right
\* (validated_symbol_count).
ReadTable(header, symbols) ==
  LET s == header.syms
      norm == [i \in 1 .. symbols |->
        CASE header.form = "single" -> IF s[1] = i - 1 THEN TableSize ELSE 0
          [] header.form = "sparse" ->
               SumOver([k \in DOMAIN s |-> IF s[k][1] = i - 1 THEN s[k][2] ELSE 0], DOMAIN s)
          [] OTHER -> IF i <= Len(s) THEN s[i] ELSE 0]
  IN  IF SumOver(norm, DOMAIN norm) = TableSize THEN norm ELSE Failed

-----------------------------------------------------------------------------
(* Coding. *)

\* The frequencies of the symbols at some positions.
Counts(data, symbols, positions) ==
  [i \in 1 .. symbols |-> Cardinality({k \in positions : data[k] = i - 1})]

\* From the last symbol to the first: the states the decoder starts from, by
\* context, and the bits it will read.  norms and decs are functions on contexts;
\* context[k] is the context of the k-th symbol.
EncodeRun(data, context, norms, decs) ==
  LET RECURSIVE From(_, _, _)
      From(k, states, bits) ==
        IF k = 0 THEN [states |-> states, bits |-> bits]
        ELSE LET c == context[k]
                 e == EncSym(norms[c], decs[c], states[c], data[k])
             IN  From(k - 1, [states EXCEPT ![c] = e.slot], e.bits \o bits)
  IN  From(Len(data), [c \in DOMAIN norms |-> 0], <<>>)

\* ans_br_fill: as many whole bytes as fit.
Fill(r) ==
  Load(r, Min({(AccBytes * ByteBits - Len(r.acc)) \div ByteBits, Len(r.src) - r.pos}))

\* ans_br_read of n bits.
ReadBits(r, n) ==
  LET full == IF Len(r.acc) < n THEN Fill(r) ELSE r
  IN  [value |-> ValueOf(Peek(full, n)), r |-> Consume(full, n)]

\* One symbol by a table, and the next state.
DecSym(dec, state, r) ==
  LET got == ReadBits(IF Len(r.acc) < TableLog THEN Fill(r) ELSE r, dec[state].nb)
  IN  [sym |-> dec[state].sym, state |-> dec[state].base + got.value, r |-> got.r]

\* n symbols; with byContext the context is the preceding symbol, 0 at first.
DecodeRun(decs, states, r, n, byContext) ==
  LET RECURSIVE From(_, _, _)
      From(out, sts, rd) ==
        LET c == IF byContext /\ out # <<>> THEN Last(out) ELSE 0
            d == DecSym(decs[c], sts[c], rd)
        IN  IF Len(out) = n THEN [data |-> out, used |-> UsedBytes(rd)]
            ELSE IF sts[c] \notin DOMAIN decs[c] THEN Failed
            ELSE From(Append(out, d.sym), [sts EXCEPT ![c] = d.state], d.r)
  IN  From(<<>>, states, Fill(r))

Constant(n, value) == [k \in 1 .. n |-> value]

\* vva_encode: a single symbol needs no stream.
EncodeAns(data, symbols) ==
  LET norm == NormalizeFreq(Counts(data, symbols, DOMAIN data))
      run  == EncodeRun(data, Constant(Len(data), 0), 0 :> norm, 0 :> DecTable(norm))
  IN  [table |-> WriteTable(norm), state |-> run.states[0], stream |-> Pack(run.bits)]

\* vva_decode of n symbols.
DecodeAns(coded, n, symbols) ==
  LET norm == ReadTable(coded.table, symbols)
  IN  IF norm = Failed \/ coded.state >= TableSize THEN Failed
      ELSE IF Cardinality(Present(norm)) = 1
      THEN [data |-> Constant(n, Max(Present(norm)) - 1), used |-> 0]
      ELSE DecodeRun(0 :> DecTable(norm), 0 :> coded.state, Reader(coded.stream), n, FALSE)

\* vva_encode4: one table, every lane with a state and a stream of its own.
EncodeAns4(data, symbols) ==
  LET norm == NormalizeFreq(Counts(data, symbols, DOMAIN data))
      dec  == DecTable(norm)
      Lane(s) == EncodeRun(LaneOf(data, s), Constant(Len(data), 0), 0 :> norm, 0 :> dec)
  IN  [table |-> WriteTable(norm),
       states |-> [s \in 1 .. Lanes |-> Lane(s - 1).states[0]],
       streams |-> [s \in 1 .. Lanes |-> Pack(Lane(s - 1).bits)]]

\* vva_decode4 of n symbols: lane by lane here, which is what taking one of each
\* in turn comes to, as they share nothing.
DecodeAns4(coded, n, symbols) ==
  LET norm == ReadTable(coded.table, symbols)
      dec  == DecTable(norm)
      Lane(s) == DecodeRun(0 :> dec, 0 :> coded.states[s], Reader(coded.streams[s]),
                           (n - s + Lanes) \div Lanes, FALSE)
      lanes == [s \in 1 .. Lanes |-> Lane(s)]
  IN  IF norm = Failed THEN Failed
      ELSE IF Cardinality(Present(norm)) = 1 THEN Constant(n, Max(Present(norm)) - 1)
      ELSE IF \E s \in 1 .. Lanes : lanes[s] = Failed THEN Failed
      ELSE [k \in 1 .. n |-> lanes[1 + ((k - 1) % Lanes)].data[1 + ((k - 1) \div Lanes)]]

\* The symbol before each one, 0 before the first.
ContextsOf(data) == [k \in DOMAIN data |-> IF k = 1 THEN 0 ELSE data[k - 1]]

\* The contexts too rare for a table of their own take the table of all.
Inherited(data, c) ==
  Cardinality({k \in DOMAIN data : ContextsOf(data)[k] = c}) < MinContext

\* vva_encode_ctx: a table and a state for every context, one stream.
EncodeAnsCtx(data, symbols) ==
  LET contexts == 0 .. symbols - 1
      all == NormalizeFreq(Counts(data, symbols, DOMAIN data))
      Own(c) == NormalizeFreq(Counts(data, symbols, {k \in DOMAIN data : ContextsOf(data)[k] = c}))
      own == {c \in contexts : ~Inherited(data, c)}
      norms == [c \in contexts |-> IF c \in own THEN Own(c) ELSE all]
      decs == [c \in contexts |-> DecTable(norms[c])]
      run == EncodeRun(data, ContextsOf(data), norms, decs)
  IN  [all |-> WriteTable(all), own |-> [c \in own |-> WriteTable(norms[c])],
       states |-> run.states, stream |-> Pack(run.bits)]

\* vva_decode_ctx of n symbols.
DecodeAnsCtx(coded, n, symbols) ==
  LET contexts == 0 .. symbols - 1
      norms == [c \in contexts |->
                  ReadTable(IF c \in DOMAIN coded.own THEN coded.own[c] ELSE coded.all, symbols)]
  IN  IF \E c \in contexts : norms[c] = Failed THEN Failed
      ELSE DecodeRun([c \in contexts |-> DecTable(norms[c])], coded.states,
                     Reader(coded.stream), n, TRUE)

-----------------------------------------------------------------------------

\* PROPERTY: whatever the frequencies, all slots of the table are given out and
\* every symbol that occurs has one: without that it could not be written, or a
\* decoder would refuse the table (vv_ans.c:113-164, 495-507).
TablesAreFull(freq) ==
  LET norm == ScaledTable(freq)
  IN  Present(freq) # {} =>
        /\ SumOver(norm, DOMAIN norm) = TableSize
        /\ Present(norm) = Present(freq)
        /\ ReadTable(WriteTable(norm), Len(freq)) = norm

\* PROPERTY: the three forms read back what was written, and a reader of one
\* stream stops exactly at its end, so what follows it in the block is found.
AnsIsInverted(data, symbols) ==
  LET one == EncodeAns(data, symbols)
      ctx == EncodeAnsCtx(data, symbols)
      used == IF one.table.form = "single" THEN 0 ELSE Len(one.stream)
      More(coded) == [coded EXCEPT !.stream = @ \o Constant(2 * AccBytes, LowBits(1, ByteBits))]
  IN  data # <<>> =>
        /\ DecodeAns(More(one), Len(data), symbols) = [data |-> data, used |-> used]
        /\ DecodeAns4(EncodeAns4(data, symbols), Len(data), symbols) = data
        /\ DecodeAnsCtx(More(ctx), Len(data), symbols) = [data |-> data, used |-> Len(ctx.stream)]
=============================================================================
