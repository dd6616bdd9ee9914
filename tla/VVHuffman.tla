----------------------------- MODULE VVHuffman ------------------------------
(***************************************************************************)
(* VaptVupt's Huffman coder (vv_huffman.c): code lengths limited to        *)
(* MaxCodeLen, a decode table of TableBits bits with a list of the longer  *)
(* codes beside it, one stream of bits or four.                            *)
(***************************************************************************)
EXTENDS PrefixCode, BitStream

CONSTANTS
  TableBits,     \* VVH_DECODE_BITS, 12: codes up to this length are in the table
  MinFour        \* VVH4_MIN_LITERALS, 1024: the least the four-stream coder takes

ASSUME VVHuffmanAssumption ==
  /\ TableBits \in 1 .. MaxCodeLen
  \* three symbols fit the bits a bulk refill leaves at least
  /\ 3 * MaxCodeLen <= (AccBytes - 1) * ByteBits

-----------------------------------------------------------------------------
(* Code lengths. *)

\* Moves one code of the deepest level above the last one level down.
LowerOne(counts) ==
  LET d == Max({b \in 1 .. MaxCodeLen - 1 : counts[b] > 0})
  IN  [counts EXCEPT ![d] = @ - 1, ![d + 1] = @ + 1]

RECURSIVE LowerUntilFits(_)
LowerUntilFits(counts) ==
  IF Kraft(counts) <= Pow2[MaxCodeLen] THEN counts ELSE LowerUntilFits(LowerOne(counts))

\* build_code_lengths: the depths of the tree; where one is too deep, the
\* limited distribution, given out by depth and symbol.
CodeLengths(freq) ==
  LET depths  == TreeDepths(freq)
      clamped == [i \in DOMAIN freq |-> Min({depths[i], MaxCodeLen})]
      order   == SetToSortSeq(Used(clamped),
                   LAMBDA i, j : clamped[i] < clamped[j] \/ (clamped[i] = clamped[j] /\ i < j))
  IN  IF \A i \in DOMAIN freq : depths[i] <= MaxCodeLen THEN depths
      ELSE Distribute(clamped, LowerUntilFits(LengthCounts(clamped)), order)

\* write_header and read_header: the lengths up to the last used symbol, two to
\* a byte, and the number of that symbol first.
WriteHeader(lengths) ==
  LET max == Max(Used(lengths) \cup {1}) - 1
      At0(i) == IF i <= max THEN lengths[i + 1] ELSE 0
  IN  <<max>> \o [k \in 1 .. (max + 2) \div 2 |-> <<At0(2 * k - 2), At0(2 * k - 1)>>]

ReadHeader(header, symbols) ==
  [i \in 1 .. symbols |->
     IF i - 1 > header[1] THEN 0
     ELSE header[2 + ((i - 1) \div 2)][1 + ((i - 1) % 2)]]

-----------------------------------------------------------------------------
(* Writing bits. *)

EncodeStream(data, codes) == Pack(FlattenSeq([k \in DOMAIN data |-> codes[data[k] + 1]]))

FreqOf(data, symbols) ==
  [i \in 1 .. symbols |-> Cardinality({k \in DOMAIN data : data[k] = i - 1})]

\* vvh_encode: header and stream; it gives up unless that is shorter than the
\* data (left to the caller here: every result is looked at).
Encode(data, symbols) ==
  LET lengths == CodeLengths(FreqOf(data, symbols))
  IN  [header |-> WriteHeader(lengths), stream |-> EncodeStream(data, CanonicalCodes(lengths))]

\* vvh_encode4: one code for all lanes, each lane a stream of whole bytes.
Encode4(data, symbols) ==
  LET lengths == CodeLengths(FreqOf(data, symbols))
      codes   == CanonicalCodes(lengths)
  IN  IF Len(data) < MinFour THEN Failed
      ELSE [header |-> WriteHeader(lengths),
            streams |-> [s \in 1 .. Lanes |-> EncodeStream(LaneOf(data, s - 1), codes)]]

-----------------------------------------------------------------------------
(* Reading bits. *)

\* Mutant: as many whole bytes as an empty accumulator would hold.
RefillTooMuch(r) ==
  LET n == IF r.pos + AccBytes <= Len(r.src) THEN AccBytes - 1
           ELSE Min({Len(r.src) - r.pos, AccBytes - (Len(r.acc) + ByteBits - 1) \div ByteBits})
      full == Load(r, n)
  IN  [full EXCEPT !.acc = SubSeq(@, 1, Min({Len(@), AccBytes * ByteBits}))]

\* br_refill: away from the end of the stream, the whole bytes that leave room
\* for one bit, else bytes as long as a whole one fits.
Refill(r) ==
  LET room == (AccBytes * ByteBits - 1 - Len(r.acc)) \div ByteBits
      fits == (AccBytes * ByteBits - Len(r.acc)) \div ByteBits
      n == IF r.pos + AccBytes <= Len(r.src) THEN room ELSE Min({Len(r.src) - r.pos, fits})
  IN  Load(r, n)

\* One symbol: by the table, or by the list of long codes.  A checked read asks
\* that the accumulator holds the whole code.
ReadSymbol(codes, r, checked) ==
  LET short == Lookup(codes, TableBits, Peek(r, TableBits))
      long  == {i \in DOMAIN codes : /\ Len(codes[i]) > TableBits
                                     /\ codes[i] = Peek(r, Len(codes[i]))
                                     /\ checked => Len(codes[i]) <= Len(r.acc)}
  IN  IF short >= 0
      THEN IF checked /\ Len(codes[short + 1]) > Len(r.acc) THEN Failed
           ELSE [sym |-> short, r |-> Consume(r, Len(codes[short + 1]))]
      ELSE IF long = {} THEN Failed
      ELSE [sym |-> Min(long) - 1, r |-> Consume(r, Len(codes[Min(long)]))]

DecodeOne(codes, r) ==
  ReadSymbol(codes, IF Len(r.acc) < MaxCodeLen THEN Refill(r) ELSE r, TRUE)

\* vvh_decode of n symbols: the data, and the bytes of the stream it used.
DecodeHuffman(coded, n, symbols) ==
  LET codes == CanonicalCodes(ReadHeader(coded.header, symbols))
      RECURSIVE From(_, _)
      From(r, out) ==
        IF Len(out) = n
        THEN [data |-> out, used |-> UsedBytes(r)]
        ELSE LET one == DecodeOne(codes, r)
             IN  IF one = Failed THEN Failed ELSE From(one.r, Append(out, one.sym))
  IN  From(Refill(Reader(coded.stream)), <<>>)

\* One symbol of every lane of the first m, the readers moved on.
RECURSIVE LanesRead(_, _, _, _, _)
LanesRead(codes, readers, s, m, out) ==
  IF s > m THEN [readers |-> readers, out |-> out]
  ELSE LET one == DecodeOne(codes, readers[s])
       IN  IF one = Failed THEN Failed
           ELSE LanesRead(codes, [readers EXCEPT ![s] = one.r], s + 1, m, Append(out, one.sym))

\* The same of all lanes without a refill and without a check.
RECURSIVE LanesFast(_, _, _, _)
LanesFast(codes, readers, s, out) ==
  IF s > Lanes THEN [readers |-> readers, out |-> out]
  ELSE LET one == ReadSymbol(codes, readers[s], FALSE)
       IN  IF one = Failed THEN Failed
           ELSE LanesFast(codes, [readers EXCEPT ![s] = one.r], s + 1, Append(out, one.sym))

RECURSIVE Rounds(_, _, _)
Rounds(codes, st, k) ==
  IF k = 0 \/ st = Failed THEN st
  ELSE Rounds(codes, LanesFast(codes, st.readers, 1, st.out), k - 1)

\* vvh_decode4 of n symbols: while every lane is away from its end and three
\* rounds are due, one refill for three rounds; then symbol by symbol.
Decode4(coded, n, symbols) ==
  LET codes == CanonicalCodes(ReadHeader(coded.header, symbols))
      Bulk(readers, done) ==
        /\ done + 3 <= n \div Lanes
        /\ \A s \in 1 .. Lanes : readers[s].pos + AccBytes <= Len(readers[s].src)
      RECURSIVE From(_, _, _)
      From(readers, out, done) ==
        LET fast == Rounds(codes, [readers |-> [s \in 1 .. Lanes |-> Refill(readers[s])],
                                   out |-> out], 3)
            turn == LanesRead(codes, readers, 1, Min({Lanes, n - Len(out)}), out)
        IN  IF Len(out) = n THEN out
            ELSE IF Bulk(readers, done)
            THEN IF fast = Failed THEN Failed ELSE From(fast.readers, fast.out, done + 3)
            ELSE IF turn = Failed THEN Failed ELSE From(turn.readers, turn.out, done + 1)
  IN  From([s \in 1 .. Lanes |-> Refill(Reader(coded.streams[s]))], <<>>, 0)

-----------------------------------------------------------------------------

\* PROPERTY: build_code_lengths makes a usable code of every set of
\* frequencies, also when the depth limit overdraws the code space.
LengthsMakeACode(freq) == IsCodeFor(freq, CodeLengths(freq))

\* PROPERTY: one stream or four, the fast rounds or the checked ones, and both
\* ways of refilling the accumulator read back what was written; a single
\* stream is used up to its last byte, so what follows it is found
\* (vv_huffman.c:619-900).
HuffmanIsInverted(data, symbols) ==
  LET one  == Encode(data, symbols)
      four == Encode4(data, symbols)
  IN  /\ data # <<>> => DecodeHuffman(one, Len(data), symbols) = [data |-> data, used |-> Len(one.stream)]
      /\ four # Failed => Decode4(four, Len(data), symbols) = data
=============================================================================
