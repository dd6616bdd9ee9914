----------------------------- MODULE PrefixCode -----------------------------
(***************************************************************************)
(* Huffman codes as both coders of the program use them: the depths of a   *)
(* Huffman tree, and the canonical code of a list of code lengths          *)
(* (zupt_lzh.c huff_build and huff_lut, vv_huffman.c).  Symbols count from *)
(* 0; lengths is a sequence with the length of symbol s at s + 1, 0 for a  *)
(* symbol that is not used.  A code is a sequence of bits, the first to be *)
(* written first (both files store it reversed, low bit first).            *)
(***************************************************************************)
EXTENDS Powers

CONSTANT MaxCodeLen   \* 15 in both files

ASSUME PrefixCodeAssumption == MaxCodeLen \in Nat \ {0}

Used(lengths) == {i \in DOMAIN lengths : lengths[i] > 0}

\* How many symbols have each length.
LengthCounts(lengths) ==
  [b \in 1 .. MaxCodeLen |-> Cardinality({i \in DOMAIN lengths : lengths[i] = b})]

\* The share of the code space the counts take, in units of 2^-MaxCodeLen.
Kraft(counts) ==
  SumOver([b \in 1 .. MaxCodeLen |-> counts[b] * Pow2[MaxCodeLen - b]], 1 .. MaxCodeLen)

\* The depth of every leaf of a Huffman tree: the two lightest nodes are merged
\* until one is left.  Which of equal nodes comes first (the heap of
\* zupt_lzh.c, the two queues of vv_huffman.c) is left to the order of leaves.
RECURSIVE Merged(_, _)
Merged(nodes, depths) ==
  IF Cardinality(nodes) <= 1 THEN depths
  ELSE LET Lightest(S) == CHOOSE x \in S : \A y \in S :
                            x.weight < y.weight \/ (x.weight = y.weight /\ Min(x.leaves) <= Min(y.leaves))
           a == Lightest(nodes)
           b == Lightest(nodes \ {a})
           both == [weight |-> a.weight + b.weight, leaves |-> a.leaves \cup b.leaves]
       IN  Merged((nodes \ {a, b}) \cup {both},
                  [i \in DOMAIN depths |-> depths[i] + (IF i \in both.leaves THEN 1 ELSE 0)])

TreeDepths(freq) ==
  LET active == {i \in DOMAIN freq : freq[i] > 0}
  IN  IF Cardinality(active) = 1
      THEN [i \in DOMAIN freq |-> IF i \in active THEN 1 ELSE 0]
      ELSE Merged({[weight |-> freq[i], leaves |-> {i}] : i \in active},
                  [i \in DOMAIN freq |-> 0])

\* The lengths of a distribution given out, shortest first, to the symbols of a
\* sequence.
Distribute(lengths, counts, order) ==
  LET UpTo(b) == SumOver(counts, 1 .. b)
      LengthAt(k) == Min({b \in 1 .. MaxCodeLen : UpTo(b) >= k})
  IN  [i \in DOMAIN lengths |->
         IF \E k \in DOMAIN order : order[k] = i
         THEN LengthAt(CHOOSE k \in DOMAIN order : order[k] = i)
         ELSE lengths[i]]

\* The first code value of each length.
RECURSIVE FirstValue(_, _)
FirstValue(counts, b) ==
  IF b = 1 THEN 0 ELSE 2 * (FirstValue(counts, b - 1) + counts[b - 1])

BitsOf(value, n) == [k \in 1 .. n |-> (value \div Pow2[n - k]) % 2]

\* The canonical code: values are given out in the order of the symbols.
CanonicalCodes(lengths) ==
  LET counts == LengthCounts(lengths)
      first  == [b \in 1 .. MaxCodeLen |-> FirstValue(counts, b)]
  IN  [i \in DOMAIN lengths |->
         IF lengths[i] = 0 THEN <<>>
         ELSE BitsOf(first[lengths[i]] +
                       Cardinality({j \in 1 .. i - 1 : lengths[j] = lengths[i]}),
                     lengths[i])]

\* The symbol a table of size 2^width finds for the next bits (-1 for none):
\* every entry that starts with a symbol's code holds it, the last one written
\* stays.
Lookup(codes, width, bits) ==
  LET hits == {i \in DOMAIN codes : /\ Len(codes[i]) \in 1 .. width
                                    /\ IsPrefix(codes[i], bits)}
  IN  IF hits = {} THEN -1 ELSE Max(hits) - 1

NoCodeIsAPrefixOfAnother(codes) ==
  \A i, j \in DOMAIN codes :
    codes[i] # <<>> /\ codes[j] # <<>> /\ i # j => ~IsPrefix(codes[i], codes[j])

\* A code for these frequencies: every symbol that occurs has one, none is
\* longer than the tables allow, and none begins another.
IsCodeFor(freq, lengths) ==
  /\ \A i \in DOMAIN freq : freq[i] > 0 <=> lengths[i] > 0
  /\ \A i \in DOMAIN freq : lengths[i] <= MaxCodeLen
  /\ Kraft(LengthCounts(lengths)) <= Pow2[MaxCodeLen]
  /\ NoCodeIsAPrefixOfAnother(CanonicalCodes(lengths))
=============================================================================
