----------------------------- MODULE BitStream ------------------------------
(***************************************************************************)
(* The bit streams of VaptVupt's coders (vv_huffman.c, vv_ans.c): a stream *)
(* is a sequence of bytes, a byte a row of ByteBits bits, the bit to be    *)
(* read first at the front.  A reader keeps an accumulator of bits and the *)
(* position of the next byte.                                              *)
(***************************************************************************)
EXTENDS Powers

CONSTANTS
  ByteBits,      \* 8
  AccBytes,      \* 8: bytes of the reader's accumulator
  Lanes          \* 4: streams of the interleaved forms

ASSUME BitStreamAssumption ==
  /\ ByteBits \in Nat \ {0}
  /\ AccBytes \in Nat \ {0}
  /\ Lanes \in Nat \ {0}

Failed == <<>>   \* a coder or decoder that returns an error

\* The bits cut into bytes, the last filled with zeros.
Pack(bits) ==
  [k \in 1 .. (Len(bits) + ByteBits - 1) \div ByteBits |->
     [j \in 1 .. ByteBits |-> LET p == (k - 1) * ByteBits + j
                              IN  IF p <= Len(bits) THEN bits[p] ELSE 0]]

Reader(stream) == [src |-> stream, acc |-> <<>>, pos |-> 0]

\* n more bytes into the accumulator.
Load(r, n) ==
  [r EXCEPT !.acc = @ \o FlattenSeq(SubSeq(r.src, r.pos + 1, r.pos + n)), !.pos = @ + n]

\* The next n bits; past the end of the stream there are zeros.
Peek(r, n) == [k \in 1 .. n |-> IF k <= Len(r.acc) THEN r.acc[k] ELSE 0]

Consume(r, n) == [r EXCEPT !.acc = SubSeq(@, n + 1, Len(@))]

\* The bytes a reader has used: those left whole in the accumulator are not.
UsedBytes(r) == r.pos - (Len(r.acc) \div ByteBits)

\* The symbols of lane s of 0 .. Lanes - 1: every Lanes-th, from the s-th on.
LaneOf(data, s) ==
  LET n == (Len(data) - s + Lanes - 1) \div Lanes
  IN  [k \in 1 .. n |-> data[(k - 1) * Lanes + s + 1]]
=============================================================================
