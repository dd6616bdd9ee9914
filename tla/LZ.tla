-------------------------------- MODULE LZ ---------------------------------
(***************************************************************************)
(* The byte-oriented LZ77 coder, codec 0x0008 (zupt_lz.c).  A sequence is  *)
(* a token of two half-bytes, the literals, an offset of two bytes, and a  *)
(* run of bytes for every length that does not fit its half-byte.          *)
(***************************************************************************)
EXTENDS MatchFinder

CONSTANTS
  NibbleMax,  \* 15: what half a byte can hold
  MinMatch,   \* 3
  MaxOffset   \* 65535: what two bytes can hold

ByteMax == (NibbleMax + 1) * (NibbleMax + 1) - 1

ASSUME LZAssumption ==
  /\ NibbleMax \in Nat \ {0}
  /\ MinMatch \in Nat \ {0}
  /\ MaxOffset = (ByteMax + 1) * (ByteMax + 1) - 1

NoCode == <<>>   \* a coder that returns 0

LZSearch(chain) == [window |-> MaxOffset, chain |-> chain, minMatch |-> MinMatch]

Nibble(n) == IF n >= NibbleMax THEN NibbleMax ELSE n

Token(literals, extra) == Nibble(literals) * (NibbleMax + 1) + Nibble(extra)

\* lz_write_extra: full bytes, and one below the full value to end the run.
RECURSIVE WriteExtra(_)
WriteExtra(len) ==
  IF len >= ByteMax THEN <<ByteMax>> \o WriteExtra(len - ByteMax) ELSE <<len>>

Overflow(n) == IF n >= NibbleMax THEN WriteExtra(n - NibbleMax) ELSE <<>>

OffsetBytes(dist) == <<dist % (ByteMax + 1), dist \div (ByteMax + 1)>>

Sequence(literals, match) ==
  <<Token(Len(literals), match.len - MinMatch)>> \o Overflow(Len(literals)) \o literals
    \o OffsetBytes(match.dist) \o Overflow(match.len - MinMatch)

LastLiterals(literals) ==
  <<Token(Len(literals), 0)>> \o Overflow(Len(literals)) \o literals

\* What the coder reserves before it writes a sequence.
Reserve(literals, match) ==
  1 + (literals \div ByteMax) + 1 + literals
    + (IF match = NoMatch THEN 0 ELSE 2 + ((match.len - MinMatch) \div ByteMax) + 1)

\* One turn of the loop: no match here, or a match here or, if the search is
\* lazy and the next one is longer by two, at the next position.
LZStep(data, st, cap, chain, lazy) ==
  LET search == LZSearch(chain)
      here   == FindMatch(data, st.seen, st.ip, search)
      look   == lazy /\ st.ip + 1 + MinMatch <= Len(data)
      next   == FindMatch(data, st.seen \cup {st.ip}, st.ip + 1, search)
      skip   == look /\ next.len > here.len + 1
      match  == IF skip THEN next ELSE here
      start  == IF skip THEN st.ip + 1 ELSE st.ip
      end    == start + match.len
      lits   == Slice(data, st.anchor, start)
  IN  IF here = NoMatch
      THEN [st EXCEPT !.ip = @ + 1, !.seen = @ \cup {st.ip}]
      ELSE IF Len(st.out) + Reserve(Len(lits), match) > cap
      THEN [st EXCEPT !.ip = Len(data), !.full = TRUE]
      ELSE [st EXCEPT !.ip = end, !.anchor = end,
                      !.seen = @ \cup (IF look \/ ~lazy THEN {st.ip} ELSE {})
                                 \cup (start + 1) .. (end - 1),
                      !.out = @ \o Sequence(lits, match)]

\* zupt_lz_compress with a chain depth and laziness (both follow the level)
\* into a buffer of cap bytes.
LZCompress(data, cap, chain, lazy) ==
  LET RECURSIVE Walk(_)
      Walk(st) == IF st.ip + MinMatch > Len(data) THEN st
                  ELSE Walk(LZStep(data, st, cap, chain, lazy))
      done == Walk([ip |-> 0, anchor |-> 0, seen |-> {}, out |-> <<>>, full |-> FALSE])
      rest == Slice(data, done.anchor, Len(data))
  IN  IF data = <<>> \/ done.full \/ Len(done.out) + Reserve(Len(rest), NoMatch) > cap
      THEN NoCode
      ELSE done.out \o LastLiterals(rest)

\* lz_read_extra: the length and the position after it.
RECURSIVE ReadExtra(_, _, _)
ReadExtra(src, pos, total) ==
  IF pos >= Len(src) THEN [len |-> total, pos |-> pos]
  ELSE IF At(src, pos) < ByteMax THEN [len |-> total + At(src, pos), pos |-> pos + 1]
  ELSE ReadExtra(src, pos + 1, total + ByteMax)

ReadLength(src, pos, nibble, base) ==
  IF nibble = NibbleMax THEN ReadExtra(src, pos, NibbleMax + base)
  ELSE [len |-> nibble + base, pos |-> pos]

\* zupt_lz_decompress into a buffer of cap bytes.
LZDecompress(src, cap) ==
  LET RECURSIVE Next(_, _), Match(_, _, _)
      Next(pos, out) ==
        IF pos >= Len(src) THEN out
        ELSE LET lit  == ReadLength(src, pos + 1, At(src, pos) \div (NibbleMax + 1), 0)
                 from == lit.pos + lit.len
             IN  IF from > Len(src) \/ Len(out) + lit.len > cap THEN NoCode
                 ELSE IF from >= Len(src) THEN out \o Slice(src, lit.pos, from)
                 ELSE IF from + 2 > Len(src) THEN NoCode
                 ELSE Match(pos, from, out \o Slice(src, lit.pos, from))
      Match(token, pos, out) ==
        LET dist  == At(src, pos) + At(src, pos + 1) * (ByteMax + 1)
            match == ReadLength(src, pos + 2, At(src, token) % (NibbleMax + 1), MinMatch)
        IN  IF dist = 0 \/ dist > Len(out) \/ Len(out) + match.len > cap THEN NoCode
            ELSE Next(match.pos, Copy[match.len, out, dist])
  IN  Next(0, <<>>)

\* PROPERTY: whatever the data, the level and the room, what the coder writes
\* is turned back into the data (zupt_lz.c:108-240); it refuses nothing that
\* fits the room.
LZIsInverted(data, caps, chains) ==
  \A cap \in caps, chain \in chains, lazy \in BOOLEAN :
    LET coded == LZCompress(data, cap, chain, lazy)
    IN  \/ coded = NoCode /\ cap <= 2 * Len(data)
        \/ Len(coded) <= cap /\ LZDecompress(coded, Len(data)) = data
=============================================================================
