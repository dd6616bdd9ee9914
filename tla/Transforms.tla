----------------------------- MODULE Transforms -----------------------------
(***************************************************************************)
(* What is done to bytes without coding them, and undone by the reader:    *)
(* the branch filters of VaptVupt (vv_bcj.c), the prediction in front of   *)
(* LZH in the codec ZUPT-LZHP (zupt_predict.c), and the numbers of variable *)
(* length in the archive formats (zupt_format.c).                          *)
(***************************************************************************)
EXTENDS Window, Powers, Bitwise

CONSTANTS
  CallBytes,    \* 0xE8 and 0xE9
  ByteBase,     \* 256
  ImmBL,        \* 2^26: values of the immediate of BL
  ImmADRP,      \* 2^21: of ADRP
  PageWords,    \* 1024: instructions on a page of 4 KiB
  ByteCount,    \* 256, a power of two
  CountMax,     \* 65535, where a counter stays
  DigitBase,    \* 128
  MaxDigits,    \* 10
  ValueLimit    \* 2^64: of the last digit only one bit is left

-----------------------------------------------------------------------------
(* Branch filters: before a frame is coded, the relative targets of calls   *)
(* become absolute ones; after it is decoded, they are made relative again. *)
(* The code is not parsed: bytes that look like a call are changed, and the *)
(* decoder must recognise the same ones in the changed bytes.               *)

\* bcj_test_msb: a displacement whose last byte only extends its sign.
SignByte(b) == b \in {0, ByteBase - 1}

\* Four bytes, the low one first, plus or minus a number.
Plus(v, n) ==
  LET Carry[i \in 0 .. 4] == IF i = 0 THEN n ELSE (v[i] + Carry[i - 1]) \div ByteBase
  IN  [i \in 1 .. 4 |-> (v[i] + Carry[i - 1]) % ByteBase]

Complement(v, n) == [i \in 1 .. 4 |-> IF i <= n THEN ByteBase - 1 - v[i] ELSE v[i]]

\* v - n is the complement of the complement of v, plus n.
Moved(v, n, encoding) ==
  IF encoding THEN Plus(v, n) ELSE Complement(Plus(Complement(v, 4), n), 4)

\* Mutant: no target is changed twice.
BranchTargetOnce(v, cur, mask, encoding) == Moved(v, cur, encoding)

\* A target next to bytes that look like a call is changed once more where the
\* result would look as if it were to be skipped.
BranchTarget(v, cur, mask, encoding) ==
  LET once == Moved(v, cur, encoding)
      low == ((mask \div 2) % 4) + 1
  IN  IF mask # 0 /\ SignByte(once[low]) THEN Moved(Complement(once, low), cur, encoding) ELSE once

RECURSIVE FromCall(_, _, _, _)
FromCall(data, pos, mask0, encoding) ==
  LET calls == {j \in pos .. Len(data) - 5 : At(data, j) \in CallBytes}
      p == Min(calls)
      near == p - pos <= 2
      mask == IF near THEN mask0 \div Pow2[p - pos] ELSE 0
      doubtful == mask # 0 /\ (mask > 4 \/ mask = 3 \/ SignByte(At(data, p + mask \div 2 + 1)))
      t == BranchTarget(Slice(data, p + 1, p + 5), 5 + p, mask, encoding)
      sign == IF t[4] % 2 = 1 THEN ByteBase - 1 ELSE 0
  IN  IF calls = {} THEN data
      ELSE IF doubtful \/ ~SignByte(At(data, p + 4))
      THEN FromCall(data, p + 1, (mask \div 2) + 4, encoding)
      ELSE FromCall(Slice(data, 0, p + 1) \o <<t[1], t[2], t[3], sign>> \o Slice(data, p + 5, Len(data)),
                    p + 5, 0, encoding)

\* vv_bcj_x86: mask says which of the last bytes looked like a call.
BcjX86(data, encoding) == FromCall(data, 0, 0, encoding)

\* vv_bcj_arm64 on whole instructions [op, imm]: the class of an instruction is
\* not in the bits that change.
BcjArm64(words, encoding) ==
  LET By(k, n) == IF encoding THEN n ELSE -n
  IN  [k \in DOMAIN words |->
         CASE words[k].op = "BL"   -> [words[k] EXCEPT !.imm = (@ + By(k, k - 1)) % ImmBL]
           [] words[k].op = "ADRP" -> [words[k] EXCEPT !.imm = (@ + By(k, (k - 1) \div PageWords)) % ImmADRP]
           [] OTHER                -> words[k]]

\* PROPERTY: undoing the filter gives back any bytes, code or not: "inverse
\* (forward(x)) == x" (vv_bcj.c:20-22).
FilterX86IsUndone(data) == BcjX86(BcjX86(data, TRUE), FALSE) = data

\* PROPERTY: the same for instructions of a fixed width (vv_bcj.c:141-187).
FilterArm64IsUndone(words) == BcjArm64(BcjArm64(words, TRUE), FALSE) = words

-----------------------------------------------------------------------------
(* Prediction: the byte most likely to follow each byte; every byte is       *)
(* replaced by its difference (exclusive or) from it.  The result is coded   *)
(* by LZH, whose own inverse is LZH's part and is left out here.             *)

BytesOf == 0 .. ByteCount - 1

\* The byte before each, 0 before the first.
Before(data) == [k \in DOMAIN data |-> IF k = 1 THEN 0 ELSE data[k - 1]]

\* zupt_predict_build; without memory for the counters all predictions are 0.
Prediction(data, memory) ==
  LET Count(c, b) ==
        LET seen == Cardinality({k \in DOMAIN data : Before(data)[k] = c /\ data[k] = b})
        IN  IF seen > CountMax THEN CountMax ELSE seen
      Most(c) == Max({Count(c, b) : b \in BytesOf})
  IN  [c \in BytesOf |->
         IF ~memory \/ Most(c) = 0 THEN 0 ELSE Min({b \in BytesOf : Count(c, b) = Most(c)})]

\* zupt_predict_encode.
PredictEncode(data, table) == [k \in DOMAIN data |-> data[k] ^^ table[Before(data)[k]]]

\* zupt_predict_decode.
PredictDecode(coded, table) ==
  FoldLeft(LAMBDA out, b : Append(out, b ^^ table[IF out = <<>> THEN 0 ELSE Last(out)]),
           <<>>, coded)

\* The payload of a block: predicted, or as it is (the first byte says which);
\* stored if it is not shorter, or memory is missing.
LZHPPayloads(data) ==
  {[stored |-> FALSE, predicted |-> TRUE, table |-> Prediction(data, m),
    body |-> PredictEncode(data, Prediction(data, m))] : m \in BOOLEAN}
  \cup {[stored |-> s, predicted |-> FALSE, table |-> Prediction(data, FALSE), body |-> data]
        : s \in BOOLEAN}

\* What a reader makes of it.
LZHPContent(payload) ==
  IF payload.stored \/ ~payload.predicted THEN payload.body
  ELSE PredictDecode(payload.body, payload.table)

\* PROPERTY: however a worker coded a block, the prediction it was coded with
\* included, a reader gets the block back (zupt_predict.c:31-85,
\* zupt_parallel.c:51-92, 251-275).
PredictionIsUndone(data) == \A p \in LZHPPayloads(data) : LZHPContent(p) = data

-----------------------------------------------------------------------------
(* Numbers: digits of the value from the low end, each in a byte [digit,     *)
(* more].                                                                    *)

Power[n \in Nat] == IF n = 0 THEN 1 ELSE DigitBase * Power[n - 1]

NoValue == [used |-> -1, value |-> 0]

\* zupt_encode_varint.
EncodeVarint(v) ==
  LET n == Min({k \in 1 .. MaxDigits : v < Power[k]})
  IN  [k \in 1 .. n |-> [digit |-> (v \div Power[k - 1]) % DigitBase, more |-> k < n]]

\* zupt_decode_varint and zupt_read_varint: only the shortest form is taken, and
\* of the last digit what the width of a value leaves.
DecodeVarint(bytes) ==
  LET ends == {k \in 1 .. Min({MaxDigits, Len(bytes)}) : ~bytes[k].more}
      n == Min(ends)
      Value[k \in 0 .. MaxDigits] ==
        IF k = 0 THEN 0 ELSE Value[k - 1] + bytes[k].digit * Power[k - 1]
  IN  IF ends = {} THEN NoValue
      ELSE IF n = MaxDigits /\ bytes[n].digit * Power[n - 1] >= ValueLimit THEN NoValue
      ELSE IF n > 1 /\ bytes[n].digit = 0 THEN NoValue
      ELSE [used |-> n, value |-> Value[n] % ValueLimit]

\* PROPERTY: a number has one form on the wire, and is read back from it: any
\* bytes that are taken are the form of the value they are taken for, so nothing
\* wraps around, and no two headers differ that say the same
\* (zupt_format.c:262-312).
OneFormOfANumber(bytes) ==
  LET got == DecodeVarint(bytes)
  IN  got.used > 0 => /\ got.value < ValueLimit
                      /\ EncodeVarint(got.value) = SubSeq(bytes, 1, got.used)

\* PROPERTY: every number is read back from its form, whatever follows.
EveryNumberIsReadBack(tail) ==
  \A v \in 0 .. ValueLimit - 1 :
    DecodeVarint(EncodeVarint(v) \o tail) = [used |-> Len(EncodeVarint(v)), value |-> v]
=============================================================================
