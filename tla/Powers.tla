------------------------------- MODULE Powers -------------------------------
(***************************************************************************)
(* Powers of two, and numbers as rows of bits.                             *)
(***************************************************************************)
EXTENDS Integers, FiniteSets, SequencesExt

Pow2[n \in Nat] == IF n = 0 THEN 1 ELSE 2 * Pow2[n - 1]

\* The whole part of the logarithm, 0 of 0.
Log2[v \in Nat] == IF v < 2 THEN 0 ELSE 1 + Log2[v \div 2]

SumOver(f, S) == FoldFunctionOnSet(+, 0, f, S)

\* The n low bits of a value, the low one first, and the value of such a row.
LowBits(value, n) == [k \in 1 .. n |-> (value \div Pow2[k - 1]) % 2]
ValueOf(bits) == SumOver([k \in DOMAIN bits |-> bits[k] * Pow2[k - 1]], DOMAIN bits)
=============================================================================
