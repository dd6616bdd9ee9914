---------------------------- MODULE MCCompressMT ----------------------------
(***************************************************************************)
(* Instances of CompressMT for TLC.                                        *)
(***************************************************************************)
EXTENDS CompressMT

SeqsUpTo(S, n) == UNION {[1 .. k -> S] : k \in 0 .. n}

AllModes == [dedup : BOOLEAN, encrypt : BOOLEAN]

\* Every pair of small files of two contents.
SmallPairs == {<<a, b>> : a \in SeqsUpTo({1, 2}, 3), b \in SeqsUpTo({1, 2}, 2)}

\* A file that fills one batch of three and part of a second, before a file
\* that begins with what the first one ends with; short and empty files, and repeats
\* within a file and across the two.
InputPairs == {<<<<1, 2, 3, 4, 1>>, <<1, 2>>>>, <<<<1, 2>>, <<2, 1>>>>,
              <<<<>>, <<1>>>>,
              <<<<1, 1>>, <<2, 1>>>>, <<<<1, 2, 1>>, <<>>>>}
=============================================================================
