------------------------------- MODULE Window -------------------------------
(***************************************************************************)
(* Positions in a sequence of units, counted from 0, what a match stands   *)
(* for, and the memory a decoder copies it in: in steps of several units,  *)
(* that may also write ahead of what has been produced.                    *)
(***************************************************************************)
EXTENDS Integers, FiniteSets, SequencesExt

\* The unit at position i.
At(data, i) == data[i + 1]

Slice(data, first, end) == SubSeq(data, first + 1, end)

\* The units a match stands for, copied one at a time: a match may reach into
\* what it is producing.
Copy[n \in Nat, out \in Seq(Int), dist \in Nat] ==
  IF n = 0 THEN out
  ELSE Copy[n - 1, Append(out, out[Len(out) + 1 - dist]), dist]

-----------------------------------------------------------------------------
(* A buffer: its units, whatever they hold; how many of them are produced;  *)
(* and whether something outside of it was read or written.                 *)

\* What memory holds that nobody has written.
Unset(n) == [i \in 1 .. n |-> -1]

\* A decoder that has read or written outside its buffers.
Overrun == <<-2>>

Buffer(out0, cap) == [units |-> out0 \o Unset(cap), at |-> Len(out0), over |-> FALSE]

Room(b) == Len(b.units) - b.at
Produced(b) == SubSeq(b.units, 1, b.at)

\* One load of width units at a position of some memory, and one store of them
\* behind what is produced; n of them count as produced.
Transfer(b, memory, pos, width, n) ==
  IF b.over \/ pos < 0 \/ pos + width > Len(memory) \/ width > Room(b)
  THEN [b EXCEPT !.over = TRUE]
  ELSE [b EXCEPT !.units = SubSeq(@, 1, b.at) \o Slice(memory, pos, pos + width)
                             \o Slice(@, b.at + width, Len(@)),
                 !.at = @ + n]

\* The same from off units back.
TransferBack(b, off, width, n) == Transfer(b, b.units, b.at - off, width, n)

\* Loads and stores of these widths, one after the other.
CopyInSteps(b, off, widths) ==
  FoldLeft(LAMBDA c, width : TransferBack(c, off, width, width), b, widths)

\* n units in as many full steps as there are, and the rest in one.
FullSteps(n, width) == [i \in 1 .. n \div width |-> width]
Steps(n, width) ==
  FullSteps(n, width) \o (IF n % width = 0 THEN <<>> ELSE <<n % width>>)
=============================================================================
