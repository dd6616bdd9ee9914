---------------------------- MODULE DStreamProofs ----------------------------
(***************************************************************************)
(* For any sequence of frames, any chunks, any room and any number of      *)
(* resets, the stream decoder ends as the decoder that has all bytes at    *)
(* once; and frames that follow each other decode as each would alone.     *)
(*                                                                         *)
(* The argument: element by element, the decoder that has all at once      *)
(* reads alike however much there is behind the elements it has taken      *)
(* (Passed); the stream has taken the same elements and come to the same   *)
(* place, and what follows them is what is unread (Within); each turn      *)
(* takes the next element as the other decoder does, or ends the call with *)
(* an answer that agrees (TurnEnds).  Frames after the first are read side *)
(* by side with and without it (Alike).                                    *)
(***************************************************************************)
EXTENDS DStream, SequenceTheorems, WellFoundedInduction, TLAPS

-----------------------------------------------------------------------------
\* Of some numbers one is the least: what is proved by induction is proved by
\* looking at the least number it fails for.
LEMMA LeastNumber ==
  ASSUME NEW S \in SUBSET Nat, S # {}
  PROVE  \E n \in S : \A m \in S : n <= m
<1>1. PICK n \in S : \A m \in S : ~(<<m, n>> \in OpToRel(<, Nat))
  BY NatLessThanWellFounded, WFMin, Zenon
<1>2. \A m \in S : ~(m < n)
  BY <1>1 DEF OpToRel
<1> QED BY <1>2

-----------------------------------------------------------------------------
(* Elements and where they stand on the wire. *)

\* Every element takes some units.
LEMMA LengthTyped ==
  ASSUME NEW e \in Elements
  PROVE  /\ LengthOf(e) \in Nat \ {0}
         /\ e.kind \in {"header", "block", "footer"}
         /\ e.kind \in {"header", "footer"} => LengthOf(e) = 2
         /\ e.kind = "header" => e.sum \in BOOLEAN /\ e.filter \in BOOLEAN
         /\ e.kind = "block" =>
              /\ e.size \in Nat /\ e.coded \in Nat /\ e.type \in {"raw", "rle", "coded", "unknown"}
              /\ e.last \in BOOLEAN /\ e.good \in BOOLEAN
<1> USE DEF LengthOf, HeaderLen, BlockLen, SizeLen, FooterLen
<1>1. CASE e \in [kind : {"header"}, fault : {"none", "magic", "other"}, sum : BOOLEAN, filter : BOOLEAN]
  <2>1. e.kind = "header" /\ e.sum \in BOOLEAN /\ e.filter \in BOOLEAN BY <1>1
  <2>2. LengthOf(e) = 2 BY <2>1
  <2> QED BY <2>1, <2>2
<1>2. CASE e \in [kind : {"block"}, type : {"raw", "rle", "coded", "unknown"}, size : Nat,
                 coded : Nat, last : BOOLEAN, good : BOOLEAN]
  <2>1. /\ e.kind = "block" /\ e.type \in {"raw", "rle", "coded", "unknown"}
        /\ e.size \in Nat /\ e.coded \in Nat /\ e.last \in BOOLEAN /\ e.good \in BOOLEAN
    BY <1>2
  <2>2. BlockData(e) \in Nat BY <2>1 DEF BlockData
  <2>3. LengthOf(e) = 1 + BlockData(e) BY <2>1
  <2> QED BY <2>1, <2>2, <2>3
<1>3. CASE e \in [kind : {"footer"}, magic : BOOLEAN, right : BOOLEAN]
  <2>1. e.kind = "footer" BY <1>3
  <2>2. LengthOf(e) = 2 BY <2>1
  <2> QED BY <2>1, <2>2
<1> QED BY <1>1, <1>2, <1>3 DEF Elements

\* What is computed step by step exists: Step may be any operator here, but a
\* lemma about all operators could not be cited, so that each such computation
\* has a lemma of this form.
LEMMA WiresExist ==
  ASSUME NEW elems, NEW n \in Nat
  PROVE  \E f : f = [k \in 0 .. n |-> IF k = 0 THEN <<>> ELSE f[k - 1] \o Cells(k, LengthOf(elems[k]))]
<1> DEFINE Step(v, k) == v \o Cells(k, LengthOf(elems[k]))
           Solves(f, m) == f = [k \in 0 .. m |-> IF k = 0 THEN <<>> ELSE Step(f[k - 1], k)]
           Bad == {m \in Nat : ~ \E f : Solves(f, m)}
<1> SUFFICES ASSUME Bad # {} PROVE FALSE OBVIOUS
<1>1. PICK m \in Bad : \A j \in Bad : m <= j
  <2>1. Bad \in SUBSET Nat OBVIOUS
  <2> HIDE DEF Bad
  <2> QED BY <2>1, LeastNumber
<1> HIDE DEF Step, Solves
<1>2. m # 0
  <2> DEFINE f == [k \in 0 .. 0 |-> <<>>]
  <2>1. \A k \in 0 .. 0 : f[k] = IF k = 0 THEN <<>> ELSE Step(f[k - 1], k) OBVIOUS
  <2>2. f = [k \in 0 .. 0 |-> f[k]] OBVIOUS
  <2> HIDE DEF f
  <2>3. Solves(f, 0) BY <2>1, <2>2 DEF Solves
  <2>4. \E h : Solves(h, 0) BY <2>3
  <2> QED BY <1>1, <2>4
<1>3. m - 1 \in Nat /\ m - 1 \notin Bad BY <1>1, <1>2
<1>4. PICK f : Solves(f, m - 1) BY <1>3
<1> DEFINE g == [k \in 0 .. m |-> IF k < m THEN f[k] ELSE Step(f[m - 1], m)]
<1>5. \A k \in 0 .. m : g[k] = IF k = 0 THEN <<>> ELSE Step(g[k - 1], k)
  <2> SUFFICES ASSUME NEW k \in 0 .. m PROVE g[k] = IF k = 0 THEN <<>> ELSE Step(g[k - 1], k) OBVIOUS
  <2>1. CASE k < m
    <3>1. k \in 0 .. m - 1 BY <2>1
    <3>2. f[k] = IF k = 0 THEN <<>> ELSE Step(f[k - 1], k) BY <1>4, <3>1 DEF Solves
    <3>3. g[k] = f[k] /\ (k # 0 => g[k - 1] = f[k - 1]) BY <2>1
    <3> QED BY <3>2, <3>3
  <2>2. CASE k = m
    <3>1. g[m] = Step(f[m - 1], m) /\ g[m - 1] = f[m - 1] BY <1>3
    <3> QED BY <1>2, <2>2, <3>1
  <2> QED BY <2>1, <2>2
<1>6. Solves(g, m)
  <2>1. g = [k \in 0 .. m |-> g[k]] OBVIOUS
  <2> HIDE DEF g
  <2> QED BY <1>5, <2>1 DEF Solves
<1> QED BY <1>1, <1>6

\* Where element k ends.
EndOf(elems, k) == Len(Wires(elems)[k])

\* The wires of a sequence are such a computation.
LEMMA WiresUnfold ==
  ASSUME NEW elems, Len(elems) \in Nat
  PROVE  /\ Wires(elems)[0] = <<>>
         /\ \A k \in 1 .. Len(elems) :
              Wires(elems)[k] = Wires(elems)[k - 1] \o Cells(k, LengthOf(elems[k]))
<1> DEFINE Step(v, k) == v \o Cells(k, LengthOf(elems[k]))
           Solves(f) == f = [k \in 0 .. Len(elems) |-> IF k = 0 THEN <<>> ELSE Step(f[k - 1], k)]
           w == Wires(elems)
<1>1. w = CHOOSE f : Solves(f) BY DEF Wires
<1>2. \E f : Solves(f) BY WiresExist
<1>3. Solves(CHOOSE f : Solves(f)) BY <1>2
<1>4. Solves(w) BY <1>1, <1>3
<1> HIDE DEF Step, w
<1>5. w[0] = <<>> /\ \A k \in 1 .. Len(elems) : w[k] = Step(w[k - 1], k) BY <1>4
<1> QED BY <1>5 DEF Step, w

\* Where elements end, and what units they have.
LEMMA WiresTyped ==
  ASSUME NEW elems \in Seq(Elements)
  PROVE  \A k \in 0 .. Len(elems) :
           /\ Wires(elems)[k] \in Seq(Nat \X Nat) /\ EndOf(elems, k) \in Nat
           /\ k = 0 => EndOf(elems, k) = 0
           /\ k > 0 =>
                /\ EndOf(elems, k) = EndOf(elems, k - 1) + LengthOf(elems[k])
                /\ \A j \in 1 .. LengthOf(elems[k]) :
                     Wires(elems)[k][EndOf(elems, k - 1) + j] = <<k, j>>
                /\ \A i \in 1 .. EndOf(elems, k - 1) : Wires(elems)[k][i] = Wires(elems)[k - 1][i]
<1> DEFINE w == Wires(elems)
           Good(k) ==
             /\ w[k] \in Seq(Nat \X Nat) /\ Len(w[k]) \in Nat
             /\ k = 0 => Len(w[k]) = 0
             /\ k > 0 =>
                  /\ Len(w[k]) = Len(w[k - 1]) + LengthOf(elems[k])
                  /\ \A j \in 1 .. LengthOf(elems[k]) : w[k][Len(w[k - 1]) + j] = <<k, j>>
                  /\ \A i \in 1 .. Len(w[k - 1]) : w[k][i] = w[k - 1][i]
           Bad == {k \in 0 .. Len(elems) : ~Good(k)}
<1>1. /\ w[0] = <<>>
      /\ \A k \in 1 .. Len(elems) : w[k] = w[k - 1] \o Cells(k, LengthOf(elems[k]))
  <2>1. Len(elems) \in Nat OBVIOUS
  <2> HIDE DEF Good
  <2> QED BY <2>1, WiresUnfold
<1>2. \A k \in 1 .. Len(elems) : LengthOf(elems[k]) \in Nat \ {0} BY LengthTyped
<1> HIDE DEF w
<1>3. Bad = {}
  <2> SUFFICES ASSUME Bad # {} PROVE FALSE OBVIOUS
  <2>1. PICK k \in Bad : \A m \in Bad : k <= m
    <3>1. Bad \in SUBSET Nat OBVIOUS
    <3> HIDE DEF Bad
    <3> QED BY <3>1, LeastNumber
  <2>2. k # 0
    <3>1. Good(0) BY <1>1
    <3> HIDE DEF Good
    <3> QED BY <2>1, <3>1
  <2>3. k - 1 \in 0 .. Len(elems) /\ ~(k <= k - 1) /\ k \in 1 .. Len(elems) BY <2>2
  <2>4. Good(k - 1) BY <2>1, <2>3
  <2> DEFINE v == w[k - 1]
             c == Cells(k, LengthOf(elems[k]))
             l == LengthOf(elems[k])
  <2>5. v \in Seq(Nat \X Nat) /\ Len(v) \in Nat /\ l \in Nat BY <1>2, <2>3, <2>4
  <2>6. c \in Seq(Nat \X Nat) /\ Len(c) = l /\ \A j \in 1 .. l : c[j] = <<k, j>>
    <3> HIDE DEF l
    <3>1. \A j \in 1 .. l : <<k, j>> \in Nat \X Nat BY <2>3, <2>5
    <3>2. c = [j \in 1 .. l |-> <<k, j>>] BY DEF Cells, l
    <3> HIDE DEF c
    <3> QED BY <2>5, <3>1, <3>2
  <2>7. w[k] = v \o c BY <1>1, <2>3
  <2> HIDE DEF v, c, l
  <2>8. /\ v \o c \in Seq(Nat \X Nat) /\ Len(v \o c) = Len(v) + l
        /\ \A j \in 1 .. l : (v \o c)[Len(v) + j] = <<k, j>>
        /\ \A i \in 1 .. Len(v) : (v \o c)[i] = v[i]
    <3>1. /\ v \o c \in Seq(Nat \X Nat)
          /\ Len(v \o c) = Len(v) + l
          /\ \A i \in 1 .. Len(v) + l : (v \o c)[i] = IF i <= Len(v) THEN v[i] ELSE c[i - Len(v)]
      BY <2>5, <2>6, ConcatProperties
    <3>2. \A i \in 1 .. Len(v) : i \in 1 .. Len(v) + l /\ i <= Len(v) BY <2>5
    <3>3. \A j \in 1 .. l :
            Len(v) + j \in 1 .. Len(v) + l /\ ~(Len(v) + j <= Len(v)) /\ Len(v) + j - Len(v) = j
      BY <2>5
    <3> QED BY <2>6, <3>1, <3>2, <3>3
  <2>9. Good(k)
    <3>1. /\ w[k] \in Seq(Nat \X Nat) /\ Len(w[k]) = Len(v) + l
          /\ \A j \in 1 .. l : w[k][Len(v) + j] = <<k, j>>
          /\ \A i \in 1 .. Len(v) : w[k][i] = v[i]
      BY <2>7, <2>8
    <3>2. Len(w[k]) \in Nat BY <2>5, <3>1
    <3> QED BY <2>2, <3>1, <3>2 DEF v, l
  <2> HIDE DEF Good
  <2> QED BY <2>1, <2>9
<1>4. \A k \in 0 .. Len(elems) : Good(k)
  <2> HIDE DEF Good
  <2> QED BY <1>3
<1> QED BY <1>4 DEF w, EndOf

\* Ends, without the units.
LEMMA EndTyped ==
  ASSUME NEW elems \in Seq(Elements)
  PROVE  /\ EndOf(elems, 0) = 0
         /\ \A k \in 0 .. Len(elems) : EndOf(elems, k) \in Nat
         /\ \A k \in 1 .. Len(elems) :
              /\ EndOf(elems, k) = EndOf(elems, k - 1) + LengthOf(elems[k])
              /\ EndOf(elems, k - 1) \in Nat
              /\ LengthOf(elems[k]) \in Nat \ {0}
<1>1. \A k \in 0 .. Len(elems) : EndOf(elems, k) \in Nat BY WiresTyped
<1>2. EndOf(elems, 0) = 0
  <2>1. 0 \in 0 .. Len(elems) OBVIOUS
  <2> QED BY <2>1, WiresTyped
<1>3. ASSUME NEW k \in 1 .. Len(elems)
      PROVE  /\ EndOf(elems, k) = EndOf(elems, k - 1) + LengthOf(elems[k])
             /\ EndOf(elems, k - 1) \in Nat /\ LengthOf(elems[k]) \in Nat \ {0}
  <2>1. k \in 0 .. Len(elems) /\ k - 1 \in 0 .. Len(elems) /\ k > 0 OBVIOUS
  <2>2. LengthOf(elems[k]) \in Nat \ {0} BY LengthTyped
  <2> QED BY <1>1, <2>1, <2>2, WiresTyped
<1> QED BY <1>1, <1>2, <1>3

\* Later elements end later.
LEMMA EndsGrow ==
  ASSUME NEW elems \in Seq(Elements)
  PROVE  \A j, k \in 0 .. Len(elems) : j < k => EndOf(elems, j) < EndOf(elems, k)
<1> SUFFICES ASSUME NEW j \in 0 .. Len(elems)
             PROVE  \A k \in 0 .. Len(elems) : j < k => EndOf(elems, j) < EndOf(elems, k)
  OBVIOUS
<1> DEFINE Bad == {k \in 0 .. Len(elems) : j < k /\ ~(EndOf(elems, j) < EndOf(elems, k))}
<1> SUFFICES ASSUME Bad # {} PROVE FALSE OBVIOUS
<1>1. PICK k \in Bad : \A m \in Bad : k <= m
  <2>1. Bad \in SUBSET Nat OBVIOUS
  <2> HIDE DEF Bad
  <2> QED BY <2>1, LeastNumber
<1>2. /\ k - 1 \in 0 .. Len(elems) /\ ~(k <= k - 1) /\ k \in 1 .. Len(elems)
      /\ j = k - 1 \/ j < k - 1
  OBVIOUS
<1>3. /\ EndOf(elems, k) = EndOf(elems, k - 1) + LengthOf(elems[k])
      /\ LengthOf(elems[k]) \in Nat \ {0}
      /\ EndOf(elems, k - 1) \in Nat /\ EndOf(elems, k) \in Nat /\ EndOf(elems, j) \in Nat
  BY <1>2, EndTyped
<1>4. EndOf(elems, j) <= EndOf(elems, k - 1) BY <1>1, <1>2, <1>3
<1> QED BY <1>1, <1>3, <1>4

\* The wire of a sequence has the wires of its prefixes, and each element's units.
LEMMA WireUnits ==
  ASSUME NEW elems \in Seq(Elements)
  PROVE  /\ WireOf(elems) \in Seq(Nat \X Nat)
         /\ Len(WireOf(elems)) = EndOf(elems, Len(elems)) /\ Len(WireOf(elems)) \in Nat
         /\ \A k \in 1 .. Len(elems), j \in Nat :
              1 <= j /\ j <= LengthOf(elems[k]) =>
                WireOf(elems)[EndOf(elems, k - 1) + j] = <<k, j>>
<1>1. Len(elems) \in 0 .. Len(elems) OBVIOUS
<1>2. /\ WireOf(elems) \in Seq(Nat \X Nat) /\ Len(WireOf(elems)) \in Nat
      /\ Len(WireOf(elems)) = EndOf(elems, Len(elems))
  BY <1>1, WiresTyped DEF WireOf, EndOf
<1>3. ASSUME NEW k \in 1 .. Len(elems), NEW j \in Nat, 1 <= j, j <= LengthOf(elems[k])
      PROVE  WireOf(elems)[EndOf(elems, k - 1) + j] = <<k, j>>
  <2> DEFINE i == EndOf(elems, k - 1) + j
             Bad == {m \in k .. Len(elems) : Wires(elems)[m][i] # <<k, j>>}
  <2>0. /\ EndOf(elems, k - 1) \in Nat /\ LengthOf(elems[k]) \in Nat
        /\ EndOf(elems, k) = EndOf(elems, k - 1) + LengthOf(elems[k])
        /\ EndOf(elems, k) \in Nat
    BY EndTyped
  <2>1. Bad = {}
    <3> SUFFICES ASSUME Bad # {} PROVE FALSE OBVIOUS
    <3>1. PICK m \in Bad : \A o \in Bad : m <= o
      <4>1. Bad \in SUBSET Nat OBVIOUS
      <4> HIDE DEF Bad
      <4> QED BY <4>1, LeastNumber
    <3>2. m \in k .. Len(elems) /\ m \in 0 .. Len(elems) /\ m > 0 OBVIOUS
    <3>3. m # k
      <4>1. j \in 1 .. LengthOf(elems[k]) BY <1>3, <2>0
      <4>2. k \in 0 .. Len(elems) /\ k > 0 OBVIOUS
      <4>3. Wires(elems)[k][i] = <<k, j>> BY <4>1, <4>2, WiresTyped
      <4> QED BY <4>3
    <3>4. m - 1 \in k .. Len(elems) /\ ~(m <= m - 1) /\ k \in 0 .. Len(elems) /\ m - 1 \in 0 .. Len(elems)
      BY <3>2, <3>3
    <3>5. Wires(elems)[m - 1][i] = <<k, j>> BY <3>1, <3>4
    <3>6. EndOf(elems, k) <= EndOf(elems, m - 1)
      <4>1. k = m - 1 \/ k < m - 1 BY <3>4
      <4>2. CASE k = m - 1 BY <2>0, <4>2
      <4>3. EndOf(elems, m - 1) \in Nat BY <3>4, EndTyped
      <4>4. CASE k < m - 1 BY <2>0, <3>4, <4>3, <4>4, EndsGrow
      <4> QED BY <4>1, <4>2, <4>4
    <3>7. EndOf(elems, m - 1) \in Nat BY <3>4, EndTyped
    <3>8. i \in 1 .. EndOf(elems, m - 1)
      <4>1. i \in Nat /\ 1 <= i /\ i <= EndOf(elems, k) BY <1>3, <2>0
      <4> HIDE DEF i
      <4> QED BY <2>0, <3>6, <3>7, <4>1
    <3>9. Wires(elems)[m][i] = Wires(elems)[m - 1][i] BY <3>2, <3>8, WiresTyped
    <3> QED BY <3>1, <3>5, <3>9
  <2>2. Len(elems) \in k .. Len(elems) OBVIOUS
  <2>3. Wires(elems)[Len(elems)][i] = <<k, j>> BY <2>1, <2>2
  <2> QED BY <2>3 DEF WireOf
<1> QED BY <1>2, <1>3

-----------------------------------------------------------------------------
(* The decoder that has all bytes at once. *)

\* Its states: at first, after another element, and one after the other.
Beginning(n) == Reading("on", "header", 1, 0, 0, <<>>, n)
Step(elems, d, cap) == ReadOn(elems, d, cap, FALSE)
ReadsOf(elems, n, cap) == ReadUpTo(elems, n, cap, FALSE)

\* Each state follows from the one before.
LEMMA ReadsUnfold ==
  ASSUME NEW elems, NEW n, NEW cap, Len(elems) \in Nat
  PROVE  /\ ReadsOf(elems, n, cap)[0] = Beginning(n)
         /\ \A i \in 1 .. Len(elems) + 1 :
              ReadsOf(elems, n, cap)[i] = Step(elems, ReadsOf(elems, n, cap)[i - 1], cap)
<1> DEFINE last == Len(elems) + 1
           first == Beginning(n)
           Solves(f, m) == f = [i \in 0 .. m |-> IF i = 0 THEN first ELSE Step(elems, f[i - 1], cap)]
           r == ReadsOf(elems, n, cap)
           Bad == {m \in Nat : ~ \E f : Solves(f, m)}
<1>1. r = CHOOSE f : Solves(f, last) BY DEF ReadsOf, ReadUpTo, Beginning, Step
<1>2. last \in Nat OBVIOUS
<1> HIDE DEF last, first, r
<1>3. Bad = {}
  <2> SUFFICES ASSUME Bad # {} PROVE FALSE OBVIOUS
  <2>1. PICK m \in Bad : \A j \in Bad : m <= j
    <3>1. Bad \in SUBSET Nat OBVIOUS
    <3> HIDE DEF Bad
    <3> QED BY <3>1, LeastNumber
  <2> HIDE DEF Solves
  <2>2. m # 0
    <3> DEFINE f == [i \in 0 .. 0 |-> first]
    <3>1. \A i \in 0 .. 0 : f[i] = IF i = 0 THEN first ELSE Step(elems, f[i - 1], cap) OBVIOUS
    <3>2. f = [i \in 0 .. 0 |-> f[i]] OBVIOUS
    <3> HIDE DEF f
    <3>3. Solves(f, 0) BY <3>1, <3>2 DEF Solves
    <3>4. \E h : Solves(h, 0) BY <3>3
    <3> QED BY <2>1, <3>4
  <2>3. m - 1 \in Nat /\ m - 1 \notin Bad BY <2>1, <2>2
  <2>4. PICK f : Solves(f, m - 1) BY <2>3
  <2> DEFINE g == [i \in 0 .. m |-> IF i < m THEN f[i] ELSE Step(elems, f[m - 1], cap)]
  <2>5. \A i \in 0 .. m : g[i] = IF i = 0 THEN first ELSE Step(elems, g[i - 1], cap)
    <3> SUFFICES ASSUME NEW i \in 0 .. m
                 PROVE  g[i] = IF i = 0 THEN first ELSE Step(elems, g[i - 1], cap)
      OBVIOUS
    <3>1. CASE i < m
      <4>1. i \in 0 .. m - 1 BY <3>1
      <4>2. f[i] = IF i = 0 THEN first ELSE Step(elems, f[i - 1], cap) BY <2>4, <4>1 DEF Solves
      <4>3. g[i] = f[i] /\ (i # 0 => g[i - 1] = f[i - 1]) BY <3>1
      <4> QED BY <4>2, <4>3
    <3>2. CASE i = m
      <4>1. g[m] = Step(elems, f[m - 1], cap) /\ g[m - 1] = f[m - 1] BY <2>3
      <4> QED BY <2>2, <3>2, <4>1
    <3> QED BY <3>1, <3>2
  <2>6. Solves(g, m)
    <3>1. g = [i \in 0 .. m |-> g[i]] OBVIOUS
    <3> HIDE DEF g
    <3> QED BY <2>5, <3>1 DEF Solves
  <2> QED BY <2>1, <2>6
<1> HIDE DEF Solves
<1>4. \E f : Solves(f, last) BY <1>2, <1>3
<1>5. Solves(r, last) BY <1>1, <1>4
<1>6. r[0] = first /\ \A i \in 1 .. last : r[i] = Step(elems, r[i - 1], cap) BY <1>2, <1>5 DEF Solves
<1> QED BY <1>6 DEF first, r, last

\* Once it has stopped it reads no more.
LEMMA StoppedForGood ==
  ASSUME NEW elems, NEW n, NEW cap, Len(elems) \in Nat,
         NEW i \in 0 .. Len(elems) + 1, ReadsOf(elems, n, cap)[i].code # "on"
  PROVE  Decompress(elems, n, cap, FALSE) =
           [code |-> ReadsOf(elems, n, cap)[i].code,
            out |-> IF ReadsOf(elems, n, cap)[i].code = "ok"
                    THEN ReadsOf(elems, n, cap)[i].out ELSE <<>>]
<1> DEFINE r == ReadsOf(elems, n, cap)
           Bad == {j \in i .. Len(elems) + 1 : r[j] # r[i]}
<1>1. \A j \in 1 .. Len(elems) + 1 : r[j] = Step(elems, r[j - 1], cap) BY ReadsUnfold
<1>2. r[i].code # "on" OBVIOUS
<1>3. Decompress(elems, n, cap, FALSE) =
        [code |-> r[Len(elems) + 1].code,
         out |-> IF r[Len(elems) + 1].code = "ok" THEN r[Len(elems) + 1].out ELSE <<>>]
  BY DEF Decompress, ReadsOf
<1> HIDE DEF r
<1>4. Bad = {}
  <2> SUFFICES ASSUME Bad # {} PROVE FALSE OBVIOUS
  <2>1. PICK j \in Bad : \A m \in Bad : j <= m
    <3>1. Bad \in SUBSET Nat OBVIOUS
    <3> HIDE DEF Bad
    <3> QED BY <3>1, LeastNumber
  <2>2. j # i OBVIOUS
  <2>3. j - 1 \in i .. Len(elems) + 1 /\ ~(j <= j - 1) /\ j \in 1 .. Len(elems) + 1 BY <2>2
  <2>4. r[j - 1] = r[i] BY <2>1, <2>3
  <2>5. r[j] = r[i] BY <1>1, <1>2, <2>3, <2>4 DEF Step, ReadOn
  <2> QED BY <2>1, <2>5
<1>5. Len(elems) + 1 \in i .. Len(elems) + 1 OBVIOUS
<1>6. r[Len(elems) + 1] = r[i] BY <1>4, <1>5
<1>7. Decompress(elems, n, cap, FALSE) =
        [code |-> r[i].code, out |-> IF r[i].code = "ok" THEN r[i].out ELSE <<>>]
  BY <1>3, <1>6
<1> QED BY <1>7 DEF r

\* A place between elements: what comes next, the header, and the output.
Place(at, head, out) == [at |-> at, head |-> head, out |-> out]

\* The decoder in the first frame before element i + 1, with so many units left.
Here(p, i, left) == Reading("on", p.at, i + 1, p.head, 0, p.out, left)

\* However many units there are: if those of the first i elements are among them,
\* the decoder takes these elements and is then at p.
Passed(elems, cap, i, p) ==
  \A n \in Nat : n >= EndOf(elems, i) =>
    ReadsOf(elems, n, cap)[i] = Here(p, i, n - EndOf(elems, i))

\* It begins alike whatever follows.
LEMMA NothingPassed ==
  ASSUME NEW elems \in Seq(Elements), NEW cap
  PROVE  Passed(elems, cap, 0, Place("header", 0, <<>>))
<1> DEFINE p == Place("header", 0, <<>>)
<1> SUFFICES ASSUME NEW n \in Nat
             PROVE  ReadsOf(elems, n, cap)[0] = Here(p, 0, n - EndOf(elems, 0))
  BY DEF Passed
<1>1. Len(elems) \in Nat /\ 0 + 1 = 1 /\ n - EndOf(elems, 0) = n BY EndTyped
<1>2. ReadsOf(elems, n, cap)[0] = Beginning(n) BY <1>1, ReadsUnfold
<1>3. p.at = "header" /\ p.head = 0 /\ p.out = <<>> BY DEF Place
<1> HIDE DEF p
<1> QED BY <1>1, <1>2, <1>3 DEF Beginning, Here

\* Where it stands decides what it reads next.
LEMMA PassedNext ==
  ASSUME NEW elems \in Seq(Elements), NEW cap, NEW i \in 0 .. Len(elems), NEW p,
         Passed(elems, cap, i, p), NEW n \in Nat, n >= EndOf(elems, i)
  PROVE  ReadsOf(elems, n, cap)[i + 1] =
           ReadElement(elems, Here(p, i, n - EndOf(elems, i)), cap, FALSE)
<1> DEFINE d == Here(p, i, n - EndOf(elems, i))
<1>1. ReadsOf(elems, n, cap)[i] = d BY DEF Passed
<1>2. i + 1 \in 1 .. Len(elems) + 1 /\ i + 1 - 1 = i /\ Len(elems) \in Nat OBVIOUS
<1>3. ReadsOf(elems, n, cap)[i + 1] = Step(elems, ReadsOf(elems, n, cap)[i + 1 - 1], cap)
  BY <1>2, ReadsUnfold
<1>4. ReadsOf(elems, n, cap)[i + 1] = Step(elems, d, cap) BY <1>1, <1>2, <1>3
<1>5. d.code = "on" BY DEF Reading, Here
<1> HIDE DEF d
<1>6. Step(elems, d, cap) = ReadElement(elems, d, cap, FALSE) BY <1>5 DEF Step, ReadOn
<1> QED BY <1>4, <1>6 DEF d

\* If the next element is there the decoder takes it, and is then at q.
Takes(elems, cap, i, p, q) ==
  \A left \in Nat : left >= LengthOf(elems[i + 1]) =>
    ReadElement(elems, Here(p, i, left), cap, FALSE) =
      Here(q, i + 1, left - LengthOf(elems[i + 1]))

\* An element that is taken alike leaves it at the same place.
LEMMA PassedMore ==
  ASSUME NEW elems \in Seq(Elements), NEW cap, NEW i \in 0 .. Len(elems) - 1, NEW p, NEW q,
         Passed(elems, cap, i, p), Takes(elems, cap, i, p, q)
  PROVE  Passed(elems, cap, i + 1, q)
<1>1. i + 1 \in 1 .. Len(elems) /\ i \in 0 .. Len(elems) /\ i + 1 - 1 = i OBVIOUS
<1>2. /\ EndOf(elems, i + 1) = EndOf(elems, i) + LengthOf(elems[i + 1])
      /\ EndOf(elems, i) \in Nat /\ LengthOf(elems[i + 1]) \in Nat
  BY <1>1, EndTyped
<1> SUFFICES ASSUME NEW n \in Nat, n >= EndOf(elems, i + 1)
             PROVE  ReadsOf(elems, n, cap)[i + 1] = Here(q, i + 1, n - EndOf(elems, i + 1))
  BY DEF Passed
<1> DEFINE left == n - EndOf(elems, i)
<1>3. /\ left \in Nat /\ left >= LengthOf(elems[i + 1]) /\ n >= EndOf(elems, i)
      /\ left - LengthOf(elems[i + 1]) = n - EndOf(elems, i + 1)
  BY <1>2
<1>4. ReadsOf(elems, n, cap)[i + 1] = ReadElement(elems, Here(p, i, left), cap, FALSE)
  <2>1. i \in 0 .. Len(elems) /\ n >= EndOf(elems, i) BY <1>1, <1>3
  <2> QED BY <2>1, PassedNext
<1> HIDE DEF left
<1>5. ReadElement(elems, Here(p, i, left), cap, FALSE) = Here(q, i + 1, left - LengthOf(elems[i + 1]))
  BY <1>3 DEF Takes
<1> QED BY <1>3, <1>4, <1>5

\* With n units it stops at the next element, and that is its result.
Stops(elems, cap, i, p, code, n) ==
  ReadElement(elems, Here(p, i, n - EndOf(elems, i)), cap, FALSE) =
    Stop(Here(p, i, n - EndOf(elems, i)), code)

\* Where it stops decides what it returns.
LEMMA PassedStops ==
  ASSUME NEW elems \in Seq(Elements), NEW cap, NEW i \in 0 .. Len(elems), NEW p,
         Passed(elems, cap, i, p), NEW n \in Nat, n >= EndOf(elems, i)
  PROVE  \A code : Stops(elems, cap, i, p, code, n) /\ code # "on" =>
           Decompress(elems, n, cap, FALSE) =
             [code |-> code, out |-> IF code = "ok" THEN p.out ELSE <<>>]
<1> SUFFICES ASSUME NEW code, Stops(elems, cap, i, p, code, n), code # "on"
             PROVE  Decompress(elems, n, cap, FALSE) =
                      [code |-> code, out |-> IF code = "ok" THEN p.out ELSE <<>>]
  OBVIOUS
<1>1. i + 1 \in 0 .. Len(elems) + 1 /\ Len(elems) \in Nat OBVIOUS
<1> DEFINE d == ReadsOf(elems, n, cap)[i + 1]
           e == Stop(Here(p, i, n - EndOf(elems, i)), code)
<1>2. d = e BY PassedNext DEF Stops
<1>3. e.code = code /\ e.out = p.out BY DEF Reading, Here, Stop
<1> HIDE DEF d, e
<1>4. d.code = code /\ d.out = p.out BY <1>2, <1>3
<1>5. Decompress(elems, n, cap, FALSE) = [code |-> d.code, out |-> IF d.code = "ok" THEN d.out ELSE <<>>]
  BY <1>1, <1>4, StoppedForGood DEF d
<1> QED BY <1>4, <1>5

-----------------------------------------------------------------------------
(* The first frame, element by element. *)

\* Units of output.
Outs == [elem : Nat, unit : Nat, undone : Nat]

\* A block decodes to as many units as its header says.
LEMMA DataTyped ==
  ASSUME NEW elems \in Seq(Elements), NEW k \in 1 .. Len(elems), elems[k].kind = "block"
  PROVE  /\ DataOf(elems, k) \in Seq(Outs)
         /\ Len(DataOf(elems, k)) = elems[k].size
<1> DEFINE n == elems[k].size
           unit(i) == [elem |-> k, unit |-> IF elems[k].type = "rle" THEN 1 ELSE i, undone |-> 0]
<1>1. n \in Nat BY LengthTyped
<1>2. \A i \in 1 .. n : unit(i) \in Outs
  <2>1. k \in Nat OBVIOUS
  <2> HIDE DEF n
  <2> QED BY <1>1, <2>1 DEF Outs
<1>3. DataOf(elems, k) = [i \in 1 .. n |-> unit(i)] BY DEF DataOf
<1> HIDE DEF n, unit
<1>4. DataOf(elems, k) \in Seq(Outs) /\ Len(DataOf(elems, k)) = n BY <1>1, <1>2, <1>3
<1> QED BY <1>4 DEF n

\* Undoing a filter neither adds nor removes a unit.
LEMMA UndoTyped ==
  ASSUME NEW header, NEW out \in Seq(Outs), NEW start
  PROVE  /\ Undo(header, out, start) \in Seq(Outs)
         /\ Len(Undo(header, out, start)) = Len(out)
<1> DEFINE unit(i) == IF header.filter /\ i > start THEN [out[i] EXCEPT !.undone = @ + 1] ELSE out[i]
<1>1. Len(out) \in Nat /\ DOMAIN out = 1 .. Len(out) OBVIOUS
<1>2. ASSUME NEW i \in 1 .. Len(out) PROVE unit(i) \in Outs
  <2>1. out[i] \in Outs OBVIOUS
  <2> DEFINE x == out[i]
  <2>2. x.elem \in Nat /\ x.unit \in Nat /\ x.undone + 1 \in Nat BY <2>1 DEF Outs
  <2>3. x = [elem |-> x.elem, unit |-> x.unit, undone |-> x.undone] BY <2>1 DEF Outs
  <2>4. [x EXCEPT !.undone = @ + 1] = [elem |-> x.elem, unit |-> x.unit, undone |-> x.undone + 1]
    BY <2>3
  <2>5. [x EXCEPT !.undone = @ + 1] \in Outs BY <2>2, <2>4 DEF Outs
  <2> QED BY <2>1, <2>5
<1>3. Undo(header, out, start) = [i \in 1 .. Len(out) |-> unit(i)] BY <1>1 DEF Undo
<1> HIDE DEF unit
<1> QED BY <1>1, <1>2, <1>3

\* The last block of the first frame.
LastOf(elems) == CHOOSE k \in 2 .. Len(elems) : FrameHasLast(elems, 1, k)

\* The first frame: a header, blocks up to the last, a footer if there is a checksum.
LEMMA FrameShape ==
  ASSUME NEW elems \in Streams
  PROVE  /\ elems \in Seq(Elements)
         /\ LastOf(elems) \in 2 .. Len(elems)
         /\ elems[1].kind = "header" /\ LengthOf(elems[1]) = 2
         /\ elems[1].sum \in BOOLEAN
         /\ \A j \in 2 .. LastOf(elems) :
              elems[j].kind = "block" /\ (elems[j].last <=> j = LastOf(elems))
         /\ elems[1].sum => /\ FirstFrame(elems) = LastOf(elems) + 1
                            /\ elems[LastOf(elems) + 1].kind = "footer"
                            /\ LengthOf(elems[LastOf(elems) + 1]) = 2
         /\ ~elems[1].sum => FirstFrame(elems) = LastOf(elems)
         /\ FirstFrame(elems) \in LastOf(elems) .. Len(elems)
<1> DEFINE l == LastOf(elems)
<1>1. elems \in Seq(Elements) BY DStreamAssumption
<1>2. l \in 2 .. Len(elems) /\ FrameHasLast(elems, 1, l)
  <2>1. 1 \in DOMAIN elems /\ elems[1].kind = "header" BY <1>1, DStreamAssumption
  <2>2. \E k \in 1 + 1 .. Len(elems) : FrameHasLast(elems, 1, k) BY <2>1, DStreamAssumption
  <2>3. 1 + 1 .. Len(elems) = 2 .. Len(elems) OBVIOUS
  <2> QED BY <2>2, <2>3 DEF LastOf
<1>3. FirstFrame(elems) = IF elems[1].sum THEN l + 1 ELSE l BY DEF FirstFrame, LastOf
<1> HIDE DEF l
<1>4. 1 \in 1 .. Len(elems) /\ Len(elems) \in Nat BY <1>1, <1>2
<1>5. elems[1] \in Elements /\ elems[1].kind = "header" BY <1>1, <1>4, DStreamAssumption
<1>6. LengthOf(elems[1]) = 2 /\ elems[1].sum \in BOOLEAN BY <1>5, LengthTyped
<1>7. \A j \in 2 .. l : elems[j].kind = "block" /\ (elems[j].last <=> j = l)
  <2>1. 1 + 1 .. l = 2 .. l OBVIOUS
  <2> QED BY <1>2, <2>1 DEF FrameHasLast
<1>8. ASSUME elems[1].sum
      PROVE  /\ l + 1 \in 1 .. Len(elems) /\ elems[l + 1].kind = "footer"
             /\ LengthOf(elems[l + 1]) = 2
  <2>1. l < Len(elems) /\ elems[l + 1].kind = "footer" BY <1>2, <1>8 DEF FrameHasLast
  <2>2. l + 1 \in 1 .. Len(elems) BY <1>2, <1>4, <2>1
  <2>3. elems[l + 1] \in Elements BY <1>1, <2>2
  <2> QED BY <2>1, <2>2, <2>3, LengthTyped
<1>9. FirstFrame(elems) \in l .. Len(elems) BY <1>2, <1>3, <1>4, <1>8
<1> QED BY <1>1, <1>2, <1>3, <1>5, <1>6, <1>7, <1>8, <1>9 DEF l

-----------------------------------------------------------------------------
(* The buffer of the stream decoder. *)

\* The errors of a frame.
Codes == {"corrupt", "magic", "overflow"}

\* The stream as a record, and its buffer.
StreamTypes ==
  [state : {"header", "block", "footer", "done", "error"}, buf : Seq(Nat \X Nat), pos : Nat,
   len : Nat, head : Nat, out : Seq(Outs), summed : Seq(Outs),
   why : {"none", "memory"} \cup Codes, used : Nat]

StreamTyped(s) ==
  /\ s \in StreamTypes
  /\ s.pos + s.len <= Len(s.buf) /\ Len(s.buf) >= 1

\* What is said of the unread units when they are these.
LEMMA UnreadUnits ==
  ASSUME NEW s, StreamTyped(s)
  PROVE  /\ Unread(s) \in Seq(Nat \X Nat) /\ Len(Unread(s)) = s.len /\ s.len \in Nat
         /\ \A j \in 1 .. s.len : Unread(s)[j] = s.buf[s.pos + j]
<1> DEFINE b == s.buf
           p == s.pos
           l == s.len
<1>1. b \in Seq(Nat \X Nat) /\ p \in Nat /\ l \in Nat /\ p + l <= Len(b) BY DEF StreamTyped, StreamTypes
<1>2. Unread(s) = SubSeq(b, p + 1, p + l) BY DEF Unread
<1> HIDE DEF b, p, l
<1>3. p + l - (p + 1) + 1 = l BY <1>1
<1>4. /\ SubSeq(b, p + 1, p + l) \in Seq(Nat \X Nat)
      /\ Len(SubSeq(b, p + 1, p + l)) = l
      /\ \A j \in 1 .. l : SubSeq(b, p + 1, p + l)[j] = b[p + j]
  <2>1. \A i \in (p + 1) .. (p + l) : b[i] \in Nat \X Nat BY <1>1
  <2>2. SubSeq(b, p + 1, p + l) = [i \in 1 .. l |-> b[i + p]]
    BY <1>1
  <2>3. \A i \in 1 .. l : i + p \in 1 .. Len(b) /\ i + p = p + i BY <1>1
  <2>4. \A i \in 1 .. l : b[i + p] \in Nat \X Nat BY <1>1, <2>3
  <2> QED BY <1>1, <2>2, <2>3, <2>4
<1> QED BY <1>1, <1>2, <1>4 DEF b, p, l

\* Taking n units leaves those behind them.
LEMMA ConsumedUnread ==
  ASSUME NEW s, StreamTyped(s), NEW n \in Nat, n <= s.len, NEW c, c = Consumed(s, n)
  PROVE  /\ StreamTyped(c) /\ c.len = s.len - n
         /\ c.state = s.state /\ c.head = s.head /\ c.out = s.out /\ c.summed = s.summed
         /\ c.used = s.used /\ c.why = s.why
         /\ \A j \in 1 .. c.len : Unread(c)[j] = Unread(s)[n + j]
<1>1. s \in StreamTypes /\ s.pos + s.len <= Len(s.buf) /\ Len(s.buf) >= 1 BY DEF StreamTyped
<1>2. s.len \in Nat /\ s.pos \in Nat /\ Len(s.buf) \in Nat BY <1>1 DEF StreamTypes
<1>3. CASE n >= s.len
  <2>1. c = [s EXCEPT !.pos = 0, !.len = 0] BY <1>3 DEF Consumed
  <2> DEFINE zero == 0
  <2>2. c \in StreamTypes
    <3>1. zero \in Nat /\ c = [s EXCEPT !.pos = zero, !.len = zero] BY <2>1
    <3> HIDE DEF zero
    <3> QED BY <1>1, <3>1 DEF StreamTypes
  <2>3. /\ c.pos = 0 /\ c.len = 0 /\ c.buf = s.buf
        /\ c.state = s.state /\ c.head = s.head /\ c.out = s.out /\ c.summed = s.summed
        /\ c.used = s.used /\ c.why = s.why
    BY <1>1, <2>1 DEF StreamTypes
  <2>4. StreamTyped(c) BY <1>1, <1>2, <2>2, <2>3 DEF StreamTyped
  <2> QED BY <1>2, <1>3, <2>3, <2>4
<1>4. CASE ~(n >= s.len)
  <2>1. c = [s EXCEPT !.pos = s.pos + n, !.len = s.len - n] BY <1>4 DEF Consumed
  <2>2. s.pos + n \in Nat /\ s.len - n \in Nat BY <1>2, <1>4
  <2>3. c \in StreamTypes BY <1>1, <2>1, <2>2 DEF StreamTypes
  <2>4. /\ c.pos = s.pos + n /\ c.len = s.len - n /\ c.buf = s.buf
        /\ c.state = s.state /\ c.head = s.head /\ c.out = s.out /\ c.summed = s.summed
        /\ c.used = s.used /\ c.why = s.why
    BY <1>1, <2>1 DEF StreamTypes
  <2>5. StreamTyped(c) BY <1>1, <1>2, <2>2, <2>3, <2>4 DEF StreamTyped
  <2>6. ASSUME NEW j \in 1 .. c.len PROVE Unread(c)[j] = Unread(s)[n + j]
    <3>1. Unread(c)[j] = c.buf[c.pos + j] BY <2>5, UnreadUnits
    <3>2. n + j \in 1 .. s.len BY <1>2, <2>4
    <3>3. Unread(s)[n + j] = s.buf[s.pos + (n + j)] BY <3>2, UnreadUnits
    <3>4. c.pos + j = s.pos + (n + j) BY <1>2, <2>4
    <3> QED BY <2>4, <3>1, <3>3, <3>4
  <2> QED BY <2>4, <2>5, <2>6
<1> QED BY <1>3, <1>4

\* The buffer grows to what is needed.
LEMMA GrownEnough ==
  ASSUME NEW size \in Nat, size >= 1, NEW need \in Nat
  PROVE  Grown(size, need) \in Nat /\ Grown(size, need) >= need
<1> DEFINE Solves(f, m) == f = [i \in 0 .. m |-> IF i = 0 THEN size ELSE 2 * f[i - 1]]
           Bad == {m \in Nat : ~ \E f : Solves(f, m)}
           d == CHOOSE f : Solves(f, need)
<1>1. Bad = {}
  <2> SUFFICES ASSUME Bad # {} PROVE FALSE OBVIOUS
  <2>1. PICK m \in Bad : \A j \in Bad : m <= j
    <3>1. Bad \in SUBSET Nat OBVIOUS
    <3> HIDE DEF Bad
    <3> QED BY <3>1, LeastNumber
  <2> HIDE DEF Solves
  <2>2. m # 0
    <3> DEFINE f == [i \in 0 .. 0 |-> size]
    <3>1. \A i \in 0 .. 0 : f[i] = IF i = 0 THEN size ELSE 2 * f[i - 1] OBVIOUS
    <3>2. f = [i \in 0 .. 0 |-> f[i]] OBVIOUS
    <3> HIDE DEF f
    <3>3. Solves(f, 0) BY <3>1, <3>2 DEF Solves
    <3>4. \E h : Solves(h, 0) BY <3>3
    <3> QED BY <2>1, <3>4
  <2>3. m - 1 \in Nat /\ m - 1 \notin Bad BY <2>1, <2>2
  <2>4. PICK f : Solves(f, m - 1) BY <2>3
  <2> DEFINE g == [i \in 0 .. m |-> IF i < m THEN f[i] ELSE 2 * f[m - 1]]
  <2>5. \A i \in 0 .. m : g[i] = IF i = 0 THEN size ELSE 2 * g[i - 1]
    <3> SUFFICES ASSUME NEW i \in 0 .. m PROVE g[i] = IF i = 0 THEN size ELSE 2 * g[i - 1] OBVIOUS
    <3>1. CASE i < m
      <4>1. i \in 0 .. m - 1 BY <3>1
      <4>2. f[i] = IF i = 0 THEN size ELSE 2 * f[i - 1] BY <2>4, <4>1 DEF Solves
      <4>3. g[i] = f[i] /\ (i # 0 => g[i - 1] = f[i - 1]) BY <3>1
      <4> QED BY <4>2, <4>3
    <3>2. CASE i = m
      <4>1. g[m] = 2 * f[m - 1] /\ g[m - 1] = f[m - 1] BY <2>3
      <4> QED BY <2>2, <3>2, <4>1
    <3> QED BY <3>1, <3>2
  <2>6. Solves(g, m)
    <3>1. g = [i \in 0 .. m |-> g[i]] OBVIOUS
    <3> HIDE DEF g
    <3> QED BY <2>5, <3>1 DEF Solves
  <2> QED BY <2>1, <2>6
<1>2. Grown(size, need) =
        LET enough == {i \in 0 .. need : need <= d[i]}
        IN  d[CHOOSE i \in enough : \A j \in enough : i <= j]
  BY DEF Grown
<1>3. Solves(d, need)
  <2> HIDE DEF Solves
  <2>1. \E f : Solves(f, need) BY <1>1
  <2> QED BY <2>1
<1> HIDE DEF d
<1>4. d[0] = size /\ \A i \in 1 .. need : d[i] = 2 * d[i - 1] BY <1>3
<1>5. \A i \in 0 .. need : d[i] \in Nat /\ d[i] >= i /\ d[i] >= 1
  <2> DEFINE Good(i) == d[i] \in Nat /\ d[i] >= i /\ d[i] >= 1
             Off == {i \in 0 .. need : ~Good(i)}
  <2> SUFFICES ASSUME Off # {} PROVE FALSE OBVIOUS
  <2>1. PICK m \in Off : \A j \in Off : m <= j
    <3>1. Off \in SUBSET Nat OBVIOUS
    <3> HIDE DEF Off
    <3> QED BY <3>1, LeastNumber
  <2>2. m # 0 BY <1>4
  <2>3. m - 1 \in 0 .. need /\ ~(m <= m - 1) /\ m \in 1 .. need BY <2>2
  <2>4. Good(m - 1) BY <2>1, <2>3
  <2>5. d[m] = 2 * d[m - 1] BY <1>4, <2>3
  <2> QED BY <2>1, <2>3, <2>4, <2>5
<1> DEFINE enough == {i \in 0 .. need : need <= d[i]}
<1>6. need \in enough /\ enough \in SUBSET Nat BY <1>5
<1>7. \E i \in enough : \A j \in enough : i <= j
  <2> HIDE DEF enough
  <2> QED BY <1>6, LeastNumber
<1>8. (CHOOSE i \in enough : \A j \in enough : i <= j) \in enough BY <1>7
<1> QED BY <1>2, <1>5, <1>8

\* What is handed over stands behind what is unread.
LEMMA GivenInput ==
  ASSUME NEW s, StreamTyped(s), NEW units \in Seq(Nat \X Nat), NEW g, g = AppendInput(s, units)
  PROVE  /\ StreamTyped(g) /\ g.len = s.len + Len(units)
         /\ g.state = s.state /\ g.head = s.head /\ g.out = s.out /\ g.summed = s.summed
         /\ g.used = s.used /\ g.why = s.why
         /\ \A j \in 1 .. s.len : Unread(g)[j] = Unread(s)[j]
         /\ \A j \in 1 .. Len(units) : Unread(g)[s.len + j] = units[j]
<1> DEFINE b == s.buf
           l == s.len
           n == Len(units)
           u == Unread(s)
           moved == s.pos > 0 /\ n > Len(b) - (s.pos + l)
           pos == IF moved THEN 0 ELSE s.pos
           old == IF moved THEN u \o SubSeq(b, l + 1, Len(b)) ELSE b
           size == IF n > Len(b) - (pos + l) THEN Grown(Len(b), l + n) ELSE Len(b)
           cell(i) == IF i \in pos + l + 1 .. pos + l + n THEN units[i - (pos + l)]
                      ELSE IF i <= Len(old) THEN old[i] ELSE <<0, 0>>
           buf == [i \in 1 .. size |-> cell(i)]
<1>1. g = [s EXCEPT !.pos = pos, !.len = l + n, !.buf = buf] BY DEF AppendInput
<1>2. s \in StreamTypes /\ s.pos + l <= Len(b) /\ Len(b) >= 1 BY DEF StreamTyped
<1>3. b \in Seq(Nat \X Nat) /\ Len(b) \in Nat /\ l \in Nat /\ s.pos \in Nat /\ n \in Nat
  BY <1>2 DEF StreamTypes
<1>4. u \in Seq(Nat \X Nat) /\ Len(u) = l /\ \A j \in 1 .. l : u[j] = b[s.pos + j] BY UnreadUnits
<1> HIDE DEF b, l, n, u
<1>5. /\ old \in Seq(Nat \X Nat) /\ Len(old) = Len(b)
      /\ \A j \in 1 .. l : old[pos + j] = u[j]
  <2>1. CASE moved
    <3> DEFINE v == SubSeq(b, l + 1, Len(b))
    <3>1. v \in Seq(Nat \X Nat) /\ Len(v) = Len(b) - l
      <4>1. v = [i \in 1 .. Len(b) - l |-> b[i + l]] BY <1>2, <1>3
      <4>2. \A i \in 1 .. Len(b) - l : b[i + l] \in Nat \X Nat BY <1>2, <1>3
      <4> DEFINE m == Len(b) - l
      <4>3. m \in Nat BY <1>2, <1>3
      <4>4. v = [i \in 1 .. m |-> b[i + l]] BY <4>1
      <4>5. \A i \in 1 .. m : b[i + l] \in Nat \X Nat BY <4>2
      <4> HIDE DEF v, m
      <4>6. v \in Seq(Nat \X Nat) /\ Len(v) = m BY <4>3, <4>4, <4>5
      <4> QED BY <4>6 DEF m
    <3>2. old = u \o v /\ pos = 0 BY <2>1
    <3> HIDE DEF v, old, pos
    <3>3. u \o v \in Seq(Nat \X Nat) BY <1>4, <3>1, ConcatProperties
    <3>4. Len(u \o v) = l + (Len(b) - l) BY <1>4, <3>1, ConcatProperties
    <3>5. ASSUME NEW j \in 1 .. l PROVE (u \o v)[0 + j] = u[j]
      <4>0. l <= Len(b) BY <1>2, <1>3
      <4>1. Len(v) \in Nat /\ j \in 1 .. Len(u) + Len(v) /\ j <= Len(u) /\ 0 + j = j
        <5>1. Len(v) = Len(b) - l /\ Len(u) = l BY <1>4, <3>1
        <5> HIDE DEF u, v, b, l
        <5> QED BY <1>3, <4>0, <5>1
      <4>2. \A i \in 1 .. Len(u) + Len(v) :
              (u \o v)[i] = IF i <= Len(u) THEN u[i] ELSE v[i - Len(u)]
        BY <1>4, <3>1, ConcatProperties
      <4> QED BY <4>1, <4>2
    <3>6. l + (Len(b) - l) = Len(b) BY <1>3
    <3>7. \A j \in 1 .. l : old[pos + j] = u[j] BY <3>2, <3>5
    <3>8. old \in Seq(Nat \X Nat) /\ Len(old) = Len(b) BY <3>2, <3>3, <3>4, <3>6
    <3> QED BY <3>7, <3>8
  <2>2. CASE ~moved
    <3>1. old = b /\ pos = s.pos BY <2>2
    <3> QED BY <1>3, <1>4, <3>1
  <2> QED BY <2>1, <2>2
<1>6. pos \in Nat /\ pos + l <= Len(b) BY <1>2, <1>3
<1>7. size \in Nat /\ size >= 1 /\ pos + (l + n) <= size
  <2>1. CASE n > Len(b) - (pos + l)
    <3>1. pos = 0 BY <1>3, <2>1
    <3>2. Grown(Len(b), l + n) \in Nat /\ Grown(Len(b), l + n) >= l + n
      <4>1. l + n \in Nat BY <1>3
      <4> QED BY <1>2, <1>3, <4>1, GrownEnough
    <3>3. size = Grown(Len(b), l + n) BY <2>1
    <3> HIDE DEF size, pos
    <3> QED BY <1>2, <1>3, <2>1, <3>1, <3>2, <3>3
  <2>2. CASE ~(n > Len(b) - (pos + l))
    <3>1. size = Len(b) BY <2>2
    <3> HIDE DEF size, pos
    <3> QED BY <1>2, <1>3, <1>6, <2>2, <3>1
  <2> QED BY <2>1, <2>2
<1> HIDE DEF moved, pos, old, size
<1>8. buf \in Seq(Nat \X Nat) /\ Len(buf) = size
  <2>1. ASSUME NEW i \in 1 .. size PROVE cell(i) \in Nat \X Nat
    <3>1. CASE i \in pos + l + 1 .. pos + l + n
      <4>1. i - (pos + l) \in 1 .. n BY <1>3, <1>6, <3>1
      <4>2. units[i - (pos + l)] \in Nat \X Nat BY <4>1 DEF n
      <4> QED BY <3>1, <4>2
    <3>2. CASE i \notin pos + l + 1 .. pos + l + n /\ i <= Len(old)
      <4>1. i \in 1 .. Len(old) BY <1>3, <1>5, <3>2
      <4>2. old[i] \in Nat \X Nat BY <1>5, <4>1
      <4> QED BY <3>2, <4>2
    <3>3. CASE i \notin pos + l + 1 .. pos + l + n /\ ~(i <= Len(old)) BY <3>3
    <3> QED BY <3>1, <3>2, <3>3
  <2> HIDE DEF cell
  <2> QED BY <1>7, <2>1
<1>9. \A j \in 1 .. l : buf[pos + j] = u[j]
  <2> SUFFICES ASSUME NEW j \in 1 .. l PROVE buf[pos + j] = u[j] OBVIOUS
  <2>1. pos + j \in 1 .. size /\ pos + j \notin pos + l + 1 .. pos + l + n /\ pos + j <= Len(old)
    BY <1>3, <1>5, <1>6, <1>7
  <2> QED BY <1>5, <2>1
<1>10. \A j \in 1 .. n : buf[pos + (l + j)] = units[j]
  <2> SUFFICES ASSUME NEW j \in 1 .. n PROVE buf[pos + (l + j)] = units[j] OBVIOUS
  <2>1. /\ pos + (l + j) \in 1 .. size /\ pos + (l + j) \in pos + l + 1 .. pos + l + n
        /\ pos + (l + j) - (pos + l) = j
    BY <1>3, <1>6, <1>7
  <2> DEFINE i == pos + (l + j)
  <2>2. cell(i) = units[i - (pos + l)] BY <2>1
  <2>3. buf[i] = cell(i) BY <2>1
  <2> HIDE DEF cell, buf
  <2>4. i - (pos + l) = j BY <1>3, <1>6
  <2> HIDE DEF i
  <2>5. buf[i] = units[j] BY <2>2, <2>3, <2>4
  <2> QED BY <2>5 DEF i
<1> HIDE DEF buf
<1>11. g \in StreamTypes
  <2>1. l + n \in Nat BY <1>3
  <2> QED BY <1>1, <1>2, <1>6, <1>8, <2>1 DEF StreamTypes
<1>12. /\ g.pos = pos /\ g.len = l + n /\ g.buf = buf
       /\ g.state = s.state /\ g.head = s.head /\ g.out = s.out /\ g.summed = s.summed
       /\ g.used = s.used /\ g.why = s.why
  BY <1>1, <1>2 DEF StreamTypes
<1>13. StreamTyped(g) BY <1>7, <1>8, <1>11, <1>12 DEF StreamTyped
<1>14. \A j \in 1 .. l + n : Unread(g)[j] = buf[pos + j]
  BY <1>12, <1>13, UnreadUnits
<1>15. \A j \in 1 .. l : Unread(g)[j] = u[j]
  <2>1. \A j \in 1 .. l : j \in 1 .. l + n BY <1>3
  <2> QED BY <1>9, <1>14, <2>1
<1>16. \A j \in 1 .. n : Unread(g)[l + j] = units[j]
  <2>1. \A j \in 1 .. n : l + j \in 1 .. l + n BY <1>3
  <2> QED BY <1>10, <1>14, <2>1
<1> QED BY <1>12, <1>13, <1>15, <1>16 DEF l, n, u

-----------------------------------------------------------------------------
(* Where the stream decoder is when the units up to have were handed over. *)

\* It has used up i elements, and what follows them is unread.
Stands(elems, s, i, have) ==
  /\ StreamTyped(s)
  /\ have = EndOf(elems, i) + s.len /\ have <= Len(WireOf(elems))
  /\ \A j \in 1 .. s.len : Unread(s)[j] = WireOf(elems)[EndOf(elems, i) + j]

\* Then it finds the next element.
LEMMA StandsReads ==
  ASSUME NEW elems \in Seq(Elements), NEW i \in 0 .. Len(elems) - 1, NEW s, NEW have,
         Stands(elems, s, i, have)
  PROVE  /\ s.len >= 1 => NextElement(s) = i + 1
         /\ \A m \in Nat : 1 <= m /\ m <= LengthOf(elems[i + 1]) /\ m <= s.len =>
              BeginsWith(elems, s, elems[i + 1].kind, m)
<1> DEFINE k == i + 1
           u == Unread(s)
<1>1. k \in 1 .. Len(elems) /\ k - 1 = i /\ k \in Nat /\ k # 0 OBVIOUS
<1>2. u \in Seq(Nat \X Nat) /\ Len(u) = s.len /\ s.len \in Nat BY UnreadUnits DEF Stands
<1>3. LengthOf(elems[k]) \in Nat \ {0} BY <1>1, EndTyped
<1> HIDE DEF k
<1>4. \A j \in Nat : 1 <= j /\ j <= LengthOf(elems[k]) /\ j <= s.len => u[j] = <<k, j>>
  <2> SUFFICES ASSUME NEW j \in Nat, 1 <= j, j <= LengthOf(elems[k]), j <= s.len
               PROVE  u[j] = <<k, j>>
    OBVIOUS
  <2>1. j \in 1 .. s.len BY <1>2
  <2>2. u[j] = WireOf(elems)[EndOf(elems, i) + j] BY <2>1 DEF Stands
  <2>3. WireOf(elems)[EndOf(elems, k - 1) + j] = <<k, j>> BY <1>1, WireUnits
  <2> QED BY <1>1, <2>2, <2>3
<1>5. ASSUME s.len >= 1 PROVE NextElement(s) = k
  <2>1. u[1] = <<k, 1>> BY <1>3, <1>4, <1>5
  <2>2. u # <<>> BY <1>2, <1>5
  <2>3. NextElement(s) = u[1][1] BY <2>2 DEF NextElement
  <2> HIDE DEF u
  <2>4. u[1][1] = <<k, 1>>[1] BY <2>1
  <2> QED BY <2>3, <2>4
<1>6. ASSUME NEW m \in Nat, 1 <= m, m <= LengthOf(elems[k]), m <= s.len
      PROVE  BeginsWith(elems, s, elems[k].kind, m)
  <2>1. NextElement(s) = k BY <1>2, <1>5, <1>6
  <2>2. SubSeq(u, 1, m) = Cells(k, m)
    <3> DEFINE v == SubSeq(u, 1, m)
               c == Cells(k, m)
    <3> HIDE DEF u
    <3>1. \A j \in 1 .. m : j \in Nat /\ 1 <= j /\ j <= LengthOf(elems[k]) /\ j <= s.len
                             /\ 1 + j - 1 = j /\ j \in 1 .. Len(u)
      BY <1>2, <1>3, <1>6
    <3>2. \A j \in 1 .. m : u[j] = <<k, j>> BY <1>4, <3>1
    <3>3. v \in Seq(Nat \X Nat) /\ Len(v) = m /\ \A j \in 1 .. m : v[j] = u[j]
      <4>1. \A j \in 1 .. m : u[j] \in Nat \X Nat BY <1>2, <3>1
      <4>2. 1 \in Int /\ m \in Int /\ m - 1 + 1 = m BY <1>6
      <4>3. /\ v \in Seq(Nat \X Nat) /\ Len(v) = IF 1 <= m THEN m - 1 + 1 ELSE 0
            /\ \A j \in 1 .. m - 1 + 1 : v[j] = u[1 + j - 1]
        BY <4>1, <4>2, SubSeqProperties
      <4> HIDE DEF v
      <4> QED BY <1>6, <3>1, <4>2, <4>3
    <3>4. c \in Seq(Nat \X Nat) /\ Len(c) = m /\ \A j \in 1 .. m : c[j] = <<k, j>>
      <4>1. c = [j \in 1 .. m |-> <<k, j>>] BY DEF Cells
      <4>2. \A j \in 1 .. m : <<k, j>> \in Nat \X Nat BY <1>1, <3>1
      <4> HIDE DEF c
      <4> QED BY <1>6, <4>1, <4>2
    <3> HIDE DEF v, c
    <3>5. v = c BY <3>2, <3>3, <3>4, SeqEqual
    <3> QED BY <3>5 DEF v, c
  <2> QED BY <1>1, <2>1, <2>2 DEF BeginsWith
<1> QED BY <1>5, <1>6 DEF k

\* And when that is all there it can be used up.
LEMMA StandsConsumed ==
  ASSUME NEW elems \in Seq(Elements), NEW i \in 0 .. Len(elems) - 1, NEW s, NEW have,
         Stands(elems, s, i, have), s.len >= LengthOf(elems[i + 1]),
         NEW c, c = Consumed(s, LengthOf(elems[i + 1]))
  PROVE  /\ Stands(elems, c, i + 1, have)
         /\ c.state = s.state /\ c.head = s.head /\ c.out = s.out /\ c.summed = s.summed
         /\ c.used = s.used /\ c.why = s.why
<1> DEFINE n == LengthOf(elems[i + 1])
<1>1. i + 1 \in 1 .. Len(elems) /\ i + 1 - 1 = i OBVIOUS
<1>2. /\ n \in Nat /\ EndOf(elems, i + 1) = EndOf(elems, i) + n /\ EndOf(elems, i) \in Nat
  BY <1>1, EndTyped
<1>3. StreamTyped(s) /\ s.len \in Nat BY UnreadUnits DEF Stands
<1>4. n <= s.len BY <1>2, <1>3
<1>5. c = Consumed(s, n) OBVIOUS
<1> HIDE DEF n
<1>6. /\ StreamTyped(c) /\ c.len = s.len - n
      /\ c.state = s.state /\ c.head = s.head /\ c.out = s.out /\ c.summed = s.summed
      /\ c.used = s.used /\ c.why = s.why
      /\ \A j \in 1 .. c.len : Unread(c)[j] = Unread(s)[n + j]
  BY <1>2, <1>3, <1>4, <1>5, ConsumedUnread
<1>7. have = EndOf(elems, i + 1) + c.len /\ have <= Len(WireOf(elems))
  BY <1>2, <1>3, <1>6 DEF Stands
<1>8. ASSUME NEW j \in 1 .. c.len
      PROVE  Unread(c)[j] = WireOf(elems)[EndOf(elems, i + 1) + j]
  <2>1. n + j \in 1 .. s.len BY <1>2, <1>3, <1>6
  <2>2. Unread(s)[n + j] = WireOf(elems)[EndOf(elems, i) + (n + j)] BY <2>1 DEF Stands
  <2>3. EndOf(elems, i) + (n + j) = EndOf(elems, i + 1) + j BY <1>2
  <2> QED BY <1>6, <2>2, <2>3
<1> QED BY <1>6, <1>7, <1>8 DEF Stands

\* Where the stream is, as a place of the decoder that has all at once.
PlaceOf(s) == Place(s.state, s.head, s.out)

\* Of the first frame it has taken i elements, as the decoder that has all at once.
Within(elems, cap, s, i, have) ==
  /\ i \in 0 .. FirstFrame(elems) - 1
  /\ Stands(elems, s, i, have) /\ s.used = EndOf(elems, i)
  /\ Len(s.out) <= cap
  /\ s.summed = IF elems[1].sum THEN s.out ELSE <<>>
  /\ Passed(elems, cap, i, PlaceOf(s))
  /\ \/ s.state = "header" /\ i = 0 /\ s.head = 0 /\ s.out = <<>>
     \/ s.state = "block" /\ i + 1 \in 2 .. LastOf(elems) /\ s.head = 1
     \/ s.state = "footer" /\ i = LastOf(elems) /\ elems[1].sum /\ s.head = 1

\* Units of the first frame that were handed over, and what the decoder makes of
\* them that has all at once.
Seen(elems, have) ==
  IF have < EndOf(elems, FirstFrame(elems)) THEN have ELSE EndOf(elems, FirstFrame(elems))

Whole(elems, cap, have) == Decompress(elems, Seen(elems, have), cap, FALSE)

\* The next element is in the frame, and as much of it was seen as is unread.
LEMMA WithinFrame ==
  ASSUME NEW elems \in Streams, NEW cap, NEW s, NEW i, NEW have, Within(elems, cap, s, i, have)
  PROVE  /\ i \in 0 .. Len(elems) - 1 /\ i + 1 \in 1 .. FirstFrame(elems) /\ s.len \in Nat
         /\ LengthOf(elems[i + 1]) \in Nat \ {0}
         /\ EndOf(elems, i + 1) = EndOf(elems, i) + LengthOf(elems[i + 1])
         /\ Seen(elems, have) \in Nat /\ Seen(elems, have) >= EndOf(elems, i)
         /\ \A m \in Nat : m <= LengthOf(elems[i + 1]) =>
              (Seen(elems, have) - EndOf(elems, i) >= m <=> s.len >= m)
<1> DEFINE f == FirstFrame(elems)
<1>1. elems \in Seq(Elements) /\ f \in 2 .. Len(elems) /\ Len(elems) \in Nat
  BY FrameShape
<1>2. i \in 0 .. f - 1 BY DEF Within
<1> HIDE DEF f
<1>3. i + 1 \in 1 .. Len(elems) /\ i + 1 - 1 = i /\ i \in 0 .. Len(elems) - 1 /\ i + 1 \in 1 .. f
      /\ f \in 0 .. Len(elems) /\ i + 1 \in 0 .. Len(elems)
  BY <1>1, <1>2
<1>4. /\ EndOf(elems, i + 1) = EndOf(elems, i) + LengthOf(elems[i + 1])
      /\ EndOf(elems, i) \in Nat /\ LengthOf(elems[i + 1]) \in Nat \ {0}
      /\ EndOf(elems, f) \in Nat
  BY <1>1, <1>3, EndTyped
<1>5. EndOf(elems, i + 1) <= EndOf(elems, f)
  <2>1. i + 1 = f \/ i + 1 < f BY <1>1, <1>3
  <2>2. EndOf(elems, i + 1) \in Nat BY <1>4
  <2> QED BY <1>1, <1>3, <1>4, <2>1, <2>2, EndsGrow
<1>6. s.len \in Nat /\ have = EndOf(elems, i) + s.len BY UnreadUnits DEF Within, Stands
<1>7. Seen(elems, have) = IF have < EndOf(elems, f) THEN have ELSE EndOf(elems, f) BY DEF Seen, f
<1>8. Seen(elems, have) \in Nat /\ Seen(elems, have) >= EndOf(elems, i) BY <1>4, <1>5, <1>6, <1>7
<1>9. ASSUME NEW m \in Nat, m <= LengthOf(elems[i + 1])
      PROVE  Seen(elems, have) - EndOf(elems, i) >= m <=> s.len >= m
  BY <1>4, <1>5, <1>6, <1>7, <1>9
<1> QED BY <1>3, <1>4, <1>6, <1>8, <1>9 DEF f

\* What stops that decoder here is its result.
LEMMA WithinStops ==
  ASSUME NEW elems \in Streams, NEW cap, NEW s, NEW i, NEW have, Within(elems, cap, s, i, have),
         NEW code \in Codes, Stops(elems, cap, i, PlaceOf(s), code, Seen(elems, have))
  PROVE  Whole(elems, cap, have) = [code |-> code, out |-> <<>>]
<1>1. elems \in Seq(Elements) BY FrameShape
<1>2. i \in 0 .. Len(elems) /\ Seen(elems, have) \in Nat /\ Seen(elems, have) >= EndOf(elems, i)
  <2>1. i \in 0 .. Len(elems) - 1 BY WithinFrame
  <2>2. Len(elems) \in Nat BY <1>1
  <2> QED BY <2>1, <2>2, WithinFrame
<1>3. Passed(elems, cap, i, PlaceOf(s)) BY DEF Within
<1>4. code # "on" /\ code # "ok" BY DEF Codes
<1> DEFINE n == Seen(elems, have)
           p == PlaceOf(s)
<1>5. n \in Nat /\ n >= EndOf(elems, i) /\ Passed(elems, cap, i, p) /\ Stops(elems, cap, i, p, code, n)
  BY <1>2, <1>3
<1> HIDE DEF n, p
<1>6. \A c : Stops(elems, cap, i, p, c, n) /\ c # "on" =>
         Decompress(elems, n, cap, FALSE) = [code |-> c, out |-> IF c = "ok" THEN p.out ELSE <<>>]
  BY <1>1, <1>2, <1>5, PassedStops, ZenonT(60)
<1>7. Decompress(elems, n, cap, FALSE) = [code |-> code, out |-> IF code = "ok" THEN p.out ELSE <<>>]
  BY <1>4, <1>5, <1>6
<1> QED BY <1>4, <1>7 DEF Whole, n

\* What a place is to the decoder that has all at once.
LEMMA HereIs ==
  ASSUME NEW at, NEW head, NEW out, NEW i, NEW left, NEW d, d = Here(Place(at, head, out), i, left)
  PROVE  /\ d.code = "on" /\ d.at = at /\ d.k = i + 1 /\ d.head = head /\ d.start = 0
         /\ d.out = out /\ d.left = left
BY DEF Here, Place, Reading

\* How a turn ends the call: with an answer that agrees with the whole.
Outcome(elems, cap, t, have) ==
  /\ StreamTyped(t.s) /\ Len(t.s.out) <= cap
  /\ \/ /\ t.ret = "more" /\ Whole(elems, cap, have).code = "corrupt"
        /\ \E i \in Nat : Within(elems, cap, t.s, i, have)
     \/ /\ t.ret = "done" /\ t.s.state = "done"
        /\ Whole(elems, cap, have) = [code |-> "ok", out |-> t.s.out]
        /\ Passed(elems, cap, FirstFrame(elems), Place("header", 1, t.s.out))
     \/ /\ t.ret \in Codes /\ t.s.state = "error"
        /\ Whole(elems, cap, have).code = t.s.why

\* A turn that ends the call, or takes an element and goes on.
TurnEnds(elems, cap, i, t, have) ==
  \/ t.ret # "on" /\ Outcome(elems, cap, t, have)
  \/ t.ret = "on" /\ Within(elems, cap, t.s, i + 1, have)

\* It waits when the units so far would be truncated.
LEMMA WaitsRight ==
  ASSUME NEW elems \in Streams, NEW cap, NEW s, NEW i, NEW have, Within(elems, cap, s, i, have),
         Stops(elems, cap, i, PlaceOf(s), "corrupt", Seen(elems, have))
  PROVE  TurnEnds(elems, cap, i, Waits(s), have)
<1>1. Whole(elems, cap, have) = [code |-> "corrupt", out |-> <<>>] BY WithinStops DEF Codes
<1>2. StreamTyped(s) /\ Len(s.out) <= cap BY DEF Within, Stands
<1>3. Waits(s).s = s /\ Waits(s).ret = "more" BY DEF Waits
<1>4. i \in Nat BY WithinFrame
<1>5. Whole(elems, cap, have).code = "corrupt" BY <1>1
<1> QED BY <1>2, <1>3, <1>4, <1>5 DEF TurnEnds, Outcome

\* It fails as they would.
LEMMA FailsRight ==
  ASSUME NEW elems \in Streams, NEW cap, NEW s, NEW i, NEW have, Within(elems, cap, s, i, have),
         NEW code \in Codes, Stops(elems, cap, i, PlaceOf(s), code, Seen(elems, have))
  PROVE  TurnEnds(elems, cap, i, FailsWith(s, code), have)
<1>1. Whole(elems, cap, have) = [code |-> code, out |-> <<>>] BY WithinStops
<1>2. StreamTyped(s) /\ Len(s.out) <= cap BY DEF Within, Stands
<1> DEFINE x == [s EXCEPT !.state = "error", !.why = code]
<1>3. FailsWith(s, code).s = x /\ FailsWith(s, code).ret = code BY DEF FailsWith
<1>4. /\ x \in StreamTypes /\ x.state = "error" /\ x.why = code
      /\ x.pos = s.pos /\ x.len = s.len /\ x.buf = s.buf /\ x.out = s.out
  BY <1>2 DEF StreamTyped, StreamTypes
<1> HIDE DEF x
<1>5. StreamTyped(x) BY <1>2, <1>4 DEF StreamTyped
<1>6. Whole(elems, cap, have).code = code BY <1>1
<1>7. code # "on" BY DEF Codes
<1> QED BY <1>2, <1>3, <1>4, <1>5, <1>6, <1>7 DEF TurnEnds, Outcome

\* The header.
LEMMA HeaderTurnRight ==
  ASSUME NEW elems \in Streams, NEW cap \in Nat, NEW s, NEW i, NEW have,
         Within(elems, cap, s, i, have), s.state = "header"
  PROVE  TurnEnds(elems, cap, i, HeaderTurn(elems, s), have)
<1>1. /\ i = 0 /\ s.head = 0 /\ s.out = <<>> /\ Stands(elems, s, 0, have)
      /\ Passed(elems, cap, 0, PlaceOf(s)) /\ s.used = EndOf(elems, 0)
  BY DEF Within
<1>2. /\ elems \in Seq(Elements) /\ Len(elems) \in Nat /\ 0 \in 0 .. Len(elems) - 1 /\ 0 + 1 = 1
      /\ elems[1].kind = "header" /\ LengthOf(elems[1]) = 2
      /\ LastOf(elems) \in 2 .. Len(elems) /\ FirstFrame(elems) \in LastOf(elems) .. Len(elems)
  BY FrameShape
<1> DEFINE n == Seen(elems, have)
           left == n - EndOf(elems, 0)
           p == PlaceOf(s)
           d == Here(p, 0, left)
           e == elems[1]
<1>3. /\ s.len \in Nat /\ n \in Nat /\ left \in Nat
      /\ left < 2 <=> s.len < 2
  <2>1. /\ s.len \in Nat /\ n \in Nat /\ n >= EndOf(elems, i)
        /\ \A m \in Nat : m <= LengthOf(elems[i + 1]) => (n - EndOf(elems, i) >= m <=> s.len >= m)
    BY WithinFrame
  <2>2. EndOf(elems, i) \in Nat /\ 2 \in Nat /\ 2 <= LengthOf(elems[i + 1]) BY <1>1, <1>2, EndTyped
  <2>3. left >= 2 <=> s.len >= 2 BY <1>1, <2>1, <2>2
  <2> HIDE DEF n
  <2> QED BY <1>1, <2>1, <2>2, <2>3
<1>4. s.len >= 2 => NextElement(s) = 1 /\ BeginsWith(elems, s, "header", 2)
  BY <1>1, <1>2, <1>3, StandsReads
<1>5. p = Place("header", 0, <<>>) BY <1>1 DEF PlaceOf
<1>6. /\ d.code = "on" /\ d.at = "header" /\ d.k = 1 /\ d.head = 0 /\ d.start = 0
      /\ d.out = <<>> /\ d.left = left
  BY <1>2, <1>5, HereIs
<1> HIDE DEF n, left, p, d
<1>7. ReadElement(elems, d, cap, FALSE) = TakeHeader(elems, d) BY <1>6 DEF ReadElement
<1>8. CASE s.len < 2
  <2>1. HeaderTurn(elems, s) = Waits(s) BY <1>8 DEF HeaderTurn, HeaderLen
  <2>2. TakeHeader(elems, d) = Stop(d, "corrupt") BY <1>3, <1>6, <1>8 DEF TakeHeader, HeaderLen
  <2>3. Stops(elems, cap, 0, PlaceOf(s), "corrupt", Seen(elems, have))
    BY <1>7, <2>2 DEF Stops, d, left, n, p
  <2> QED BY <1>1, <2>1, <2>3, WaitsRight
<1>9. CASE s.len >= 2 /\ e.fault = "magic"
  <2>1. HeaderTurn(elems, s) = FailsWith(s, "magic") BY <1>3, <1>4, <1>9 DEF HeaderTurn, HeaderLen
  <2>2. TakeHeader(elems, d) = Stop(d, "magic") BY <1>3, <1>6, <1>9 DEF TakeHeader, HeaderLen
  <2>3. Stops(elems, cap, 0, PlaceOf(s), "magic", Seen(elems, have))
    BY <1>7, <2>2 DEF Stops, d, left, n, p
  <2> QED BY <1>1, <2>1, <2>3, FailsRight DEF Codes
<1>10. CASE s.len >= 2 /\ e.fault # "magic" /\ e.fault # "none"
  <2>1. HeaderTurn(elems, s) = FailsWith(s, "corrupt") BY <1>3, <1>4, <1>10 DEF HeaderTurn, HeaderLen
  <2>2. TakeHeader(elems, d) = Stop(d, "corrupt")
    BY <1>2, <1>3, <1>6, <1>10 DEF TakeHeader, HeaderLen
  <2>3. Stops(elems, cap, 0, PlaceOf(s), "corrupt", Seen(elems, have))
    BY <1>7, <2>2 DEF Stops, d, left, n, p
  <2> QED BY <1>1, <2>1, <2>3, FailsRight DEF Codes
<1>11. CASE s.len >= 2 /\ e.fault = "none"
  <2> DEFINE c == Consumed(s, 2)
             x == [c EXCEPT !.state = "block", !.head = 1, !.used = @ + 2]
  <2>1. HeaderTurn(elems, s) = Goes(x)
    <3>1. NextElement(s) = 1 /\ BeginsWith(elems, s, "header", 2) /\ ~(s.len < 2) BY <1>3, <1>4, <1>11
    <3>2. HeaderTurn(elems, s) =
            Goes([c EXCEPT !.state = "block", !.head = NextElement(s), !.used = @ + 2])
      BY <1>11, <3>1 DEF HeaderTurn, HeaderLen
    <3> HIDE DEF c
    <3> QED BY <3>1, <3>2
  <2>2. /\ Stands(elems, c, 1, have)
        /\ c.state = s.state /\ c.out = s.out /\ c.summed = s.summed /\ c.used = s.used
    <3>1. s.len >= LengthOf(elems[0 + 1]) /\ c = Consumed(s, LengthOf(elems[0 + 1])) BY <1>2, <1>11
    <3> HIDE DEF c
    <3> QED BY <1>1, <1>2, <3>1, StandsConsumed
  <2> HIDE DEF c
  <2>3. StreamTyped(c) BY <2>2 DEF Stands
  <2>4. /\ x \in StreamTypes /\ x.state = "block" /\ x.head = 1 /\ x.used = c.used + 2
        /\ x.pos = c.pos /\ x.len = c.len /\ x.buf = c.buf /\ x.out = c.out /\ x.summed = c.summed
    <3>1. c \in StreamTypes /\ c.used + 2 \in Nat BY <2>3 DEF StreamTyped, StreamTypes
    <3>2. x = [c EXCEPT !.state = "block", !.head = 1, !.used = c.used + 2] OBVIOUS
    <3>3. x \in StreamTypes BY <3>1, <3>2 DEF StreamTypes
    <3> QED BY <3>1, <3>2, <3>3 DEF StreamTypes
  <2> HIDE DEF x
  <2>5. Stands(elems, x, 1, have)
    BY <2>2, <2>3, <2>4 DEF Stands, StreamTyped, Unread
  <2>6. x.used = EndOf(elems, 1)
    <3>1. 1 \in 1 .. Len(elems) /\ 1 - 1 = 0 BY <1>2
    <3> QED BY <1>1, <1>2, <2>2, <2>4, <3>1, EndTyped
  <2>7. Takes(elems, cap, 0, p, Place("block", 1, <<>>))
    <3> SUFFICES ASSUME NEW l \in Nat, l >= LengthOf(elems[0 + 1])
                 PROVE  ReadElement(elems, Here(p, 0, l), cap, FALSE) =
                          Here(Place("block", 1, <<>>), 0 + 1, l - LengthOf(elems[0 + 1]))
      BY DEF Takes
    <3> DEFINE h == Here(p, 0, l)
    <3>1. /\ h.at = "header" /\ h.k = 0 + 1 /\ h.k = 1 /\ h.out = <<>> /\ h.left = l BY <1>2, <1>5, HereIs
    <3> HIDE DEF h
    <3>2. ReadElement(elems, h, cap, FALSE) = TakeHeader(elems, h) BY <3>1 DEF ReadElement
    <3>3. TakeHeader(elems, h) = Past(elems, h, "block", h.k, Len(h.out), h.out)
      BY <1>2, <1>11, <3>1 DEF TakeHeader, HeaderLen
    <3>4. Len(h.out) = 0 BY <3>1
    <3>5. TakeHeader(elems, h) = Past(elems, h, "block", 1, 0, <<>>) BY <3>1, <3>3, <3>4
    <3>6. Past(elems, h, "block", 1, 0, <<>>) =
            Here(Place("block", 1, <<>>), 0 + 1, h.left - LengthOf(elems[0 + 1]))
      BY <3>1 DEF Past, Here, Place, Reading
    <3> QED BY <3>1, <3>2, <3>5, <3>6 DEF h
  <2>8. Passed(elems, cap, 1, Place("block", 1, <<>>))
    <3>1. Passed(elems, cap, 0, p) BY <1>1 DEF p
    <3>2. Passed(elems, cap, 0 + 1, Place("block", 1, <<>>)) BY <1>2, <2>7, <3>1, PassedMore, ZenonT(60)
    <3> QED BY <1>2, <3>2
  <2>9. PlaceOf(x) = Place("block", 1, <<>>) BY <1>1, <2>2, <2>4 DEF PlaceOf
  <2>10. Within(elems, cap, x, 0 + 1, have)
    <3>1. 1 \in 0 .. FirstFrame(elems) - 1 /\ 1 + 1 \in 2 .. LastOf(elems) BY <1>2
    <3>2. Len(x.out) <= cap BY <1>1, <2>2, <2>4
    <3>3. x.summed = IF elems[1].sum THEN x.out ELSE <<>> BY <2>2, <2>4 DEF Within
    <3> QED BY <1>2, <2>4, <2>5, <2>6, <2>8, <2>9, <3>1, <3>2, <3>3 DEF Within
  <2>11. Goes(x).s = x /\ Goes(x).ret = "on" BY <2>4 DEF Goes
  <2> QED BY <1>1, <2>1, <2>10, <2>11 DEF TurnEnds
<1> QED BY <1>3, <1>8, <1>9, <1>10, <1>11

\* At the end of the frame the decoder that has all at once finds nothing more.
LEMMA DoneRight ==
  ASSUME NEW elems \in Streams, NEW cap, NEW out, NEW have \in Nat,
         have >= EndOf(elems, FirstFrame(elems)),
         Passed(elems, cap, FirstFrame(elems), Place("header", 1, out))
  PROVE  Whole(elems, cap, have) = [code |-> "ok", out |-> out]
<1> DEFINE f == FirstFrame(elems)
           p == Place("header", 1, out)
           n == EndOf(elems, f)
           d == Here(p, f, n - n)
<1>1. elems \in Seq(Elements) /\ f \in 2 .. Len(elems) /\ f \in 0 .. Len(elems) /\ Len(elems) \in Nat
  BY FrameShape
<1>2. n \in Nat BY <1>1, EndTyped
<1>3. Seen(elems, have) = n BY <1>2 DEF Seen
<1>4. d.at = "header" /\ d.k = f + 1 /\ d.left = n - n /\ p.out = out BY HereIs DEF Place
<1>5. Passed(elems, cap, f, p) OBVIOUS
<1> HIDE DEF f, n, p, d
<1>6. d.left = 0 /\ d.k > 1 BY <1>1, <1>2, <1>4
<1>7. ReadElement(elems, d, cap, FALSE) = TakeHeader(elems, d) BY <1>4 DEF ReadElement
<1>8. TakeHeader(elems, d) = Stop(d, "ok") BY <1>6 DEF TakeHeader
<1>9. Stops(elems, cap, f, p, "ok", n) BY <1>7, <1>8 DEF Stops, d, n
<1>10. n >= EndOf(elems, f) BY <1>2 DEF n
<1>11. \A c : Stops(elems, cap, f, p, c, n) /\ c # "on" =>
         Decompress(elems, n, cap, FALSE) = [code |-> c, out |-> IF c = "ok" THEN p.out ELSE <<>>]
  BY <1>1, <1>2, <1>5, <1>10, PassedStops, ZenonT(60)
<1>12. Decompress(elems, n, cap, FALSE) = [code |-> "ok", out |-> p.out] BY <1>9, <1>11
<1> QED BY <1>3, <1>4, <1>12 DEF Whole

\* When a stream is done it agrees.
LEMMA FinishRight ==
  ASSUME NEW elems \in Streams, NEW cap \in Nat, NEW x, NEW have, StreamTyped(x), Len(x.out) <= cap,
         Stands(elems, x, FirstFrame(elems), have), x.head = 1,
         Passed(elems, cap, FirstFrame(elems), Place("header", 1, Undo(elems[1], x.out, 0))),
         NEW i
  PROVE  TurnEnds(elems, cap, i, Goes(Finish(elems, x)), have)
<1> DEFINE out == Undo(elems[1], x.out, 0)
           y == Finish(elems, x)
<1>1. x \in StreamTypes /\ x.out \in Seq(Outs) /\ x.len \in Nat BY DEF StreamTyped, StreamTypes
<1>2. out \in Seq(Outs) /\ Len(out) = Len(x.out) BY <1>1, UndoTyped
<1>3. y = [x EXCEPT !.state = "done", !.out = out] BY DEF Finish
<1> HIDE DEF out, y
<1>4. /\ y \in StreamTypes /\ y.state = "done" /\ y.out = out
      /\ y.pos = x.pos /\ y.len = x.len /\ y.buf = x.buf
  BY <1>1, <1>2, <1>3 DEF StreamTypes
<1>5. StreamTyped(y) BY <1>4 DEF StreamTyped
<1>6. have \in Nat /\ have >= EndOf(elems, FirstFrame(elems))
  <2>1. elems \in Seq(Elements) /\ FirstFrame(elems) \in 0 .. Len(elems) BY FrameShape
  <2>2. EndOf(elems, FirstFrame(elems)) \in Nat BY <2>1, EndTyped
  <2> QED BY <1>1, <2>2 DEF Stands
<1>7. Whole(elems, cap, have) = [code |-> "ok", out |-> out] BY <1>6, DoneRight DEF out
<1>8. Goes(y).s = y /\ Goes(y).ret = "done" BY <1>4 DEF Goes
<1>9. Passed(elems, cap, FirstFrame(elems), Place("header", 1, y.out)) BY <1>4 DEF out
<1> QED BY <1>2, <1>4, <1>5, <1>7, <1>8, <1>9 DEF TurnEnds, Outcome, y

\* A block that is decoded.
LEMMA DecodedRight ==
  ASSUME NEW elems \in Streams, NEW cap \in Nat, NEW s, NEW i, NEW have, Within(elems, cap, s, i, have),
         s.state = "block", s.len >= LengthOf(elems[i + 1]),
         elems[i + 1].size <= cap - Len(s.out), NEW x, x = Decoded(elems, s)
  PROVE  /\ StreamTyped(x) /\ Stands(elems, x, i + 1, have)
         /\ x.state = "block" /\ x.head = 1 /\ x.used = EndOf(elems, i + 1)
         /\ x.out = s.out \o DataOf(elems, i + 1) /\ Len(x.out) <= cap
         /\ x.summed = IF elems[1].sum THEN x.out ELSE <<>>
<1> DEFINE k == i + 1
           l == LengthOf(elems[k])
           c == Consumed(s, l)
           data == DataOf(elems, k)
           sum == elems[1].sum
<1>1. /\ elems \in Seq(Elements) /\ sum \in BOOLEAN /\ elems[k].kind = "block"
      /\ k \in 1 .. Len(elems) /\ i \in 0 .. Len(elems) - 1 /\ l \in Nat \ {0}
      /\ s.len \in Nat /\ EndOf(elems, k) = EndOf(elems, i) + l
  <2>1. elems \in Seq(Elements) /\ sum \in BOOLEAN /\ LastOf(elems) \in 2 .. Len(elems) BY FrameShape
  <2>2. i \in 0 .. Len(elems) - 1 /\ l \in Nat \ {0} /\ s.len \in Nat /\ EndOf(elems, k) = EndOf(elems, i) + l
    BY WithinFrame
  <2>3. k \in 2 .. LastOf(elems) BY DEF Within
  <2>4. elems[k].kind = "block" BY <2>3, FrameShape
  <2>5. k \in 1 .. Len(elems) BY <2>1, <2>2
  <2> QED BY <2>1, <2>2, <2>4, <2>5
<1>2. /\ Stands(elems, s, i, have) /\ s.used = EndOf(elems, i) /\ s.head = 1
      /\ s.summed = IF sum THEN s.out ELSE <<>>
  BY DEF Within
<1>3. NextElement(s) = k BY <1>1, <1>2, StandsReads
<1>4. data \in Seq(Outs) /\ Len(data) = elems[k].size BY <1>1, DataTyped
<1>5. /\ Stands(elems, c, k, have)
      /\ c.state = s.state /\ c.head = s.head /\ c.out = s.out /\ c.summed = s.summed
      /\ c.used = s.used
  BY <1>1, <1>2, StandsConsumed
<1>6. x = [c EXCEPT !.out = @ \o data, !.used = @ + l, !.summed = IF sum THEN @ \o data ELSE @]
  BY <1>2, <1>3 DEF Decoded
<1>7. elems[k].size <= cap - Len(s.out) /\ elems[k].size \in Nat
  BY <1>1, LengthTyped
<1> HIDE DEF k, l, c, data, sum
<1>8. StreamTyped(c) BY <1>5 DEF Stands
<1>9. c \in StreamTypes /\ c.out \in Seq(Outs) /\ c.summed \in Seq(Outs) /\ c.used \in Nat
  BY <1>8 DEF StreamTyped, StreamTypes
<1> DEFINE out == c.out \o data
           summed == IF sum THEN c.summed \o data ELSE c.summed
<1>10. out \in Seq(Outs) /\ Len(out) = Len(c.out) + Len(data) BY <1>4, <1>9, ConcatProperties
<1>11. summed \in Seq(Outs) /\ summed = IF sum THEN out ELSE <<>>
  <2>1. CASE sum
    <3>1. c.summed = c.out BY <1>2, <1>5, <2>1
    <3> QED BY <1>10, <2>1, <3>1
  <2>2. CASE ~sum BY <1>2, <1>5, <1>9, <2>2
  <2> QED BY <2>1, <2>2
<1>12. x = [c EXCEPT !.out = out, !.used = c.used + l, !.summed = summed] BY <1>6
<1>13. c.used + l \in Nat BY <1>1, <1>9
<1> HIDE DEF out, summed
<1>14. /\ x \in StreamTypes /\ x.state = c.state /\ x.head = c.head /\ x.out = out
       /\ x.used = c.used + l /\ x.summed = summed
       /\ x.pos = c.pos /\ x.len = c.len /\ x.buf = c.buf
  BY <1>9, <1>10, <1>11, <1>12, <1>13 DEF StreamTypes
<1>15. StreamTyped(x) BY <1>8, <1>14 DEF StreamTyped
<1>16. Stands(elems, x, k, have) BY <1>5, <1>14, <1>15 DEF Stands, Unread
<1>17. Len(x.out) <= cap
  <2>1. Len(s.out) \in Nat BY <1>5, <1>9
  <2> QED BY <1>4, <1>5, <1>7, <1>10, <1>14, <2>1
<1>18. x.out = s.out \o data BY <1>5, <1>14 DEF out
<1>19. x.used = EndOf(elems, k) BY <1>1, <1>2, <1>5, <1>14
<1> QED BY <1>2, <1>5, <1>11, <1>14, <1>15, <1>16, <1>17, <1>18, <1>19 DEF k, data, sum

\* The decoder that has all at once takes a block that decodes.
LEMMA BlockTakes ==
  ASSUME NEW elems, NEW cap, NEW i \in Nat, NEW out, NEW q,
         LengthOf(elems[i + 1]) \in Nat \ {0}, elems[i + 1].good,
         BlockFault(elems[i + 1], cap - Len(out)) = "none",
         q = IF ~elems[i + 1].last THEN Place("block", 1, out \o DataOf(elems, i + 1))
             ELSE IF elems[1].sum THEN Place("footer", 1, out \o DataOf(elems, i + 1))
             ELSE Place("header", 1, Undo(elems[1], out \o DataOf(elems, i + 1), 0))
  PROVE  Takes(elems, cap, i, Place("block", 1, out), q)
<1> DEFINE k == i + 1
           more == out \o DataOf(elems, k)
           p == Place("block", 1, out)
<1> SUFFICES ASSUME NEW left \in Nat, left >= LengthOf(elems[i + 1])
             PROVE  ReadElement(elems, Here(p, i, left), cap, FALSE) =
                      Here(q, i + 1, left - LengthOf(elems[i + 1]))
  BY DEF Takes
<1> DEFINE d == Here(p, i, left)
           rest == left - LengthOf(elems[k])
<1>1. /\ d.at = "block" /\ d.k = k /\ d.head = 1 /\ d.start = 0 /\ d.out = out /\ d.left = left
  BY HereIs
<1>2. ~(left < 1) /\ ~(left < LengthOf(elems[k])) BY DEF k
<1>3. elems[k].good /\ BlockFault(elems[k], cap - Len(out)) = "none" OBVIOUS
<1>4. q = IF ~elems[k].last THEN Place("block", 1, more)
          ELSE IF elems[1].sum THEN Place("footer", 1, more)
          ELSE Place("header", 1, Undo(elems[1], more, 0))
  OBVIOUS
<1> HIDE DEF d, k, p
<1>5. ReadElement(elems, d, cap, FALSE) = TakeBlock(elems, d, cap) BY <1>1 DEF ReadElement
<1>6. TakeBlock(elems, d, cap) =
        IF ~elems[k].last THEN Past(elems, d, "block", 1, 0, more)
        ELSE IF elems[1].sum THEN Past(elems, d, "footer", 1, 0, more)
        ELSE CloseFrame(elems, d, more)
  BY <1>1, <1>2, <1>3 DEF TakeBlock, BlockLen
<1> HIDE DEF more
<1>7. CloseFrame(elems, d, more) = Past(elems, d, "header", 1, 0, Undo(elems[1], more, 0))
  BY <1>1 DEF CloseFrame
<1>8. \A at, v : Past(elems, d, at, 1, 0, v) = Here(Place(at, 1, v), k, rest)
  BY <1>1 DEF Past, Here, Place, Reading
<1>9. TakeBlock(elems, d, cap) = Here(q, k, rest)
  <2> HIDE DEF rest
  <2>1. CASE ~elems[k].last BY <1>4, <1>6, <1>8, <2>1
  <2>2. CASE elems[k].last /\ elems[1].sum BY <1>4, <1>6, <1>8, <2>2
  <2>3. CASE elems[k].last /\ ~elems[1].sum BY <1>4, <1>6, <1>7, <1>8, <2>3
  <2> QED BY <2>1, <2>2, <2>3
<1> QED BY <1>5, <1>9 DEF d, k

\* A block.
LEMMA BlockTurnRight ==
  ASSUME NEW elems \in Streams, NEW cap \in Nat, NEW s, NEW i, NEW have,
         Within(elems, cap, s, i, have), s.state = "block"
  PROVE  TurnEnds(elems, cap, i, BlockTurn(elems, s, cap), have)
<1> DEFINE k == i + 1
           e == elems[k]
           l == LengthOf(e)
           n == Seen(elems, have)
           left == n - EndOf(elems, i)
           p == PlaceOf(s)
           d == Here(p, i, left)
           fault == BlockFault(e, cap - Len(s.out))
           f == FirstFrame(elems)
<1>1. /\ elems \in Seq(Elements) /\ elems[1].sum \in BOOLEAN
      /\ LastOf(elems) \in 2 .. Len(elems) /\ Len(elems) \in Nat
      /\ f = (IF elems[1].sum THEN LastOf(elems) + 1 ELSE LastOf(elems)) /\ f \in LastOf(elems) .. Len(elems)
  BY FrameShape
<1>2. /\ k \in 2 .. LastOf(elems) /\ s.head = 1 /\ Stands(elems, s, i, have)
      /\ Passed(elems, cap, i, p) /\ s.used = EndOf(elems, i)
  BY DEF Within
<1>3. e.kind = "block" /\ (e.last <=> k = LastOf(elems)) BY <1>2, FrameShape
<1>4. /\ i \in 0 .. Len(elems) - 1 /\ k \in 1 .. Len(elems) /\ i \in Nat /\ s.len \in Nat
      /\ l \in Nat \ {0} /\ n \in Nat /\ n >= EndOf(elems, i)
      /\ \A m \in Nat : m <= l => (left >= m <=> s.len >= m)
  <2>1. /\ i \in 0 .. Len(elems) - 1 /\ s.len \in Nat
        /\ l \in Nat \ {0} /\ n \in Nat /\ n >= EndOf(elems, i)
        /\ \A m \in Nat : m <= l => (left >= m <=> s.len >= m)
    BY WithinFrame
  <2> QED BY <1>1, <2>1
<1>5. left \in Nat /\ (left < 1 <=> s.len < 1) /\ (left < l <=> s.len < l)
  <2>1. EndOf(elems, i) \in Nat BY <1>1, <1>2, <1>4, EndTyped
  <2>2. (left >= 1 <=> s.len >= 1) /\ (left >= l <=> s.len >= l) BY <1>4
  <2>3. left \in Nat BY <1>4, <2>1
  <2> HIDE DEF left
  <2> QED BY <1>4, <2>2, <2>3
<1>6. e \in Elements /\ e.size \in Nat /\ e.last \in BOOLEAN /\ e.good \in BOOLEAN
  BY <1>1, <1>3, <1>4, LengthTyped
<1>7. /\ s.len >= 1 => NextElement(s) = k /\ BeginsWith(elems, s, "block", 1)
      /\ s.len >= l => BeginsWith(elems, s, "block", l)
  BY <1>1, <1>2, <1>3, <1>4, StandsReads
<1>8. p = Place("block", 1, s.out) BY <1>2 DEF PlaceOf
<1>9. /\ d.at = "block" /\ d.k = k /\ d.head = 1 /\ d.start = 0 /\ d.out = s.out /\ d.left = left
  BY <1>8, HereIs
<1>10. fault \in {"none", "overflow", "corrupt"} /\ (fault = "none" => e.size <= cap - Len(s.out))
  <2>1. s.out \in Seq(Outs) BY <1>2 DEF Stands, StreamTyped, StreamTypes
  <2>2. cap - Len(s.out) \in Int BY <2>1
  <2> QED BY <1>6, <2>2 DEF BlockFault
<1> HIDE DEF n, left, p, d
<1>11. ReadElement(elems, d, cap, FALSE) = TakeBlock(elems, d, cap) BY <1>9 DEF ReadElement
<1>12. ASSUME NEW code, TakeBlock(elems, d, cap) = Stop(d, code)
       PROVE  Stops(elems, cap, i, PlaceOf(s), code, Seen(elems, have))
  BY <1>11, <1>12 DEF Stops, d, left, n, p
<1>13. CASE s.len < 1
  <2>1. BlockTurn(elems, s, cap) = Waits(s) BY <1>13 DEF BlockTurn, BlockLen
  <2>2. TakeBlock(elems, d, cap) = Stop(d, "corrupt") BY <1>5, <1>9, <1>13 DEF TakeBlock, BlockLen
  <2> QED BY <1>12, <2>1, <2>2, WaitsRight
<1>14. CASE s.len >= 1 /\ fault # "none"
  <2>0. ~(s.len < 1) /\ ~(left < 1) BY <1>4, <1>5, <1>14
  <2>1. BlockTurn(elems, s, cap) = FailsWith(s, fault) BY <1>7, <1>14, <2>0 DEF BlockTurn, BlockLen
  <2>2. TakeBlock(elems, d, cap) = Stop(d, fault) BY <1>9, <1>14, <2>0 DEF TakeBlock, BlockLen
  <2>3. fault \in Codes BY <1>10, <1>14 DEF Codes
  <2> HIDE DEF fault
  <2> QED BY <1>12, <2>1, <2>2, <2>3, FailsRight
<1>15. CASE s.len >= 1 /\ fault = "none" /\ s.len < l
  <2>0. ~(s.len < 1) /\ ~(left < 1) /\ left < l BY <1>4, <1>5, <1>15
  <2>1. BlockTurn(elems, s, cap) = Waits(s) BY <1>7, <1>15, <2>0 DEF BlockTurn, BlockLen
  <2>2. TakeBlock(elems, d, cap) = Stop(d, "corrupt") BY <1>9, <1>15, <2>0 DEF TakeBlock, BlockLen
  <2> QED BY <1>12, <2>1, <2>2, WaitsRight
<1>16. CASE s.len >= l /\ fault = "none" /\ ~e.good
  <2>0. ~(s.len < 1) /\ ~(left < 1) /\ ~(s.len < l) /\ s.len >= 1 BY <1>4, <1>5, <1>16
  <2>1. BlockTurn(elems, s, cap) = FailsWith(s, "corrupt") BY <1>7, <1>16, <2>0 DEF BlockTurn, BlockLen
  <2>2. TakeBlock(elems, d, cap) = Stop(d, "corrupt") BY <1>9, <1>16, <2>0 DEF TakeBlock, BlockLen
  <2> QED BY <1>12, <2>1, <2>2, FailsRight DEF Codes
<1>17. CASE s.len >= l /\ fault = "none" /\ e.good
  <2>0. ~(s.len < 1) /\ ~(s.len < l) /\ s.len >= 1 BY <1>4, <1>5, <1>17
  <2> DEFINE x == Decoded(elems, s)
             more == s.out \o DataOf(elems, k)
             q == IF ~e.last THEN Place("block", 1, more)
                  ELSE IF elems[1].sum THEN Place("footer", 1, more)
                  ELSE Place("header", 1, Undo(elems[1], more, 0))
  <2>1. BlockTurn(elems, s, cap) =
          IF ~e.last THEN Goes(x)
          ELSE IF elems[1].sum THEN Goes([x EXCEPT !.state = "footer"])
          ELSE Goes(Finish(elems, x))
    <3>1. NextElement(s) = k /\ BeginsWith(elems, s, "block", 1) /\ BeginsWith(elems, s, "block", l)
      BY <1>7, <1>17, <2>0
    <3> HIDE DEF x
    <3> QED BY <1>2, <1>17, <2>0, <3>1 DEF BlockTurn, BlockLen, x
  <2>2. /\ StreamTyped(x) /\ Stands(elems, x, k, have)
        /\ x.state = "block" /\ x.head = 1 /\ x.used = EndOf(elems, k)
        /\ x.out = more /\ Len(x.out) <= cap
        /\ x.summed = IF elems[1].sum THEN x.out ELSE <<>>
    BY <1>10, <1>17, DecodedRight
  <2> HIDE DEF x
  <2>3. Takes(elems, cap, i, p, q) BY <1>4, <1>8, <1>17, BlockTakes
  <2>4. Passed(elems, cap, k, q)
    <3> HIDE DEF q, fault, l, e, f
    <3> QED BY <1>1, <1>2, <1>4, <2>3, PassedMore, ZenonT(60)
  <2> HIDE DEF more
  <2>5. CASE ~e.last
    <3>1. k \in 0 .. f - 1 /\ k + 1 \in 2 .. LastOf(elems) BY <1>1, <1>2, <1>3, <2>5
    <3>2. PlaceOf(x) = q BY <2>2, <2>5 DEF PlaceOf
    <3>3. Within(elems, cap, x, k, have) BY <2>2, <2>4, <3>1, <3>2 DEF Within
    <3>4. Goes(x).s = x /\ Goes(x).ret = "on" BY <2>2 DEF Goes
    <3> QED BY <2>1, <2>5, <3>3, <3>4 DEF TurnEnds
  <2>6. CASE e.last /\ elems[1].sum
    <3> DEFINE y == [x EXCEPT !.state = "footer"]
    <3>1. k \in 0 .. f - 1 /\ k = LastOf(elems) BY <1>1, <1>2, <1>3, <2>6
    <3>2. /\ y \in StreamTypes /\ y.state = "footer" /\ y.head = x.head /\ y.out = x.out
          /\ y.used = x.used /\ y.summed = x.summed /\ y.pos = x.pos /\ y.len = x.len /\ y.buf = x.buf
      BY <2>2 DEF StreamTyped, StreamTypes
    <3> HIDE DEF y
    <3>3. StreamTyped(y) BY <2>2, <3>2 DEF StreamTyped
    <3>4. Stands(elems, y, k, have) BY <2>2, <3>2, <3>3 DEF Stands, Unread
    <3>5. PlaceOf(y) = q BY <2>2, <2>6, <3>2 DEF PlaceOf
    <3>6. Within(elems, cap, y, k, have) BY <2>2, <2>4, <2>6, <3>1, <3>2, <3>4, <3>5 DEF Within
    <3>7. Goes(y).s = y /\ Goes(y).ret = "on" BY <3>2 DEF Goes
    <3> QED BY <2>1, <2>6, <3>6, <3>7 DEF TurnEnds, y
  <2>7. CASE e.last /\ ~elems[1].sum
    <3>1. k = f BY <1>1, <1>3, <2>7
    <3>2. q = Place("header", 1, Undo(elems[1], x.out, 0)) BY <2>2, <2>7
    <3>3. TurnEnds(elems, cap, i, Goes(Finish(elems, x)), have)
      BY <2>2, <2>4, <3>1, <3>2, FinishRight
    <3> QED BY <2>1, <2>7, <3>3
  <2> QED BY <1>1, <1>6, <2>5, <2>6, <2>7
<1> QED BY <1>4, <1>6, <1>13, <1>14, <1>15, <1>16, <1>17

\* A footer.
LEMMA FooterTurnRight ==
  ASSUME NEW elems \in Streams, NEW cap \in Nat, NEW s, NEW i, NEW have,
         Within(elems, cap, s, i, have), s.state = "footer"
  PROVE  TurnEnds(elems, cap, i, FooterTurn(elems, s), have)
<1> DEFINE k == i + 1
           n == Seen(elems, have)
           left == n - EndOf(elems, i)
           p == PlaceOf(s)
           d == Here(p, i, left)
           fits == elems[k].magic /\ FooterFits(elems, k, 1, s.out)
           f == FirstFrame(elems)
           q == Place("header", 1, Undo(elems[1], s.out, 0))
<1>1. elems \in Seq(Elements) /\ LastOf(elems) \in 2 .. Len(elems) /\ Len(elems) \in Nat
  BY FrameShape
<1>2. /\ i = LastOf(elems) /\ elems[1].sum /\ s.head = 1 /\ Stands(elems, s, i, have)
      /\ Passed(elems, cap, i, p) /\ s.summed = s.out /\ Len(s.out) <= cap
  BY DEF Within
<1>3. elems[k].kind = "footer" /\ LengthOf(elems[k]) = 2 /\ f = k BY <1>2, FrameShape
<1>4. /\ i \in 0 .. Len(elems) - 1 /\ i \in Nat /\ i \in 0 .. Len(elems) /\ s.len \in Nat
      /\ n \in Nat /\ n >= EndOf(elems, i)
      /\ \A m \in Nat : m <= LengthOf(elems[k]) => (left >= m <=> s.len >= m)
  <2>1. /\ i \in 0 .. Len(elems) - 1 /\ s.len \in Nat /\ n \in Nat /\ n >= EndOf(elems, i)
        /\ \A m \in Nat : m <= LengthOf(elems[k]) => (left >= m <=> s.len >= m)
    BY WithinFrame
  <2> QED BY <1>1, <2>1
<1>5. left \in Nat /\ (left < 2 <=> s.len < 2)
  <2>1. EndOf(elems, i) \in Nat BY <1>1, <1>4, EndTyped
  <2>2. left >= 2 <=> s.len >= 2 BY <1>3, <1>4
  <2>3. left \in Nat BY <1>4, <2>1
  <2> HIDE DEF left
  <2> QED BY <1>4, <2>2, <2>3
<1>6. s.len >= 2 => NextElement(s) = k /\ BeginsWith(elems, s, "footer", 2)
  BY <1>1, <1>2, <1>3, <1>4, StandsReads
<1>7. p = Place("footer", 1, s.out) BY <1>2 DEF PlaceOf
<1>8. /\ d.at = "footer" /\ d.k = k /\ d.head = 1 /\ d.start = 0 /\ d.out = s.out /\ d.left = left
  BY <1>7, HereIs
<1>9. s.out \in Seq(Outs) /\ StreamTyped(s) BY <1>2 DEF Stands, StreamTyped, StreamTypes
<1>10. SubSeq(s.out, 0 + 1, Len(s.out)) = s.out
  <2>1. 0 + 1 = 1 OBVIOUS
  <2> QED BY <1>9, <2>1, SubSeqFull
<1> HIDE DEF n, left, p, d
<1>11. ReadElement(elems, d, cap, FALSE) = TakeFooter(elems, d, FALSE) BY <1>8 DEF ReadElement
<1>12. SubSeq(d.out, d.start + 1, Len(d.out)) = s.out BY <1>8, <1>10
<1>13. CASE s.len < 2
  <2>1. FooterTurn(elems, s) = Waits(s) BY <1>13 DEF FooterTurn, FooterLen
  <2>2. TakeFooter(elems, d, FALSE) = Stop(d, "corrupt") BY <1>5, <1>8, <1>13 DEF TakeFooter, FooterLen
  <2>3. Stops(elems, cap, i, PlaceOf(s), "corrupt", Seen(elems, have))
    BY <1>11, <2>2 DEF Stops, d, left, n, p
  <2> QED BY <2>1, <2>3, WaitsRight
<1>14. CASE s.len >= 2 /\ ~fits
  <2>1. FooterTurn(elems, s) = FailsWith(s, "corrupt")
    <3>1. ~(s.len < 2) /\ NextElement(s) = k BY <1>4, <1>6, <1>14
    <3> QED BY <1>2, <1>14, <3>1 DEF FooterTurn, FooterLen
  <2>2. TakeFooter(elems, d, FALSE) = Stop(d, "corrupt")
    BY <1>8, <1>12, <1>14 DEF TakeFooter
  <2>3. Stops(elems, cap, i, PlaceOf(s), "corrupt", Seen(elems, have))
    BY <1>11, <2>2 DEF Stops, d, left, n, p
  <2> QED BY <2>1, <2>3, FailsRight DEF Codes
<1>15. CASE s.len >= 2 /\ fits
  <2> DEFINE c == Consumed(s, 2)
  <2>1. FooterTurn(elems, s) = Goes(Finish(elems, c))
    <3>1. ~(s.len < 2) /\ NextElement(s) = k /\ BeginsWith(elems, s, "footer", 2) BY <1>4, <1>6, <1>15
    <3> HIDE DEF c
    <3> QED BY <1>2, <1>15, <3>1 DEF FooterTurn, FooterLen, c
  <2>2. Stands(elems, c, k, have) /\ c.out = s.out /\ c.head = 1
    <3>1. c = Consumed(s, LengthOf(elems[k])) /\ s.len >= LengthOf(elems[k]) BY <1>3, <1>15
    <3> HIDE DEF c
    <3> QED BY <1>1, <1>2, <1>4, <3>1, StandsConsumed
  <2> HIDE DEF c
  <2>3. StreamTyped(c) BY <2>2 DEF Stands
  <2>4. Takes(elems, cap, i, p, q)
    <3> SUFFICES ASSUME NEW l \in Nat, l >= LengthOf(elems[i + 1])
                 PROVE  ReadElement(elems, Here(p, i, l), cap, FALSE) =
                          Here(q, i + 1, l - LengthOf(elems[i + 1]))
      BY DEF Takes
    <3> DEFINE h == Here(p, i, l)
    <3>1. /\ h.at = "footer" /\ h.k = k /\ h.head = 1 /\ h.start = 0 /\ h.out = s.out /\ h.left = l
      BY <1>7, HereIs
    <3> HIDE DEF h
    <3>2. SubSeq(h.out, h.start + 1, Len(h.out)) = s.out BY <1>10, <3>1
    <3>3. ReadElement(elems, h, cap, FALSE) = TakeFooter(elems, h, FALSE) BY <3>1 DEF ReadElement
    <3>4. ~(l < 2) BY <1>3
    <3>5. TakeFooter(elems, h, FALSE) = CloseFrame(elems, h, s.out)
      BY <1>15, <3>1, <3>2, <3>4 DEF TakeFooter, FooterLen
    <3>6. CloseFrame(elems, h, s.out) = Here(q, i + 1, l - LengthOf(elems[i + 1]))
      BY <3>1 DEF CloseFrame, Past, Here, Place, Reading
    <3> QED BY <3>3, <3>5, <3>6 DEF h
  <2>5. Passed(elems, cap, k, q)
    <3> HIDE DEF q, f, fits
    <3> QED BY <1>1, <1>2, <1>4, <2>4, PassedMore, ZenonT(60)
  <2>6. TurnEnds(elems, cap, i, Goes(Finish(elems, c)), have)
    <3>1. Len(c.out) <= cap /\ q = Place("header", 1, Undo(elems[1], c.out, 0)) BY <1>2, <2>2
    <3> HIDE DEF q
    <3> QED BY <1>3, <2>2, <2>3, <2>5, <3>1, FinishRight
  <2> QED BY <2>1, <2>6
<1> QED BY <1>4, <1>13, <1>14, <1>15

\* Whatever is next.
LEMMA TurnRight ==
  ASSUME NEW elems \in Streams, NEW cap \in Nat, NEW s, NEW i, NEW have,
         Within(elems, cap, s, i, have)
  PROVE  TurnEnds(elems, cap, i, Turn(elems, s, cap), have)
<1>1. s.state \in {"header", "block", "footer"} BY DEF Within
<1>2. CASE s.state = "header"
  <2>1. Turn(elems, s, cap) = HeaderTurn(elems, s) BY <1>2 DEF Turn
  <2> QED BY <1>2, <2>1, HeaderTurnRight
<1>3. CASE s.state = "block"
  <2>1. Turn(elems, s, cap) = BlockTurn(elems, s, cap) BY <1>3 DEF Turn
  <2> QED BY <1>3, <2>1, BlockTurnRight
<1>4. CASE s.state = "footer"
  <2>1. Turn(elems, s, cap) = FooterTurn(elems, s) BY <1>4 DEF Turn
  <2> QED BY <1>4, <2>1, FooterTurnRight
<1> QED BY <1>1, <1>2, <1>3, <1>4

\* The turns of a call, one after the other.
LEMMA TurnsUnfold ==
  ASSUME NEW elems, NEW s, NEW cap, Len(elems) \in Nat
  PROVE  \E turns : /\ Turns(elems, s, cap) = turns[Len(elems) + 1]
                    /\ turns[0] = [s |-> s, ret |-> "on"]
                    /\ \A i \in 1 .. Len(elems) + 1 : turns[i] = Again(elems, turns[i - 1], cap)
<1> DEFINE last == Len(elems) + 1
           first == [s |-> s, ret |-> "on"]
           Solves(f, m) == f = [i \in 0 .. m |-> IF i = 0 THEN first ELSE Again(elems, f[i - 1], cap)]
           r == CHOOSE f : Solves(f, last)
           Bad == {m \in Nat : ~ \E f : Solves(f, m)}
<1>1. Turns(elems, s, cap) = r[last] BY DEF Turns
<1>2. last \in Nat OBVIOUS
<1> HIDE DEF last, first
<1>3. Bad = {}
  <2> SUFFICES ASSUME Bad # {} PROVE FALSE OBVIOUS
  <2>1. PICK m \in Bad : \A j \in Bad : m <= j
    <3>1. Bad \in SUBSET Nat OBVIOUS
    <3> HIDE DEF Bad
    <3> QED BY <3>1, LeastNumber
  <2> HIDE DEF Solves
  <2>2. m # 0
    <3> DEFINE f == [i \in 0 .. 0 |-> first]
    <3>1. \A i \in 0 .. 0 : f[i] = IF i = 0 THEN first ELSE Again(elems, f[i - 1], cap) OBVIOUS
    <3>2. f = [i \in 0 .. 0 |-> f[i]] OBVIOUS
    <3> HIDE DEF f
    <3>3. Solves(f, 0) BY <3>1, <3>2 DEF Solves
    <3>4. \E h : Solves(h, 0) BY <3>3
    <3> QED BY <2>1, <3>4
  <2>3. m - 1 \in Nat /\ m - 1 \notin Bad BY <2>1, <2>2
  <2>4. PICK f : Solves(f, m - 1) BY <2>3
  <2> DEFINE g == [i \in 0 .. m |-> IF i < m THEN f[i] ELSE Again(elems, f[m - 1], cap)]
  <2>5. \A i \in 0 .. m : g[i] = IF i = 0 THEN first ELSE Again(elems, g[i - 1], cap)
    <3> SUFFICES ASSUME NEW i \in 0 .. m
                 PROVE  g[i] = IF i = 0 THEN first ELSE Again(elems, g[i - 1], cap)
      OBVIOUS
    <3>1. CASE i < m
      <4>1. i \in 0 .. m - 1 BY <3>1
      <4>2. f[i] = IF i = 0 THEN first ELSE Again(elems, f[i - 1], cap) BY <2>4, <4>1 DEF Solves
      <4>3. g[i] = f[i] /\ (i # 0 => g[i - 1] = f[i - 1]) BY <3>1
      <4> QED BY <4>2, <4>3
    <3>2. CASE i = m
      <4>1. g[m] = Again(elems, f[m - 1], cap) /\ g[m - 1] = f[m - 1] BY <2>3
      <4> QED BY <2>2, <3>2, <4>1
    <3> QED BY <3>1, <3>2
  <2>6. Solves(g, m)
    <3>1. g = [i \in 0 .. m |-> g[i]] OBVIOUS
    <3> HIDE DEF g
    <3> QED BY <2>5, <3>1 DEF Solves
  <2> QED BY <2>1, <2>6
<1>4. Solves(r, last)
  <2> HIDE DEF Solves
  <2>1. \E f : Solves(f, last) BY <1>2, <1>3
  <2> QED BY <2>1
<1> HIDE DEF r
<1>5. r[0] = first /\ \A i \in 1 .. last : r[i] = Again(elems, r[i - 1], cap) BY <1>2, <1>4
<1> QED BY <1>1, <1>5 DEF first, last

\* A call ends as it should, for a stream that is within the frame.
LEMMA TurnsRight ==
  ASSUME NEW elems \in Streams, NEW cap \in Nat, NEW s, NEW b \in Nat, NEW have,
         Within(elems, cap, s, b, have)
  PROVE  Outcome(elems, cap, Turns(elems, s, cap), have)
<1>1. Len(elems) \in Nat /\ FirstFrame(elems) \in 0 .. Len(elems)
  BY FrameShape
<1>2. PICK t : /\ Turns(elems, s, cap) = t[Len(elems) + 1]
               /\ t[0] = [s |-> s, ret |-> "on"]
               /\ \A i \in 1 .. Len(elems) + 1 : t[i] = Again(elems, t[i - 1], cap)
  BY <1>1, TurnsUnfold
<1> DEFINE Good(i) == \/ t[i].ret # "on" /\ Outcome(elems, cap, t[i], have)
                      \/ t[i].ret = "on" /\ Within(elems, cap, t[i].s, b + i, have)
           Bad == {i \in 0 .. Len(elems) + 1 : ~Good(i)}
<1>3. Bad = {}
  <2> SUFFICES ASSUME Bad # {} PROVE FALSE OBVIOUS
  <2>1. PICK i \in Bad : \A m \in Bad : i <= m
    <3>1. Bad \in SUBSET Nat BY <1>1
    <3> HIDE DEF Bad
    <3> QED BY <3>1, LeastNumber
  <2>2. i # 0
    <3>1. b + 0 = b OBVIOUS
    <3>2. t[0].s = s /\ t[0].ret = "on" BY <1>2
    <3>3. Good(0) BY <3>1, <3>2
    <3> HIDE DEF Good
    <3> QED BY <2>1, <3>3
  <2>3. i \in 1 .. Len(elems) + 1 /\ i - 1 \in 0 .. Len(elems) + 1 /\ ~(i <= i - 1) BY <1>1, <2>2
  <2>4. Good(i - 1) BY <2>1, <2>3
  <2>5. t[i] = Again(elems, t[i - 1], cap) BY <1>2, <2>3
  <2>6. CASE t[i - 1].ret # "on"
    <3>1. t[i] = t[i - 1] BY <2>5, <2>6 DEF Again
    <3>2. Good(i) BY <2>4, <2>6, <3>1
    <3> HIDE DEF Good
    <3> QED BY <2>1, <3>2
  <2>7. CASE t[i - 1].ret = "on"
    <3>1. t[i] = Turn(elems, t[i - 1].s, cap) BY <2>5, <2>7 DEF Again
    <3>2. Within(elems, cap, t[i - 1].s, b + (i - 1), have) BY <2>4, <2>7
    <3>3. TurnEnds(elems, cap, b + (i - 1), t[i], have) BY <3>1, <3>2, TurnRight
    <3>4. b + (i - 1) + 1 = b + i BY <2>3
    <3>5. Good(i) BY <3>3, <3>4 DEF TurnEnds
    <3> HIDE DEF Good
    <3> QED BY <2>1, <3>5
  <2> QED BY <2>6, <2>7
<1>4. Good(Len(elems) + 1)
  <2>1. Len(elems) + 1 \in 0 .. Len(elems) + 1 BY <1>1
  <2> HIDE DEF Good
  <2> QED BY <1>3, <2>1
<1>5. ~Within(elems, cap, t[Len(elems) + 1].s, b + (Len(elems) + 1), have)
  <2>1. b + (Len(elems) + 1) \notin 0 .. FirstFrame(elems) - 1 BY <1>1
  <2> QED BY <2>1 DEF Within
<1> QED BY <1>2, <1>4, <1>5

\* A new stream is at the beginning.
LEMMA FreshRight ==
  ASSUME NEW elems \in Streams, NEW cap \in Nat, NEW buf \in Seq(Nat \X Nat), Len(buf) >= 1,
         NEW s, s = Fresh(buf)
  PROVE  /\ StreamTyped(s) /\ Len(s.out) <= cap
         /\ Within(elems, cap, s, 0, 0) /\ Whole(elems, cap, 0).code = "corrupt"
<1>1. /\ elems \in Seq(Elements) /\ LastOf(elems) \in 2 .. Len(elems) /\ Len(elems) \in Nat
      /\ FirstFrame(elems) \in LastOf(elems) .. Len(elems)
  BY FrameShape
<1>2. /\ s.state = "header" /\ s.buf = buf /\ s.pos = 0 /\ s.len = 0 /\ s.head = 0
      /\ s.out = <<>> /\ s.summed = <<>> /\ s.used = 0
  BY DEF Fresh
<1>3. s \in StreamTypes
  <2>1. <<>> \in Seq(Outs) /\ 0 \in Nat OBVIOUS
  <2> QED BY <2>1 DEF StreamTypes, Fresh
<1>4. StreamTyped(s) BY <1>2, <1>3 DEF StreamTyped
<1>5. Len(s.out) = 0 /\ Len(s.out) <= cap BY <1>2
<1>6. EndOf(elems, 0) = 0 BY <1>1, EndTyped
<1>7. Stands(elems, s, 0, 0)
  <2>1. Len(WireOf(elems)) \in Nat BY <1>1, WireUnits
  <2>2. 0 = EndOf(elems, 0) + s.len /\ 0 <= Len(WireOf(elems)) BY <1>2, <1>6, <2>1
  <2>3. 1 .. s.len = {} BY <1>2
  <2> QED BY <1>4, <2>2, <2>3 DEF Stands
<1>8. PlaceOf(s) = Place("header", 0, <<>>) BY <1>2 DEF PlaceOf
<1>9. Passed(elems, cap, 0, PlaceOf(s)) BY <1>1, <1>8, NothingPassed
<1>10. Within(elems, cap, s, 0, 0)
  <2>1. 0 \in 0 .. FirstFrame(elems) - 1 BY <1>1
  <2> QED BY <1>2, <1>5, <1>6, <1>7, <1>9, <2>1 DEF Within
<1>11. HeaderTurn(elems, s) = Waits(s) BY <1>2 DEF HeaderTurn, HeaderLen
<1>12. TurnEnds(elems, cap, 0, Waits(s), 0) BY <1>2, <1>10, <1>11, HeaderTurnRight
<1>13. Waits(s).ret = "more" BY DEF Waits
<1>14. Whole(elems, cap, 0).code = "corrupt" BY <1>12, <1>13 DEF TurnEnds, Outcome, Codes
<1> QED BY <1>4, <1>5, <1>10, <1>14

\* More units are handed over.
LEMMA GivenRight ==
  ASSUME NEW elems \in Streams, NEW cap, NEW s, NEW i, NEW have, Within(elems, cap, s, i, have),
         NEW n \in Nat, have + n <= Len(WireOf(elems)), NEW g,
         g = AppendInput(s, SubSeq(WireOf(elems), have + 1, have + n))
  PROVE  Within(elems, cap, g, i, have + n) /\ StreamTyped(g)
<1> DEFINE w == WireOf(elems)
           units == SubSeq(w, have + 1, have + n)
           end == EndOf(elems, i)
<1>1. elems \in Seq(Elements) /\ w \in Seq(Nat \X Nat) /\ Len(w) \in Nat BY FrameShape, WireUnits
<1>2. StreamTyped(s) /\ have = end + s.len /\ \A j \in 1 .. s.len : Unread(s)[j] = w[end + j]
  BY DEF Within, Stands
<1>3. end \in Nat /\ s.len \in Nat /\ have \in Nat
  <2>1. i \in 0 .. Len(elems) - 1 /\ s.len \in Nat BY WithinFrame
  <2>2. i \in 0 .. Len(elems) BY <1>1, <2>1
  <2>3. end \in Nat BY <1>1, <2>2, EndTyped
  <2> QED BY <1>2, <2>1, <2>3
<1>4. have + n <= Len(w) /\ g = AppendInput(s, units) OBVIOUS
<1> HIDE DEF w, end
<1>5. units \in Seq(Nat \X Nat) /\ Len(units) = n /\ \A j \in 1 .. n : units[j] = w[have + j]
  <2> DEFINE m == have + 1
             o == have + n
  <2>1. m \in Int /\ o \in Int /\ o - m + 1 = n /\ (m <= o <=> n > 0) BY <1>3
  <2>2. \A j \in m .. o : w[j] \in Nat \X Nat BY <1>1, <1>3, <1>4
  <2>3. \A j \in 1 .. n : m + j - 1 = have + j BY <1>3
  <2>4. units = SubSeq(w, m, o) OBVIOUS
  <2> HIDE DEF m, o, units
  <2>5. /\ units \in Seq(Nat \X Nat) /\ Len(units) = IF m <= o THEN o - m + 1 ELSE 0
        /\ \A j \in 1 .. o - m + 1 : units[j] = w[m + j - 1]
    BY <2>1, <2>2, <2>4, SubSeqProperties
  <2> QED BY <2>1, <2>3, <2>5
<1> HIDE DEF units
<1>6. /\ StreamTyped(g) /\ g.len = s.len + n
      /\ g.state = s.state /\ g.head = s.head /\ g.out = s.out /\ g.summed = s.summed
      /\ g.used = s.used
      /\ \A j \in 1 .. s.len : Unread(g)[j] = Unread(s)[j]
      /\ \A j \in 1 .. n : Unread(g)[s.len + j] = units[j]
  <2>1. /\ StreamTyped(g) /\ g.len = s.len + Len(units)
        /\ g.state = s.state /\ g.head = s.head /\ g.out = s.out /\ g.summed = s.summed
        /\ g.used = s.used
        /\ \A j \in 1 .. s.len : Unread(g)[j] = Unread(s)[j]
        /\ \A j \in 1 .. Len(units) : Unread(g)[s.len + j] = units[j]
    <3>1. StreamTyped(s) /\ units \in Seq(Nat \X Nat) /\ g = AppendInput(s, units) BY <1>2, <1>4, <1>5
    <3> QED BY ONLY <3>1, GivenInput
  <2> QED BY <1>5, <2>1
<1>7. ASSUME NEW j \in 1 .. g.len PROVE Unread(g)[j] = w[end + j]
  <2>1. CASE j <= s.len
    <3>1. j \in 1 .. s.len BY <1>3, <1>6, <2>1
    <3> QED BY <1>2, <1>6, <3>1
  <2>2. CASE j > s.len
    <3> DEFINE o == j - s.len
    <3>1. g.len = s.len + n /\ have = end + s.len BY <1>2, <1>6
    <3>2. o \in 1 .. n /\ j = s.len + o /\ have + o = end + j
      <4>1. j \in Nat /\ j <= s.len + n BY <1>3, <3>1
      <4>2. o \in Nat /\ 1 <= o /\ o <= n /\ j = s.len + o BY <1>3, <2>2, <4>1
      <4> HIDE DEF o
      <4> QED BY <1>3, <3>1, <4>1, <4>2
    <3> HIDE DEF o
    <3> QED BY <1>5, <1>6, <3>2
  <2> QED BY <1>3, <1>6, <2>1, <2>2
<1>8. Stands(elems, g, i, have + n)
  <2>1. have + n = end + g.len BY <1>2, <1>3, <1>6
  <2> QED BY <1>4, <1>6, <1>7, <2>1 DEF Stands, w, end
<1>9. PlaceOf(g) = PlaceOf(s) BY <1>6 DEF PlaceOf
<1> QED BY <1>6, <1>8, <1>9 DEF Within

\* What is unread is what was handed over and not used.
LEMMA WithinUnread ==
  ASSUME NEW elems \in Streams, NEW cap, NEW s, NEW i, NEW have, Within(elems, cap, s, i, have)
  PROVE  Unread(s) = SubSeq(WireOf(elems), s.used + 1, have)
<1> DEFINE w == WireOf(elems)
           end == EndOf(elems, i)
           u == Unread(s)
           l == s.len
           v == SubSeq(w, end + 1, have)
<1>1. elems \in Seq(Elements) /\ w \in Seq(Nat \X Nat) /\ Len(w) \in Nat BY FrameShape, WireUnits
<1>2. /\ StreamTyped(s) /\ have = end + l /\ have <= Len(w)
      /\ \A j \in 1 .. l : u[j] = w[end + j]
  BY DEF Within, Stands
<1>3. end \in Nat /\ l \in Nat
  <2>1. i \in 0 .. Len(elems) - 1 /\ l \in Nat BY WithinFrame
  <2>2. i \in 0 .. Len(elems) BY <1>1, <2>1
  <2> QED BY <1>1, <2>1, <2>2, EndTyped
<1>4. u \in Seq(Nat \X Nat) /\ Len(u) = l BY <1>2, UnreadUnits
<1>5. s.used = end BY DEF Within
<1> HIDE DEF w, end, u, l
<1>6. v \in Seq(Nat \X Nat) /\ Len(v) = l /\ \A j \in 1 .. l : v[j] = w[end + j]
  <2> DEFINE m == end + 1
  <2>1. m \in Int /\ have \in Int /\ have - m + 1 = l /\ (m <= have <=> l > 0) BY <1>2, <1>3
  <2>2. \A j \in m .. have : w[j] \in Nat \X Nat BY <1>1, <1>2, <1>3
  <2>3. \A j \in 1 .. l : m + j - 1 = end + j BY <1>3
  <2>4. v = SubSeq(w, m, have) OBVIOUS
  <2> HIDE DEF m, v
  <2>5. /\ v \in Seq(Nat \X Nat) /\ Len(v) = IF m <= have THEN have - m + 1 ELSE 0
        /\ \A j \in 1 .. have - m + 1 : v[j] = w[m + j - 1]
    BY <2>1, <2>2, <2>4, SubSeqProperties
  <2> QED BY <1>3, <2>1, <2>3, <2>5
<1> HIDE DEF v
<1>7. u = v BY <1>2, <1>4, <1>6, SeqEqual
<1> QED BY <1>5, <1>7 DEF u, v, w

-----------------------------------------------------------------------------
(* The invariant of the stream decoder. *)

\* What was said or can still be said agrees with the units so far.
Agrees ==
  CASE stream.state = "done"  -> Whole(elements, room, fed) = [code |-> "ok", out |-> stream.out]
    [] stream.state = "error" -> stream.why \in {"memory", Whole(elements, room, fed).code}
    [] OTHER                  -> /\ Whole(elements, room, fed).code = "corrupt"
                                 /\ \E i \in Nat : Within(elements, room, stream, i, fed)

\* Inductive: the types, and that.
StreamInv ==
  /\ elements \in Streams /\ room \in Capacities /\ fed \in Nat
  /\ ret \in {"none", "more", "done", "corrupt", "magic", "overflow", "memory"}
  /\ StreamTyped(stream) /\ Len(stream.out) <= room
  /\ Agrees

\* One step of the induction for each action.
LEMMA StreamInit == Init => StreamInv
<1> SUFFICES ASSUME Init PROVE StreamInv OBVIOUS
<1> DEFINE buf == [i \in 1 .. FirstBuffer |-> <<0, 0>>]
<1>1. buf \in Seq(Nat \X Nat) /\ Len(buf) >= 1
  <2>1. FirstBuffer \in Nat /\ FirstBuffer >= 1 BY DStreamAssumption
  <2>2. <<0, 0>> \in Nat \X Nat OBVIOUS
  <2> QED BY <2>1, <2>2
<1>2. elements \in Streams /\ room \in Capacities /\ room \in Nat /\ fed = 0 /\ ret = "none"
  BY DStreamAssumption DEF Init
<1>3. stream = Fresh(buf) BY DEF Init
<1> HIDE DEF buf
<1>4. /\ StreamTyped(stream) /\ Len(stream.out) <= room
      /\ Within(elements, room, stream, 0, fed) /\ Whole(elements, room, fed).code = "corrupt"
  BY <1>1, <1>2, <1>3, FreshRight
<1>5. stream.state = "header" BY <1>3 DEF Fresh
<1>6. Agrees BY <1>4, <1>5 DEF Agrees
<1> QED BY <1>2, <1>4, <1>6 DEF StreamInv

\* A reset, and another frame.
LEMMA StreamReset == StreamInv /\ Reset => StreamInv'
<1> SUFFICES ASSUME StreamInv, Reset PROVE StreamInv' OBVIOUS
<1>1. stream.buf \in Seq(Nat \X Nat) /\ Len(stream.buf) >= 1 BY DEF StreamInv, StreamTyped, StreamTypes
<1>2. elements' \in Streams /\ room' \in Capacities /\ room' \in Nat /\ fed' = 0 /\ ret' = "none"
  BY DStreamAssumption DEF Reset
<1>3. stream' = Fresh(stream.buf) BY DEF Reset
<1>4. /\ StreamTyped(stream') /\ Len(stream'.out) <= room'
      /\ Within(elements', room', stream', 0, fed') /\ Whole(elements', room', fed').code = "corrupt"
  BY <1>1, <1>2, <1>3, FreshRight
<1>5. stream'.state = "header" BY <1>3 DEF Fresh
<1>6. Agrees' BY <1>4, <1>5 DEF Agrees
<1> QED BY <1>2, <1>4, <1>6 DEF StreamInv

\* A call.
LEMMA StreamCall ==
  ASSUME StreamInv, NEW n \in Chunks, Call(n)
  PROVE  StreamInv'
<1>1. /\ elements \in Streams /\ room \in Capacities /\ room \in Nat /\ fed \in Nat /\ n \in Nat
      /\ elements' = elements /\ room' = room /\ StreamTyped(stream) /\ Len(stream.out) <= room
      /\ fed + n <= Len(WireOf(elements)) /\ Agrees
  BY DStreamAssumption DEF Call, StreamInv
<1>2. CASE stream.state \in {"error", "done"}
  <2>1. stream' = stream /\ fed' = fed /\ ret' \in {"corrupt", "done"} BY <1>2 DEF Call
  <2>2. Agrees' BY <1>1, <2>1 DEF Agrees, Whole
  <2> QED BY <1>1, <2>1, <2>2 DEF StreamInv
<1>3. CASE stream.state \notin {"error", "done"}
  <2> DEFINE given == AppendInput(stream, SubSeq(WireOf(elements), fed + 1, fed + n))
             t == Turns(elements, given, room)
  <2>1. /\ fed' = fed + n
        /\ \/ stream' = t.s /\ ret' = t.ret
           \/ stream' = [stream EXCEPT !.state = "error", !.why = "memory"] /\ ret' = "memory"
    BY <1>3 DEF Call
  <2>2. PICK i \in Nat : Within(elements, room, stream, i, fed) BY <1>1, <1>3 DEF Agrees
  <2>3. Within(elements, room, given, i, fed + n) /\ StreamTyped(given)
    <3> HIDE DEF given
    <3>1. given = AppendInput(stream, SubSeq(WireOf(elements), fed + 1, fed + n)) BY DEF given
    <3> QED BY <1>1, <2>2, <3>1, GivenRight
  <2> HIDE DEF given
  <2>4. Outcome(elements, room, t, fed + n) BY <1>1, <2>3, TurnsRight
  <2>5. fed' \in Nat BY <1>1, <2>1
  <2> HIDE DEF t
  <2>6. CASE stream' = t.s /\ ret' = t.ret
    <3>1. Outcome(elements', room', t, fed') BY <1>1, <2>1, <2>4
    <3>2. StreamTyped(stream') /\ Len(stream'.out) <= room' BY <2>6, <3>1 DEF Outcome
    <3>3. ret' \in {"none", "more", "done", "corrupt", "magic", "overflow", "memory"}
      BY <2>6, <3>1 DEF Outcome, Codes
    <3>4. CASE t.ret = "more"
      <4>1. /\ Whole(elements', room', fed').code = "corrupt"
            /\ \E j \in Nat : Within(elements', room', stream', j, fed')
        BY <2>6, <3>1, <3>4 DEF Outcome, Codes
      <4>2. stream'.state \notin {"done", "error"} BY <4>1 DEF Within
      <4>3. Agrees' BY <4>1, <4>2 DEF Agrees
      <4> QED BY <1>1, <2>5, <3>2, <3>3, <4>3 DEF StreamInv
    <3>5. CASE t.ret = "done"
      <4>1. /\ stream'.state = "done"
            /\ Whole(elements', room', fed') = [code |-> "ok", out |-> stream'.out]
        BY <2>6, <3>1, <3>5 DEF Outcome, Codes
      <4>2. Agrees' BY <4>1 DEF Agrees
      <4> QED BY <1>1, <2>5, <3>2, <3>3, <4>2 DEF StreamInv
    <3>6. CASE t.ret \in Codes
      <4>1. stream'.state = "error" /\ Whole(elements', room', fed').code = stream'.why
        BY <2>6, <3>1, <3>6 DEF Outcome, Codes
      <4>2. Agrees' BY <4>1 DEF Agrees
      <4> QED BY <1>1, <2>5, <3>2, <3>3, <4>2 DEF StreamInv
    <3> QED BY <3>1, <3>4, <3>5, <3>6 DEF Outcome
  <2>7. CASE stream' = [stream EXCEPT !.state = "error", !.why = "memory"] /\ ret' = "memory"
    <3>1. /\ stream' \in StreamTypes /\ stream'.state = "error" /\ stream'.why = "memory"
          /\ stream'.pos = stream.pos /\ stream'.len = stream.len /\ stream'.buf = stream.buf
          /\ stream'.out = stream.out
      BY <1>1, <2>7 DEF StreamTyped, StreamTypes
    <3>2. StreamTyped(stream') BY <1>1, <3>1 DEF StreamTyped
    <3>3. Agrees' BY <3>1 DEF Agrees
    <3> QED BY <1>1, <2>5, <2>7, <3>1, <3>2, <3>3 DEF StreamInv
  <2> QED BY <2>1, <2>6, <2>7
<1> QED BY <1>2, <1>3

\* The inductive invariant of the stream decoder (vv_decoder.c:914-1167).
THEOREM StreamInvariance == Spec => []StreamInv
<1>1. Init => StreamInv BY StreamInit
<1>2. StreamInv /\ [Next]_vars => StreamInv'
  <2> SUFFICES ASSUME StreamInv, [Next]_vars PROVE StreamInv' OBVIOUS
  <2>1. CASE \E n \in Chunks : Call(n) BY <2>1, StreamCall
  <2>2. CASE Reset BY <2>2, StreamReset
  <2>3. CASE UNCHANGED vars BY <2>3 DEF vars, StreamInv, Agrees, Whole
  <2> QED BY <2>1, <2>2, <2>3 DEF Next
<1> QED BY <1>1, <1>2, PTL DEF Spec

\* However a frame is cut into chunks and whatever was decoded before a reset, the
\* stream ends as the decoder that has all at once, and compacting and growing
\* its buffer loses, repeats or reorders nothing (vv_decoder.c:712-858, 914-1167).
THEOREM ChunksAgree == Spec => []ChunksDoNotMatter
<1>1. StreamInv => ChunksDoNotMatter
  <2> SUFFICES ASSUME StreamInv PROVE ChunksDoNotMatter OBVIOUS
  <2> DEFINE seen == IF fed < FrameEnd THEN fed ELSE FrameEnd
             whole == Decompress(elements, seen, room, FALSE)
  <2>1. whole = Whole(elements, room, fed) BY DEF FrameEnd, Whole, Seen, EndOf
  <2> DEFINE agrees ==
               CASE stream.state = "done"  -> whole = [code |-> "ok", out |-> stream.out]
                 [] stream.state = "error" -> stream.why \in {"memory", whole.code}
                 [] OTHER                  -> whole.code = "corrupt"
  <2>2. agrees
    <3> HIDE DEF whole
    <3>1. CASE stream.state = "done" BY <2>1, <3>1 DEF StreamInv, Agrees
    <3>2. CASE stream.state = "error" BY <2>1, <3>2 DEF StreamInv, Agrees
    <3>3. CASE stream.state \notin {"done", "error"} BY <2>1, <3>3 DEF StreamInv, Agrees
    <3> QED BY <3>1, <3>2, <3>3
  <2>3. UnreadIsWhatIsLeft
    <3> SUFFICES ASSUME stream.state \notin {"done", "error"}
                 PROVE  Unread(stream) = SubSeq(WireOf(elements), stream.used + 1, fed)
      BY DEF UnreadIsWhatIsLeft
    <3>1. \E i \in Nat : Within(elements, room, stream, i, fed) BY DEF StreamInv, Agrees
    <3>2. elements \in Streams BY DEF StreamInv
    <3> QED BY <3>1, <3>2, WithinUnread
  <2> QED BY <2>2, <2>3 DEF ChunksDoNotMatter
<1> QED BY <1>1, StreamInvariance, PTL

\* The unread units lie within the buffer and the output within its room
\* (vv_decoder.c:958-1003, 1056-1084).
THEOREM StreamIsTyped == Spec => []DStreamTypeOK
<1>1. StreamInv => DStreamTypeOK BY DEF StreamInv, StreamTyped, StreamTypes, DStreamTypeOK
<1> QED BY <1>1, StreamInvariance, PTL

-----------------------------------------------------------------------------
(* Elements that stand by elements later. *)

\* The shifted output, unit by unit.
LEMMA ShiftTyped ==
  ASSUME NEW out \in Seq(Outs), NEW by \in Nat
  PROVE  /\ Shift(out, by) \in Seq(Outs) /\ Len(Shift(out, by)) = Len(out)
         /\ \A i \in 1 .. Len(out) :
              Shift(out, by)[i] =
                [elem |-> out[i].elem + by, unit |-> out[i].unit, undone |-> out[i].undone]
<1> DEFINE unit(i) == [elem |-> out[i].elem + by, unit |-> out[i].unit, undone |-> out[i].undone]
<1>1. Len(out) \in Nat /\ DOMAIN out = 1 .. Len(out) OBVIOUS
<1>2. ASSUME NEW i \in 1 .. Len(out)
      PROVE  unit(i) \in Outs /\ [out[i] EXCEPT !.elem = @ + by] = unit(i)
  <2> DEFINE x == out[i]
  <2>1. x \in Outs OBVIOUS
  <2>2. x.elem + by \in Nat /\ x.unit \in Nat /\ x.undone \in Nat BY <2>1 DEF Outs
  <2>3. x = [elem |-> x.elem, unit |-> x.unit, undone |-> x.undone] BY <2>1 DEF Outs
  <2>4. [x EXCEPT !.elem = @ + by] = [elem |-> x.elem + by, unit |-> x.unit, undone |-> x.undone]
    BY <2>3
  <2>5. [elem |-> x.elem + by, unit |-> x.unit, undone |-> x.undone] \in Outs BY <2>2 DEF Outs
  <2> QED BY <2>4, <2>5
<1>3. Shift(out, by) = [i \in 1 .. Len(out) |-> unit(i)] BY <1>1, <1>2 DEF Shift
<1>4. \A i \in 1 .. Len(out) : unit(i) \in Outs BY <1>2
<1> DEFINE sh == Shift(out, by)
<1> HIDE DEF unit, sh
<1>5. sh \in Seq(Outs) /\ Len(sh) = Len(out) /\ \A i \in 1 .. Len(out) : sh[i] = unit(i)
  BY <1>1, <1>3, <1>4 DEF sh
<1> QED BY <1>5 DEF unit, sh

\* Shifting goes through concatenation.
LEMMA ShiftConcat ==
  ASSUME NEW a \in Seq(Outs), NEW b \in Seq(Outs), NEW by \in Nat
  PROVE  Shift(a \o b, by) = Shift(a, by) \o Shift(b, by)
<1> DEFINE u == a \o b
           v == Shift(a, by) \o Shift(b, by)
           sa == Shift(a, by)
           sb == Shift(b, by)
           su == Shift(u, by)
           x(e) == [elem |-> e.elem + by, unit |-> e.unit, undone |-> e.undone]
<1>1. /\ u \in Seq(Outs) /\ Len(u) = Len(a) + Len(b) /\ Len(a) \in Nat /\ Len(b) \in Nat
      /\ \A i \in 1 .. Len(a) + Len(b) : u[i] = IF i <= Len(a) THEN a[i] ELSE b[i - Len(a)]
  BY ConcatProperties
<1> HIDE DEF u
<1>2. sa \in Seq(Outs) /\ Len(sa) = Len(a) /\ \A i \in 1 .. Len(a) : sa[i] = x(a[i]) BY ShiftTyped
<1>3. sb \in Seq(Outs) /\ Len(sb) = Len(b) /\ \A i \in 1 .. Len(b) : sb[i] = x(b[i]) BY ShiftTyped
<1>4. su \in Seq(Outs) /\ Len(su) = Len(u) /\ \A i \in 1 .. Len(u) : su[i] = x(u[i])
  BY <1>1, ShiftTyped
<1> HIDE DEF sa, sb, su, x
<1>5. v = sa \o sb BY DEF sa, sb
<1>6. /\ sa \o sb \in Seq(Outs) /\ Len(sa \o sb) = Len(sa) + Len(sb)
      /\ \A i \in 1 .. Len(sa) + Len(sb) : (sa \o sb)[i] = IF i <= Len(sa) THEN sa[i] ELSE sb[i - Len(sa)]
  <2>1. sa \in Seq(Outs) /\ sb \in Seq(Outs) BY <1>2, <1>3
  <2> QED BY ONLY <2>1, ConcatProperties
<1> HIDE DEF v
<1>7. v \in Seq(Outs) /\ Len(v) = Len(su) BY <1>1, <1>2, <1>3, <1>4, <1>5, <1>6
<1>8. ASSUME NEW i \in 1 .. Len(su) PROVE v[i] = su[i]
  <2>1. i \in 1 .. Len(a) + Len(b) /\ i \in 1 .. Len(u) /\ i \in 1 .. Len(sa) + Len(sb)
    BY <1>1, <1>2, <1>3, <1>4
  <2>2. CASE i <= Len(a)
    <3>1. i \in 1 .. Len(a) /\ i <= Len(sa) BY <1>1, <1>2, <2>1, <2>2
    <3>2. v[i] = sa[i] /\ u[i] = a[i] BY <1>1, <1>5, <1>6, <2>1, <2>2, <3>1
    <3> QED BY <1>2, <1>4, <2>1, <3>1, <3>2
  <2>3. CASE ~(i <= Len(a))
    <3>1. i - Len(a) \in 1 .. Len(b) /\ ~(i <= Len(sa)) BY <1>1, <1>2, <2>1, <2>3
    <3>2. v[i] = sb[i - Len(a)] /\ u[i] = b[i - Len(a)] BY <1>1, <1>2, <1>5, <1>6, <2>1, <2>3, <3>1
    <3> QED BY <1>3, <1>4, <2>1, <3>1, <3>2
  <2> QED BY <2>2, <2>3
<1>9. v = su BY <1>4, <1>7, <1>8, SeqEqual
<1> QED BY <1>9 DEF v, su, u

\* What is equal when shifted was equal.
LEMMA ShiftInjective ==
  ASSUME NEW a \in Seq(Outs), NEW b \in Seq(Outs), NEW by \in Nat, Shift(a, by) = Shift(b, by)
  PROVE  a = b
<1> DEFINE x(e) == [elem |-> e.elem + by, unit |-> e.unit, undone |-> e.undone]
           sa == Shift(a, by)
           sb == Shift(b, by)
<1>1. Len(sa) = Len(a) /\ \A i \in 1 .. Len(a) : sa[i] = x(a[i]) BY ShiftTyped
<1>2. Len(sb) = Len(b) /\ \A i \in 1 .. Len(b) : sb[i] = x(b[i]) BY ShiftTyped
<1>3. sa = sb OBVIOUS
<1> HIDE DEF sa, sb, x
<1>4. Len(a) = Len(b) BY <1>1, <1>2, <1>3
<1>5. ASSUME NEW i \in 1 .. Len(a) PROVE a[i] = b[i]
  <2>1. x(a[i]) = x(b[i]) BY <1>1, <1>2, <1>3, <1>4
  <2>2. a[i] \in Outs /\ b[i] \in Outs BY <1>4
  <2>3. a[i].elem + by = b[i].elem + by /\ a[i].unit = b[i].unit /\ a[i].undone = b[i].undone
    BY <2>1 DEF x
  <2>4. a[i].elem \in Nat /\ b[i].elem \in Nat BY <2>2 DEF Outs
  <2>5. a[i].elem = b[i].elem BY <2>3, <2>4
  <2>6. /\ a[i] = [elem |-> a[i].elem, unit |-> a[i].unit, undone |-> a[i].undone]
        /\ b[i] = [elem |-> b[i].elem, unit |-> b[i].unit, undone |-> b[i].undone]
    BY <2>2 DEF Outs
  <2> QED BY <2>3, <2>5, <2>6
<1> QED BY <1>4, <1>5, SeqEqual

\* What an output is undone to, unit by unit.
Undone(header, start, x, i) ==
  [elem |-> x.elem, unit |-> x.unit,
   undone |-> IF header.filter /\ i > start THEN x.undone + 1 ELSE x.undone]

\* And that is what it is undone to.
LEMMA UndoUnits ==
  ASSUME NEW header, NEW out \in Seq(Outs), NEW start
  PROVE  \A i \in 1 .. Len(out) : Undo(header, out, start)[i] = Undone(header, start, out[i], i)
<1> SUFFICES ASSUME NEW i \in 1 .. Len(out)
             PROVE  Undo(header, out, start)[i] = Undone(header, start, out[i], i)
  OBVIOUS
<1> DEFINE x == out[i]
<1>1. x \in Outs OBVIOUS
<1>2. x = [elem |-> x.elem, unit |-> x.unit, undone |-> x.undone] BY <1>1 DEF Outs
<1>3. [x EXCEPT !.undone = @ + 1] = [elem |-> x.elem, unit |-> x.unit, undone |-> x.undone + 1]
  BY <1>2
<1>4. Undo(header, out, start)[i] =
        IF header.filter /\ i > start THEN [x EXCEPT !.undone = @ + 1] ELSE x
  BY DEF Undo
<1> HIDE DEF x
<1>5. CASE header.filter /\ i > start BY <1>3, <1>4, <1>5 DEF x, Undone
<1>6. CASE ~(header.filter /\ i > start) BY <1>2, <1>4, <1>6 DEF x, Undone
<1> QED BY <1>5, <1>6

\* The filter of a later frame is undone on its own output.
LEMMA UndoLater ==
  ASSUME NEW header, NEW a \in Seq(Outs), NEW b \in Seq(Outs), NEW by \in Nat, NEW start \in Nat
  PROVE  Undo(header, a \o Shift(b, by), Len(a) + start) = a \o Shift(Undo(header, b, start), by)
<1> DEFINE c == Shift(b, by)
           u == Undo(header, b, start)
           w == Shift(u, by)
           l == a \o c
           z == Undo(header, l, Len(a) + start)
           m == Len(a)
           n == Len(b)
<1>1. /\ m \in Nat /\ n \in Nat /\ c \in Seq(Outs) /\ Len(c) = n
      /\ \A i \in 1 .. n : c[i] = [elem |-> b[i].elem + by, unit |-> b[i].unit, undone |-> b[i].undone]
  BY ShiftTyped
<1>2. /\ u \in Seq(Outs) /\ Len(u) = n
      /\ \A i \in 1 .. n :
           u[i] = Undone(header, start, b[i], i)
  <2>1. u \in Seq(Outs) /\ Len(u) = Len(b) BY UndoTyped
  <2>2. \A i \in 1 .. Len(b) :
          u[i] = Undone(header, start, b[i], i)
    BY UndoUnits
  <2> HIDE DEF u
  <2> QED BY <2>1, <2>2
<1> HIDE DEF c, u, n
<1>3. /\ w \in Seq(Outs) /\ Len(w) = n
      /\ \A i \in 1 .. n : w[i] = [elem |-> u[i].elem + by, unit |-> u[i].unit, undone |-> u[i].undone]
  BY <1>2, ShiftTyped
<1>4. /\ l \in Seq(Outs) /\ Len(l) = m + n
      /\ \A i \in 1 .. m + n : l[i] = IF i <= m THEN a[i] ELSE c[i - m]
  <2>1. c \in Seq(Outs) /\ a \in Seq(Outs) BY <1>1
  <2>2. /\ l \in Seq(Outs) /\ Len(l) = Len(a) + Len(c)
        /\ \A i \in 1 .. Len(a) + Len(c) : l[i] = IF i <= Len(a) THEN a[i] ELSE c[i - Len(a)]
    BY ONLY <2>1, ConcatProperties
  <2> HIDE DEF l
  <2> QED BY <1>1, <2>2
<1> HIDE DEF l
<1>5. /\ z \in Seq(Outs) /\ Len(z) = m + n
      /\ \A i \in 1 .. m + n :
           z[i] = Undone(header, m + start, l[i], i)
  <2>1. l \in Seq(Outs) BY <1>4
  <2>2. z \in Seq(Outs) /\ Len(z) = Len(l) BY <2>1, UndoTyped
  <2>3. \A i \in 1 .. Len(l) :
          z[i] = Undone(header, m + start, l[i], i)
    BY <2>1, UndoUnits
  <2> HIDE DEF z, m
  <2> QED BY <1>4, <2>2, <2>3
<1> HIDE DEF w, z
<1> DEFINE r == a \o w
<1>6. /\ r \in Seq(Outs) /\ Len(r) = m + n
      /\ \A i \in 1 .. m + n : r[i] = IF i <= m THEN a[i] ELSE w[i - m]
  <2>1. w \in Seq(Outs) /\ a \in Seq(Outs) BY <1>3
  <2>2. /\ r \in Seq(Outs) /\ Len(r) = Len(a) + Len(w)
        /\ \A i \in 1 .. Len(a) + Len(w) : r[i] = IF i <= Len(a) THEN a[i] ELSE w[i - Len(a)]
    BY ONLY <2>1, ConcatProperties
  <2> HIDE DEF r
  <2> QED BY <1>3, <2>2
<1> HIDE DEF r, m
<1>7. ASSUME NEW i \in 1 .. m + n PROVE z[i] = r[i]
  <2>1. CASE i <= m
    <3>1. l[i] = a[i] /\ r[i] = a[i] /\ ~(i > m + start) /\ i \in 1 .. m BY <1>1, <1>4, <1>6, <2>1
    <3>2. a[i] \in Outs BY <3>1 DEF m
    <3>3. z[i] = [elem |-> a[i].elem, unit |-> a[i].unit, undone |-> a[i].undone]
      BY <1>5, <3>1 DEF Undone
    <3>4. a[i] = [elem |-> a[i].elem, unit |-> a[i].unit, undone |-> a[i].undone] BY <3>2 DEF Outs
    <3> QED BY <3>1, <3>3, <3>4
  <2>2. CASE ~(i <= m)
    <3> DEFINE j == i - m
    <3>1. j \in 1 .. n /\ (i > m + start <=> j > start) BY <1>1, <2>2
    <3>2. l[i] = c[j] /\ r[i] = w[j] BY <1>4, <1>6, <2>2
    <3> HIDE DEF j
    <3>3. /\ l[i].elem = b[j].elem + by /\ l[i].unit = b[j].unit /\ l[i].undone = b[j].undone
      BY <1>1, <3>1, <3>2
    <3>4. /\ u[j].elem = b[j].elem /\ u[j].unit = b[j].unit
          /\ u[j].undone = IF header.filter /\ j > start THEN b[j].undone + 1 ELSE b[j].undone
      BY <1>2, <3>1 DEF Undone
    <3>5. z[i] = [elem |-> l[i].elem, unit |-> l[i].unit,
                  undone |-> IF header.filter /\ i > m + start THEN l[i].undone + 1 ELSE l[i].undone]
      BY <1>5 DEF Undone
    <3>6. w[j] = [elem |-> u[j].elem + by, unit |-> u[j].unit, undone |-> u[j].undone] BY <1>3, <3>1
    <3>7. CASE header.filter /\ j > start BY <3>1, <3>2, <3>3, <3>4, <3>5, <3>6, <3>7
    <3>8. CASE ~(header.filter /\ j > start) BY <3>1, <3>2, <3>3, <3>4, <3>5, <3>6, <3>8
    <3> QED BY <3>7, <3>8
  <2> QED BY <2>1, <2>2
<1>8. z = r BY <1>5, <1>6, <1>7, SeqEqual
<1> QED BY <1>8 DEF z, l, c, r, w, u, m

\* The output of a later frame, in the output of all.
LEMMA OwnOutput ==
  ASSUME NEW a \in Seq(Outs), NEW b \in Seq(Outs), NEW by \in Nat, NEW start \in 0 .. Len(b)
  PROVE  /\ SubSeq(b, start + 1, Len(b)) \in Seq(Outs)
         /\ SubSeq(a \o Shift(b, by), Len(a) + start + 1, Len(a \o Shift(b, by))) =
              Shift(SubSeq(b, start + 1, Len(b)), by)
<1> DEFINE c == Shift(b, by)
           l == a \o c
           v == SubSeq(b, start + 1, Len(b))
           w == SubSeq(l, Len(a) + start + 1, Len(l))
           sv == Shift(v, by)
           x(e) == [elem |-> e.elem + by, unit |-> e.unit, undone |-> e.undone]
           n == Len(b) - start
           from == Len(a) + start + 1
<1>1. c \in Seq(Outs) /\ Len(c) = Len(b) /\ \A i \in 1 .. Len(b) : c[i] = x(b[i]) BY ShiftTyped
<1>2. Len(a) \in Nat /\ Len(b) \in Nat /\ n \in Nat /\ start \in Nat OBVIOUS
<1> HIDE DEF c
<1>3. /\ l \in Seq(Outs) /\ Len(l) = Len(a) + Len(c)
      /\ \A i \in 1 .. Len(a) + Len(c) : l[i] = IF i <= Len(a) THEN a[i] ELSE c[i - Len(a)]
  <2>1. a \in Seq(Outs) /\ c \in Seq(Outs) BY <1>1
  <2> QED BY ONLY <2>1, ConcatProperties
<1> HIDE DEF l, x
<1>4. v \in Seq(Outs) /\ Len(v) = n /\ \A i \in 1 .. n : v[i] = b[start + i]
  <2> DEFINE p == start + 1
             q == Len(b)
  <2>1. p \in Int /\ q \in Int /\ q - p + 1 = n /\ (p <= q <=> n > 0) BY <1>2
  <2>2. \A i \in p .. q : b[i] \in Outs BY <1>2
  <2>3. \A i \in 1 .. n : p + i - 1 = start + i BY <1>2
  <2>4. v = SubSeq(b, p, q) OBVIOUS
  <2> HIDE DEF p, q, v
  <2>5. /\ v \in Seq(Outs) /\ Len(v) = IF p <= q THEN q - p + 1 ELSE 0
        /\ \A i \in 1 .. q - p + 1 : v[i] = b[p + i - 1]
    BY <2>1, <2>2, <2>4, SubSeqProperties
  <2> HIDE DEF n
  <2> QED BY <1>2, <2>1, <2>3, <2>5
<1>5. w \in Seq(Outs) /\ Len(w) = n /\ \A i \in 1 .. n : w[i] = l[Len(a) + start + i]
  <2> DEFINE p == Len(a) + start + 1
             q == Len(l)
  <2>1. p \in Int /\ q \in Int /\ q - p + 1 = n /\ (p <= q <=> n > 0) BY <1>1, <1>2, <1>3
  <2>2. \A i \in p .. q : l[i] \in Outs BY <1>2, <1>3
  <2>3. \A i \in 1 .. n : p + i - 1 = Len(a) + start + i BY <1>2
  <2>4. w = SubSeq(l, p, q) OBVIOUS
  <2> HIDE DEF p, q, w
  <2>5. /\ w \in Seq(Outs) /\ Len(w) = IF p <= q THEN q - p + 1 ELSE 0
        /\ \A i \in 1 .. q - p + 1 : w[i] = l[p + i - 1]
    BY ONLY <1>3, <2>1, <2>2, <2>4, SubSeqProperties
  <2> HIDE DEF n
  <2>6. Len(w) = n BY <1>2, <2>1, <2>5
  <2>7. ASSUME NEW i \in 1 .. n PROVE w[i] = l[Len(a) + start + i]
    <3>1. w[i] = l[p + i - 1] BY <2>1, <2>5
    <3>2. p + i - 1 = Len(a) + start + i BY <2>3
    <3> QED BY <3>1, <3>2
  <2> QED BY <2>5, <2>6, <2>7
<1> HIDE DEF v, w
<1>6. sv \in Seq(Outs) /\ Len(sv) = Len(v) /\ \A i \in 1 .. Len(v) : sv[i] = x(v[i])
  BY <1>4, ShiftTyped DEF x
<1> HIDE DEF sv, n
<1>7. ASSUME NEW i \in 1 .. n PROVE w[i] = sv[i]
  <2> DEFINE j == start + i
  <2>1. /\ Len(a) + start + i = Len(a) + j /\ j \in 1 .. Len(b)
        /\ Len(a) + j \in 1 .. Len(a) + Len(c) /\ ~(Len(a) + j <= Len(a)) /\ Len(a) + j - Len(a) = j
    BY <1>1, <1>2 DEF n
  <2> HIDE DEF j
  <2>2. w[i] = l[Len(a) + j] BY <1>5, <2>1
  <2>3. l[Len(a) + j] = c[j] BY <1>3, <2>1
  <2>4. c[j] = x(b[j]) BY <1>1, <2>1
  <2>5. v[i] = b[j] BY <1>4 DEF j
  <2>6. sv[i] = x(v[i]) BY <1>4, <1>6
  <2> QED BY <2>2, <2>3, <2>4, <2>5, <2>6
<1>8. w = sv BY <1>4, <1>5, <1>6, <1>7, SeqEqual
<1> QED BY <1>4, <1>8 DEF v, w, sv, l, c

-----------------------------------------------------------------------------
(* Frames that follow the first. *)

\* The elements of rest stand in elems by elements later.
Follows(elems, rest, by) ==
  /\ elems \in Seq(Elements) /\ rest \in Seq(Elements) /\ by \in Nat
  /\ Len(elems) = by + Len(rest)
  /\ \A k \in 1 .. Len(rest) : rest[k] = elems[by + k]

\* The elements behind some others follow them.
LEMMA RestFollows ==
  ASSUME NEW elems \in Seq(Elements), NEW by \in 0 .. Len(elems), NEW rest,
         rest = SubSeq(elems, by + 1, Len(elems))
  PROVE  Follows(elems, rest, by)
<1> DEFINE p == by + 1
           q == Len(elems)
<1>1. q \in Nat /\ by \in Nat /\ p \in Int /\ q \in Int /\ q - p + 1 = q - by /\ (p <= q <=> q - by > 0)
  OBVIOUS
<1>2. \A i \in p .. q : elems[i] \in Elements OBVIOUS
<1>3. \A i \in 1 .. q - by : p + i - 1 = by + i BY <1>1
<1>4. rest = SubSeq(elems, p, q) OBVIOUS
<1>5. by <= q OBVIOUS
<1> HIDE DEF p, q
<1>6. /\ rest \in Seq(Elements) /\ Len(rest) = IF p <= q THEN q - p + 1 ELSE 0
      /\ \A i \in 1 .. q - p + 1 : rest[i] = elems[p + i - 1]
  BY <1>1, <1>2, <1>4, SubSeqProperties
<1>7. Len(rest) = q - by /\ \A i \in 1 .. q - by : rest[i] = elems[by + i] BY <1>1, <1>3, <1>5, <1>6
<1> QED BY <1>1, <1>5, <1>6, <1>7 DEF Follows, q

\* They end so much later.
LEMMA EndsLater ==
  ASSUME NEW elems, NEW rest, NEW by, Follows(elems, rest, by)
  PROVE  \A j \in 0 .. Len(rest) : EndOf(elems, by + j) = EndOf(elems, by) + EndOf(rest, j)
<1> DEFINE Bad == {j \in 0 .. Len(rest) : EndOf(elems, by + j) # EndOf(elems, by) + EndOf(rest, j)}
<1>1. /\ elems \in Seq(Elements) /\ rest \in Seq(Elements) /\ by \in Nat /\ Len(rest) \in Nat
      /\ Len(elems) = by + Len(rest) /\ \A k \in 1 .. Len(rest) : rest[k] = elems[by + k]
  BY DEF Follows
<1> SUFFICES ASSUME Bad # {} PROVE FALSE OBVIOUS
<1>2. PICK j \in Bad : \A m \in Bad : j <= m
  <2>1. Bad \in SUBSET Nat OBVIOUS
  <2> HIDE DEF Bad
  <2> QED BY <2>1, LeastNumber
<1>3. EndOf(elems, by) \in Nat
  <2>1. by \in 0 .. Len(elems) BY <1>1
  <2> QED BY <1>1, <2>1, EndTyped
<1>4. j # 0
  <2>1. by + 0 = by /\ EndOf(rest, 0) = 0 BY <1>1, EndTyped
  <2>2. EndOf(elems, by + 0) = EndOf(elems, by) + EndOf(rest, 0) BY <1>3, <2>1
  <2> QED BY <1>2, <2>2
<1>5. /\ j \in 1 .. Len(rest) /\ j - 1 \in 0 .. Len(rest) /\ ~(j <= j - 1)
      /\ by + j \in 1 .. Len(elems) /\ by + j - 1 = by + (j - 1)
  BY <1>1, <1>4
<1>6. EndOf(elems, by + (j - 1)) = EndOf(elems, by) + EndOf(rest, j - 1) BY <1>2, <1>5
<1>7. EndOf(elems, by + j) = EndOf(elems, by + j - 1) + LengthOf(elems[by + j])
  <2> DEFINE m == by + j
  <2>1. m \in 1 .. Len(elems) BY <1>5
  <2> HIDE DEF m
  <2>2. EndOf(elems, m) = EndOf(elems, m - 1) + LengthOf(elems[m]) BY <1>1, <2>1, EndTyped
  <2>3. m - 1 = by + j - 1 BY <1>1, <1>5 DEF m
  <2> QED BY <2>2, <2>3 DEF m
<1>8. /\ EndOf(rest, j) = EndOf(rest, j - 1) + LengthOf(rest[j])
      /\ EndOf(rest, j - 1) \in Nat /\ LengthOf(rest[j]) \in Nat
  BY <1>1, <1>5, EndTyped
<1>9. rest[j] = elems[by + j] BY <1>1, <1>5
<1>10. EndOf(elems, by + j) = EndOf(elems, by) + EndOf(rest, j)
  BY <1>3, <1>5, <1>6, <1>7, <1>8, <1>9
<1> QED BY <1>2, <1>10

\* And decode to the same.
LEMMA DataLater ==
  ASSUME NEW elems, NEW rest, NEW by, Follows(elems, rest, by), NEW k \in 1 .. Len(rest),
         rest[k].kind = "block"
  PROVE  /\ DataOf(rest, k) \in Seq(Outs)
         /\ DataOf(elems, by + k) = Shift(DataOf(rest, k), by)
<1> DEFINE n == rest[k].size
           j(i) == IF rest[k].type = "rle" THEN 1 ELSE i
           b == DataOf(rest, k)
           c == Shift(b, by)
<1>1. rest \in Seq(Elements) /\ by \in Nat /\ rest[k] = elems[by + k] BY DEF Follows
<1>2. b \in Seq(Outs) /\ Len(b) = n BY <1>1, DataTyped
<1>3. \A i \in 1 .. n : b[i] = [elem |-> k, unit |-> j(i), undone |-> 0] BY DEF DataOf
<1>4. DataOf(elems, by + k) = [i \in 1 .. n |-> [elem |-> by + k, unit |-> j(i), undone |-> 0]]
  BY <1>1 DEF DataOf
<1> HIDE DEF b
<1>5. c = [i \in 1 .. Len(b) |-> [b[i] EXCEPT !.elem = @ + by]] BY <1>2 DEF Shift
<1> HIDE DEF c, n, j
<1>6. ASSUME NEW i \in 1 .. n
      PROVE  [b[i] EXCEPT !.elem = @ + by] = [elem |-> by + k, unit |-> j(i), undone |-> 0]
  <2>1. b[i] = [elem |-> k, unit |-> j(i), undone |-> 0] BY <1>3
  <2>2. [b[i] EXCEPT !.elem = @ + by] = [elem |-> k + by, unit |-> j(i), undone |-> 0] BY <2>1
  <2>3. k + by = by + k BY <1>1
  <2> QED BY <2>2, <2>3
<1>7. c = DataOf(elems, by + k) BY <1>2, <1>4, <1>5, <1>6
<1> QED BY <1>2, <1>7 DEF b, c

\* A footer that fits a later frame fits it alone.
MoreData(elems, k) == IF elems[k].kind = "block" THEN DataOf(elems, k) ELSE <<>>

\* data holds the output of a frame after each of the elements behind its header.
Gathers(elems, h, upto, data) ==
  /\ FrameData(elems, h, upto) = data[upto - h] /\ data[0] = <<>>
  /\ \A i \in 1 .. upto - h : data[i] = data[i - 1] \o MoreData(elems, h + i)

\* Some sequence of outputs does.
LEMMA FrameDataUnfold ==
  ASSUME NEW elems, NEW h, NEW upto, upto - h \in Nat
  PROVE  \E data : Gathers(elems, h, upto, data)
<1> DEFINE last == upto - h
           Behind(v, i) == v \o MoreData(elems, h + i)
           Solves(f, m) == f = [i \in 0 .. m |-> IF i = 0 THEN <<>> ELSE Behind(f[i - 1], i)]
           r == CHOOSE f : Solves(f, last)
           Bad == {m \in Nat : ~ \E f : Solves(f, m)}
<1>1. FrameData(elems, h, upto) = r[last] BY DEF FrameData, MoreData
<1>2. last \in Nat OBVIOUS
<1> HIDE DEF last, Behind
<1>3. Bad = {}
  <2> SUFFICES ASSUME Bad # {} PROVE FALSE OBVIOUS
  <2>1. PICK m \in Bad : \A j \in Bad : m <= j
    <3>1. Bad \in SUBSET Nat OBVIOUS
    <3> HIDE DEF Bad
    <3> QED BY <3>1, LeastNumber
  <2> HIDE DEF Solves
  <2>2. m # 0
    <3> DEFINE f == [i \in 0 .. 0 |-> <<>>]
    <3>1. \A i \in 0 .. 0 : f[i] = IF i = 0 THEN <<>> ELSE Behind(f[i - 1], i) OBVIOUS
    <3>2. f = [i \in 0 .. 0 |-> f[i]] OBVIOUS
    <3> HIDE DEF f
    <3>3. Solves(f, 0) BY <3>1, <3>2 DEF Solves
    <3>4. \E g : Solves(g, 0) BY <3>3
    <3> QED BY <2>1, <3>4
  <2>3. m - 1 \in Nat /\ m - 1 \notin Bad BY <2>1, <2>2
  <2>4. PICK f : Solves(f, m - 1) BY <2>3
  <2> DEFINE g == [i \in 0 .. m |-> IF i < m THEN f[i] ELSE Behind(f[m - 1], m)]
  <2>5. \A i \in 0 .. m : g[i] = IF i = 0 THEN <<>> ELSE Behind(g[i - 1], i)
    <3> SUFFICES ASSUME NEW i \in 0 .. m PROVE g[i] = IF i = 0 THEN <<>> ELSE Behind(g[i - 1], i) OBVIOUS
    <3>1. CASE i < m
      <4>1. i \in 0 .. m - 1 BY <3>1
      <4>2. f[i] = IF i = 0 THEN <<>> ELSE Behind(f[i - 1], i) BY <2>4, <4>1 DEF Solves
      <4>3. g[i] = f[i] /\ (i # 0 => g[i - 1] = f[i - 1]) BY <3>1
      <4> QED BY <4>2, <4>3
    <3>2. CASE i = m
      <4>1. g[m] = Behind(f[m - 1], m) /\ g[m - 1] = f[m - 1] BY <2>3
      <4> QED BY <2>2, <3>2, <4>1
    <3> QED BY <3>1, <3>2
  <2>6. Solves(g, m)
    <3>1. g = [i \in 0 .. m |-> g[i]] OBVIOUS
    <3> HIDE DEF g
    <3> QED BY <2>5, <3>1 DEF Solves
  <2> QED BY <2>1, <2>6
<1>4. Solves(r, last)
  <2> HIDE DEF Solves
  <2>1. \E f : Solves(f, last) BY <1>2, <1>3
  <2> QED BY <2>1
<1> HIDE DEF r
<1>5. r[0] = <<>> /\ \A i \in 1 .. last : r[i] = Behind(r[i - 1], i) BY <1>2, <1>4
<1> QED BY <1>1, <1>5 DEF last, Behind, Gathers

\* The output that is checksummed is the same, later.
LEMMA FrameDataLater ==
  ASSUME NEW elems, NEW rest, NEW by, Follows(elems, rest, by),
         NEW k \in 1 .. Len(rest), NEW h \in 1 .. k
  PROVE  /\ FrameData(rest, h, k) \in Seq(Outs)
         /\ FrameData(elems, by + h, by + k) = Shift(FrameData(rest, h, k), by)
<1> DEFINE n == k - h
           more(i) == MoreData(rest, h + i)
<1>1. /\ rest \in Seq(Elements) /\ by \in Nat /\ n \in Nat /\ k \in Nat /\ h \in Nat /\ Len(rest) \in Nat
      /\ \A i \in 1 .. Len(rest) : rest[i] = elems[by + i]
  BY DEF Follows
<1>2. (by + k) - (by + h) = n BY <1>1
<1>3. PICK u : /\ FrameData(rest, h, k) = u[n] /\ u[0] = <<>>
               /\ \A i \in 1 .. n : u[i] = u[i - 1] \o more(i)
  <2>1. k - h \in Nat BY <1>1
  <2>2. PICK u : Gathers(rest, h, k, u) BY <2>1, FrameDataUnfold
  <2> QED BY <2>2 DEF Gathers
<1>4. PICK v : /\ FrameData(elems, by + h, by + k) = v[n] /\ v[0] = <<>>
               /\ \A i \in 1 .. n : v[i] = v[i - 1] \o MoreData(elems, by + h + i)
  <2> DEFINE p == by + h
             q == by + k
  <2>1. q - p = n /\ q - p \in Nat BY <1>1, <1>2
  <2> HIDE DEF p, q
  <2>2. PICK v : Gathers(elems, p, q, v) BY <2>1, FrameDataUnfold
  <2> HIDE DEF n
  <2>3. /\ FrameData(elems, p, q) = v[n] /\ v[0] = <<>>
        /\ \A i \in 1 .. n : v[i] = v[i - 1] \o MoreData(elems, p + i)
    BY <2>1, <2>2 DEF Gathers
  <2> QED BY <2>3 DEF p, q
<1>5. Shift(<<>>, by) = <<>> /\ <<>> \in Seq(Outs)
  <2>1. <<>> \in Seq(Outs) /\ Len(<<>>) = 0 OBVIOUS
  <2>2. Shift(<<>>, by) \in Seq(Outs) /\ Len(Shift(<<>>, by)) = 0 BY <1>1, <2>1, ShiftTyped
  <2> QED BY <2>1, <2>2, SeqEqual
<1>6. ASSUME NEW i \in 1 .. n
      PROVE  /\ more(i) \in Seq(Outs)
             /\ MoreData(elems, by + h + i) = Shift(more(i), by)
  <2> DEFINE j == h + i
  <2>1. j \in 1 .. Len(rest) /\ by + h + i = by + j BY <1>1
  <2>2. rest[j] = elems[by + j] BY <1>1, <2>1
  <2>3. CASE rest[j].kind = "block"
    <3>1. more(i) = DataOf(rest, j) BY <2>3 DEF MoreData
    <3> HIDE DEF j, more
    <3>2. MoreData(elems, by + h + i) = DataOf(elems, by + j) BY <2>1, <2>2, <2>3 DEF MoreData
    <3>3. Follows(elems, rest, by) /\ j \in 1 .. Len(rest) /\ rest[j].kind = "block" BY <2>1, <2>3
    <3>4. DataOf(rest, j) \in Seq(Outs) /\ DataOf(elems, by + j) = Shift(DataOf(rest, j), by)
      BY ONLY <3>3, DataLater
    <3> QED BY <3>1, <3>2, <3>4
  <2>4. CASE rest[j].kind # "block"
    <3>1. more(i) = <<>> BY <2>4 DEF MoreData
    <3> HIDE DEF j, more
    <3>2. MoreData(elems, by + h + i) = <<>> BY <2>1, <2>2, <2>4 DEF MoreData
    <3> QED BY <1>5, <3>1, <3>2
  <2> QED BY <2>3, <2>4
<1> HIDE DEF n, more
<1> DEFINE Good(i) == u[i] \in Seq(Outs) /\ v[i] = Shift(u[i], by)
           Bad == {i \in 0 .. n : ~Good(i)}
<1>7. Bad = {}
  <2> SUFFICES ASSUME Bad # {} PROVE FALSE OBVIOUS
  <2>1. PICK i \in Bad : \A m \in Bad : i <= m
    <3>1. Bad \in SUBSET Nat BY <1>1
    <3> HIDE DEF Bad
    <3> QED BY <3>1, LeastNumber
  <2>2. i # 0
    <3>1. Good(0) BY <1>3, <1>4, <1>5
    <3> HIDE DEF Good
    <3> QED BY <2>1, <3>1
  <2>3. i \in 1 .. n /\ i - 1 \in 0 .. n /\ ~(i <= i - 1) BY <1>1, <2>2
  <2>4. Good(i - 1) BY <2>1, <2>3
  <2>5. u[i] = u[i - 1] \o more(i) /\ more(i) \in Seq(Outs) BY <1>3, <1>6, <2>3
  <2>6. v[i] = v[i - 1] \o Shift(more(i), by) BY <1>4, <1>6, <2>3
  <2>7. u[i] \in Seq(Outs) BY <2>4, <2>5, ConcatProperties
  <2>8. Shift(u[i - 1] \o more(i), by) = Shift(u[i - 1], by) \o Shift(more(i), by)
    BY <1>1, <2>4, <2>5, ShiftConcat
  <2>9. Good(i) BY <2>4, <2>5, <2>6, <2>7, <2>8
  <2> HIDE DEF Good
  <2> QED BY <2>1, <2>9
<1>8. Good(n)
  <2>1. n \in 0 .. n BY <1>1
  <2> HIDE DEF Good
  <2> QED BY <1>7, <2>1
<1> QED BY <1>3, <1>4, <1>8

\* If the first frame can be read, the decoder that has all at once passes it.
LEMMA FirstFramePassed ==
  ASSUME NEW elems \in Streams, NEW cap \in Nat, NEW one,
         one = Decompress(elems, EndOf(elems, FirstFrame(elems)), cap, FALSE), one.code = "ok"
  PROVE  /\ one.out \in Seq(Outs) /\ Len(one.out) <= cap
         /\ Passed(elems, cap, FirstFrame(elems), Place("header", 1, one.out))
<1> DEFINE f == FirstFrame(elems)
           n == EndOf(elems, f)
           buf == << <<0, 0>> >>
           s == Fresh(buf)
           g == AppendInput(s, SubSeq(WireOf(elems), 0 + 1, 0 + n))
           t == Turns(elems, g, cap)
<1>1. elems \in Seq(Elements) /\ f \in 0 .. Len(elems) /\ Len(elems) \in 0 .. Len(elems)
  <2>1. /\ elems \in Seq(Elements) /\ LastOf(elems) \in 2 .. Len(elems)
        /\ FirstFrame(elems) \in LastOf(elems) .. Len(elems)
    BY FrameShape
  <2> QED BY <2>1
<1>2. buf \in Seq(Nat \X Nat) /\ Len(buf) >= 1
  <2>1. <<0, 0>> \in Nat \X Nat OBVIOUS
  <2> QED BY <2>1
<1> HIDE DEF f, buf
<1>3. n \in Nat /\ Len(WireOf(elems)) \in Nat /\ n <= Len(WireOf(elems))
  <2>1. n \in Nat /\ EndOf(elems, Len(elems)) \in Nat BY <1>1, EndTyped
  <2>2. Len(WireOf(elems)) = EndOf(elems, Len(elems)) BY <1>1, WireUnits
  <2>3. f = Len(elems) \/ f < Len(elems) BY <1>1
  <2>4. f < Len(elems) => n < EndOf(elems, Len(elems)) BY <1>1, EndsGrow
  <2> QED BY <2>1, <2>2, <2>3, <2>4
<1>4. Whole(elems, cap, n) = one
  <2>1. Seen(elems, n) = n BY DEF Seen, f
  <2> QED BY <2>1 DEF Whole, f
<1> HIDE DEF n
<1>5. Within(elems, cap, s, 0, 0)
  <2> HIDE DEF s
  <2>1. s = Fresh(buf) BY DEF s
  <2> QED BY <1>2, <2>1, FreshRight
<1> HIDE DEF s
<1>6. Within(elems, cap, g, 0, 0 + n)
  <2>1. 0 + n <= Len(WireOf(elems)) BY <1>3
  <2>2. g = AppendInput(s, SubSeq(WireOf(elems), 0 + 1, 0 + n)) OBVIOUS
  <2> HIDE DEF g
  <2> QED BY <1>3, <1>5, <2>1, <2>2, GivenRight
<1> HIDE DEF g
<1>7. Within(elems, cap, g, 0, n)
  <2>1. 0 + n = n BY <1>3
  <2> QED BY <1>6, <2>1
<1>8. Outcome(elems, cap, t, n) BY <1>7, TurnsRight
<1> HIDE DEF t
<1>9. t.s.state # "error"
  <2>1. CASE t.ret \in Codes /\ Whole(elems, cap, n).code = t.s.why
    <3>1. t.s.why = "ok" BY <1>4, <2>1
    <3>2. t.s.why \in {"none", "memory"} \cup Codes BY <1>8 DEF Outcome, StreamTyped, StreamTypes
    <3> QED BY <3>1, <3>2 DEF Codes
  <2>2. CASE t.s.state # "error" BY <2>2
  <2>3. CASE Whole(elems, cap, n).code = "corrupt" BY <1>4, <2>3
  <2>4. CASE t.ret = "done" /\ t.s.state = "done" BY <2>4
  <2> QED BY <1>8, <2>1, <2>2, <2>3, <2>4 DEF Outcome
<1>10. Whole(elems, cap, n).code # "corrupt" BY <1>4
<1>11. /\ Whole(elems, cap, n) = [code |-> "ok", out |-> t.s.out]
       /\ Passed(elems, cap, f, Place("header", 1, t.s.out))
       /\ StreamTyped(t.s) /\ Len(t.s.out) <= cap
  BY <1>8, <1>9, <1>10 DEF Outcome, f
<1>12. one.out = t.s.out
  <2> DEFINE o == t.s.out
  <2>1. Whole(elems, cap, n) = [code |-> "ok", out |-> o] BY <1>11
  <2> HIDE DEF o
  <2>2. one = [code |-> "ok", out |-> o] BY ONLY <1>4, <2>1
  <2>3. one.out = o BY ONLY <2>2
  <2> QED BY <2>3 DEF o
<1>13. t.s.out \in Seq(Outs) BY <1>11 DEF StreamTyped, StreamTypes
<1> QED BY <1>11, <1>12, <1>13 DEF f

-----------------------------------------------------------------------------
(* The decoder on all frames and on those after the first, side by side. *)

\* rest follows the first elements, by of them, whose output is a.
Later(elems, rest, by, a) ==
  elems \in Streams /\ Follows(elems, rest, by) /\ rest # <<>> /\ by # 0 /\ a \in Seq(Outs)

\* Within a frame: the header and the beginning of its output are the same, later.
InFrame(elems, rest, by, a, j, r, e) ==
  /\ r.head \in 1 .. j /\ e.head = by + r.head
  /\ r.start \in 0 .. Len(r.out) /\ e.start = Len(a) + r.start
  /\ r.at = "block" => \E l \in by + j + 1 .. Len(elems) : FrameHasLast(elems, by + r.head, l)
  /\ r.at = "footer" => j < Len(rest) /\ rest[j + 1].kind = "footer"

\* One has read j elements of rest, the other the first ones and the same j.
Alike(elems, rest, by, a, j, r, e) ==
  /\ r.code \in {"on", "ok"} \cup Codes /\ e.code = r.code
  /\ r.out \in Seq(Outs) /\ e.out = a \o Shift(r.out, by)
  /\ r.code = "on" =>
       /\ r.at \in {"header", "block", "footer"} /\ e.at = r.at
       /\ r.k = j + 1 /\ e.k = by + (j + 1)
       /\ r.left = EndOf(rest, Len(rest)) - EndOf(rest, j) /\ e.left = r.left
       /\ r.at # "header" => InFrame(elems, rest, by, a, j, r, e)

\* The next elements of the two are the same, and as much is left.
LEMMA AlikeNext ==
  ASSUME NEW elems, NEW rest, NEW by, NEW a, Later(elems, rest, by, a),
         NEW j \in 0 .. Len(rest), NEW r, NEW e, Alike(elems, rest, by, a, j, r, e), r.code = "on"
  PROVE  /\ r.left \in Nat /\ e.left = r.left
         /\ r.left = 0 <=> j = Len(rest)
         /\ (r.k > 1 <=> j # 0) /\ e.k > 1
         /\ j # Len(rest) =>
              /\ rest[r.k] = elems[e.k] /\ rest[r.k] \in Elements
              /\ LengthOf(rest[r.k]) \in Nat
              /\ r.left - LengthOf(rest[r.k]) = EndOf(rest, Len(rest)) - EndOf(rest, j + 1)
<1>1. /\ rest \in Seq(Elements) /\ by \in Nat /\ by # 0 /\ Len(rest) \in Nat /\ Len(rest) # 0
      /\ \A k \in 1 .. Len(rest) : rest[k] = elems[by + k]
  BY DEF Later, Follows
<1>2. /\ r.k = j + 1 /\ e.k = by + (j + 1) /\ e.left = r.left
      /\ r.left = EndOf(rest, Len(rest)) - EndOf(rest, j)
  BY DEF Alike
<1>3. EndOf(rest, j) \in Nat /\ EndOf(rest, Len(rest)) \in Nat
  <2>1. Len(rest) \in 0 .. Len(rest) BY <1>1
  <2> QED BY <1>1, <2>1, EndTyped
<1>4. j # Len(rest) => EndOf(rest, j) < EndOf(rest, Len(rest))
  <2>1. Len(rest) \in 0 .. Len(rest) /\ (j # Len(rest) => j < Len(rest)) BY <1>1
  <2> QED BY <1>1, <2>1, EndsGrow
<1>5. ASSUME j # Len(rest)
      PROVE  /\ rest[r.k] = elems[e.k] /\ rest[r.k] \in Elements
             /\ LengthOf(rest[r.k]) \in Nat
             /\ r.left - LengthOf(rest[r.k]) = EndOf(rest, Len(rest)) - EndOf(rest, j + 1)
  <2>1. j + 1 \in 1 .. Len(rest) /\ j + 1 - 1 = j BY <1>1, <1>5
  <2>2. EndOf(rest, j + 1) = EndOf(rest, j) + LengthOf(rest[j + 1]) /\ LengthOf(rest[j + 1]) \in Nat
    BY <1>1, <2>1, EndTyped
  <2>3. rest[j + 1] = elems[by + (j + 1)] /\ rest[j + 1] \in Elements BY <1>1, <2>1
  <2> QED BY <1>2, <1>3, <2>2, <2>3
<1>6. r.left \in Nat /\ (r.left = 0 <=> j = Len(rest)) BY <1>2, <1>3, <1>4
<1>7. (r.k > 1 <=> j # 0) /\ e.k > 1 BY <1>1, <1>2
<1> QED BY <1>2, <1>5, <1>6, <1>7

\* If one stops the other does.
LEMMA StopAlike ==
  ASSUME NEW elems, NEW rest, NEW by, NEW a, NEW j, NEW r, NEW e,
         Alike(elems, rest, by, a, j, r, e), NEW code \in {"ok"} \cup Codes
  PROVE  Alike(elems, rest, by, a, j + 1, Stop(r, code), Stop(e, code))
<1> DEFINE x == Stop(r, code)
           y == Stop(e, code)
<1>1. x.code = code /\ x.out = r.out /\ y.code = code /\ y.out = e.out BY DEF Stop, Reading
<1>2. code # "on" BY DEF Codes
<1>3. r.out \in Seq(Outs) /\ e.out = a \o Shift(r.out, by) BY DEF Alike
<1> HIDE DEF x, y
<1>4. Alike(elems, rest, by, a, j + 1, x, y) BY <1>1, <1>2, <1>3 DEF Alike
<1> QED BY <1>4 DEF x, y

\* If one goes on the other does.
LEMMA PastAlike ==
  ASSUME NEW elems, NEW rest, NEW by, NEW a, Later(elems, rest, by, a),
         NEW j \in 0 .. Len(rest), NEW r, NEW e, Alike(elems, rest, by, a, j, r, e), r.code = "on",
         j # Len(rest), NEW x, NEW y,
         x.code = "on" /\ x.at \in {"header", "block", "footer"} /\ x.out \in Seq(Outs),
         x.k = r.k + 1 /\ x.left = r.left - LengthOf(rest[r.k]),
         y.code = "on" /\ y.at = x.at /\ y.out = a \o Shift(x.out, by),
         y.k = e.k + 1 /\ y.left = e.left - LengthOf(elems[e.k]),
         x.at # "header" => InFrame(elems, rest, by, a, j + 1, x, y)
  PROVE  Alike(elems, rest, by, a, j + 1, x, y)
<1>1. by \in Nat /\ r.k = j + 1 /\ e.k = by + (j + 1) /\ j \in Nat
  <2>1. by \in Nat BY DEF Later, Follows
  <2> QED BY <2>1 DEF Alike
<1>2. x.left = EndOf(rest, Len(rest)) - EndOf(rest, j + 1) /\ y.left = x.left
  BY AlikeNext
<1>3. x.k = (j + 1) + 1 /\ y.k = by + ((j + 1) + 1) BY <1>1
<1> QED BY <1>2, <1>3 DEF Alike

\* The frame ends in both.
LEMMA CloseAlike ==
  ASSUME NEW elems, NEW rest, NEW by, NEW a, Later(elems, rest, by, a),
         NEW j \in 0 .. Len(rest), NEW r, NEW e, Alike(elems, rest, by, a, j, r, e), r.code = "on",
         j # Len(rest), r.at # "header", NEW o \in Seq(Outs)
  PROVE  Alike(elems, rest, by, a, j + 1, CloseFrame(rest, r, o),
               CloseFrame(elems, e, a \o Shift(o, by)))
<1> DEFINE h == rest[r.head]
           x == CloseFrame(rest, r, o)
           y == CloseFrame(elems, e, a \o Shift(o, by))
           u == Undo(h, o, r.start)
<1>1. /\ r.head \in 1 .. j /\ e.head = by + r.head /\ r.start \in Nat /\ e.start = Len(a) + r.start
  <2>1. InFrame(elems, rest, by, a, j, r, e) /\ r.out \in Seq(Outs) BY DEF Alike
  <2> QED BY <2>1 DEF InFrame
<1>2. /\ by \in Nat /\ a \in Seq(Outs) /\ Len(rest) \in Nat
      /\ \A k \in 1 .. Len(rest) : rest[k] = elems[by + k]
  BY DEF Later, Follows
<1>3. elems[e.head] = h
  <2>1. r.head \in 1 .. Len(rest) BY <1>1, <1>2
  <2> QED BY <1>1, <1>2, <2>1
<1>4. Undo(h, a \o Shift(o, by), e.start) = a \o Shift(u, by)
  <2> DEFINE st == r.start
  <2>1. st \in Nat /\ a \in Seq(Outs) /\ o \in Seq(Outs) /\ by \in Nat BY <1>1, <1>2
  <2>2. u = Undo(h, o, st) OBVIOUS
  <2>3. e.start = Len(a) + st BY <1>1
  <2> HIDE DEF h, u, st
  <2>4. Undo(h, a \o Shift(o, by), Len(a) + st) = a \o Shift(Undo(h, o, st), by)
    BY ONLY <2>1, UndoLater
  <2> QED BY <2>2, <2>3, <2>4
<1>5. u \in Seq(Outs)
  <2> HIDE DEF h
  <2> QED BY UndoTyped
<1>6. /\ x.code = "on" /\ x.at = "header" /\ x.out = u /\ x.k = r.k + 1
      /\ x.left = r.left - LengthOf(rest[r.k])
  BY DEF CloseFrame, Past, Reading
<1>7. /\ y.code = "on" /\ y.at = "header" /\ y.out = Undo(elems[e.head], a \o Shift(o, by), e.start)
      /\ y.k = e.k + 1 /\ y.left = e.left - LengthOf(elems[e.k])
  BY DEF CloseFrame, Past, Reading
<1> HIDE DEF x, y, h, u
<1>8. /\ x.code = "on" /\ x.at \in {"header", "block", "footer"} /\ x.out \in Seq(Outs)
      /\ x.k = r.k + 1 /\ x.left = r.left - LengthOf(rest[r.k])
      /\ y.code = "on" /\ y.at = x.at /\ y.out = a \o Shift(x.out, by)
      /\ y.k = e.k + 1 /\ y.left = e.left - LengthOf(elems[e.k])
      /\ ~(x.at # "header")
  BY <1>3, <1>4, <1>5, <1>6, <1>7
<1>9. Alike(elems, rest, by, a, j + 1, x, y) BY <1>8, PastAlike
<1> QED BY <1>9 DEF x, y

\* A header.
LEMMA HeaderAlike ==
  ASSUME NEW elems, NEW rest, NEW by, NEW a, Later(elems, rest, by, a),
         NEW j \in 0 .. Len(rest), NEW r, NEW e, Alike(elems, rest, by, a, j, r, e), r.code = "on",
         r.at = "header"
  PROVE  Alike(elems, rest, by, a, j + 1, TakeHeader(rest, r), TakeHeader(elems, e))
<1> DEFINE z == rest[r.k]
           x == Past(rest, r, "block", r.k, Len(r.out), r.out)
           y == Past(elems, e, "block", e.k, Len(e.out), e.out)
<1>1. /\ r.left \in Nat /\ e.left = r.left /\ (r.left = 0 <=> j = Len(rest))
      /\ (r.k > 1 <=> j # 0) /\ e.k > 1 /\ (j # Len(rest) => z = elems[e.k] /\ z \in Elements)
  BY AlikeNext
<1>2. /\ by \in Nat /\ a \in Seq(Outs) /\ Len(rest) \in Nat /\ Len(rest) # 0 /\ elems \in Streams
      /\ Len(elems) = by + Len(rest)
  BY DEF Later, Follows
<1>3. \A code \in {"ok"} \cup Codes : Alike(elems, rest, by, a, j + 1, Stop(r, code), Stop(e, code))
  BY StopAlike
<1>4. CASE j = Len(rest)
  <2>1. TakeHeader(rest, r) = Stop(r, "ok") BY <1>1, <1>2, <1>4 DEF TakeHeader
  <2>2. TakeHeader(elems, e) = Stop(e, "ok") BY <1>1, <1>2, <1>4 DEF TakeHeader
  <2> QED BY <1>3, <2>1, <2>2
<1>5. CASE j # Len(rest) /\ r.left < HeaderLen
  <2>1. TakeHeader(rest, r) = Stop(r, "corrupt") BY <1>1, <1>2, <1>5 DEF TakeHeader
  <2>2. TakeHeader(elems, e) = Stop(e, "corrupt") BY <1>1, <1>2, <1>5 DEF TakeHeader
  <2> QED BY <1>3, <2>1, <2>2 DEF Codes
<1>6. CASE j # Len(rest) /\ ~(r.left < HeaderLen) /\ (z.kind # "header" \/ z.fault = "magic")
  <2>1. TakeHeader(rest, r) = Stop(r, "magic") BY <1>1, <1>2, <1>6 DEF TakeHeader
  <2>2. TakeHeader(elems, e) = Stop(e, "magic") BY <1>1, <1>2, <1>6 DEF TakeHeader
  <2> QED BY <1>3, <2>1, <2>2 DEF Codes
<1>7. CASE /\ j # Len(rest) /\ ~(r.left < HeaderLen) /\ ~(z.kind # "header" \/ z.fault = "magic")
           /\ z.fault # "none"
  <2>1. TakeHeader(rest, r) = Stop(r, "corrupt") BY <1>1, <1>2, <1>7 DEF TakeHeader
  <2>2. TakeHeader(elems, e) = Stop(e, "corrupt") BY <1>1, <1>2, <1>7 DEF TakeHeader
  <2> QED BY <1>3, <2>1, <2>2 DEF Codes
<1>8. CASE /\ j # Len(rest) /\ ~(r.left < HeaderLen) /\ ~(z.kind # "header" \/ z.fault = "magic")
           /\ ~(z.fault # "none")
  <2>1. TakeHeader(rest, r) = x BY <1>1, <1>2, <1>8 DEF TakeHeader
  <2>2. TakeHeader(elems, e) = y BY <1>1, <1>2, <1>8 DEF TakeHeader
  <2>3. r.k = j + 1 /\ e.k = by + (j + 1) /\ r.out \in Seq(Outs) /\ e.out = a \o Shift(r.out, by)
    BY <1>8 DEF Alike
  <2>4. Len(e.out) = Len(a) + Len(r.out) /\ Len(r.out) \in Nat /\ Len(a) \in Nat
    <3> DEFINE c == Shift(r.out, by)
    <3>1. c \in Seq(Outs) /\ Len(c) = Len(r.out) BY <1>2, <2>3, ShiftTyped
    <3> HIDE DEF c
    <3>2. Len(a \o c) = Len(a) + Len(c) BY <1>2, <3>1
    <3> QED BY <1>2, <2>3, <3>1, <3>2 DEF c
  <2>5. PICK l \in by + (j + 1) + 1 .. Len(elems) : FrameHasLast(elems, by + (j + 1), l)
    <3> DEFINE k == by + (j + 1)
    <3>1. k \in DOMAIN elems
      <4>1. elems \in Seq(Elements) BY <1>2, DStreamAssumption
      <4>2. k \in 1 .. Len(elems) BY <1>2, <1>8
      <4> QED BY <4>1, <4>2
    <3>2. elems[k].kind = "header" BY <1>1, <1>8, <2>3
    <3> HIDE DEF k
    <3>3. \E l \in k + 1 .. Len(elems) : FrameHasLast(elems, k, l)
      BY <1>2, <3>1, <3>2, DStreamAssumption
    <3> QED BY <3>3 DEF k
  <2>6. /\ x.code = "on" /\ x.at = "block" /\ x.head = r.k /\ x.start = Len(r.out) /\ x.out = r.out
        /\ x.k = r.k + 1 /\ x.left = r.left - LengthOf(rest[r.k])
    BY DEF Past, Reading
  <2>7. /\ y.code = "on" /\ y.at = "block" /\ y.head = e.k /\ y.start = Len(e.out) /\ y.out = e.out
        /\ y.k = e.k + 1 /\ y.left = e.left - LengthOf(elems[e.k])
    BY DEF Past, Reading
  <2> HIDE DEF x, y
  <2>8. InFrame(elems, rest, by, a, j + 1, x, y)
    <3>1. x.head \in 1 .. j + 1 /\ y.head = by + x.head BY <2>3, <2>6, <2>7
    <3>2. x.start \in 0 .. Len(x.out) /\ y.start = Len(a) + x.start BY <2>4, <2>6, <2>7
    <3>3. \E m \in by + (j + 1) + 1 .. Len(elems) : FrameHasLast(elems, by + x.head, m)
      BY <2>3, <2>5, <2>6
    <3> QED BY <2>6, <3>1, <3>2, <3>3 DEF InFrame
  <2>9. Alike(elems, rest, by, a, j + 1, x, y)
    <3>1. /\ x.code = "on" /\ x.at \in {"header", "block", "footer"} /\ x.out \in Seq(Outs)
          /\ x.k = r.k + 1 /\ x.left = r.left - LengthOf(rest[r.k])
          /\ y.code = "on" /\ y.at = x.at /\ y.out = a \o Shift(x.out, by)
          /\ y.k = e.k + 1 /\ y.left = e.left - LengthOf(elems[e.k])
      BY <2>3, <2>6, <2>7
    <3> QED BY <1>8, <2>8, <3>1, PastAlike
  <2> QED BY <2>1, <2>2, <2>9
<1> QED BY <1>4, <1>5, <1>6, <1>7, <1>8

\* A block.
LEMMA BlockAlike ==
  ASSUME NEW elems, NEW rest, NEW by, NEW a, NEW cap \in Nat, Later(elems, rest, by, a),
         NEW j \in 0 .. Len(rest), NEW r, NEW e, Alike(elems, rest, by, a, j, r, e), r.code = "on",
         r.at = "block"
  PROVE  Alike(elems, rest, by, a, j + 1, TakeBlock(rest, r, cap - Len(a)), TakeBlock(elems, e, cap))
<1> DEFINE z == rest[r.k]
           b == DataOf(rest, r.k)
           o == r.out \o b
           v == a \o Shift(o, by)
           fault == BlockFault(z, cap - Len(e.out))
           goes(at) == Past(rest, r, at, r.head, r.start, o)
           comes(at) == Past(elems, e, at, e.head, e.start, v)
<1>1. /\ by \in Nat /\ a \in Seq(Outs) /\ rest \in Seq(Elements) /\ Len(rest) \in Nat
      /\ Len(elems) = by + Len(rest) /\ Len(elems) \in Nat
      /\ \A k \in 1 .. Len(rest) : rest[k] = elems[by + k]
  BY DEF Later, Follows
<1>2. /\ r.k = j + 1 /\ e.k = by + (j + 1) /\ e.code = "on" /\ e.at = "block"
      /\ r.out \in Seq(Outs) /\ e.out = a \o Shift(r.out, by)
      /\ InFrame(elems, rest, by, a, j, r, e)
  BY DEF Alike
<1>3. PICK l \in by + j + 1 .. Len(elems) : FrameHasLast(elems, by + r.head, l) BY <1>2 DEF InFrame
<1>4. /\ r.head \in 1 .. j /\ e.head = by + r.head
      /\ r.start \in 0 .. Len(r.out) /\ e.start = Len(a) + r.start
  BY <1>2 DEF InFrame
<1>5. j # Len(rest) BY <1>1, <1>3
<1>6. /\ r.left \in Nat /\ e.left = r.left
      /\ z = elems[e.k] /\ z \in Elements /\ LengthOf(z) \in Nat
  BY <1>5, AlikeNext
<1>7. z.kind = "block" /\ (z.last <=> by + (j + 1) = l)
  <2>1. by + (j + 1) \in (by + r.head) + 1 .. l BY <1>1, <1>3, <1>4
  <2>2. elems[by + (j + 1)].kind = "block" /\ (elems[by + (j + 1)].last <=> by + (j + 1) = l)
    BY <1>3, <2>1 DEF FrameHasLast
  <2> QED BY <1>2, <1>6, <2>2
<1>8. b \in Seq(Outs) /\ DataOf(elems, e.k) = Shift(b, by)
  <2> DEFINE k == j + 1
  <2>1. k \in 1 .. Len(rest) BY <1>1, <1>5
  <2>2. rest[k].kind = "block" BY <1>2, <1>7
  <2>3. Follows(elems, rest, by) BY DEF Later
  <2> HIDE DEF k
  <2>4. DataOf(rest, k) \in Seq(Outs) /\ DataOf(elems, by + k) = Shift(DataOf(rest, k), by)
    BY ONLY <2>1, <2>2, <2>3, DataLater
  <2> QED BY <1>2, <2>4 DEF k
<1> HIDE DEF b
<1>9. o \in Seq(Outs) /\ Len(r.out) \in Nat /\ Len(o) >= Len(r.out)
  <2>1. o \in Seq(Outs) /\ Len(o) = Len(r.out) + Len(b) BY <1>2, <1>8, ConcatProperties
  <2>2. Len(r.out) \in Nat /\ Len(b) \in Nat BY <1>2, <1>8
  <2> QED BY <2>1, <2>2
<1>10. e.out \o DataOf(elems, e.k) = v
  <2> DEFINE p == Shift(r.out, by)
             q == Shift(b, by)
  <2>1. Shift(o, by) = p \o q BY <1>1, <1>2, <1>8, ShiftConcat
  <2>2. p \in Seq(Outs) /\ q \in Seq(Outs) BY <1>1, <1>2, <1>8, ShiftTyped
  <2>3. e.out = a \o p /\ DataOf(elems, e.k) = q BY <1>2, <1>8
  <2> HIDE DEF p, q, o
  <2>4. a \in Seq(Outs) /\ p \in Seq(Outs) /\ q \in Seq(Outs) BY <1>1, <2>2
  <2>5. (a \o p) \o q = a \o (p \o q) BY ONLY <2>4, ConcatAssociative
  <2> QED BY <2>1, <2>3, <2>5
<1>11. cap - Len(a) - Len(r.out) = cap - Len(e.out)
  <2> DEFINE p == Shift(r.out, by)
  <2>1. p \in Seq(Outs) /\ Len(p) = Len(r.out) BY <1>1, <1>2, ShiftTyped
  <2>2. e.out = a \o p BY <1>2
  <2> HIDE DEF p
  <2>3. Len(a \o p) = Len(a) + Len(p) BY <1>1, <2>1, ConcatProperties
  <2>4. Len(a) \in Nat BY <1>1
  <2> QED BY <1>9, <2>1, <2>2, <2>3, <2>4
<1> HIDE DEF v, o
<1>12. \A code \in Codes : Alike(elems, rest, by, a, j + 1, Stop(r, code), Stop(e, code))
  BY StopAlike
<1>13. fault \in {"none"} \cup Codes BY DEF BlockFault, Codes
<1>14. \A at \in {"header", "block", "footer"} :
         /\ goes(at).code = "on" /\ goes(at).at = at /\ goes(at).head = r.head
         /\ goes(at).start = r.start /\ goes(at).out = o /\ goes(at).k = r.k + 1
         /\ goes(at).left = r.left - LengthOf(rest[r.k])
         /\ comes(at).code = "on" /\ comes(at).at = at /\ comes(at).head = e.head
         /\ comes(at).start = e.start /\ comes(at).out = v /\ comes(at).k = e.k + 1
         /\ comes(at).left = e.left - LengthOf(elems[e.k])
  BY DEF Past, Reading
<1> HIDE DEF goes, comes, z, fault
<1>15. ASSUME NEW at \in {"block", "footer"},
              at = "block" => \E m \in by + (j + 1) + 1 .. Len(elems) : FrameHasLast(elems, by + r.head, m),
              at = "footer" => j + 1 < Len(rest) /\ rest[(j + 1) + 1].kind = "footer"
       PROVE  Alike(elems, rest, by, a, j + 1, goes(at), comes(at))
  <2> DEFINE x == goes(at)
             y == comes(at)
  <2>1. /\ x.code = "on" /\ x.at = at /\ x.head = r.head /\ x.start = r.start /\ x.out = o
        /\ x.k = r.k + 1 /\ x.left = r.left - LengthOf(rest[r.k])
        /\ y.code = "on" /\ y.at = at /\ y.head = e.head /\ y.start = e.start /\ y.out = v
        /\ y.k = e.k + 1 /\ y.left = e.left - LengthOf(elems[e.k])
    BY <1>14
  <2> HIDE DEF x, y
  <2>2. InFrame(elems, rest, by, a, j + 1, x, y)
    <3>1. x.head \in 1 .. j + 1 /\ y.head = by + x.head BY <1>4, <2>1
    <3>2. x.start \in 0 .. Len(x.out) /\ y.start = Len(a) + x.start
      <4>1. Len(o) \in Nat BY <1>9
      <4> QED BY <1>4, <1>9, <2>1, <4>1
    <3> QED BY <1>15, <2>1, <3>1, <3>2 DEF InFrame
  <2>3. Alike(elems, rest, by, a, j + 1, x, y)
    <3>1. y.out = a \o Shift(x.out, by) BY <2>1 DEF v
    <3>2. x.at \in {"header", "block", "footer"} /\ x.out \in Seq(Outs) /\ y.at = x.at
      BY <1>9, <2>1
    <3> QED BY <1>5, <2>1, <2>2, <3>1, <3>2, PastAlike
  <2> QED BY <2>3 DEF x, y
<1>16. CASE r.left < BlockLen
  <2>1. /\ TakeBlock(rest, r, cap - Len(a)) = Stop(r, "corrupt")
        /\ TakeBlock(elems, e, cap) = Stop(e, "corrupt")
    BY <1>6, <1>16 DEF TakeBlock
  <2> QED BY <1>12, <2>1 DEF Codes
<1>17. CASE ~(r.left < BlockLen) /\ fault # "none"
  <2>1. /\ TakeBlock(rest, r, cap - Len(a)) = Stop(r, fault)
        /\ TakeBlock(elems, e, cap) = Stop(e, fault)
    BY <1>6, <1>11, <1>17 DEF TakeBlock, fault, z
  <2> QED BY <1>12, <1>13, <1>17, <2>1
<1>18. CASE ~(r.left < BlockLen) /\ fault = "none" /\ (r.left < LengthOf(z) \/ ~z.good)
  <2>1. /\ TakeBlock(rest, r, cap - Len(a)) = Stop(r, "corrupt")
        /\ TakeBlock(elems, e, cap) = Stop(e, "corrupt")
    BY <1>6, <1>11, <1>18 DEF TakeBlock, fault, z
  <2> QED BY <1>12, <2>1 DEF Codes
<1>19. CASE ~(r.left < BlockLen) /\ fault = "none" /\ ~(r.left < LengthOf(z) \/ ~z.good)
  <2>1. elems[e.head] = rest[r.head]
    <3>1. r.head \in 1 .. Len(rest) BY <1>1, <1>4
    <3> QED BY <1>1, <1>4, <3>1
  <2>2. CASE ~z.last
    <3>1. /\ TakeBlock(rest, r, cap - Len(a)) = goes("block")
          /\ TakeBlock(elems, e, cap) = comes("block")
      BY <1>6, <1>10, <1>11, <1>19, <2>2 DEF TakeBlock, fault, z, goes, comes, o, b
    <3>2. l \in by + (j + 1) + 1 .. Len(elems) BY <1>1, <1>3, <1>7, <2>2
    <3>3. Alike(elems, rest, by, a, j + 1, goes("block"), comes("block")) BY <1>3, <1>15, <3>2
    <3> QED BY <3>1, <3>3
  <2>3. CASE z.last /\ rest[r.head].sum
    <3>1. /\ TakeBlock(rest, r, cap - Len(a)) = goes("footer")
          /\ TakeBlock(elems, e, cap) = comes("footer")
      BY <1>6, <1>10, <1>11, <1>19, <2>1, <2>3 DEF TakeBlock, fault, z, goes, comes, o, b
    <3>2. j + 1 < Len(rest) /\ rest[(j + 1) + 1].kind = "footer"
      <4>1. elems[by + r.head].sum /\ l = by + (j + 1) BY <1>4, <1>7, <2>1, <2>3
      <4>2. l < Len(elems) /\ elems[l + 1].kind = "footer" BY <1>3, <4>1 DEF FrameHasLast
      <4>3. j + 1 < Len(rest) /\ l + 1 = by + ((j + 1) + 1) BY <1>1, <4>1, <4>2
      <4>4. (j + 1) + 1 \in 1 .. Len(rest) BY <1>1, <4>3
      <4>5. rest[(j + 1) + 1] = elems[by + ((j + 1) + 1)] BY <1>1, <4>4
      <4> QED BY <4>2, <4>3, <4>5
    <3>3. Alike(elems, rest, by, a, j + 1, goes("footer"), comes("footer")) BY <1>15, <3>2
    <3> QED BY <3>1, <3>3
  <2>4. CASE z.last /\ ~rest[r.head].sum
    <3>1. /\ TakeBlock(rest, r, cap - Len(a)) = CloseFrame(rest, r, o)
          /\ TakeBlock(elems, e, cap) = CloseFrame(elems, e, v)
      BY <1>6, <1>10, <1>11, <1>19, <2>1, <2>4 DEF TakeBlock, fault, z, o, b
    <3>2. Alike(elems, rest, by, a, j + 1, CloseFrame(rest, r, o),
                CloseFrame(elems, e, a \o Shift(o, by)))
      BY <1>5, <1>9, CloseAlike
    <3> QED BY <3>1, <3>2 DEF v
  <2> QED BY <2>2, <2>3, <2>4
<1> QED BY <1>16, <1>17, <1>18, <1>19

\* A footer.
LEMMA FooterAlike ==
  ASSUME NEW elems, NEW rest, NEW by, NEW a, Later(elems, rest, by, a),
         NEW j \in 0 .. Len(rest), NEW r, NEW e, Alike(elems, rest, by, a, j, r, e), r.code = "on",
         r.at = "footer"
  PROVE  Alike(elems, rest, by, a, j + 1, TakeFooter(rest, r, FALSE), TakeFooter(elems, e, FALSE))
<1> DEFINE z == rest[r.k]
           own == SubSeq(r.out, r.start + 1, Len(r.out))
           same == SubSeq(e.out, e.start + 1, Len(e.out))
           data == FrameData(rest, r.head, r.k)
           bad == r.left < FooterLen \/ ~z.magic \/ ~FooterFits(rest, r.k, r.head, own)
<1>1. /\ by \in Nat /\ a \in Seq(Outs) /\ rest \in Seq(Elements) /\ Len(rest) \in Nat
      /\ Follows(elems, rest, by)
  BY DEF Later, Follows
<1>2. /\ r.k = j + 1 /\ e.k = by + (j + 1)
      /\ r.out \in Seq(Outs) /\ e.out = a \o Shift(r.out, by)
      /\ InFrame(elems, rest, by, a, j, r, e)
  BY DEF Alike
<1>3. /\ r.head \in 1 .. j /\ e.head = by + r.head
      /\ r.start \in 0 .. Len(r.out) /\ e.start = Len(a) + r.start /\ j < Len(rest)
  BY <1>2 DEF InFrame
<1>4. j # Len(rest) BY <1>1, <1>3
<1>5. r.left \in Nat /\ e.left = r.left /\ z = elems[e.k] BY <1>4, AlikeNext
<1>6. own \in Seq(Outs) /\ same = Shift(own, by)
  <2> DEFINE b == r.out
             start == r.start
  <2>1. a \in Seq(Outs) /\ b \in Seq(Outs) /\ by \in Nat /\ start \in 0 .. Len(b) BY <1>1, <1>2, <1>3
  <2>2. own = SubSeq(b, start + 1, Len(b)) OBVIOUS
  <2>3. e.start + 1 = Len(a) + start + 1
    <3>1. Len(a) \in Nat /\ start \in Nat BY <2>1
    <3> QED BY <1>3, <3>1
  <2> HIDE DEF own, b, start
  <2>4. /\ SubSeq(b, start + 1, Len(b)) \in Seq(Outs)
        /\ SubSeq(a \o Shift(b, by), Len(a) + start + 1, Len(a \o Shift(b, by))) =
             Shift(SubSeq(b, start + 1, Len(b)), by)
    BY ONLY <2>1, OwnOutput
  <2>5. e.out = a \o Shift(b, by) BY <1>2 DEF b
  <2> QED BY <2>2, <2>3, <2>4, <2>5
<1>7. data \in Seq(Outs) /\ FrameData(elems, e.head, e.k) = Shift(data, by)
  <2> DEFINE k == j + 1
             h == r.head
  <2>1. k \in 1 .. Len(rest) /\ h \in 1 .. k BY <1>1, <1>3
  <2>2. Follows(elems, rest, by) BY <1>1
  <2>3. e.k = by + k /\ e.head = by + h /\ r.k = k BY <1>2, <1>3
  <2> HIDE DEF k, h
  <2>4. /\ FrameData(rest, h, k) \in Seq(Outs)
        /\ FrameData(elems, by + h, by + k) = Shift(FrameData(rest, h, k), by)
    BY ONLY <2>1, <2>2, FrameDataLater
  <2> QED BY <2>3, <2>4 DEF h
<1> HIDE DEF own, same, data
<1>8. FooterFits(elems, e.k, e.head, same) <=> FooterFits(rest, r.k, r.head, own)
  <2>1. same = Shift(data, by) <=> own = data BY <1>1, <1>6, <1>7, ShiftInjective
  <2>2. FooterFits(rest, r.k, r.head, own) <=> z.right /\ own = data BY DEF FooterFits, data
  <2>3. FooterFits(elems, e.k, e.head, same) <=> elems[e.k].right /\ same = Shift(data, by)
    BY <1>7 DEF FooterFits
  <2> QED BY <1>5, <2>1, <2>2, <2>3
<1>9. CASE bad
  <2>1. TakeFooter(rest, r, FALSE) = Stop(r, "corrupt") BY <1>9 DEF TakeFooter, own
  <2>2. TakeFooter(elems, e, FALSE) = Stop(e, "corrupt") BY <1>5, <1>8, <1>9 DEF TakeFooter, same
  <2>3. Alike(elems, rest, by, a, j + 1, Stop(r, "corrupt"), Stop(e, "corrupt"))
    BY StopAlike DEF Codes
  <2> QED BY <2>1, <2>2, <2>3
<1>10. CASE ~bad
  <2>1. TakeFooter(rest, r, FALSE) = CloseFrame(rest, r, r.out) BY <1>10 DEF TakeFooter, own
  <2>2. TakeFooter(elems, e, FALSE) = CloseFrame(elems, e, e.out)
    BY <1>5, <1>8, <1>10 DEF TakeFooter, same
  <2>3. Alike(elems, rest, by, a, j + 1, CloseFrame(rest, r, r.out),
              CloseFrame(elems, e, a \o Shift(r.out, by)))
    BY <1>2, <1>4, CloseAlike
  <2> QED BY <1>2, <2>1, <2>2, <2>3
<1> QED BY <1>9, <1>10

\* Whatever is next.
LEMMA ReadAlike ==
  ASSUME NEW elems, NEW rest, NEW by, NEW a, NEW cap \in Nat, Later(elems, rest, by, a),
         NEW j \in 0 .. Len(rest), NEW r, NEW e, Alike(elems, rest, by, a, j, r, e)
  PROVE  Alike(elems, rest, by, a, j + 1, Step(rest, r, cap - Len(a)), Step(elems, e, cap))
<1> DEFINE x == ReadElement(rest, r, cap - Len(a), FALSE)
           y == ReadElement(elems, e, cap, FALSE)
<1>1. e.code = r.code BY DEF Alike
<1>2. CASE r.code # "on"
  <2>1. Step(rest, r, cap - Len(a)) = r /\ Step(elems, e, cap) = e BY <1>1, <1>2 DEF Step, ReadOn
  <2>2. Alike(elems, rest, by, a, j + 1, r, e) BY <1>2 DEF Alike
  <2> QED BY <2>1, <2>2
<1>3. CASE r.code = "on"
  <2>1. Step(rest, r, cap - Len(a)) = x /\ Step(elems, e, cap) = y BY <1>1, <1>3 DEF Step, ReadOn
  <2>2. r.at \in {"header", "block", "footer"} /\ e.at = r.at BY <1>3 DEF Alike
  <2>3. CASE r.at = "header"
    <3>1. x = TakeHeader(rest, r) /\ y = TakeHeader(elems, e) BY <2>2, <2>3 DEF ReadElement
    <3>2. Alike(elems, rest, by, a, j + 1, TakeHeader(rest, r), TakeHeader(elems, e))
      BY <1>3, <2>3, HeaderAlike
    <3> QED BY <2>1, <3>1, <3>2
  <2>4. CASE r.at = "block"
    <3>1. x = TakeBlock(rest, r, cap - Len(a)) /\ y = TakeBlock(elems, e, cap)
      BY <2>2, <2>4 DEF ReadElement
    <3>2. Alike(elems, rest, by, a, j + 1, TakeBlock(rest, r, cap - Len(a)), TakeBlock(elems, e, cap))
      BY <1>3, <2>4, BlockAlike
    <3> QED BY <2>1, <3>1, <3>2
  <2>5. CASE r.at = "footer"
    <3>1. x = TakeFooter(rest, r, FALSE) /\ y = TakeFooter(elems, e, FALSE)
      BY <2>2, <2>5 DEF ReadElement
    <3>2. Alike(elems, rest, by, a, j + 1, TakeFooter(rest, r, FALSE), TakeFooter(elems, e, FALSE))
      BY <1>3, <2>5, FooterAlike
    <3> QED BY <2>1, <3>1, <3>2
  <2> QED BY <2>2, <2>3, <2>4, <2>5
<1> QED BY <1>2, <1>3

\* To the end.
LEMMA AlikeToTheEnd ==
  ASSUME NEW elems, NEW rest, NEW by, NEW a, NEW cap \in Nat, Later(elems, rest, by, a),
         Passed(elems, cap, by, Place("header", 1, a)), NEW rd, NEW el,
         rd = ReadsOf(rest, EndOf(rest, Len(rest)), cap - Len(a)),
         el = ReadsOf(elems, EndOf(elems, Len(elems)), cap)
  PROVE  Alike(elems, rest, by, a, Len(rest) + 1, rd[Len(rest) + 1], el[Len(elems) + 1])
<1> DEFINE n == EndOf(rest, Len(rest))
           m == EndOf(elems, Len(elems))
           l == Len(rest)
           Good(j) == Alike(elems, rest, by, a, j, rd[j], el[by + j])
           Bad == {j \in 0 .. l + 1 : ~Good(j)}
<1>1. /\ by \in Nat /\ a \in Seq(Outs) /\ rest \in Seq(Elements) /\ l \in Nat /\ l # 0
      /\ elems \in Seq(Elements) /\ Len(elems) = by + l /\ Len(elems) \in Nat
      /\ Follows(elems, rest, by)
  BY DEF Later, Follows
<1>2. /\ n \in Nat /\ EndOf(elems, by) \in Nat /\ m = EndOf(elems, by) + n
      /\ EndOf(rest, 0) = 0 /\ m \in Nat /\ m >= EndOf(elems, by) /\ m - EndOf(elems, by) = n
  <2>1. by \in 0 .. Len(elems) /\ l \in 0 .. l BY <1>1
  <2>2. n \in Nat /\ EndOf(elems, by) \in Nat /\ EndOf(rest, 0) = 0 BY <1>1, <2>1, EndTyped
  <2>3. m = EndOf(elems, by) + n BY <1>1, <2>1, EndsLater
  <2> QED BY <2>2, <2>3
<1>3. /\ rd[0] = Beginning(n)
      /\ \A i \in 1 .. l + 1 : rd[i] = Step(rest, rd[i - 1], cap - Len(a))
  <2> DEFINE c == cap - Len(a)
  <2>1. l \in Nat BY <1>1
  <2>2. rd = ReadsOf(rest, n, c) OBVIOUS
  <2> HIDE DEF n, c
  <2>3. /\ ReadsOf(rest, n, c)[0] = Beginning(n)
        /\ \A i \in 1 .. Len(rest) + 1 : ReadsOf(rest, n, c)[i] = Step(rest, ReadsOf(rest, n, c)[i - 1], c)
    BY <2>1, ReadsUnfold
  <2> QED BY <2>2, <2>3 DEF c
<1>4. \A i \in 1 .. Len(elems) + 1 : el[i] = Step(elems, el[i - 1], cap)
  <2> HIDE DEF m
  <2>1. el = ReadsOf(elems, m, cap) BY DEF m
  <2>2. \A i \in 1 .. Len(elems) + 1 :
          ReadsOf(elems, m, cap)[i] = Step(elems, ReadsOf(elems, m, cap)[i - 1], cap)
    BY <1>1, ReadsUnfold
  <2> QED BY <2>1, <2>2
<1>5. el[by] = Here(Place("header", 1, a), by, n)
  <2> HIDE DEF n, m
  <2>1. el = ReadsOf(elems, m, cap) BY DEF m
  <2>2. ReadsOf(elems, m, cap)[by] = Here(Place("header", 1, a), by, m - EndOf(elems, by))
    BY <1>2 DEF Passed
  <2> QED BY <1>2, <2>1, <2>2
<1>6. Good(0)
  <2> DEFINE r == rd[0]
             e == el[by + 0]
  <2>1. /\ r.code = "on" /\ r.at = "header" /\ r.k = 1 /\ r.out = <<>> /\ r.left = n
    BY <1>3 DEF Beginning, Reading
  <2>2. /\ e.code = "on" /\ e.at = "header" /\ e.k = by + 1 /\ e.out = a /\ e.left = n
    <3>1. by + 0 = by BY <1>1
    <3>2. e = Here(Place("header", 1, a), by, n) BY <1>5, <3>1
    <3> HIDE DEF e
    <3> QED BY <3>2, HereIs
  <2>3. <<>> \in Seq(Outs) /\ a \o Shift(<<>>, by) = a
    <3>1. <<>> \in Seq(Outs) /\ Len(<<>>) = 0 OBVIOUS
    <3>2. Shift(<<>>, by) \in Seq(Outs) /\ Len(Shift(<<>>, by)) = 0 BY <1>1, <3>1, ShiftTyped
    <3>3. Shift(<<>>, by) = <<>> BY <3>1, <3>2, SeqEqual
    <3>4. a \o <<>> = a BY <1>1, ConcatEmptySeq
    <3> QED BY <3>1, <3>3, <3>4
  <2>4. n = EndOf(rest, Len(rest)) - EndOf(rest, 0) BY <1>2
  <2> HIDE DEF r, e, n
  <2>5. Alike(elems, rest, by, a, 0, r, e)
    <3>1. 0 + 1 = 1 OBVIOUS
    <3> QED BY <2>1, <2>2, <2>3, <2>4, <3>1 DEF Alike
  <2> QED BY <2>5 DEF r, e
<1>7. ASSUME NEW j \in 0 .. l, Good(j) PROVE Good(j + 1)
  <2>1. /\ j + 1 \in 1 .. l + 1 /\ (j + 1) - 1 = j /\ by + (j + 1) \in 1 .. Len(elems) + 1
        /\ (by + (j + 1)) - 1 = by + j
    BY <1>1
  <2>2. rd[j + 1] = Step(rest, rd[j], cap - Len(a)) BY <1>3, <2>1
  <2>3. el[by + (j + 1)] = Step(elems, el[by + j], cap) BY <1>4, <2>1
  <2>4. Alike(elems, rest, by, a, j + 1, Step(rest, rd[j], cap - Len(a)), Step(elems, el[by + j], cap))
    BY <1>7, ReadAlike
  <2> QED BY <2>2, <2>3, <2>4
<1> HIDE DEF Good, l
<1>8. Bad = {}
  <2> SUFFICES ASSUME Bad # {} PROVE FALSE OBVIOUS
  <2>1. PICK j \in Bad : \A i \in Bad : j <= i
    <3>1. Bad \in SUBSET Nat BY <1>1
    <3> HIDE DEF Bad
    <3> QED BY <3>1, LeastNumber
  <2>2. j # 0 BY <1>6, <2>1
  <2>3. j - 1 \in 0 .. l /\ j - 1 \in 0 .. l + 1 /\ ~(j <= j - 1) /\ (j - 1) + 1 = j BY <1>1, <2>2
  <2>4. Good(j - 1) BY <2>1, <2>3
  <2>5. Good((j - 1) + 1) BY <1>7, <2>3, <2>4
  <2> QED BY <2>1, <2>3, <2>5
<1>9. Good(l + 1)
  <2>1. l + 1 \in 0 .. l + 1 BY <1>1
  <2> QED BY <1>8, <2>1
<1>10. by + (l + 1) = Len(elems) + 1 BY <1>1
<1> QED BY <1>9, <1>10 DEF Good, l


\* The frames after the first decode as they would alone.
Apart(elems, cap) ==
  LET n == Len(WireOf(elems))
      by == FirstFrame(elems)
      rest == SubSeq(elems, by + 1, Len(elems))
      all == Decompress(elems, n, cap, FALSE)
      one == Decompress(elems, EndOf(elems, by), cap, FALSE)
      two == Decompress(rest, n - EndOf(elems, by), cap - Len(one.out), FALSE)
  IN  rest # <<>> /\ one.code = "ok" =>
        /\ all.code = two.code
        /\ all.code = "ok" => all.out = one.out \o Shift(two.out, by)

\* That is how they decode.
LEMMA RestAlone ==
  ASSUME NEW elems \in Streams, NEW cap \in Nat
  PROVE  Apart(elems, cap)
<1> DEFINE n == Len(WireOf(elems))
           by == FirstFrame(elems)
           rest == SubSeq(elems, by + 1, Len(elems))
           all == Decompress(elems, n, cap, FALSE)
           one == Decompress(elems, EndOf(elems, by), cap, FALSE)
           a == one.out
           two == Decompress(rest, n - EndOf(elems, by), cap - Len(a), FALSE)
           rd == ReadsOf(rest, EndOf(rest, Len(rest)), cap - Len(a))
           el == ReadsOf(elems, EndOf(elems, Len(elems)), cap)
           r == rd[Len(rest) + 1]
           e == el[Len(elems) + 1]
<1> SUFFICES ASSUME rest # <<>>, one.code = "ok"
             PROVE  /\ all.code = two.code
                    /\ all.code = "ok" => all.out = a \o Shift(two.out, by)
  BY DEF Apart
<1>1. elems \in Seq(Elements) /\ by \in 0 .. Len(elems) /\ by # 0 /\ Len(elems) \in Nat
  <2>1. /\ elems \in Seq(Elements) /\ LastOf(elems) \in 2 .. Len(elems)
        /\ FirstFrame(elems) \in LastOf(elems) .. Len(elems)
    BY FrameShape
  <2> QED BY <2>1
<1>2. a \in Seq(Outs) /\ Passed(elems, cap, by, Place("header", 1, a)) BY FirstFramePassed
<1>3. rest = SubSeq(elems, by + 1, Len(elems)) /\ rest # <<>> OBVIOUS
<1>4. n = EndOf(elems, Len(elems)) BY <1>1, WireUnits
<1>5. two = Decompress(rest, n - EndOf(elems, by), cap - Len(a), FALSE) OBVIOUS
<1>6. all = Decompress(elems, n, cap, FALSE) OBVIOUS
<1> HIDE DEF n, by, rest, all, one, a, two
<1>7. Follows(elems, rest, by) BY <1>1, <1>3, RestFollows
<1>8. Later(elems, rest, by, a) BY <1>1, <1>2, <1>3, <1>7 DEF Later
<1>9. n - EndOf(elems, by) = EndOf(rest, Len(rest))
  <2>1. /\ Len(rest) \in Nat /\ rest \in Seq(Elements) /\ Len(elems) = by + Len(rest)
    BY <1>7 DEF Follows
  <2>2. Len(rest) \in 0 .. Len(rest) BY <2>1
  <2>3. EndOf(rest, Len(rest)) \in Nat /\ EndOf(elems, by) \in Nat BY <1>1, <2>1, <2>2, EndTyped
  <2>4. EndOf(elems, by + Len(rest)) = EndOf(elems, by) + EndOf(rest, Len(rest))
    BY <1>7, <2>2, EndsLater
  <2> QED BY <1>4, <2>1, <2>3, <2>4
<1>10. two = [code |-> r.code, out |-> IF r.code = "ok" THEN r.out ELSE <<>>]
  BY <1>5, <1>9 DEF Decompress, ReadsOf
<1>11. all = [code |-> e.code, out |-> IF e.code = "ok" THEN e.out ELSE <<>>]
  BY <1>4, <1>6 DEF Decompress, ReadsOf
<1>12. Alike(elems, rest, by, a, Len(rest) + 1, r, e)
  <2> HIDE DEF rd, el
  <2>1. Alike(elems, rest, by, a, Len(rest) + 1, rd[Len(rest) + 1], el[Len(elems) + 1])
    BY <1>2, <1>8, AlikeToTheEnd DEF rd, el
  <2> QED BY <2>1
<1> HIDE DEF r, e
<1>13. r.code = e.code /\ e.out = a \o Shift(r.out, by) BY <1>12 DEF Alike
<1>14. two.code = r.code /\ all.code = e.code BY <1>10, <1>11
<1>15. ASSUME all.code = "ok" PROVE all.out = a \o Shift(two.out, by)
  <2>1. r.code = "ok" /\ e.code = "ok" BY <1>13, <1>14, <1>15
  <2>2. two.out = r.out BY <1>10, <2>1
  <2>3. all.out = e.out BY <1>11, <2>1
  <2> QED BY <1>13, <2>2, <2>3
<1> QED BY <1>13, <1>14, <1>15

\* Frames that follow each other decode as each would alone: the filter of one
\* leaves the output of another as it is, and each checksum is over its own
\* frame's output (vv_decoder.c:712-858).
THEOREM FramesAreAlone == Spec => []FramesStandAlone
<1>1. StreamInv => FramesStandAlone
  <2> SUFFICES ASSUME StreamInv PROVE FramesStandAlone OBVIOUS
  <2>1. elements \in Streams /\ room \in Nat BY DStreamAssumption DEF StreamInv
  <2>2. Apart(elements, room) BY <2>1, RestAlone
  <2>3. FrameEnd = EndOf(elements, FirstFrame(elements)) BY DEF FrameEnd, EndOf
  <2> QED BY <2>2, <2>3 DEF Apart, FramesStandAlone
<1> QED BY <1>1, StreamInvariance, PTL
=============================================================================
