----------------------------- MODULE BlockIndex -----------------------------
(***************************************************************************)
(* What an archive writer expects of the deduplication index: a map from   *)
(* block contents to the offset of the block written for them.  The index  *)
(* may refuse to learn a block, which costs space only; it never forgets   *)
(* and never changes an answer.                                            *)
(***************************************************************************)
EXTENDS Integers

CONSTANT Keys   \* fingerprints with their digests

VARIABLES
  known,    \* the map
  offset,   \* where the next block goes
  refs      \* references made so far: pairs of a key and an offset

indexVars == <<known, offset, refs>>

IndexInit == known = [k \in {} |-> 0] /\ offset = 0 /\ refs = {}

\* The block is known: a reference to it is written.
Refer(k) ==
  /\ k \in DOMAIN known
  /\ refs' = refs \cup {<<k, known[k]>>}
  /\ UNCHANGED <<known, offset>>

\* It is not: the block is written and, perhaps, learnt.
Store(k) ==
  /\ k \notin DOMAIN known
  /\ offset' = offset + 1
  /\ \/ known' = [j \in DOMAIN known \cup {k} |-> IF j = k THEN offset ELSE known[j]]
     \/ UNCHANGED known
  /\ UNCHANGED refs

IndexNext == \E k \in Keys : Refer(k) \/ Store(k)

IndexSpec == IndexInit /\ [][IndexNext]_indexVars
=============================================================================
