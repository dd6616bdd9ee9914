----------------------------- MODULE DedupTable -----------------------------
(***************************************************************************)
(* The deduplication index of zupt_dedup.c: open addressing with linear    *)
(* probing, at most Probes probes, at most three quarters full, no         *)
(* deletion.  A key stands for a block: its XXH64, which selects the probe *)
(* chain (Home), and the SHA-256 prefix that tells it from other blocks    *)
(* with the same XXH64.                                                    *)
(***************************************************************************)
EXTENDS Integers, FiniteSets

CONSTANTS
  Keys,
  Capacity,   \* ZUPT_DEDUP_MAX_ENTRIES
  Probes,     \* 64
  Home,       \* fingerprint % capacity
  Empty,      \* a slot that is not occupied
  MaxBlocks   \* bound: blocks written

ASSUME DedupAssumption ==
  /\ Capacity \in Nat \ {0} /\ Probes \in Nat /\ Probes <= Capacity
  /\ Home \in [Keys -> 0 .. Capacity - 1]
  /\ Empty \notin [key : Keys, offset : Nat]

VARIABLES
  table,    \* ctx->table
  count,    \* ctx->count
  offset,   \* file position at which the next block goes
  refs,     \* references written
  seen,     \* blocks_seen
  deduped   \* blocks_deduped

dedupVars == <<table, count, offset, refs, seen, deduped>>

Slots == 0 .. Capacity - 1
Slot(k, i) == (Home[k] + i) % Capacity

DedupInit ==
  /\ table = [s \in Slots |-> Empty]
  /\ count = 0 /\ offset = 0 /\ refs = {} /\ seen = 0 /\ deduped = 0

\* The probe chain of k is taken up to, and without, probe i.
ChainTaken(k, i) == \A j \in 0 .. i - 1 : table[Slot(k, j)] # Empty

\* zupt_dedup_lookup_secure finds k at probe i: nothing before it is empty,
\* and fingerprint and digest match.
FoundAt(k, i) ==
  /\ i \in 0 .. Probes - 1 /\ ChainTaken(k, i)
  /\ table[Slot(k, i)] # Empty /\ table[Slot(k, i)].key = k
  /\ \A j \in 0 .. i - 1 : table[Slot(k, j)].key # k

\* Mutant: any empty slot of the chain will do.
FreeAnywhere(k, i) ==
  /\ count < (Capacity * 3) \div 4
  /\ i \in 0 .. Probes - 1
  /\ table[Slot(k, i)] = Empty

\* Mutant: the load is compared once the entry is in.
FreeAtLate(k, i) ==
  /\ count <= (Capacity * 3) \div 4
  /\ i \in 0 .. Probes - 1 /\ ChainTaken(k, i)
  /\ table[Slot(k, i)] = Empty

\* zupt_dedup_insert_secure puts k at probe i: the first empty slot, unless
\* the table is three quarters full.
FreeAt(k, i) ==
  /\ count < (Capacity * 3) \div 4
  /\ i \in 0 .. Probes - 1 /\ ChainTaken(k, i)
  /\ table[Slot(k, i)] = Empty

\* A block is seen that the index knows: a reference is written, and the hit
\* recorded.
Hit(k, i) ==
  /\ FoundAt(k, i)
  /\ refs' = refs \cup {<<k, table[Slot(k, i)].offset>>}
  /\ seen' = seen + 1 /\ deduped' = deduped + 1
  /\ UNCHANGED <<table, count, offset>>

Unknown(k) == \A i \in 0 .. Probes - 1 : ~FoundAt(k, i)

\* A block the index does not know is written, and learnt.
Learn(k, i) ==
  /\ Unknown(k) /\ FreeAt(k, i)
  /\ table' = [table EXCEPT ![Slot(k, i)] = [key |-> k, offset |-> offset]]
  /\ count' = count + 1 /\ offset' = offset + 1 /\ seen' = seen + 1
  /\ UNCHANGED <<refs, deduped>>

\* It is written, but the index is full, or its chain is.
Refuse(k) ==
  /\ Unknown(k) /\ \A i \in 0 .. Probes - 1 : ~FreeAt(k, i)
  /\ offset' = offset + 1 /\ seen' = seen + 1
  /\ UNCHANGED <<table, count, refs, deduped>>

DedupNext ==
  /\ seen < MaxBlocks
  /\ \E k \in Keys :
       \/ \E i \in 0 .. Probes - 1 : Hit(k, i) \/ Learn(k, i)
       \/ Refuse(k)

DedupSpec == DedupInit /\ [][DedupNext]_dedupVars

-----------------------------------------------------------------------------
\* The entries of the table as a map.
Taken == {s \in Slots : table[s] # Empty}
KnownKeys == {table[s].key : s \in Taken}
Known == [k \in KnownKeys |-> table[CHOOSE s \in Taken : table[s].key = k].offset]

DedupTypeOK ==
  /\ table \in [Slots -> [key : Keys, offset : Nat] \cup {Empty}]
  /\ count \in Nat /\ offset \in Nat /\ seen \in Nat /\ deduped \in Nat
  /\ refs \subseteq Keys \X Nat

\* No key twice, and every key within reach of its lookup.
OneSlotPerKey ==
  \A s, t \in Taken : table[s].key = table[t].key => s = t
Reachable ==
  \A s \in Taken : \E i \in 0 .. Probes - 1 :
    s = Slot(table[s].key, i) /\ ChainTaken(table[s].key, i)

\* The index never forgets: what was learnt is found by every later lookup,
\* in the one slot it has.
NothingForgotten == OneSlotPerKey /\ Reachable

\* The load never exceeds three quarters, so probing ends at empty slots.
LoadBounded == count = Cardinality(Taken) /\ 4 * count <= 3 * Capacity

\* PROPERTY: whatever collides, a key has one slot, within reach of its lookup,
\* and the count that limits the load is that of the slots in use
\* (zupt_dedup.c:52-155).
DedupIInv == DedupTypeOK /\ NothingForgotten /\ LoadBounded

\* PROPERTY: the table implements the map an archive writer counts on.
Index == INSTANCE BlockIndex WITH known <- Known
ImplementsIndex == Index!IndexSpec
=============================================================================
