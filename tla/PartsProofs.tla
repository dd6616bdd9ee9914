---------------------------- MODULE PartsProofs -----------------------------
(***************************************************************************)
(* Three parts that stand alone.  For any number of keys, any table size   *)
(* and any collisions, the probed table of an archive writer never         *)
(* forgets, keeps to its load and implements the map the writer counts on. *)
(* For any number of clients, any limit and period and any timing of the   *)
(* requests, the web service's table counts exactly and stays bounded.     *)
(* With any number of writers of a name, files are created whole.          *)
(***************************************************************************)
EXTENDS DedupTable, RateLimit, AtomicOutput, FiniteSetTheorems, WellFoundedInduction, TLAPS

-----------------------------------------------------------------------------
\* Slots and probes.

LEMMA SlotIsSlot ==
  ASSUME NEW k \in Keys, NEW i \in Nat
  PROVE  Slot(k, i) \in Slots
<1>1. Home[k] + i \in Nat /\ Capacity \in Nat \ {0} BY DedupAssumption
<1>2. (Home[k] + i) % Capacity \in 0 .. Capacity - 1 BY <1>1
<1> QED BY <1>2 DEF Slot, Slots

LEMMA Division ==
  ASSUME NEW a \in Nat, NEW n \in Nat \ {0}
  PROVE  \E q \in Nat : a = n * q + (a % n)
<1>1. a \div n \in Nat OBVIOUS
<1>2. a = n * (a \div n) + (a % n) OBVIOUS
<1> QED BY <1>1, <1>2

\* A chain does not come back to a slot within its probes.
LEMMA ProbesDiffer ==
  ASSUME NEW k \in Keys, NEW i \in 0 .. Probes - 1, NEW j \in 0 .. i - 1
  PROVE  Slot(k, j) # Slot(k, i)
<1>0. /\ Capacity \in Nat \ {0} /\ Home[k] \in Nat
      /\ Probes \in Nat /\ Probes <= Capacity
      /\ i \in Nat /\ j \in Nat
  BY DedupAssumption
<1> DEFINE a == Home[k] + j
           b == Home[k] + i
           n == Capacity
<1>1. a \in Nat /\ b \in Nat /\ b - a > 0 /\ b - a < n BY <1>0
<1>2. n \in Nat \ {0} BY <1>0
<1> SUFFICES ASSUME a % n = b % n PROVE FALSE BY DEF Slot
<1> HIDE DEF a, b, n
<1>3. PICK q \in Nat : a = n * q + (a % n) BY <1>1, <1>2, Division
<1>4. PICK r \in Nat : b = n * r + (b % n) BY <1>1, <1>2, Division
<1>5. a % n \in 0 .. n - 1 /\ b % n \in 0 .. n - 1 BY <1>1, <1>2
<1>6. b - a = n * r - n * q BY <1>2, <1>3, <1>4, <1>5
<1>7. n * r - n * q = n * (r - q) BY <1>2
<1>8. r - q \in Int /\ n * (r - q) > 0 /\ n * (r - q) < n BY <1>1, <1>6, <1>7
<1> QED BY <1>2, <1>8

LEMMA EntryIsTaken ==
  ASSUME DedupTypeOK, NEW s \in Taken
  PROVE  table[s] \in [key : Keys, offset : Nat]
BY DEF DedupTypeOK, Taken

\* A key with an entry is found, at the one probe that leads there.
LEMMA TakenIsFound ==
  ASSUME DedupTypeOK, NothingForgotten, NEW s \in Taken
  PROVE  \E i \in 0 .. Probes - 1 : FoundAt(table[s].key, i)
<1> DEFINE k == table[s].key
<1>1. k \in Keys BY EntryIsTaken
<1>2. PICK i \in 0 .. Probes - 1 : s = Slot(k, i) /\ ChainTaken(k, i)
  BY DEF NothingForgotten, Reachable
<1>3. table[Slot(k, i)] # Empty /\ table[Slot(k, i)].key = k
  BY <1>2 DEF Taken
<1>4. ASSUME NEW j \in 0 .. i - 1 PROVE table[Slot(k, j)].key # k
  <2>1. Slot(k, j) \in Slots BY <1>1, SlotIsSlot
  <2>2. Slot(k, j) \in Taken BY <1>2, <2>1 DEF ChainTaken, Taken
  <2>3. Slot(k, j) # s BY <1>1, <1>2, ProbesDiffer
  <2> QED BY <2>2, <2>3 DEF NothingForgotten, OneSlotPerKey
<1>5. FoundAt(k, i) BY <1>2, <1>3, <1>4 DEF FoundAt
<1> QED BY <1>5

LEMMA UnknownIsAbsent ==
  ASSUME DedupTypeOK, NothingForgotten, NEW k \in Keys, Unknown(k), NEW s \in Taken
  PROVE  table[s].key # k
BY TakenIsFound DEF Unknown

-----------------------------------------------------------------------------
\* The invariant.

LEMMA InitInv == DedupInit => DedupIInv
<1> SUFFICES ASSUME DedupInit PROVE DedupIInv OBVIOUS
<1>1. Taken = {} BY DEF DedupInit, Taken
<1>2. DedupTypeOK BY DEF DedupInit, DedupTypeOK
<1>3. NothingForgotten BY <1>1 DEF NothingForgotten, OneSlotPerKey, Reachable
<1>4. LoadBounded BY <1>1, FS_EmptySet, DedupAssumption DEF DedupInit, LoadBounded
<1> QED BY <1>2, <1>3, <1>4 DEF DedupIInv

\* What learning a key does to the table.
LEMMA LearnEffect ==
  ASSUME DedupIInv, NEW k \in Keys, NEW i \in 0 .. Probes - 1, Learn(k, i)
  PROVE  /\ Slot(k, i) \in Slots \ Taken
         /\ table' = [table EXCEPT ![Slot(k, i)] = [key |-> k, offset |-> offset]]
         /\ [key |-> k, offset |-> offset] \in [key : Keys, offset : Nat]
         /\ Taken' = Taken \cup {Slot(k, i)}
         /\ \A s \in Taken : table'[s] = table[s]
         /\ table'[Slot(k, i)] = [key |-> k, offset |-> offset]
<1> DEFINE n == Slot(k, i)
           e == [key |-> k, offset |-> offset]
<1>1. n \in Slots BY SlotIsSlot
<1>2. table[n] = Empty BY DEF Learn, FreeAt
<1>3. e \in [key : Keys, offset : Nat] BY DEF DedupIInv, DedupTypeOK
<1>4. e # Empty BY <1>3, DedupAssumption
<1>5. table' = [table EXCEPT ![n] = e] BY DEF Learn
<1>6. DOMAIN table = Slots BY DEF DedupIInv, DedupTypeOK
<1> HIDE DEF n, e
<1>7. table'[n] = e /\ \A s \in Slots \ {n} : table'[s] = table[s] BY <1>1, <1>5, <1>6
<1>8. Taken' = Taken \cup {n} BY <1>1, <1>4, <1>7 DEF Taken
<1>9. \A s \in Taken : table'[s] = table[s] BY <1>2, <1>7 DEF Taken
<1> QED BY <1>1, <1>2, <1>3, <1>5, <1>7, <1>8, <1>9 DEF Taken, n, e

LEMMA LearnKeepsInv ==
  ASSUME DedupIInv, NEW k \in Keys, NEW i \in 0 .. Probes - 1, Learn(k, i)
  PROVE  DedupIInv'
<1> DEFINE n == Slot(k, i)
           e == [key |-> k, offset |-> offset]
<1>0. /\ n \in Slots \ Taken
      /\ table' = [table EXCEPT ![n] = e]
      /\ e \in [key : Keys, offset : Nat]
      /\ Taken' = Taken \cup {n}
      /\ \A s \in Taken : table'[s] = table[s]
      /\ table'[n] = e
  BY LearnEffect
<1>1. DedupTypeOK'
  BY <1>0 DEF DedupIInv, DedupTypeOK, Learn
<1>2. OneSlotPerKey'
  <2> SUFFICES ASSUME NEW s \in Taken', NEW t \in Taken', table'[s].key = table'[t].key
               PROVE  s = t
    BY DEF OneSlotPerKey
  <2>1. \A r \in Taken : table[r].key # k
    BY UnknownIsAbsent DEF Learn, DedupIInv
  <2>2. CASE s \in Taken /\ t \in Taken
    BY <1>0, <2>2 DEF DedupIInv, NothingForgotten, OneSlotPerKey
  <2>3. CASE s = n /\ t \in Taken
    BY <1>0, <2>1, <2>3
  <2>4. CASE s \in Taken /\ t = n
    BY <1>0, <2>1, <2>4
  <2> QED BY <1>0, <2>2, <2>3, <2>4
<1>3. ASSUME NEW c \in Keys, NEW j \in 0 .. Probes - 1, ChainTaken(c, j)
      PROVE  \A h \in 0 .. j - 1 : table'[Slot(c, h)] # Empty
  <2> SUFFICES ASSUME NEW h \in 0 .. j - 1 PROVE table'[Slot(c, h)] # Empty
    OBVIOUS
  <2>0. h \in Nat OBVIOUS
  <2>1. Slot(c, h) \in Slots BY <2>0, SlotIsSlot
  <2>2. Slot(c, h) \in Taken BY <1>3, <2>1 DEF ChainTaken, Taken
  <2> QED BY <1>0, <2>2 DEF Taken
<1>4. Reachable'
  <2> SUFFICES ASSUME NEW s \in Taken'
               PROVE  \E j \in 0 .. Probes - 1 :
                        /\ s = Slot(table'[s].key, j)
                        /\ \A h \in 0 .. j - 1 : table'[Slot(table'[s].key, h)] # Empty
    BY DEF Reachable, ChainTaken, Slot
  <2>1. CASE s \in Taken
    <3>1. table'[s] = table[s] /\ table[s].key \in Keys
      BY <1>0, <2>1, EntryIsTaken DEF DedupIInv
    <3>2. PICK j \in 0 .. Probes - 1 : s = Slot(table[s].key, j) /\ ChainTaken(table[s].key, j)
      BY <2>1 DEF DedupIInv, NothingForgotten, Reachable
    <3> QED BY <1>3, <3>1, <3>2
  <2>2. CASE s = n
    <3>1. ChainTaken(k, i) BY DEF Learn, FreeAt
    <3>2. \A h \in 0 .. i - 1 : table'[Slot(k, h)] # Empty BY <1>3, <3>1
    <3>3. table'[s].key = k BY <1>0, <2>2
    <3> QED BY <2>2, <3>2, <3>3
  <2> QED BY <1>0, <2>1, <2>2
<1>5. LoadBounded'
  <2>1. IsFiniteSet(Taken)
    <3>1. IsFiniteSet(Slots) BY FS_Interval, DedupAssumption DEF Slots
    <3>2. Taken \in SUBSET Slots BY DEF Taken
    <3> QED BY <3>1, <3>2, FS_Subset
  <2>2. Cardinality(Taken') = Cardinality(Taken) + 1
    <3>1. Cardinality(Taken \cup {n}) = Cardinality(Taken) + 1 BY <1>0, <2>1, FS_AddElement
    <3> QED BY <1>0, <3>1
  <2>3. count' = count + 1 /\ count < (Capacity * 3) \div 4 BY DEF Learn, FreeAt
  <2>4. count \in Nat /\ Capacity \in Nat BY DedupAssumption DEF DedupIInv, DedupTypeOK
  <2>5. 4 * (count + 1) <= 3 * Capacity BY <2>3, <2>4
  <2>6. Cardinality(Taken)' = Cardinality(Taken') OBVIOUS
  <2> QED BY <2>2, <2>3, <2>5, <2>6 DEF DedupIInv, LoadBounded
<1> QED BY <1>1, <1>2, <1>4, <1>5 DEF DedupIInv, NothingForgotten

LEMMA StepInv == DedupIInv /\ [DedupNext]_dedupVars => DedupIInv'
<1> SUFFICES ASSUME DedupIInv, [DedupNext]_dedupVars PROVE DedupIInv' OBVIOUS
<1> USE DEF DedupIInv
<1>1. ASSUME NEW k \in Keys, NEW i \in 0 .. Probes - 1, Hit(k, i) PROVE DedupIInv'
  <2>0. /\ table' = table /\ count' = count /\ offset' = offset
        /\ seen' = seen + 1 /\ deduped' = deduped + 1
        /\ refs' = refs \cup {<<k, table[Slot(k, i)].offset>>}
    BY <1>1 DEF Hit
  <2>1. Slot(k, i) \in Slots /\ table[Slot(k, i)] # Empty
    BY <1>1, SlotIsSlot DEF Hit, FoundAt
  <2>2. table[Slot(k, i)].offset \in Nat BY <2>1, EntryIsTaken DEF Taken
  <2>3. DedupTypeOK' BY <2>0, <2>2 DEF DedupTypeOK
  <2>4. NothingForgotten' BY <2>0 DEF NothingForgotten, OneSlotPerKey, Reachable, ChainTaken, Taken
  <2>5. LoadBounded' BY <2>0 DEF LoadBounded, Taken
  <2> QED BY <2>3, <2>4, <2>5
<1>2. ASSUME NEW k \in Keys, NEW i \in 0 .. Probes - 1, Learn(k, i) PROVE DedupIInv'
  BY <1>2, LearnKeepsInv
<1>3. ASSUME NEW k \in Keys, Refuse(k) PROVE DedupIInv'
  <2>0. /\ table' = table /\ count' = count /\ offset' = offset + 1
        /\ seen' = seen + 1 /\ deduped' = deduped /\ refs' = refs
    BY <1>3 DEF Refuse
  <2>1. DedupTypeOK' BY <2>0 DEF DedupTypeOK
  <2>2. NothingForgotten' BY <2>0 DEF NothingForgotten, OneSlotPerKey, Reachable, ChainTaken, Taken
  <2>3. LoadBounded' BY <2>0 DEF LoadBounded, Taken
  <2> QED BY <2>1, <2>2, <2>3
<1>4. CASE UNCHANGED dedupVars
  BY <1>4 DEF dedupVars, DedupTypeOK, NothingForgotten, OneSlotPerKey, Reachable, ChainTaken,
              Taken, LoadBounded
<1> QED BY <1>1, <1>2, <1>3, <1>4 DEF DedupNext

\* The inductive invariant, of any table (zupt_dedup.c:52-155).
THEOREM Invariance == DedupSpec => []DedupIInv
BY InitInv, StepInv, PTL DEF DedupSpec

\* Every entry of the table is a key and the offset of its block.
THEOREM TypeCorrect == DedupSpec => []DedupTypeOK
<1>1. DedupIInv => DedupTypeOK BY DEF DedupIInv
<1> QED BY <1>1, Invariance, PTL

\* What was learnt is found by every later lookup, in the one slot it has,
\* whatever collides with it (zupt_dedup.c:84-133).
THEOREM NothingIsForgotten == DedupSpec => []NothingForgotten
<1>1. DedupIInv => NothingForgotten BY DEF DedupIInv
<1> QED BY <1>1, Invariance, PTL

\* The count is right and the load at most three quarters (zupt_dedup.c:115).
THEOREM LoadIsBounded == DedupSpec => []LoadBounded
<1>1. DedupIInv => LoadBounded BY DEF DedupIInv
<1> QED BY <1>1, Invariance, PTL

-----------------------------------------------------------------------------
\* The refinement.

\* The map holds what the table holds.
LEMMA KnownIsEntry ==
  ASSUME NothingForgotten, NEW s \in Taken
  PROVE  table[s].key \in DOMAIN Known /\ Known[table[s].key] = table[s].offset
<1> DEFINE k == table[s].key
           t == CHOOSE u \in Taken : table[u].key = k
<1>1. k \in KnownKeys BY DEF KnownKeys
<1>2. t \in Taken /\ table[t].key = k OBVIOUS
<1>3. t = s BY <1>2 DEF NothingForgotten, OneSlotPerKey
<1> QED BY <1>1, <1>3 DEF Known

LEMMA KnownIsEntryNext ==
  ASSUME NothingForgotten', NEW s \in Taken'
  PROVE  table'[s].key \in DOMAIN Known' /\ Known'[table'[s].key] = table'[s].offset
<1> DEFINE k == table'[s].key
           t == CHOOSE u \in Taken' : table'[u].key = k
<1>1. k \in KnownKeys' BY DEF KnownKeys
<1>2. t \in Taken' /\ table'[t].key = k OBVIOUS
<1>3. t = s BY <1>2 DEF NothingForgotten, OneSlotPerKey
<1> QED BY <1>1, <1>3 DEF Known

LEMMA InitRefines == DedupInit => Index!IndexInit
<1> SUFFICES ASSUME DedupInit PROVE Index!IndexInit OBVIOUS
<1>1. Taken = {} BY DEF DedupInit, Taken
<1>2. KnownKeys = {} BY <1>1 DEF KnownKeys
<1>3. Known = [k \in {} |-> 0] BY <1>2 DEF Known
<1> QED BY <1>3 DEF DedupInit, Index!IndexInit

\* Learning a key extends the map by it.
LEMMA LearnExtends ==
  ASSUME DedupIInv, DedupIInv', NEW k \in Keys, NEW i \in 0 .. Probes - 1, Learn(k, i)
  PROVE  Known' = [j \in DOMAIN Known \cup {k} |-> IF j = k THEN offset ELSE Known[j]]
<1> DEFINE n == Slot(k, i)
           e == [key |-> k, offset |-> offset]
<1>0. /\ Taken' = Taken \cup {n}
      /\ \A s \in Taken : table'[s] = table[s]
      /\ table'[n] = e
  BY LearnEffect
<1>1. \A s \in Taken : table[s].key # k BY UnknownIsAbsent DEF Learn, DedupIInv
<1>2. DOMAIN Known = KnownKeys /\ DOMAIN Known' = KnownKeys' BY DEF Known
<1>3. KnownKeys' = KnownKeys \cup {k}
  <2>1. KnownKeys' = {table'[s].key : s \in Taken'} BY DEF KnownKeys
  <2>2. KnownKeys = {table[s].key : s \in Taken} BY DEF KnownKeys
  <2> QED BY <1>0, <2>1, <2>2
<1>4. ASSUME NEW j \in KnownKeys \cup {k}
      PROVE  Known'[j] = IF j = k THEN offset ELSE Known[j]
  <2>1. CASE j = k
    <3>1. n \in Taken' /\ table'[n].key = k /\ table'[n].offset = offset BY <1>0
    <3>2. Known'[k] = table'[n].offset BY <3>1, KnownIsEntryNext DEF DedupIInv
    <3> QED BY <2>1, <3>1, <3>2
  <2>2. CASE j # k
    <3>1. PICK s \in Taken : table[s].key = j BY <2>2 DEF KnownKeys
    <3>2. s \in Taken' /\ table'[s] = table[s] BY <1>0
    <3>3. Known[j] = table[s].offset BY <3>1, KnownIsEntry DEF DedupIInv
    <3>4. Known'[j] = table'[s].offset BY <3>1, <3>2, KnownIsEntryNext DEF DedupIInv
    <3> QED BY <2>2, <3>2, <3>3, <3>4
  <2> QED BY <2>1, <2>2
<1>5. Known' = [j \in DOMAIN Known' |-> Known'[j]] BY DEF Known
<1> QED BY <1>2, <1>3, <1>4, <1>5

LEMMA StepRefines ==
  DedupIInv /\ DedupIInv' /\ [DedupNext]_dedupVars => [Index!IndexNext]_(Index!indexVars)
<1> SUFFICES ASSUME DedupIInv, DedupIInv', [DedupNext]_dedupVars
             PROVE  [Index!IndexNext]_(Index!indexVars)
  OBVIOUS
<1>1. ASSUME NEW k \in Keys, NEW i \in 0 .. Probes - 1, Hit(k, i) PROVE Index!Refer(k)
  <2>1. Slot(k, i) \in Slots BY SlotIsSlot
  <2>2. Slot(k, i) \in Taken /\ table[Slot(k, i)].key = k
    BY <1>1, <2>1 DEF Hit, FoundAt, Taken
  <2>3. k \in DOMAIN Known /\ Known[k] = table[Slot(k, i)].offset
    BY <2>2, KnownIsEntry DEF DedupIInv
  <2>4. Known' = Known BY <1>1 DEF Hit, Known, KnownKeys, Taken
  <2> QED BY <1>1, <2>3, <2>4 DEF Hit, Index!Refer
<1>2. ASSUME NEW k \in Keys, Unknown(k) PROVE k \notin DOMAIN Known
  BY <1>2, UnknownIsAbsent DEF DedupIInv, Known, KnownKeys
<1>3. ASSUME NEW k \in Keys, NEW i \in 0 .. Probes - 1, Learn(k, i) PROVE Index!Store(k)
  <2>1. k \notin DOMAIN Known BY <1>2, <1>3 DEF Learn
  <2>2. Known' = [j \in DOMAIN Known \cup {k} |-> IF j = k THEN offset ELSE Known[j]]
    BY <1>3, LearnExtends
  <2>3. offset' = offset + 1 /\ refs' = refs BY <1>3 DEF Learn
  <2> QED BY <2>1, <2>2, <2>3 DEF Index!Store
<1>4. ASSUME NEW k \in Keys, Refuse(k) PROVE Index!Store(k)
  <2>1. k \notin DOMAIN Known BY <1>2, <1>4 DEF Refuse
  <2>2. Known' = Known /\ offset' = offset + 1 /\ refs' = refs
    BY <1>4 DEF Refuse, Known, KnownKeys, Taken
  <2> QED BY <2>1, <2>2 DEF Index!Store
<1>5. CASE UNCHANGED dedupVars
  <2>1. Known' = Known BY <1>5 DEF dedupVars, Known, KnownKeys, Taken
  <2> QED BY <1>5, <2>1 DEF dedupVars, Index!indexVars
<1> QED BY <1>1, <1>3, <1>4, <1>5 DEF DedupNext, Index!IndexNext

\* The probed table implements a map that never forgets and never changes an
\* answer, whatever its size and whatever collides in it.
THEOREM TableImplementsIndex == DedupSpec => ImplementsIndex
<1>1. DedupSpec => Index!IndexInit /\ [][Index!IndexNext]_(Index!indexVars)
  BY InitRefines, StepRefines, Invariance, PTL DEF DedupSpec
<1> QED BY <1>1 DEF ImplementsIndex, Index!IndexSpec

-----------------------------------------------------------------------------
(* The rate limit.                                                         *)

\* A set of numbers has a least one.
LEMMA LeastNumber ==
  ASSUME NEW S \in SUBSET Nat, S # {}
  PROVE  \E n \in S : \A m \in S : n <= m
<1>1. PICK n \in S : \A m \in S : ~(<<m, n>> \in OpToRel(<, Nat))
  BY NatLessThanWellFounded, WFMin, Zenon
<1>2. \A m \in S : ~(m < n)
  BY <1>1 DEF OpToRel
<1> QED BY <1>2

\* A finite set of numbers that is not empty has a greatest one: the least of
\* those that none of it exceeds, less one, as numbers go.
LEMMA GreatestNumber ==
  ASSUME NEW S \in SUBSET Nat, S # {}, NEW b \in Nat, \A n \in S : n < b
  PROVE  \E n \in S : \A m \in S : m <= n
<1> DEFINE U == {n \in Nat : \A m \in S : m <= n}
<1>1. b \in U OBVIOUS
<1>2. PICK u \in U : \A v \in U : u <= v
  <2>1. U \in SUBSET Nat /\ U # {} BY <1>1
  <2> HIDE DEF U
  <2> QED BY <2>1, LeastNumber
<1>3. SUFFICES ASSUME u \notin S PROVE FALSE
  BY <1>2
<1>4. u \in Nat /\ \A m \in S : m < u BY <1>2, <1>3
<1>5. u > 0
  <2>1. PICK m \in Nat : m \in S OBVIOUS
  <2> QED BY <1>4, <2>1
<1>6. u - 1 \in U BY <1>2, <1>4, <1>5
<1> QED BY <1>2, <1>6

LEMMA EvictedAreKeys ==
  ASSUME NEW tab
  PROVE  Evicted(tab) \subseteq DOMAIN tab
BY DEF Evicted

\* From a table over its limit something is dropped.
LEMMA SomethingIsEvicted ==
  ASSUME NEW tab, IsFiniteSet(DOMAIN tab), Cardinality(DOMAIN tab) > MaxKeys,
         NEW b \in Nat,
         \A k \in DOMAIN tab : /\ tab[k] \subseteq Nat /\ tab[k] # {}
                                 /\ \A t \in tab[k] : t < b
  PROVE  Evicted(tab) # {}
<1> DEFINE last(k, t) == t \in tab[k] /\ \A u \in tab[k] : u <= t
           Lasts == {t \in Nat : \E k \in DOMAIN tab : last(k, t)}
<1>0. Cardinality(DOMAIN tab) \in Nat /\ Cardinality(DOMAIN tab) >= 4
  BY FS_CardinalityType, RateAssumption
<1>1. \A k \in DOMAIN tab : \E t \in Nat : last(k, t)
  BY GreatestNumber
<1>2. Lasts # {}
  <2>1. DOMAIN tab # {} BY <1>0, FS_EmptySet
  <2> QED BY <1>1, <2>1
<1>3. PICK t \in Lasts : \A u \in Lasts : t <= u
  <2>1. Lasts \in SUBSET Nat OBVIOUS
  <2> HIDE DEF Lasts
  <2> QED BY <1>2, <2>1, LeastNumber
<1>4. PICK k \in DOMAIN tab : last(k, t) BY <1>3
<1>5. {x \in DOMAIN tab : UsedBefore(tab, x, k)} = {}
  <2>1. ASSUME NEW x \in DOMAIN tab, UsedBefore(tab, x, k) PROVE FALSE
    <3>1. PICK u \in Nat : last(x, u) BY <1>1
    <3>2. t <= u /\ t \in Nat BY <1>3, <3>1
    <3>3. PICK v \in tab[k] : \A z \in tab[x] : z < v BY <2>1 DEF UsedBefore
    <3>4. u < v /\ v <= t /\ v \in Nat BY <1>4, <3>1, <3>3
    <3> QED BY <3>2, <3>4
  <2> QED BY <2>1
<1>6. Cardinality(DOMAIN tab) \div 4 > 0 BY <1>0
<1>7. k \in Evicted(tab) BY <1>4, <1>5, <1>6, FS_EmptySet DEF Evicted
<1> QED BY <1>7

\* The key that was used last stays.
LEMMA LatestStays ==
  ASSUME NEW tab, IsFiniteSet(DOMAIN tab), NEW k \in DOMAIN tab,
         NEW b \in Nat, b \in tab[k],
         \A x \in DOMAIN tab : x # k => \A t \in tab[x] : t < b
  PROVE  k \notin Evicted(tab)
<1> SUFFICES ASSUME k \in Evicted(tab) PROVE FALSE OBVIOUS
<1> DEFINE D == DOMAIN tab
           older == {x \in D : UsedBefore(tab, x, k)}
<1>1. D \ {k} \subseteq older BY DEF UsedBefore
<1>2. Cardinality(D) \in Nat /\ Cardinality(D \ {k}) = Cardinality(D) - 1 /\ IsFiniteSet(D \ {k})
  BY FS_CardinalityType, FS_RemoveElement
<1>3. IsFiniteSet(older) /\ Cardinality(older) \in Nat
  <2>1. older \in SUBSET D OBVIOUS
  <2> HIDE DEF older, D
  <2>2. IsFiniteSet(D) BY DEF D
  <2> QED BY <2>1, <2>2, FS_Subset, FS_CardinalityType
<1>4. Cardinality(D \ {k}) <= Cardinality(older)
  <2> HIDE DEF older, D
  <2> QED BY <1>1, <1>3, FS_Subset
<1>5. Cardinality(D) > MaxKeys /\ Cardinality(older) < Cardinality(D) \div 4
  BY DEF Evicted
<1> HIDE DEF older, D
<1> QED BY <1>2, <1>3, <1>4, <1>5, RateAssumption

\* A table that is cut down to its limit keeps to it.
LEMMA CutDown ==
  ASSUME NEW tab, NEW k \in DOMAIN tab, NEW b \in Nat,
         IsFiniteSet(DOMAIN tab), Cardinality(DOMAIN tab) <= MaxKeys + 1,
         \A x \in DOMAIN tab : /\ tab[x] \subseteq Nat /\ tab[x] # {}
                                 /\ \A t \in tab[x] : t < b
  PROVE  /\ IsFiniteSet(DOMAIN tab \ Evicted(tab))
         /\ Cardinality(DOMAIN tab \ Evicted(tab)) <= MaxKeys
<1> DEFINE D == DOMAIN tab
           G == Evicted(tab)
<1>0. IsFiniteSet(D) /\ G \in SUBSET D /\ Cardinality(D) \in Nat
  BY EvictedAreKeys, FS_CardinalityType
<1>1. CASE Cardinality(D) <= MaxKeys
  <2> HIDE DEF D, G
  <2>1. D \ G \in SUBSET D OBVIOUS
  <2>2. IsFiniteSet(D \ G) /\ Cardinality(D \ G) <= Cardinality(D) BY <1>0, <2>1, FS_Subset
  <2>3. Cardinality(D \ G) \in Nat BY <2>2, FS_CardinalityType
  <2> QED BY <1>0, <1>1, <2>2, <2>3, RateAssumption DEF D, G
<1>2. CASE Cardinality(D) > MaxKeys
  <2>1. PICK g \in D : g \in G BY <1>0, <1>2, SomethingIsEvicted
  <2> HIDE DEF D, G
  <2>2. IsFiniteSet(D \ {g}) /\ Cardinality(D \ {g}) = Cardinality(D) - 1
    BY <1>0, <2>1, FS_RemoveElement
  <2>3. D \ G \in SUBSET (D \ {g}) BY <2>1
  <2>4. IsFiniteSet(D \ G) /\ Cardinality(D \ G) <= Cardinality(D \ {g})
    BY <2>2, <2>3, FS_Subset
  <2>5. Cardinality(D \ G) \in Nat BY <2>4, FS_CardinalityType
  <2>6. Cardinality(D) <= MaxKeys + 1 BY DEF D
  <2> QED BY <1>0, <2>2, <2>4, <2>5, <2>6, RateAssumption DEF D, G
<1> QED BY <1>0, <1>1, <1>2, RateAssumption

-----------------------------------------------------------------------------

LEMMA RateInitHolds == RateInit => RateIInv
<1> SUFFICES ASSUME RateInit PROVE RateIInv OBVIOUS
<1> USE RateAssumption
<1>1. \A w \in Workers : DOMAIN rate[w] = {} BY DEF RateInit
<1>2. RateTypeOK BY <1>1 DEF RateInit, RateTypeOK
<1>3. PastOnly BY DEF RateInit, PastOnly
<1>4. TableIsTrue BY <1>1 DEF RateInit, TableIsTrue, KeyIsTrue
<1>5. TablesAreFinite BY <1>1, FS_EmptySet DEF TablesAreFinite
<1>6. RefusedOnlyForWhatPassed BY DEF RateInit, RefusedOnlyForWhatPassed
<1>7. TableIsBounded
  <2>1. \A w \in Workers : Cardinality(DOMAIN rate[w]) <= MaxKeys
    BY <1>1, FS_EmptySet
  <2>2. \A w \in Workers, k \in Clients : passed[w][k] = {} BY DEF RateInit
  <2> QED BY <2>1, <2>2 DEF TableIsBounded
<1> QED BY <1>2, <1>3, <1>4, <1>5, <1>6, <1>7 DEF RateIInv

\* A replaced worker knows nothing, and counts anew from then on.
LEMMA ReplaceKeeps ==
  ASSUME RateIInv, NEW w \in Workers, ReplaceWorker(w)
  PROVE  RateIInv'
<1> USE RateAssumption DEF RateIInv, ReplaceWorker
<1>0. now \in Nat /\ now' = now + 1 /\ passed' = passed BY DEF RateTypeOK
<1>1. /\ \A v \in Workers : v # w => rate'[v] = rate[v] /\ since'[v] = since[v]
      /\ DOMAIN rate'[w] = {}
      /\ \A k \in Clients : since'[w][k] = now
  BY DEF RateTypeOK
<1>2. RateTypeOK'
  <2>1. rate' = [v \in Workers |-> rate'[v]] BY DEF RateTypeOK
  <2>2. since' \in [Workers -> [Clients -> Nat]] BY <1>0 DEF RateTypeOK
  <2> QED BY <1>0, <1>1, <2>1, <2>2 DEF RateTypeOK
<1>3. PastOnly' BY <1>0, <1>1 DEF PastOnly, RateTypeOK
<1>4. TableIsTrue'
  <2>1. ASSUME NEW v \in Workers, NEW k \in Clients
        PROVE  KeyIsTrue(v, k)'
    BY <1>0, <1>1 DEF TableIsTrue, KeyIsTrue, PastOnly, RateTypeOK
  <2> QED BY <2>1 DEF TableIsTrue
<1>5. TablesAreFinite' BY <1>1, FS_EmptySet DEF TablesAreFinite
<1>6. RefusedOnlyForWhatPassed' BY DEF RefusedOnlyForWhatPassed
<1>7. TableIsBounded'
  <2>1. \A v \in Workers : Cardinality(DOMAIN rate'[v]) <= MaxKeys
    BY <1>1, FS_EmptySet DEF TableIsBounded
  <2>2. ASSUME NEW v \in Workers, NEW k \in Clients, NEW t \in passed[v][k], t >= since'[v][k],
               \A x \in Clients : \A u \in passed[v][x] : u <= t
        PROVE  k \in DOMAIN rate'[v]
    <3>1. v # w BY <1>0, <1>1, <2>2 DEF PastOnly, RateTypeOK
    <3> QED BY <1>1, <2>2, <3>1 DEF TableIsBounded
  <2> QED BY <1>0, <2>1, <2>2 DEF TableIsBounded
<1> QED BY <1>2, <1>3, <1>4, <1>5, <1>6, <1>7

\* What a worker still notes of a key is what it let through within the period.
LEMMA RecentIs ==
  ASSUME RateIInv, NEW w \in Workers, NEW k \in Clients
  PROVE  /\ Recent(rate[w], k) = Within(w, k, now - Period + 1, now)
         /\ IsFiniteSet(Recent(rate[w], k))
         /\ Cardinality(Recent(rate[w], k)) \in Nat /\ Cardinality(Recent(rate[w], k)) <= MaxCalls
<1> USE RateAssumption DEF RateIInv
<1>0. now \in Nat /\ passed[w][k] \subseteq Nat /\ since[w][k] \in Nat BY DEF RateTypeOK
<1>1. KeyIsTrue(w, k) BY DEF TableIsTrue
<1>2. \A t \in passed[w][k] : t < now BY DEF PastOnly
<1>3. CASE k \in DOMAIN rate[w]
  <2>1. Recent(rate[w], k) = {t \in rate[w][k] : now - t < Period} BY <1>3 DEF Recent
  <2>2. Recent(rate[w], k) \in SUBSET rate[w][k] BY <2>1
  <2>3. /\ IsFiniteSet(rate[w][k]) /\ Cardinality(rate[w][k]) \in 1 .. MaxCalls
        /\ \A t \in rate[w][k] : t \in passed[w][k] /\ t >= since[w][k]
        /\ \A t \in passed[w][k] \ rate[w][k] : t >= since[w][k] => now - t > Period
    BY <1>1, <1>3 DEF KeyIsTrue
  <2>4. /\ IsFiniteSet(Recent(rate[w], k))
        /\ Cardinality(Recent(rate[w], k)) <= Cardinality(rate[w][k])
    BY <2>2, <2>3, FS_Subset
  <2>5. Cardinality(Recent(rate[w], k)) \in Nat BY <2>4, FS_CardinalityType
  <2>6. ASSUME NEW t \in Nat
        PROVE  t \in Recent(rate[w], k) <=> t \in Within(w, k, now - Period + 1, now)
    BY <1>0, <1>2, <2>1, <2>3 DEF Within
  <2>7. Recent(rate[w], k) \subseteq Nat /\ Within(w, k, now - Period + 1, now) \subseteq Nat
    BY <1>0, <2>2, <2>3 DEF Within
  <2>8. Recent(rate[w], k) = Within(w, k, now - Period + 1, now) BY <2>6, <2>7
  <2>9. Cardinality(Recent(rate[w], k)) <= MaxCalls BY <2>3, <2>4, <2>5
  <2> QED BY <2>4, <2>5, <2>8, <2>9
<1>4. CASE k \notin DOMAIN rate[w]
  <2>1. Recent(rate[w], k) = {} BY <1>4 DEF Recent
  <2>2. Within(w, k, now - Period + 1, now) = {}
    BY <1>0, <1>1, <1>4 DEF KeyIsTrue, Within
  <2> QED BY <1>4, <2>1, <2>2, FS_EmptySet
<1> QED BY <1>3, <1>4

\* Time passing does not make a key's entry untrue.
LEMMA OthersStayTrue ==
  ASSUME RateIInv, NEW v \in Workers, NEW x \in Clients, now' \in Nat, now' > now,
         rate'[v] = rate[v] \/ (/\ x \in DOMAIN rate'[v] <=> x \in DOMAIN rate[v]
                                /\ x \in DOMAIN rate[v] => rate'[v][x] = rate[v][x]),
         passed'[v][x] = passed[v][x], since'[v][x] = since[v][x]
  PROVE  KeyIsTrue(v, x)'
<1>1. KeyIsTrue(v, x) BY DEF RateIInv, TableIsTrue
<1>2. now \in Nat /\ passed[v][x] \subseteq Nat BY DEF RateIInv, RateTypeOK
<1> QED BY <1>1, <1>2, RateAssumption DEF KeyIsTrue

LEMMA RefuseKeeps ==
  ASSUME RateIInv, NEW w \in Workers, NEW k \in Clients, Refuse429(w, k),
         now' \in {now + 1, now + Period}
  PROVE  RateIInv'
<1> USE RateAssumption
<1>i. /\ RateTypeOK /\ PastOnly /\ TableIsTrue /\ TablesAreFinite
      /\ RefusedOnlyForWhatPassed /\ TableIsBounded
  BY DEF RateIInv
<1> DEFINE recent == Recent(rate[w], k)
<1>0. /\ now \in Nat /\ now' \in Nat /\ now' > now
      /\ passed' = passed /\ since' = since
      /\ rate' = [rate EXCEPT ![w] = With(rate[w], k, recent)]
      /\ refused' = {[worker |-> w, key |-> k, time |-> now]}
      /\ Cardinality(recent) >= MaxCalls
  BY <1>i DEF RateTypeOK, Refuse429
<1>1. /\ recent = Within(w, k, now - Period + 1, now)
      /\ IsFiniteSet(recent) /\ Cardinality(recent) = MaxCalls
  <2>1. /\ recent = Within(w, k, now - Period + 1, now)
        /\ IsFiniteSet(recent)
        /\ Cardinality(recent) \in Nat /\ Cardinality(recent) <= MaxCalls
    BY RecentIs, Zenon
  <2> HIDE DEF recent
  <2> QED BY <1>0, <2>1
<1>2. k \in DOMAIN rate[w]
  <2>1. recent # {} BY <1>1, FS_EmptySet
  <2> QED BY <2>1 DEF Recent
<1>3. recent = {t \in rate[w][k] : now - t < Period} BY <1>2 DEF Recent
<1> HIDE DEF recent
<1>4. /\ \A v \in Workers : v # w => rate'[v] = rate[v]
      /\ DOMAIN rate'[w] = DOMAIN rate[w]
      /\ rate'[w][k] = recent
      /\ \A x \in DOMAIN rate[w] : x # k => rate'[w][x] = rate[w][x]
  <2>1. rate'[w] = With(rate[w], k, recent) BY <1>i, <1>0 DEF RateTypeOK
  <2>2. DOMAIN rate[w] \cup {k} = DOMAIN rate[w] BY <1>2
  <2>3. \A v \in Workers : v # w => rate'[v] = rate[v] BY <1>i, <1>0 DEF RateTypeOK
  <2> QED BY <2>1, <2>2, <2>3 DEF With
<1>5. RateTypeOK'
  <2>1. rate' = [v \in Workers |-> rate'[v]] BY <1>i, <1>0 DEF RateTypeOK
  <2>2. refused' \subseteq [worker : Workers, key : Clients, time : Nat] BY <1>0
  <2>3. ASSUME NEW v \in Workers
        PROVE  /\ DOMAIN rate'[v] \subseteq Clients
               /\ \A x \in DOMAIN rate'[v] : rate'[v][x] \subseteq Nat
    <3>1. CASE v # w BY <1>i, <1>4, <3>1 DEF RateTypeOK
    <3>2. CASE v = w
      <4>1. recent \subseteq Nat BY <1>i, <1>2, <1>3 DEF RateTypeOK
      <4> QED BY <1>i, <1>4, <3>2, <4>1 DEF RateTypeOK
    <3> QED BY <3>1, <3>2
  <2> QED BY <1>i, <1>0, <2>1, <2>2, <2>3 DEF RateTypeOK
<1>6. PastOnly' BY <1>i, <1>0 DEF PastOnly, RateTypeOK
<1>7. TableIsTrue'
  <2>1. ASSUME NEW v \in Workers, NEW x \in Clients
        PROVE  KeyIsTrue(v, x)'
    <3>1. CASE v = w /\ x = k
      <4>1. KeyIsTrue(w, k) BY <1>i DEF TableIsTrue
      <4>2. \A t \in passed[w][k] \ recent : t >= since[w][k] => now' - t > Period
        BY <1>i, <1>0, <1>2, <1>3, <4>1 DEF KeyIsTrue, RateTypeOK
      <4>3. \A t \in recent : t \in passed[w][k] /\ t >= since[w][k]
        BY <1>2, <1>3, <4>1 DEF KeyIsTrue
      <4>4. IsFiniteSet(recent) /\ Cardinality(recent) \in 1 .. MaxCalls BY <1>1
      <4>5. k \in DOMAIN rate'[w] /\ rate'[w][k] = recent BY <1>2, <1>4
      <4>6. passed'[w][k] = passed[w][k] /\ since'[w][k] = since[w][k] BY <1>0
      <4> QED BY <3>1, <4>2, <4>3, <4>4, <4>5, <4>6 DEF KeyIsTrue
    <3>2. CASE ~(v = w /\ x = k)
      <4>1. v = w \/ rate'[v] = rate[v] BY <1>4
      <4> QED BY <1>0, <1>4, <3>2, <4>1, OthersStayTrue
    <3> QED BY <3>1, <3>2
  <2> QED BY <1>i, <2>1 DEF TableIsTrue
<1>8. \A v \in Workers : DOMAIN rate'[v] = DOMAIN rate[v] BY <1>4
<1>9. TablesAreFinite' BY <1>i, <1>8 DEF TablesAreFinite
<1>10. RefusedOnlyForWhatPassed'
  <2>1. \A f, t : Within(w, k, f, t)' = Within(w, k, f, t) BY <1>0 DEF Within
  <2> QED BY <1>i, <1>0, <1>1, <2>1 DEF RefusedOnlyForWhatPassed
<1>11. TableIsBounded' BY <1>i, <1>0, <1>8 DEF TableIsBounded
<1> QED BY <1>5, <1>6, <1>7, <1>9, <1>10, <1>11 DEF RateIInv

LEMMA LetThroughKeeps ==
  ASSUME RateIInv, NEW w \in Workers, NEW k \in Clients, LetThrough(w, k),
         now' \in {now + 1, now + Period}
  PROVE  RateIInv'
<1> USE RateAssumption
<1>i. /\ RateTypeOK /\ PastOnly /\ TableIsTrue /\ TablesAreFinite
      /\ RefusedOnlyForWhatPassed /\ TableIsBounded
  BY DEF RateIInv
<1> DEFINE recent == Recent(rate[w], k)
           tab == With(rate[w], k, recent \cup {now})
           gone == Evicted(tab)
<1>0. /\ now \in Nat /\ now' \in Nat /\ now' > now
      /\ Cardinality(recent) < MaxCalls
      /\ rate' = [rate EXCEPT ![w] = [x \in DOMAIN tab \ gone |-> tab[x]]]
      /\ passed' = [passed EXCEPT ![w][k] = @ \cup {now}]
      /\ since' = [since EXCEPT ![w] = [x \in Clients |-> IF x \in gone THEN now ELSE @[x]]]
      /\ refused' = {}
  BY <1>i DEF RateTypeOK, LetThrough
<1>1. /\ recent = Within(w, k, now - Period + 1, now)
      /\ IsFiniteSet(recent)
      /\ Cardinality(recent) \in Nat /\ Cardinality(recent) <= MaxCalls
  BY RecentIs, Zenon
<1>a. now \in Nat /\ now' \in Nat /\ now' > now /\ Cardinality(recent) < MaxCalls BY <1>0
<1>2. /\ \A t \in recent : t \in passed[w][k] /\ t >= since[w][k] /\ t \in Nat /\ t < now
      /\ \A t \in passed[w][k] \ recent : t >= since[w][k] => now - t >= Period
  <2>1. passed[w][k] \subseteq Nat /\ since[w][k] \in Nat /\ \A t \in passed[w][k] : t < now
    BY <1>i DEF PastOnly, RateTypeOK
  <2>2. recent = {t \in passed[w][k] : t >= since[w][k] /\ t \in now - Period + 1 .. now}
    BY <1>1 DEF Within
  <2> HIDE DEF recent
  <2> QED BY <1>a, <2>1, <2>2
<1>3. IsFiniteSet(recent \cup {now}) /\ Cardinality(recent \cup {now}) \in 1 .. MaxCalls
  <2>1. now \notin recent BY <1>a, <1>2
  <2> HIDE DEF recent
  <2>2. /\ IsFiniteSet(recent \cup {now})
        /\ Cardinality(recent \cup {now}) = Cardinality(recent) + 1
    BY <1>1, <2>1, FS_AddElement
  <2> QED BY <1>a, <1>1, <2>2
<1> HIDE DEF recent
<1>4. /\ DOMAIN tab = DOMAIN rate[w] \cup {k}
      /\ tab[k] = recent \cup {now}
      /\ \A x \in DOMAIN rate[w] : x # k => tab[x] = rate[w][x]
  BY DEF With
<1>5. /\ IsFiniteSet(DOMAIN tab) /\ Cardinality(DOMAIN tab) <= MaxKeys + 1
  <2>1. IsFiniteSet(DOMAIN rate[w]) /\ Cardinality(DOMAIN rate[w]) <= MaxKeys
    BY <1>i DEF TablesAreFinite, TableIsBounded
  <2> DEFINE before == DOMAIN rate[w]
  <2>2. Cardinality(before) \in Nat BY <2>1, FS_CardinalityType
  <2>3. DOMAIN tab = before \cup {k} BY <1>4
  <2> HIDE DEF before, tab
  <2>4. CASE k \in before
    <3>1. before \cup {k} = before BY <2>4
    <3> QED BY <2>1, <2>2, <2>3, <3>1, RateAssumption DEF before
  <2>5. CASE k \notin before
    <3>1. IsFiniteSet(before \cup {k}) /\ Cardinality(before \cup {k}) = Cardinality(before) + 1
      BY <2>1, <2>5, FS_AddElement DEF before
    <3> QED BY <2>1, <2>2, <2>3, <3>1, RateAssumption DEF before
  <2> QED BY <2>4, <2>5
<1> HIDE DEF tab
<1>6. ASSUME NEW x \in DOMAIN tab
      PROVE  /\ tab[x] \subseteq Nat /\ tab[x] # {}
             /\ \A t \in tab[x] : t < now + 1
             /\ x # k => \A t \in tab[x] : t < now
  <2>1. CASE x = k BY <1>0, <1>2, <1>4, <2>1
  <2>2. CASE x # k
    <3>1. x \in DOMAIN rate[w] /\ x \in Clients /\ tab[x] = rate[w][x]
      BY <1>i, <1>4, <2>2 DEF RateTypeOK
    <3>2. KeyIsTrue(w, x) BY <1>i, <3>1 DEF TableIsTrue
    <3>3. Cardinality(rate[w][x]) # 0 BY <3>1, <3>2 DEF KeyIsTrue
    <3>4. rate[w][x] # {} BY <3>3, FS_EmptySet
    <3>5. \A t \in rate[w][x] : t \in Nat /\ t < now
      BY <1>i, <3>1, <3>2 DEF KeyIsTrue, PastOnly, RateTypeOK
    <3> QED BY <1>0, <2>2, <3>1, <3>4, <3>5
  <2> QED BY <2>1, <2>2
<1>7. k \notin gone /\ gone \subseteq DOMAIN tab
  <2>1. k \in DOMAIN tab /\ now \in tab[k] BY <1>4
  <2> QED BY <1>0, <1>5, <1>6, <2>1, LatestStays, EvictedAreKeys
<1>8. IsFiniteSet(DOMAIN tab \ gone) /\ Cardinality(DOMAIN tab \ gone) <= MaxKeys
  <2>1. k \in DOMAIN tab /\ now + 1 \in Nat BY <1>0, <1>4
  <2> QED BY <1>5, <1>6, <2>1, CutDown
<1>9. gone \subseteq Clients BY <1>i, <1>4, <1>7 DEF RateTypeOK
<1> HIDE DEF gone
<1>10. /\ \A v \in Workers : v # w => rate'[v] = rate[v]
       /\ DOMAIN rate'[w] = DOMAIN tab \ gone
       /\ \A x \in DOMAIN tab \ gone : rate'[w][x] = tab[x]
  BY <1>i, <1>0 DEF RateTypeOK
<1>11. /\ \A v \in Workers : v # w => since'[v] = since[v] /\ passed'[v] = passed[v]
       /\ \A x \in Clients : /\ since'[w][x] = IF x \in gone THEN now ELSE since[w][x]
                             /\ passed'[w][x] = passed[w][x] \cup IF x = k THEN {now} ELSE {}
  BY <1>i, <1>0 DEF RateTypeOK
<1>12. RateTypeOK'
  <2>1. rate' = [v \in Workers |-> rate'[v]] BY <1>i, <1>0 DEF RateTypeOK
  <2>2. passed' \in [Workers -> [Clients -> SUBSET Nat]] BY <1>i, <1>0 DEF RateTypeOK
  <2>3. since' \in [Workers -> [Clients -> Nat]]
    <3>1. [x \in Clients |-> IF x \in gone THEN now ELSE since[w][x]] \in [Clients -> Nat]
      BY <1>i, <1>0 DEF RateTypeOK
    <3> QED BY <1>i, <1>0, <3>1 DEF RateTypeOK
  <2>4. ASSUME NEW v \in Workers
        PROVE  /\ DOMAIN rate'[v] \subseteq Clients
               /\ \A x \in DOMAIN rate'[v] : rate'[v][x] \subseteq Nat
    <3>1. CASE v # w BY <1>i, <1>10, <3>1 DEF RateTypeOK
    <3>2. CASE v = w BY <1>i, <1>4, <1>6, <1>10, <3>2 DEF RateTypeOK
    <3> QED BY <3>1, <3>2
  <2> QED BY <1>i, <1>0, <2>1, <2>2, <2>3, <2>4 DEF RateTypeOK
<1>13. PastOnly'
  <2>1. ASSUME NEW v \in Workers, NEW x \in Clients
        PROVE  since'[v][x] < now' /\ \A t \in passed'[v][x] : t < now'
    <3>1. since[v][x] < now /\ (\A t \in passed[v][x] : t < now /\ t \in Nat) /\ since[v][x] \in Nat
      BY <1>i DEF PastOnly, RateTypeOK
    <3>2. CASE v # w BY <1>0, <1>11, <3>1, <3>2
    <3>3. CASE v = w
      <4>1. since'[v][x] \in {now, since[v][x]} BY <1>11, <3>3
      <4>2. \A t \in passed'[v][x] : t = now \/ t \in passed[v][x] BY <1>11, <3>3
      <4> QED BY <1>0, <3>1, <4>1, <4>2
    <3> QED BY <3>2, <3>3
  <2> QED BY <1>i, <2>1 DEF PastOnly
<1>14. TableIsTrue'
  <2>1. ASSUME NEW v \in Workers, NEW x \in Clients
        PROVE  KeyIsTrue(v, x)'
    <3>1. CASE v # w BY <1>0, <1>10, <1>11, <3>1, OthersStayTrue
    <3>2. CASE v = w /\ x = k
      <4>1. k \in DOMAIN rate'[w] /\ rate'[w][k] = recent \cup {now} BY <1>4, <1>7, <1>10
      <4>2. since'[w][k] = since[w][k] /\ passed'[w][k] = passed[w][k] \cup {now}
        BY <1>7, <1>11
      <4>3. since[w][k] \in Nat /\ since[w][k] < now /\ passed[w][k] \subseteq Nat
        BY <1>i DEF PastOnly, RateTypeOK
      <4>4. \A t \in rate'[w][k] : t \in passed'[w][k] /\ t >= since'[w][k]
        <5>1. \A t \in recent \cup {now} : t \in passed[w][k] \cup {now} /\ t >= since[w][k]
          BY <1>a, <1>2, <4>3
        <5> QED BY <4>1, <4>2, <5>1
      <4>5. \A t \in passed'[w][k] \ rate'[w][k] : t >= since'[w][k] => now' - t > Period
        BY <1>a, <1>2, <4>1, <4>2, <4>3
      <4> QED BY <1>3, <3>2, <4>1, <4>4, <4>5 DEF KeyIsTrue
    <3>3. CASE v = w /\ x # k /\ x \in gone
      <4>1. x \notin DOMAIN rate'[w] BY <1>10, <3>3
      <4>2. since'[w][x] = now /\ passed'[w][x] = passed[w][x] BY <1>11, <3>3
      <4> QED BY <1>i, <3>3, <4>1, <4>2 DEF KeyIsTrue, PastOnly
    <3>4. CASE v = w /\ x # k /\ x \notin gone
      <4>1. /\ x \in DOMAIN rate'[w] <=> x \in DOMAIN rate[w]
            /\ x \in DOMAIN rate[w] => rate'[w][x] = rate[w][x]
        BY <1>4, <1>10, <3>4
      <4>2. since'[w][x] = since[w][x] /\ passed'[w][x] = passed[w][x] BY <1>11, <3>4
      <4> QED BY <1>0, <3>4, <4>1, <4>2, OthersStayTrue
    <3> QED BY <3>1, <3>2, <3>3, <3>4
  <2> QED BY <1>i, <2>1 DEF TableIsTrue
<1>15. TablesAreFinite' BY <1>i, <1>8, <1>10 DEF TablesAreFinite
<1>16. RefusedOnlyForWhatPassed' BY <1>i, <1>0 DEF RefusedOnlyForWhatPassed
<1>17. TableIsBounded'
  <2>1. \A v \in Workers : Cardinality(DOMAIN rate'[v]) <= MaxKeys
    BY <1>i, <1>8, <1>10 DEF TableIsBounded
  <2>2. ASSUME NEW v \in Workers, NEW x \in Clients, NEW t \in passed'[v][x], t >= since'[v][x],
               \A y \in Clients : \A u \in passed'[v][y] : u <= t
        PROVE  x \in DOMAIN rate'[v]
    <3>1. CASE v # w BY <1>i, <1>10, <1>11, <2>2, <3>1 DEF TableIsBounded
    <3>2. CASE v = w
      <4>1. now <= t BY <1>11, <2>2, <3>2
      <4>2. x = k
        <5>1. SUFFICES ASSUME x # k PROVE FALSE OBVIOUS
        <5>2. t \in passed[w][x] BY <1>11, <2>2, <3>2, <5>1
        <5> QED BY <1>i, <1>0, <4>1, <5>2 DEF PastOnly, RateTypeOK
      <4> QED BY <1>4, <1>7, <1>10, <3>2, <4>2
    <3> QED BY <3>1, <3>2
  <2> QED BY <1>i, <2>1, <2>2 DEF TableIsBounded
<1> QED BY <1>12, <1>13, <1>14, <1>15, <1>16, <1>17 DEF RateIInv

LEMMA RateStep == RateIInv /\ [RateNext]_rateVars => RateIInv'
<1> SUFFICES ASSUME RateIInv, [RateNext]_rateVars PROVE RateIInv' OBVIOUS
<1>1. CASE RateNext
  BY <1>1, ReplaceKeeps, RefuseKeeps, LetThroughKeeps DEF RateNext, Request
<1>2. CASE UNCHANGED rateVars
  <2>1. RateTypeOK' BY <1>2 DEF RateIInv, RateTypeOK, rateVars
  <2>2. PastOnly' BY <1>2 DEF RateIInv, PastOnly, rateVars
  <2>3. TableIsTrue' BY <1>2 DEF RateIInv, TableIsTrue, KeyIsTrue, rateVars
  <2>4. TablesAreFinite' BY <1>2 DEF RateIInv, TablesAreFinite, rateVars
  <2>5. RefusedOnlyForWhatPassed'
    BY <1>2 DEF RateIInv, RefusedOnlyForWhatPassed, Within, rateVars
  <2>6. TableIsBounded' BY <1>2 DEF RateIInv, TableIsBounded, rateVars
  <2> QED BY <2>1, <2>2, <2>3, <2>4, <2>5, <2>6 DEF RateIInv
<1> QED BY <1>1, <1>2

LEMMA RateInvariance == RateSpec => []RateIInv
BY RateInitHolds, RateStep, PTL DEF RateSpec

\* Each worker lets through what the limit allows, in every period and until it
\* forgets the client, and refuses only what would exceed it: for any limit and
\* period, any number of clients and any order and timing of their requests.
THEOREM TheLimitIsExact == RateSpec => []LimitIsExact
<1>1. RateIInv => LimitIsExact
  <2> SUFFICES ASSUME RateIInv, NEW w \in Workers, NEW k \in Clients
               PROVE  Cardinality(Within(w, k, now - Period, now)) <= MaxCalls
    BY DEF RateIInv, LimitIsExact, EachWorkerKeepsTheLimit
  <2> USE RateAssumption DEF RateIInv
  <2>1. KeyIsTrue(w, k) BY DEF TableIsTrue
  <2>2. /\ now \in Nat /\ passed[w][k] \subseteq Nat /\ since[w][k] \in Nat
        /\ \A t \in passed[w][k] : t < now
    BY DEF RateTypeOK, PastOnly
  <2>3. CASE k \in DOMAIN rate[w]
    <3>1. Within(w, k, now - Period, now) \in SUBSET rate[w][k]
      BY <2>1, <2>2, <2>3 DEF KeyIsTrue, Within
    <3>2. IsFiniteSet(rate[w][k]) /\ Cardinality(rate[w][k]) \in 1 .. MaxCalls
      BY <2>1, <2>3 DEF KeyIsTrue
    <3>3. /\ IsFiniteSet(Within(w, k, now - Period, now))
          /\ Cardinality(Within(w, k, now - Period, now)) <= Cardinality(rate[w][k])
      BY <3>1, <3>2, FS_Subset
    <3>4. Cardinality(Within(w, k, now - Period, now)) \in Nat BY <3>3, FS_CardinalityType
    <3> QED BY <3>2, <3>3, <3>4
  <2>4. CASE k \notin DOMAIN rate[w]
    <3>1. Within(w, k, now - Period, now) = {} BY <2>1, <2>2, <2>4 DEF KeyIsTrue, Within
    <3> QED BY <3>1, FS_EmptySet
  <2> QED BY <2>3, <2>4
<1> QED BY <1>1, RateInvariance, PTL

\* The table never outgrows its limit, whatever the number of clients, and the
\* eviction never takes the client that was just served.
THEOREM TheTableIsBounded == RateSpec => []TableIsBounded
<1>1. RateIInv => TableIsBounded BY DEF RateIInv
<1> QED BY <1>1, RateInvariance, PTL

-----------------------------------------------------------------------------
(* Files are created whole: IInv is inductive, and the properties follow from it. *)

LEMMA OutputInit == Init => IInv
<1> SUFFICES ASSUME Init PROVE IInv
  OBVIOUS
<1> USE DEF Init
<1>1. TypeOK
  BY OutputAssumption DEF TypeOK, Stages, Content
<1>2. Underway
  BY DEF Underway, AfterWrite, AfterFlush, AfterSync
<1>3. Publications
  BY OutputAssumption DEF Publications
<1>4. Temporaries
  BY DEF Temporaries
<1>5. NothingOverwritten /\ SuccessIsDurable
  BY OutputAssumption DEF NothingOverwritten, SuccessIsDurable
<1> QED BY <1>1, <1>2, <1>3, <1>4, <1>5 DEF IInv

LEMMA TypeStep == TypeOK /\ [Next]_vars => TypeOK'
<1> SUFFICES ASSUME TypeOK, [Next]_vars PROVE TypeOK'
  OBVIOUS
<1> USE OutputAssumption DEF TypeOK, Moves, Rebinds, Stages, Content, given,
    streamVars, fileVars, dirVars
<1>1. ASSUME NEW w \in Writers, WriterStep(w) PROVE TypeOK'
  <2>1. CASE Open(w)  BY <2>1 DEF Open
  <2>2. CASE OpenFails(w)  BY <2>2 DEF OpenFails
  <2>3. CASE WriteAll(w)  BY <2>3 DEF WriteAll
  <2>4. CASE WriteShort(w)  BY <2>4 DEF WriteShort
  <2>5. CASE CallFinish(w)  BY <2>5 DEF CallFinish
  <2>6. CASE Flush(w)  BY <2>6 DEF Flush
  <2>7. CASE Sync(w)  BY <2>7 DEF Sync
  <2>8. CASE Close(w)  BY <2>8 DEF Close
  <2>9. CASE Discard(w)  BY <2>9 DEF Discard
  <2>10. CASE Rename(w)  BY <2>10 DEF Rename
  <2>11. CASE Link(w)  BY <2>11 DEF Link
  <2>12. CASE PublishFails(w)  BY <2>12 DEF PublishFails
  <2>13. CASE Unlink(w)  BY <2>13 DEF Unlink
  <2>14. CASE SyncDir(w)  BY <2>14 DEF SyncDir
  <2>15. CASE Kill(w)  BY <2>15 DEF Kill
  <2> QED BY <1>1, <2>1, <2>2, <2>3, <2>4, <2>5, <2>6, <2>7, <2>8, <2>9, <2>10,
             <2>11, <2>12, <2>13, <2>14, <2>15 DEF WriterStep, FinishStep
<1>2. ASSUME PowerFailure PROVE TypeOK'
  BY <1>2 DEF PowerFailure
<1>3. CASE UNCHANGED vars
  BY <1>3 DEF vars
<1> QED BY <1>1, <1>2, <1>3 DEF Next

\* A writer about to publish has its whole content on disk: each stage of
\* zupt_finish_output hands on what the next one needs.
LEMMA UnderwayStep == IInv /\ [Next]_vars => Underway'
<1> SUFFICES ASSUME IInv, [Next]_vars PROVE Underway'
  OBVIOUS
<1> USE OutputAssumption DEF IInv, TypeOK, Moves, given, streamVars,
    fileVars, dirVars, Stages, Content,
    Underway, AfterWrite, AfterFlush, AfterSync
<1>1. ASSUME NEW w \in Writers, WriterStep(w) PROVE Underway'
  <2>1. CASE Open(w)  BY <2>1 DEF Open
  <2>2. CASE OpenFails(w)  BY <2>2 DEF OpenFails
  <2>3. CASE WriteAll(w)  BY <2>3 DEF WriteAll
  <2>4. CASE WriteShort(w)  BY <2>4 DEF WriteShort
  <2>5. CASE CallFinish(w)  BY <2>5 DEF CallFinish
  <2>6. CASE Flush(w)  BY <2>6 DEF Flush
  <2>7. CASE Sync(w)  BY <2>7 DEF Sync
  <2>8. CASE Close(w)
    <3>1. /\ pc[w] = "close" /\ pc' = [pc EXCEPT ![w] = "publish"]
          /\ UNCHANGED <<content, noted, cached, durable, published>>
      BY <2>8 DEF Close
    <3>2. \A v \in Writers \ {w} : want'[v] = want[v] /\ failed'[v] = failed[v]
      BY <2>8 DEF Close
    <3>3. (want'[w] => want[w] /\ ~failed'[w]) /\ (failed[w] => failed'[w])
      BY <2>8 DEF Close
    <3> QED BY <3>1, <3>2, <3>3
  <2>9. CASE Discard(w)  BY <2>9 DEF Discard
  <2>10. CASE Rename(w)  BY <2>10 DEF Rename
  <2>11. CASE Link(w)  BY <2>11 DEF Link
  <2>12. CASE PublishFails(w)  BY <2>12 DEF PublishFails
  <2>13. CASE Unlink(w)  BY <2>13 DEF Unlink
  <2>14. CASE SyncDir(w)  BY <2>14 DEF SyncDir
  <2>15. CASE Kill(w)  BY <2>15 DEF Kill
  <2> QED BY <1>1, <2>1, <2>2, <2>3, <2>4, <2>5, <2>6, <2>7, <2>8,
             <2>9, <2>10, <2>11, <2>12, <2>13, <2>14, <2>15 DEF WriterStep, FinishStep
<1>2. ASSUME PowerFailure PROVE Underway'
  BY <1>2 DEF PowerFailure
<1>3. CASE UNCHANGED vars
  BY <1>3 DEF vars
<1> QED BY <1>1, <1>2, <1>3 DEF Next

\* The final name changes hands by publications only.
LEMMA PublicationsStep == IInv /\ [Next]_vars => Publications'
<1> SUFFICES ASSUME IInv, [Next]_vars PROVE Publications'
  OBVIOUS
<1> USE OutputAssumption DEF IInv, TypeOK, Moves, given, streamVars,
    fileVars, dirVars, Stages, Content,
    Rebinds, Underway, Publications, AfterWrite, AfterFlush, AfterSync
<1>1. ASSUME NEW w \in Writers, WriterStep(w) PROVE Publications'
  <2>1. CASE Open(w)  BY <2>1 DEF Open
  <2>2. CASE OpenFails(w)  BY <2>2 DEF OpenFails
  <2>3. CASE WriteAll(w)  BY <2>3 DEF WriteAll
  <2>4. CASE WriteShort(w)  BY <2>4 DEF WriteShort
  <2>5. CASE CallFinish(w)  BY <2>5 DEF CallFinish
  <2>6. CASE Flush(w)  BY <2>6 DEF Flush
  <2>7. CASE Sync(w)  BY <2>7 DEF Sync
  <2>8. CASE Close(w)  BY <2>8 DEF Close
  <2>9. CASE Discard(w)  BY <2>9 DEF Discard
  <2>10. CASE Rename(w)  BY <2>10 DEF Rename
  <2>11. CASE Link(w)  BY <2>11 DEF Link
  <2>12. CASE PublishFails(w)  BY <2>12 DEF PublishFails
  <2>13. CASE Unlink(w)  BY <2>13 DEF Unlink
  <2>14. CASE SyncDir(w)  BY <2>14 DEF SyncDir
  <2>15. CASE Kill(w)  BY <2>15 DEF Kill
  <2> QED BY <1>1, <2>1, <2>2, <2>3, <2>4, <2>5, <2>6, <2>7, <2>8,
             <2>9, <2>10, <2>11, <2>12, <2>13, <2>14, <2>15 DEF WriterStep, FinishStep
<1>2. ASSUME PowerFailure PROVE Publications'
  BY <1>2 DEF PowerFailure
<1>3. CASE UNCHANGED vars
  BY <1>3 DEF vars
<1> QED BY <1>1, <1>2, <1>3 DEF Next

\* The temporary name goes with the writer that has it.
LEMMA TemporariesStep == IInv /\ [Next]_vars => Temporaries'
<1> SUFFICES ASSUME IInv, [Next]_vars PROVE Temporaries'
  OBVIOUS
<1> USE OutputAssumption DEF IInv, TypeOK, Moves, given, streamVars,
    fileVars, dirVars, Stages, Content,
    Opened, Temporaries
<1>1. ASSUME NEW w \in Writers, WriterStep(w) PROVE Temporaries'
  <2>1. CASE Open(w)  BY <2>1 DEF Open
  <2>2. CASE OpenFails(w)  BY <2>2 DEF OpenFails
  <2>3. CASE WriteAll(w)  BY <2>3 DEF WriteAll
  <2>4. CASE WriteShort(w)  BY <2>4 DEF WriteShort
  <2>5. CASE CallFinish(w)  BY <2>5 DEF CallFinish
  <2>6. CASE Flush(w)  BY <2>6 DEF Flush
  <2>7. CASE Sync(w)  BY <2>7 DEF Sync
  <2>8. CASE Close(w)  BY <2>8 DEF Close
  <2>9. CASE Discard(w)  BY <2>9 DEF Discard
  <2>10. CASE Rename(w)  BY <2>10 DEF Rename
  <2>11. CASE Link(w)  BY <2>11 DEF Link
  <2>12. CASE PublishFails(w)  BY <2>12 DEF PublishFails
  <2>13. CASE Unlink(w)  BY <2>13 DEF Unlink
  <2>14. CASE SyncDir(w)  BY <2>14 DEF SyncDir
  <2>15. CASE Kill(w)  BY <2>15 DEF Kill
  <2> QED BY <1>1, <2>1, <2>2, <2>3, <2>4, <2>5, <2>6, <2>7, <2>8,
             <2>9, <2>10, <2>11, <2>12, <2>13, <2>14, <2>15 DEF WriterStep, FinishStep
<1>2. ASSUME PowerFailure PROVE Temporaries'
  BY <1>2 DEF PowerFailure
<1>3. CASE UNCHANGED vars
  BY <1>3 DEF vars
<1> QED BY <1>1, <1>2, <1>3 DEF Next

\* linkat finds the name taken after the first publication.
LEMMA NothingOverwrittenStep == IInv /\ [Next]_vars => NothingOverwritten'
<1> SUFFICES ASSUME IInv, [Next]_vars PROVE NothingOverwritten'
  OBVIOUS
<1> USE OutputAssumption DEF IInv, TypeOK, Moves, given, streamVars,
    fileVars, dirVars, Stages, Content,
    Rebinds, Publications, NothingOverwritten
<1>1. ASSUME NEW w \in Writers, WriterStep(w) PROVE NothingOverwritten'
  <2>1. CASE Open(w)  BY <2>1 DEF Open
  <2>2. CASE OpenFails(w)  BY <2>2 DEF OpenFails
  <2>3. CASE WriteAll(w)  BY <2>3 DEF WriteAll
  <2>4. CASE WriteShort(w)  BY <2>4 DEF WriteShort
  <2>5. CASE CallFinish(w)  BY <2>5 DEF CallFinish
  <2>6. CASE Flush(w)  BY <2>6 DEF Flush
  <2>7. CASE Sync(w)  BY <2>7 DEF Sync
  <2>8. CASE Close(w)  BY <2>8 DEF Close
  <2>9. CASE Discard(w)  BY <2>9 DEF Discard
  <2>10. CASE Rename(w)  BY <2>10 DEF Rename
  <2>11. CASE Link(w)  BY <2>11 DEF Link
  <2>12. CASE PublishFails(w)  BY <2>12 DEF PublishFails
  <2>13. CASE Unlink(w)  BY <2>13 DEF Unlink
  <2>14. CASE SyncDir(w)  BY <2>14 DEF SyncDir
  <2>15. CASE Kill(w)  BY <2>15 DEF Kill
  <2> QED BY <1>1, <2>1, <2>2, <2>3, <2>4, <2>5, <2>6, <2>7, <2>8,
             <2>9, <2>10, <2>11, <2>12, <2>13, <2>14, <2>15 DEF WriterStep, FinishStep
<1>2. ASSUME PowerFailure PROVE NothingOverwritten'
  BY <1>2 DEF PowerFailure
<1>3. CASE UNCHANGED vars
  BY <1>3 DEF vars
<1> QED BY <1>1, <1>2, <1>3 DEF Next

\* Syncing the directory leaves the current publisher alone under the name.
LEMMA SuccessIsDurableStep == IInv /\ [Next]_vars => SuccessIsDurable'
<1> SUFFICES ASSUME IInv, [Next]_vars PROVE SuccessIsDurable'
  OBVIOUS
<1> USE OutputAssumption DEF IInv, TypeOK, Moves, given, streamVars,
    fileVars, dirVars, Stages, Content,
    Rebinds, Publications, SuccessIsDurable
<1>1. ASSUME NEW w \in Writers, WriterStep(w) PROVE SuccessIsDurable'
  <2>1. CASE Open(w)  BY <2>1 DEF Open
  <2>2. CASE OpenFails(w)  BY <2>2 DEF OpenFails
  <2>3. CASE WriteAll(w)  BY <2>3 DEF WriteAll
  <2>4. CASE WriteShort(w)  BY <2>4 DEF WriteShort
  <2>5. CASE CallFinish(w)  BY <2>5 DEF CallFinish
  <2>6. CASE Flush(w)  BY <2>6 DEF Flush
  <2>7. CASE Sync(w)  BY <2>7 DEF Sync
  <2>8. CASE Close(w)  BY <2>8 DEF Close
  <2>9. CASE Discard(w)  BY <2>9 DEF Discard
  <2>10. CASE Rename(w)  BY <2>10 DEF Rename
  <2>11. CASE Link(w)  BY <2>11 DEF Link
  <2>12. CASE PublishFails(w)  BY <2>12 DEF PublishFails
  <2>13. CASE Unlink(w)  BY <2>13 DEF Unlink
  <2>14. CASE SyncDir(w)  BY <2>14 DEF SyncDir
  <2>15. CASE Kill(w)  BY <2>15 DEF Kill
  <2> QED BY <1>1, <2>1, <2>2, <2>3, <2>4, <2>5, <2>6, <2>7, <2>8,
             <2>9, <2>10, <2>11, <2>12, <2>13, <2>14, <2>15 DEF WriterStep, FinishStep
<1>2. ASSUME PowerFailure PROVE SuccessIsDurable'
  BY <1>2 DEF PowerFailure
<1>3. CASE UNCHANGED vars
  BY <1>3 DEF vars
<1> QED BY <1>1, <1>2, <1>3 DEF Next

-----------------------------------------------------------------------------

\* The inductive invariant of the writers of one name, however many they are.
THEOREM OutputInvariance == Spec => []IInv
<1>1. IInv /\ [Next]_vars => IInv'
  BY TypeStep, UnderwayStep, PublicationsStep, TemporariesStep,
     NothingOverwrittenStep, SuccessIsDurableStep DEF IInv
<1> QED BY OutputInit, <1>1, PTL DEF Spec

\* zupt_finish_output publishes whole files only: neither a reader nor a power
\* failure ever finds part of a file under the final name.
THEOREM WholeFiles == Spec => []FinalIsWhole
<1>1. IInv => FinalIsWhole
  BY DEF IInv, TypeOK, Publications, FinalIsWhole
<1> QED BY OutputInvariance, <1>1, PTL

\* Extraction (replace = 0) takes no name that is taken.
THEOREM NoOverwriting == Spec => []NothingOverwritten
<1>1. IInv => NothingOverwritten
  BY DEF IInv
<1> QED BY OutputInvariance, <1>1, PTL

\* zupt_finish_output returns 0 only when what was asked for is done.
THEOREM TruthfulSuccess == Spec => []SuccessIsTrue
<1>1. IInv => SuccessIsTrue
  BY DEF IInv, Publications, SuccessIsTrue
<1> QED BY OutputInvariance, <1>1, PTL

\* A publication that was reported outlives a power failure.
THEOREM DurableSuccess == Spec => []SuccessIsDurable
<1>1. IInv => SuccessIsDurable
  BY DEF IInv
<1> QED BY OutputInvariance, <1>1, PTL

\* Temporary files are left by kills and failures only.
THEOREM LitterExplained == Spec => []LitterHasCause
<1>1. IInv => LitterHasCause
  BY DEF IInv, TypeOK, Temporaries, LitterHasCause, Opened, Stages
<1> QED BY OutputInvariance, <1>1, PTL
=============================================================================
