----------------------------- MODULE ZParProofs -----------------------------
(***************************************************************************)
(* What a step of the pool preserves, whatever the driver: cited by the    *)
(* proofs about the drivers for each of their steps.                       *)
(***************************************************************************)
EXTENDS ZPar, TLAPS

LEMMA SlotsNonEmpty == NSlots \in Nat \ {0} /\ 0 \in Slots
  BY PoolAssumption DEF NSlots, Slots

LEMMA SlotOfIsSlot ==
  ASSUME NEW q \in Nat
  PROVE  SlotOf(q) \in Slots
<1>1. q % NSlots \in 0 .. NSlots - 1 BY SlotsNonEmpty
<1> QED BY <1>1 DEF SlotOf, Slots

LEMMA DivisionByCount ==
  ASSUME NEW a \in Nat, NEW n \in Nat \ {0}
  PROVE  \E q \in Nat : a = n * q + (a % n)
<1>1. a \div n \in Nat OBVIOUS
<1>2. a = n * (a \div n) + (a % n) OBVIOUS
<1> QED BY <1>1, <1>2

\* Sequence numbers closer together than the number of slots get different
\* slots.
LEMMA CloseSequencesDiffer ==
  ASSUME NEW a \in Nat, NEW b \in Nat, a < b, b - a < NSlots
  PROVE  SlotOf(a) # SlotOf(b)
<1> DEFINE n == NSlots
<1>0. n \in Nat \ {0} BY SlotsNonEmpty
<1> HIDE DEF n
<1> SUFFICES ASSUME a % n = b % n PROVE FALSE BY DEF SlotOf, n
<1>1. PICK q \in Nat : a = n * q + (a % n) BY <1>0, DivisionByCount
<1>2. PICK r \in Nat : b = n * r + (b % n) BY <1>0, DivisionByCount
<1>3. a % n \in 0 .. n - 1 /\ b % n \in 0 .. n - 1 BY <1>0
<1>4. b - a = n * r - n * q BY <1>0, <1>1, <1>2, <1>3
<1>5. n * r - n * q = n * (r - q) BY <1>0
<1>6. b - a > 0 /\ b - a < n BY DEF n
<1>7. r - q \in Int /\ n * (r - q) > 0 /\ n * (r - q) < n
  BY <1>4, <1>5, <1>6
<1> QED BY <1>0, <1>7

-----------------------------------------------------------------------------

LEMMA PoolInitTyped == PoolInit => PoolTypeOK /\ Results
<1> SUFFICES ASSUME PoolInit PROVE PoolTypeOK /\ Results OBVIOUS
<1>1. PoolTypeOK
  BY PoolAssumption DEF PoolInit, PoolTypeOK, Slot, WorkerState, NoBlock
<1>2. Results
  BY DEF PoolInit, Results, Busy, NoBlock
<1> QED BY <1>1, <1>2

\* A worker's own steps.
WorkerMoves(w) == WorkerStep(w) \/ WorkerSpurious(w)

LEMMA WorkerTyped ==
  ASSUME PoolTypeOK, NEW w \in Slots, WorkerMoves(w)
  PROVE  PoolTypeOK'
<1>1. CASE WorkerEnter(w)
  BY <1>1 DEF WorkerEnter, PoolTypeOK, Slot, WorkerState, NoBlock
<1>2. CASE WorkerSpurious(w)
  BY <1>2 DEF WorkerSpurious, PoolTypeOK, Slot, WorkerState, NoBlock
<1>3. CASE WorkerCheck(w)
  BY <1>3 DEF WorkerCheck, PoolTypeOK, Slot, WorkerState, NoBlock
<1>4. CASE WorkerCancel(w)
  <2> DEFINE r == [slots[w] EXCEPT !.error = "CORRUPT", !.status = "DONE"]
  <2>1. slots' = [slots EXCEPT ![w] = r]
    BY <1>4 DEF WorkerCancel
  <2>2. slots[w] \in Slot
    BY DEF PoolTypeOK
  <2>3. r \in Slot
    BY <2>2 DEF Slot
  <2>4. slots' \in [Slots -> Slot]
    BY <2>1, <2>3 DEF PoolTypeOK
  <2> QED BY <1>4, <2>4 DEF WorkerCancel, PoolTypeOK, WorkerState
<1>5. CASE WorkerProcess(w)
  BY <1>5 DEF WorkerProcess, PoolTypeOK, Slot, WorkerState, NoBlock
<1>6. CASE WorkerRaise(w)
  BY <1>6 DEF WorkerRaise, PoolTypeOK, Slot, WorkerState, NoBlock
<1>7. CASE WorkerMark(w)
  BY <1>7 DEF WorkerMark, PoolTypeOK, Slot, WorkerState, NoBlock
<1> QED BY <1>1, <1>2, <1>3, <1>4, <1>5, <1>6, <1>7 DEF WorkerMoves, WorkerStep

\* Workers touch neither what a slot was filled with nor free or finished
\* slots; only a slot of status READY changes its status.
LEMMA WorkerFrame ==
  ASSUME PoolTypeOK, Results, NEW w \in Slots, WorkerMoves(w), NEW s \in Slots
  PROVE  /\ slots'[s].block = slots[s].block
         /\ slots'[s].sound = slots[s].sound
         /\ slots'[s].status = "EMPTY" <=> slots[s].status = "EMPTY"
         /\ slots[s].status = "DONE" => slots'[s] = slots[s]
<1>1. CASE WorkerEnter(w)
  BY <1>1 DEF WorkerEnter, PoolTypeOK, Results, Slot, Busy
<1>2. CASE WorkerSpurious(w)
  BY <1>2 DEF WorkerSpurious, PoolTypeOK, Results, Slot, Busy
<1>3. CASE WorkerCheck(w)
  BY <1>3 DEF WorkerCheck, PoolTypeOK, Results, Slot, Busy
<1>4. CASE WorkerCancel(w)
  BY <1>4 DEF WorkerCancel, PoolTypeOK, Results, Slot, Busy
<1>5. CASE WorkerProcess(w)
  <2>1. slots[w].status = "READY" BY <1>5 DEF WorkerProcess, Results, Busy
  <2>2. CASE slots[w].sound
    BY <1>5, <2>1, <2>2 DEF WorkerProcess, PoolTypeOK, Slot
  <2>3. CASE ~slots[w].sound
    BY <1>5, <2>1, <2>3 DEF WorkerProcess, PoolTypeOK, Slot
  <2> QED BY <2>2, <2>3
<1>6. CASE WorkerRaise(w)
  BY <1>6 DEF WorkerRaise, PoolTypeOK, Results, Slot, Busy
<1>7. CASE WorkerMark(w)
  BY <1>7 DEF WorkerMark, PoolTypeOK, Results, Slot, Busy
<1> QED BY <1>1, <1>2, <1>3, <1>4, <1>5, <1>6, <1>7 DEF WorkerMoves, WorkerStep

LEMMA WorkerResults ==
  ASSUME PoolTypeOK, Results, NEW w \in Slots, WorkerMoves(w)
  PROVE  Results'
<1>1. CASE WorkerEnter(w)
  BY <1>1 DEF WorkerEnter, PoolTypeOK, Results, Slot, Busy
<1>2. CASE WorkerSpurious(w)
  BY <1>2 DEF WorkerSpurious, PoolTypeOK, Results, Slot, Busy
<1>3. CASE WorkerCheck(w)
  BY <1>3 DEF WorkerCheck, PoolTypeOK, Results, Slot, Busy
<1>4. CASE WorkerCancel(w)
  BY <1>4 DEF WorkerCancel, PoolTypeOK, Results, Slot, Busy
<1>5. CASE WorkerProcess(w)
  <2>1. slots[w].status = "READY" BY <1>5 DEF WorkerProcess, Results, Busy
  <2>2. CASE slots[w].sound
    BY <1>5, <2>1, <2>2 DEF WorkerProcess, PoolTypeOK, Results, Slot, Busy
  <2>3. CASE ~slots[w].sound
    BY <1>5, <2>1, <2>3 DEF WorkerProcess, PoolTypeOK, Results, Slot, Busy
  <2> QED BY <2>2, <2>3
<1>6. CASE WorkerRaise(w)
  BY <1>6 DEF WorkerRaise, PoolTypeOK, Results, Slot, Busy
<1>7. CASE WorkerMark(w)
  BY <1>7 DEF WorkerMark, PoolTypeOK, Results, Slot, Busy
<1> QED BY <1>1, <1>2, <1>3, <1>4, <1>5, <1>6, <1>7 DEF WorkerMoves, WorkerStep

LEMMA SubmitKeeps ==
  ASSUME PoolTypeOK, Results, NEW s \in Slots, NEW b \in Nat,
         NEW ok \in BOOLEAN, SubmitFills(s, b, ok)
  PROVE  PoolTypeOK' /\ Results'
<1>1. PoolTypeOK'
  BY DEF PoolTypeOK, SubmitFills, WorkersWoken, Slot, WorkerState, NoBlock
<1>2. Results'
  BY DEF PoolTypeOK, Results, SubmitFills, WorkersWoken, Slot, WorkerState,
         Busy, NoBlock
<1> QED BY <1>1, <1>2

\* Releasing a slot is safe once zpar_wait_slot has seen it DONE.
LEMMA ReleaseKeeps ==
  ASSUME PoolTypeOK, Results, NEW s \in Slots, slots[s].status = "DONE",
         ReleaseSlot(s)
  PROVE  PoolTypeOK' /\ Results'
<1>1. PoolTypeOK'
  <2> DEFINE r == [slots[s] EXCEPT !.status = "EMPTY", !.output = NoBlock]
  <2>1. slots' = [slots EXCEPT ![s] = r]
    BY DEF ReleaseSlot
  <2>2. slots[s] \in Slot
    BY DEF PoolTypeOK
  <2>3. r \in Slot
    BY <2>2 DEF Slot, NoBlock
  <2>4. slots' \in [Slots -> Slot]
    BY <2>1, <2>3 DEF PoolTypeOK
  <2> QED BY <2>4 DEF ReleaseSlot, PoolTypeOK
<1>2. Results'
  BY DEF PoolTypeOK, Results, ReleaseSlot, Slot, Busy, NoBlock
<1> QED BY <1>1, <1>2

LEMMA ShutdownKeeps ==
  ASSUME PoolTypeOK, Results, SignalShutdown
  PROVE  PoolTypeOK' /\ Results'
  BY DEF PoolTypeOK, Results, SignalShutdown, WorkersWoken, WorkerState, Busy

LEMMA SleepKeeps ==
  ASSUME PoolTypeOK, Results, MainSleeps \/ MainSpurious \/ UNCHANGED poolVars
  PROVE  PoolTypeOK' /\ Results'
  BY DEF PoolTypeOK, Results, MainSleeps, MainSpurious, poolVars
=============================================================================
