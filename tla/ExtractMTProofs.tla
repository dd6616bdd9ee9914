-------------------------- MODULE ExtractMTProofs ---------------------------
(***************************************************************************)
(* Proofs about ExtractMT: the inductive invariant IInv and what follows   *)
(* from it, for any number of threads, slots, files and blocks.            *)
(***************************************************************************)
EXTENDS ExtractMT, ZParProofs

LEMMA SeqTyped ==
  ASSUME NEW f \in Nat, NEW b \in Nat \ {0},
         seqMode \in {"positional", "linear", "zero"}
  PROVE  SeqOf(f, b) \in Nat /\ SlotOf(SeqOf(f, b)) \in Slots
<1>1. SeqOf(f, b) \in Nat
  <2>1. CASE seqMode = "positional"
    <3>1. f * SeqStride \in Nat BY PoolAssumption
    <3> QED BY <2>1, <3>1 DEF SeqOf
  <2>2. CASE seqMode = "linear" BY <2>2 DEF SeqOf
  <2>3. CASE seqMode = "zero" BY <2>3 DEF SeqOf
  <2> QED BY <2>1, <2>2, <2>3
<1> QED BY <1>1, SlotOfIsSlot

LEMMA TargetIsSlot ==
  ASSUME TypeOK, fi \in Files
  PROVE  Target \in Slots
  BY SeqTyped, ExtractAssumption DEF TypeOK, Target, Files

LEMMA ArchiveTyped ==
  ASSUME archive \in Archives, NEW f \in Files
  PROVE  /\ archive[f] \in Seq(Frames) /\ Count(f) \in Nat
         /\ \A b \in 1 .. Count(f) : archive[f][b] \in Frames
<1>1. archive[f] \in Seq(Frames) BY ExtractAssumption
<1> QED BY <1>1 DEF Count

-----------------------------------------------------------------------------
(* The initial states.                                                     *)

LEMMA FateInit == Init => Fate
<1> SUFFICES ASSUME Init PROVE Fate OBVIOUS
<1> USE SlotsNonEmpty, PoolAssumption, ExtractAssumption
<1>1. Settled BY DEF Init, Settled, Files
<1>2. Path BY DEF Init, Path, InFile
<1>3. Flagged
  <2>1. \A g \in 1 .. fi - 1 : FALSE BY DEF Init
  <2> QED BY <2>1 DEF Init, PoolInit, Flagged, Tainted
<1>4. Judged BY DEF Init, Judged, InFile
<1> QED BY <1>1, <1>2, <1>3, <1>4 DEF Fate

LEMMA InitIInv == Init => IInv
<1> SUFFICES ASSUME Init PROVE IInv OBVIOUS
<1> USE SlotsNonEmpty, PoolAssumption, ExtractAssumption
<1>1. PoolTypeOK /\ Results
  BY PoolInitTyped DEF Init
<1>2. TypeOK
  <2>1. pend \in [1 .. Threads -> Slots] BY DEF Init
  <2>2. written \in Seq(Nat) /\ content \in [Files -> Seq(Nat)]
    <3>1. <<>> \in Seq(Nat) OBVIOUS
    <3> QED BY <3>1 DEF Init
  <2>3. outcome \in [Files -> {"pending", "published", "failed"}]
    BY DEF Init
  <2>4. /\ fi \in 1 .. NFiles + 1 /\ blk \in Nat \ {0}
        /\ np \in 0 .. Threads /\ ci \in 1 .. Threads + 1
    BY DEF Init
  <2> QED BY <1>1, <2>1, <2>2, <2>3, <2>4 DEF Init, TypeOK, MainState
<1>3. Control
  BY DEF Init, PoolInit, Control, InFile
<1>4. Window
  BY DEF Init, PoolInit, Window
<1>5. Progress
  BY DEF Init, Progress, InFile
<1>6. CancelHasCause
  BY DEF Init, PoolInit, CancelHasCause
<1> QED BY <1>1, <1>2, <1>3, <1>4, <1>5, <1>6, FateInit DEF IInv

-----------------------------------------------------------------------------
(* Steps by what they do to the pool.                                      *)

\* The steps of the main thread that leave the pool alone.
MainAlone ==
  \/ OpenFile \/ SkipFile \/ NoPending
  \/ ReadData \/ ReadRef \/ ReadOther \/ BatchFull
  \/ SubmitFails \/ CollectReturns \/ Take \/ CollectEnds
  \/ ResolveRef \/ SerialBlock \/ SerialEnds
  \/ CloseFile \/ AllClosed \/ Join

\* The steps that change only who sleeps and who is awake.
Asleep ==
  /\ MainSleeps \/ MainSpurious
  /\ UNCHANGED mainVars
  /\ mpc = "submit" \/ (mpc = "collect" /\ ci <= np) \/ mainAsleep

LEMMA StepCases ==
  ASSUME [Next]_vars
  PROVE  \/ MainAlone /\ UNCHANGED poolVars
         \/ Asleep
         \/ Submit
         \/ Release
         \/ Destroy
         \/ \E w \in Slots : WorkerMoves(w) /\ UNCHANGED mainVars
         \/ UNCHANGED vars
<1>1. MainAlone => UNCHANGED poolVars
  BY DEF MainAlone, OpenFile, SkipFile, NoPending, ReadData, ReadRef,
         ReadOther, BatchFull, SubmitFails, CollectReturns, Take, CollectEnds,
         ResolveRef, SerialBlock, SerialEnds, CloseFile, AllClosed, Join,
         SubmitRefuses, WaitReturns
<1>2. SubmitWaits \/ CollectWaits => Asleep
  BY DEF SubmitWaits, CollectWaits, SubmitBlocks, WaitBlocks, Asleep
<1>3. Spurious => Asleep \/ \E w \in Slots : WorkerMoves(w) /\ UNCHANGED mainVars
  BY DEF Spurious, Asleep, MainSpurious, WorkerMoves
<1>4. \A w \in Slots : Workers(w) => WorkerMoves(w) /\ UNCHANGED mainVars
  BY DEF Workers, WorkerMoves
<1>5. MainStep => \/ MainAlone \/ SubmitWaits \/ CollectWaits
                  \/ Submit \/ Release \/ Destroy
  BY DEF MainStep, MainAlone
<1> QED BY <1>1, <1>2, <1>3, <1>4, <1>5 DEF Next, Ended

LEMMA PendingAreSlots ==
  ASSUME TypeOK, Control, NEW j \in ci .. np
  PROVE  j \in 1 .. Threads /\ pend[j] \in Slots
<1>1. j \in 1 .. Threads BY PoolAssumption DEF TypeOK, Control
<1> QED BY <1>1 DEF TypeOK

\* The slot being taken or released.
LEMMA CurrentSlot ==
  ASSUME TypeOK, Control, Window, mpc \in {"take", "release"}
  PROVE  /\ ci \in ci .. np /\ ci \in 1 .. Threads
         /\ pend[ci] \in Slots /\ slots[pend[ci]].status = "DONE"
<1>1. ci \in ci .. np BY DEF TypeOK, Control
<1> QED BY <1>1, PendingAreSlots DEF Window

LEMMA PoolStep ==
  ASSUME TypeOK, Control, Window, Results, [Next]_vars
  PROVE  PoolTypeOK' /\ Results'
<1>0. PoolTypeOK BY DEF TypeOK
<1>1. CASE MainAlone /\ UNCHANGED poolVars
  BY <1>0, <1>1, SleepKeeps
<1>2. CASE Asleep
  BY <1>0, <1>2, SleepKeeps DEF Asleep
<1>3. CASE Submit
  <2>1. Target \in Slots
    BY <1>3, TargetIsSlot DEF Submit, Control, InFile
  <2>2. blk \in Nat BY DEF TypeOK
  <2>3. PICK ok \in BOOLEAN : SubmitFills(Target, blk, ok)
    BY <1>3 DEF Submit, MayDecode
  <2> QED BY <1>0, <2>1, <2>2, <2>3, SubmitKeeps
<1>4. CASE Release
  <2>1. pend[ci] \in Slots /\ slots[pend[ci]].status = "DONE"
    BY <1>4, CurrentSlot DEF Release
  <2> QED BY <1>0, <1>4, <2>1, ReleaseKeeps DEF Release
<1>5. CASE Destroy
  BY <1>0, <1>5, ShutdownKeeps DEF Destroy
<1>6. CASE \E w \in Slots : WorkerMoves(w) /\ UNCHANGED mainVars
  BY <1>0, <1>6, WorkerTyped, WorkerResults
<1>7. CASE UNCHANGED vars
  BY <1>0, <1>7, SleepKeeps DEF vars
<1> QED BY <1>1, <1>2, <1>3, <1>4, <1>5, <1>6, <1>7, StepCases

-----------------------------------------------------------------------------
(* Type correctness.                                                       *)

\* What a step does to the main thread's own variables keeps their types.
LEMMA TypeOKStep ==
  ASSUME TypeOK, Control, Window, Results, [Next]_vars
  PROVE  TypeOK'
<1> USE PoolAssumption, ExtractAssumption
<1>0. PoolTypeOK' BY PoolStep
<1>a. fi \in Files => Count(fi) \in Nat BY ArchiveTyped DEF TypeOK
<1>b. \A e \in Nat : Append(written, e) \in Seq(Nat) BY DEF TypeOK
<1>1. CASE MainAlone /\ UNCHANGED poolVars
  <2>1. CASE OpenFile
    <3>1. <<>> \in Seq(Nat) OBVIOUS
    <3>2. mpc' \in MainState /\ blk' \in Nat \ {0}
      BY <2>1 DEF OpenFile, MainState
    <3>3. berr' \in BOOLEAN BY <2>1 DEF OpenFile
    <3> QED BY <1>0, <2>1, <3>1, <3>2, <3>3 DEF OpenFile, TypeOK, fileVars, batchVars
  <2>2. CASE SkipFile
    BY <1>0, <2>2 DEF SkipFile, TypeOK, MainState, Files, batchVars
  <2>3. CASE NoPending
    <3>1. <<>> \in Seq(Nat) OBVIOUS
    <3> QED BY <1>0, <2>3, <3>1 DEF NoPending, TypeOK, MainState, fileVars, batchVars
  <2>4. CASE ReadData \/ ReadRef \/ ReadOther \/ BatchFull
    BY <1>0, <2>4 DEF ReadData, ReadRef, ReadOther, BatchFull, TypeOK, MainState,
                      fileVars, batchVars
  <2>5. CASE SubmitFails \/ CollectReturns
    BY <1>0, <2>5 DEF SubmitFails, CollectReturns, TypeOK, MainState, fileVars, batchVars
  <2>6. CASE Take
    <3>1. slots[pend[ci]].output \in Nat
      BY <2>6, CurrentSlot DEF Take, TypeOK, PoolTypeOK, Slot
    <3>2. written' \in Seq(Nat) /\ berr' \in BOOLEAN
      BY <2>6, <3>1, <1>b DEF Take, TypeOK
    <3> QED BY <1>0, <2>6, <3>2 DEF Take, TypeOK, MainState, fileVars, batchVars
  <2>7. CASE CollectEnds
    <3>1. mpc' \in MainState
      BY <2>7 DEF CollectEnds, MainState
    <3>2. np' \in 0 .. Threads /\ ci' \in 1 .. Threads + 1
      BY <2>7 DEF CollectEnds
    <3>3. flushing' \in BOOLEAN BY <2>7 DEF CollectEnds
    <3> QED BY <1>0, <2>7, <3>1, <3>2, <3>3 DEF CollectEnds, TypeOK, fileVars
  <2>8. CASE ResolveRef
    <3>1. written' \in Seq(Nat)
      BY <2>8, <1>b DEF ResolveRef, WriteBlock, TypeOK
    <3>2. berr' \in BOOLEAN
      BY <2>8 DEF ResolveRef, WriteBlock, TypeOK
    <3>3. blk' \in Nat \ {0}
      BY <2>8 DEF ResolveRef, WriteBlock, TypeOK
    <3> QED BY <1>0, <2>8, <3>1, <3>2, <3>3 DEF ResolveRef, WriteBlock, TypeOK, MainState, fileVars, batchVars
  <2>9. CASE SerialBlock
    <3>1. written' \in Seq(Nat)
      BY <2>9, <1>b DEF SerialBlock, WriteBlock, TypeOK
    <3>2. berr' \in BOOLEAN
      BY <2>9 DEF SerialBlock, WriteBlock, TypeOK
    <3>3. blk' \in Nat \ {0}
      BY <2>9 DEF SerialBlock, WriteBlock, TypeOK
    <3> QED BY <1>0, <2>9, <3>1, <3>2, <3>3 DEF SerialBlock, WriteBlock, TypeOK, MainState, fileVars, batchVars
  <2>10. CASE SerialEnds \/ AllClosed \/ Join
    BY <1>0, <2>10 DEF SerialEnds, AllClosed, Join, TypeOK, MainState, fileVars, batchVars
  <2>11. CASE CloseFile
    <3>1. fi \in Files BY <2>11 DEF CloseFile, Control, InFile
    <3>2. outcome' \in [Files -> {"pending", "published", "failed"}]
      BY <2>11 DEF CloseFile, TypeOK
    <3>3. content' \in [Files -> Seq(Nat)]
      BY <2>11 DEF CloseFile, TypeOK
    <3>4. fi' \in 1 .. NFiles + 1
      BY <2>11, <3>1 DEF CloseFile, Files
    <3> QED BY <1>0, <2>11, <3>2, <3>3, <3>4 DEF CloseFile, TypeOK, MainState, batchVars
  <2> QED BY <1>1, <2>1, <2>2, <2>3, <2>4, <2>5, <2>6, <2>7, <2>8, <2>9, <2>10,
             <2>11 DEF MainAlone
<1>2. CASE Asleep
  BY <1>0, <1>2 DEF Asleep, TypeOK, mainVars, fileVars, batchVars
<1>3. CASE Submit
  <2>1. Target \in Slots
    BY <1>3, TargetIsSlot DEF Submit, Control, InFile
  <2>2. np + 1 \in 1 .. Threads
    BY <1>3 DEF Submit, Control, MayFill, TypeOK
  <2>3. pend' \in [1 .. Threads -> Slots]
    BY <1>3, <2>1, <2>2 DEF Submit, TypeOK
  <2> QED BY <1>0, <1>3, <2>2, <2>3 DEF Submit, TypeOK, MainState, fileVars
<1>4. CASE Release
  <2>1. ci + 1 \in 1 .. Threads + 1
    BY <1>4, CurrentSlot DEF Release
  <2> QED BY <1>0, <1>4, <2>1 DEF Release, TypeOK, MainState, fileVars
<1>5. CASE Destroy
  BY <1>0, <1>5 DEF Destroy, TypeOK, MainState, fileVars, batchVars
<1>6. CASE \E w \in Slots : WorkerMoves(w) /\ UNCHANGED mainVars
  BY <1>0, <1>6 DEF TypeOK, mainVars, fileVars, batchVars
<1>7. CASE UNCHANGED vars
  BY <1>0, <1>7 DEF vars, TypeOK, mainVars, fileVars, batchVars
<1> QED BY <1>1, <1>2, <1>3, <1>4, <1>5, <1>6, <1>7, StepCases
-----------------------------------------------------------------------------
(* Where the batch variables can be.                                       *)

LEMMA ControlStep ==
  ASSUME TypeOK, Control, Window, [Next]_vars
  PROVE  Control'
<1> USE DEF Control, InFile, Count, MayFill, Frame, fileVars, batchVars
<1>0. /\ ci \in Nat /\ np \in Nat /\ blk \in Nat \ {0}
      /\ fi \in Files => Len(archive[fi]) \in Nat
      /\ \A f \in Files : \A b \in 1 .. Len(archive[f]) : archive[f][b] \in Frames
  BY ArchiveTyped, PoolAssumption DEF TypeOK
<1>1. CASE MainAlone /\ UNCHANGED poolVars
  <2>1. CASE OpenFile
    BY <1>0, <1>1, <2>1 DEF OpenFile, poolVars
  <2>2. CASE SkipFile
    BY <1>0, <1>1, <2>2 DEF SkipFile, poolVars
  <2>3. CASE NoPending
    BY <1>0, <1>1, <2>3 DEF NoPending, poolVars
  <2>4. CASE ReadData
    BY <1>0, <1>1, <2>4 DEF ReadData, poolVars
  <2>5. CASE ReadRef
    BY <1>0, <1>1, <2>5 DEF ReadRef, poolVars
  <2>6. CASE ReadOther
    BY <1>0, <1>1, <2>6 DEF ReadOther, poolVars
  <2>7. CASE BatchFull
    BY <1>0, <1>1, <2>7 DEF BatchFull, poolVars
  <2>8. CASE SubmitFails
    BY <1>0, <1>1, <2>8 DEF SubmitFails, SubmitRefuses, poolVars
  <2>9. CASE CollectReturns
    BY <1>0, <1>1, <2>9 DEF CollectReturns, WaitReturns, poolVars
  <2>10. CASE Take
    BY <1>0, <1>1, <2>10 DEF Take, poolVars
  <2>11. CASE CollectEnds
    BY <1>0, <1>1, <2>11 DEF CollectEnds, poolVars
  <2>12. CASE ResolveRef
    BY <1>0, <1>1, <2>12 DEF ResolveRef, WriteBlock, poolVars
  <2>13. CASE SerialBlock
    BY <1>0, <1>1, <2>13 DEF SerialBlock, WriteBlock, poolVars
  <2>14. CASE SerialEnds
    BY <1>0, <1>1, <2>14 DEF SerialEnds, poolVars
  <2>15. CASE CloseFile
    BY <1>0, <1>1, <2>15 DEF CloseFile, poolVars
  <2>16. CASE AllClosed
    BY <1>0, <1>1, <2>16 DEF AllClosed, poolVars
  <2>17. CASE Join
    BY <1>0, <1>1, <2>17 DEF Join, poolVars
  <2> QED BY <1>1, <2>1, <2>2, <2>3, <2>4, <2>5, <2>6, <2>7, <2>8, <2>9, <2>10, <2>11, <2>12, <2>13, <2>14, <2>15, <2>16, <2>17
         DEF MainAlone
<1>2. CASE Asleep
  BY <1>0, <1>2 DEF Asleep, MainSleeps, MainSpurious, mainVars
<1>3. CASE Submit
  BY <1>0, <1>3 DEF Submit, SubmitFills
<1>4. CASE Release
  BY <1>0, <1>4 DEF Release, ReleaseSlot
<1>5. CASE Destroy
  BY <1>0, <1>5 DEF Destroy, SignalShutdown
<1>6. CASE \E w \in Slots : WorkerMoves(w) /\ UNCHANGED mainVars
  <2>1. (mainAsleep' => mainAsleep) /\ shutdown' = shutdown
    BY <1>6 DEF WorkerMoves, WorkerStep, WorkerEnter, WorkerSpurious,
                WorkerCheck, WorkerCancel, WorkerProcess, WorkerRaise, WorkerMark
  <2> QED BY <1>0, <1>6, <2>1 DEF mainVars
<1>7. CASE UNCHANGED vars
  BY <1>7 DEF vars, poolVars, mainVars
<1> QED BY <1>1, <1>2, <1>3, <1>4, <1>5, <1>6, <1>7, StepCases
-----------------------------------------------------------------------------
(* The slots in use are those of the batch.                                *)

LEMMA PendingDiffer ==
  ASSUME TypeOK, Control, Window,
         NEW j \in ci .. np, NEW k \in ci .. np, j # k
  PROVE  pend[j] # pend[k]
<1>1. BlockAt(j) # BlockAt(k) BY DEF BlockAt, TypeOK
<1> QED BY <1>1 DEF Window

\* With nothing pending, every slot is free.
LEMMA NothingPending ==
  ASSUME TypeOK, Window, ci > np
  PROVE  \A s \in Slots : slots[s].status = "EMPTY"
<1>1. \A j \in ci .. np : FALSE BY DEF TypeOK
<1> QED BY <1>1 DEF Window

LEMMA WindowStep ==
  ASSUME TypeOK, Control, Window, Results, [Next]_vars
  PROVE  Window'
<1>0. ci \in Nat \ {0} /\ np \in Nat /\ blk \in Nat \ {0}
  BY PoolAssumption DEF TypeOK
<1>1. CASE MainAlone /\ UNCHANGED poolVars
  <2>1. CASE OpenFile \/ SkipFile \/ NoPending \/ ResolveRef \/ SerialBlock \/ CloseFile
    <3>1. ci > np
      BY <1>0, <2>1 DEF OpenFile, SkipFile, NoPending, ResolveRef, SerialBlock, WriteBlock,
                        CloseFile, Control
    <3>2. ci' = ci /\ np' = np
      BY <2>1 DEF OpenFile, SkipFile, NoPending, ResolveRef, SerialBlock, WriteBlock,
                  CloseFile, batchVars
    <3>3. mpc' \notin {"take", "release"}
      BY <2>1 DEF OpenFile, SkipFile, NoPending, ResolveRef, SerialBlock, CloseFile
    <3>4. \A j \in ci' .. np' : FALSE BY <1>0, <3>1, <3>2
    <3> QED BY <1>1, <3>1, <3>3, <3>4, NothingPending DEF Window, poolVars
  <2>2. CASE CollectEnds
    <3>1. ci > np BY <2>2 DEF CollectEnds
    <3>2. \A j \in ci' .. np' : FALSE BY <2>2 DEF CollectEnds
    <3>3. mpc' \notin {"take", "release"} BY <2>2 DEF CollectEnds
    <3> QED BY <1>1, <3>1, <3>2, <3>3, NothingPending DEF Window, poolVars
  <2>3. CASE CollectReturns
    <3>1. slots[pend[ci]].status = "DONE"
      BY <2>3 DEF CollectReturns, WaitReturns, Control
    <3> QED BY <1>1, <2>3, <3>1
            DEF CollectReturns, Window, BlockAt, SeqOf, poolVars, fileVars, batchVars
  <2>4. CASE Take
    BY <1>1, <2>4 DEF Take, Window, BlockAt, SeqOf, poolVars, fileVars, batchVars
  <2>5. CASE \/ ReadData \/ ReadRef \/ ReadOther \/ BatchFull \/ SubmitFails
             \/ SerialEnds \/ AllClosed \/ Join
    <3>1. /\ UNCHANGED <<archive, seqMode, fi, blk, pend, np, ci>>
          /\ mpc' \notin {"take", "release"}
      BY <2>5 DEF ReadData, ReadRef, ReadOther, BatchFull, SubmitFails,
                  SerialEnds, AllClosed, Join, fileVars, batchVars
    <3> QED BY <1>1, <3>1 DEF Window, BlockAt, SeqOf, poolVars
  <2> QED BY <1>1, <2>1, <2>2, <2>3, <2>4, <2>5 DEF MainAlone
<1>2. CASE Asleep \/ UNCHANGED vars
  <2>1. UNCHANGED slots /\ UNCHANGED mainVars
    BY <1>2 DEF Asleep, MainSleeps, MainSpurious, vars, poolVars
  <2> QED BY <2>1 DEF Window, BlockAt, SeqOf, mainVars, fileVars, batchVars
<1>3. CASE Submit
  <2>1. Target \in Slots
    BY <1>3, TargetIsSlot DEF Submit, Control, InFile
  <2>2. /\ ci' = ci /\ np' = np + 1 /\ blk' = blk + 1 /\ ci = 1
        /\ UNCHANGED <<archive, seqMode, fi>>
        /\ mpc' = "fill"
    BY <1>3 DEF Submit, Control, fileVars
  <2>3. np + 1 \in 1 .. Threads
    BY <1>0, <1>3, PoolAssumption DEF Submit, Control, MayFill, TypeOK
  <2>4. /\ pend'[np + 1] = Target
        /\ \A j \in 1 .. np : pend'[j] = pend[j]
    BY <1>0, <1>3, <2>3, PoolAssumption DEF Submit, TypeOK
  <2>o. PICK ok \in MayDecode : SubmitFills(Target, blk, ok)
    BY <1>3 DEF Submit
  <2>5. /\ slots[Target].status = "EMPTY"
        /\ slots'[Target] = [status |-> "READY", block |-> blk,
                             sound |-> ok, error |-> "OK",
                             output |-> NoBlock]
        /\ \A s \in Slots : s # Target => slots'[s] = slots[s]
    BY <2>o, <2>1 DEF SubmitFills, TypeOK, PoolTypeOK
  <2>6. \A j \in 1 .. np : pend[j] \in Slots /\ pend[j] # Target
    BY <2>2, <2>5, PendingAreSlots DEF Window
  <2>7. \A j \in 1 .. np + 1 : BlockAt(j)' = BlockAt(j)
    BY <1>0, <2>2 DEF BlockAt
  <2>8. BlockAt(np + 1) = blk
    BY <1>0 DEF BlockAt
  <2>9. \A b : SeqOf(fi, b)' = SeqOf(fi, b)
    BY <2>2 DEF SeqOf
  <2>10. ASSUME NEW j \in 1 .. np + 1
         PROVE  /\ slots'[pend'[j]].status # "EMPTY"
                /\ slots'[pend'[j]].block = BlockAt(j)
                /\ IF slots'[pend'[j]].sound
                   THEN archive[fi][BlockAt(j)] = "data"
                   ELSE archive[fi][BlockAt(j)] = "bad" \/ Faults
                /\ pend'[j] = SlotOf(SeqOf(fi, BlockAt(j)))
    <3>1. CASE j \in 1 .. np
      BY <2>2, <2>4, <2>5, <2>6, <3>1 DEF Window
    <3>2. CASE j = np + 1
      <4>1. archive[fi][blk] \in {"data", "bad"}
        BY <1>3 DEF Submit, Control, Frame
      <4>2. /\ slots'[pend'[j]].status = "READY"
            /\ slots'[pend'[j]].block = blk
        BY <2>4, <2>5, <3>2
      <4>o. slots'[pend'[j]].sound = ok
        BY <2>4, <2>5, <3>2
      <4>d. ok => archive[fi][blk] = "data"
        BY DEF MayDecode, Frame
      <4>b. ~ok => archive[fi][blk] = "bad" \/ Faults
        BY <4>1 DEF MayDecode, Frame
      <4>3. BlockAt(j) = blk /\ pend'[j] = SlotOf(SeqOf(fi, blk))
        BY <2>4, <2>8, <3>2 DEF Target
      <4> QED BY <4>2, <4>o, <4>d, <4>b, <4>3
    <3> QED BY <1>0, <3>1, <3>2
  <2>11. ASSUME NEW s \in Slots, slots'[s].status # "EMPTY"
         PROVE  \E j \in 1 .. np + 1 : pend'[j] = s
    <3>1. CASE s = Target BY <1>0, <2>4, <3>1
    <3>2. CASE s # Target
      <4>1. PICK j \in 1 .. np : pend[j] = s
        BY <2>2, <2>5, <2>11, <3>2 DEF Window
      <4> QED BY <1>0, <2>4, <4>1
    <3> QED BY <3>1, <3>2
  <2> QED BY <1>0, <2>2, <2>7, <2>9, <2>10, <2>11 DEF Window
<1>4. CASE Release
  <2>1. /\ ci' = ci + 1 /\ mpc' = "collect"
        /\ UNCHANGED <<archive, seqMode, fi, blk, np, pend>>
    BY <1>4 DEF Release, fileVars
  <2>2. /\ ci \in ci .. np /\ pend[ci] \in Slots
    BY <1>4, CurrentSlot DEF Release
  <2>3. /\ slots'[pend[ci]].status = "EMPTY"
        /\ \A s \in Slots : s # pend[ci] => slots'[s] = slots[s]
    BY <1>4, <2>2 DEF Release, ReleaseSlot, TypeOK, PoolTypeOK, Slot
  <2>4. \A j \in ci + 1 .. np :
          j \in ci .. np /\ pend[j] \in Slots /\ pend[j] # pend[ci]
    BY <1>0, <2>2, PendingAreSlots, PendingDiffer
  <2>5. ASSUME NEW s \in Slots, slots'[s].status # "EMPTY"
        PROVE  \E j \in ci + 1 .. np : pend[j] = s
    <3>1. s # pend[ci] BY <2>3, <2>5
    <3>2. PICK j \in ci .. np : pend[j] = s BY <2>3, <2>5, <3>1 DEF Window
    <3> QED BY <1>0, <3>1, <3>2
  <2>6. \A j : BlockAt(j)' = BlockAt(j) /\ \A b : SeqOf(fi, b)' = SeqOf(fi, b)
    BY <2>1 DEF BlockAt, SeqOf
  <2> QED BY <2>1, <2>3, <2>4, <2>5, <2>6 DEF Window
<1>5. CASE Destroy
  BY <1>5 DEF Destroy, SignalShutdown, Window, BlockAt, SeqOf, fileVars, batchVars
<1>6. CASE \E w \in Slots : WorkerMoves(w) /\ UNCHANGED mainVars
  <2>1. PICK w \in Slots : WorkerMoves(w) BY <1>6
  <2>2. UNCHANGED <<archive, seqMode, fi, blk, np, pend, ci, mpc>>
    BY <1>6 DEF mainVars, fileVars, batchVars
  <2>3. \A s \in Slots :
          /\ slots'[s].block = slots[s].block
          /\ slots'[s].sound = slots[s].sound
          /\ slots'[s].status = "EMPTY" <=> slots[s].status = "EMPTY"
          /\ slots[s].status = "DONE" => slots'[s] = slots[s]
    BY <2>1, WorkerFrame DEF TypeOK
  <2>4. \A j \in ci .. np : pend[j] \in Slots
    BY PendingAreSlots
  <2>5. mpc \in {"take", "release"} => slots'[pend[ci]].status = "DONE"
    BY <2>3, CurrentSlot
  <2>6. \A j : BlockAt(j)' = BlockAt(j) /\ \A b : SeqOf(fi, b)' = SeqOf(fi, b)
    BY <2>2 DEF BlockAt, SeqOf
  <2> QED BY <2>2, <2>3, <2>4, <2>5, <2>6 DEF Window
<1> QED BY <1>1, <1>2, <1>3, <1>4, <1>5, <1>6, StepCases
-----------------------------------------------------------------------------
(* What has been written.                                                  *)

LEMMA AppendNext ==
  ASSUME NEW k \in Nat
  PROVE  Append([b \in 1 .. k |-> b], k + 1) = [b \in 1 .. k + 1 |-> b]
<1> DEFINE s == [b \in 1 .. k |-> b]
<1>1. s \in Seq(Nat) /\ Len(s) = k OBVIOUS
<1>2. /\ Append(s, k + 1) \in Seq(Nat) /\ Len(Append(s, k + 1)) = k + 1
      /\ \A i \in 1 .. k + 1 : Append(s, k + 1)[i] = i
  BY <1>1
<1>3. Append(s, k + 1) = [i \in 1 .. k + 1 |-> Append(s, k + 1)[i]]
  BY <1>2
<1> QED BY <1>2, <1>3

\* Writing the next block, whichever path found it recoverable.
LEMMA WroteNext ==
  ASSUME NEW k \in Nat, written = [b \in 1 .. k |-> b],
         \A b \in 1 .. k : archive[fi][b] \in {"data", "ref"},
         archive[fi][k + 1] \in {"data", "ref"},
         written' = Append(written, k + 1), UNCHANGED <<archive, fi>>
  PROVE  /\ written' = [b \in 1 .. k + 1 |-> b]
         /\ \A b \in 1 .. k + 1 : archive'[fi'][b] \in {"data", "ref"}
<1>1. \A b \in 1 .. k + 1 : b \in 1 .. k \/ b = k + 1 OBVIOUS
<1> QED BY <1>1, AppendNext

LEMMA ProgressStep ==
  ASSUME TypeOK, Control, Window, Results, Progress, [Next]_vars
  PROVE  Progress'
<1>0. ci \in Nat \ {0} /\ np \in Nat /\ blk \in Nat \ {0} /\ ci <= np + 1
  BY PoolAssumption DEF TypeOK, Control
<1>a. np < blk BY DEF Control
\* Steps that move blocks between "read" and "pending" but write nothing.
<1>b. ASSUME InFile' /\ ~berr' => InFile /\ ~berr, Done' = Done,
             UNCHANGED <<archive, fi, written>>
      PROVE  Progress'
  BY <1>b DEF Progress
<1>1. CASE MainAlone /\ UNCHANGED poolVars
  <2>1. CASE OpenFile
    <3>0. ci' = 1 /\ np' = 0 /\ blk' = 1 /\ mpc' # "release"
      BY <2>1 DEF OpenFile, Control, batchVars
    <3>1. Done' = 0
      <4>1. Done' = blk' - 1 - (np' - ci' + 1) BY <3>0 DEF Done
      <4> QED BY <3>0, <4>1
    <3>2. [b \in 1 .. 0 |-> b] = <<>> OBVIOUS
    <3> QED BY <2>1, <3>1, <3>2 DEF OpenFile, Progress
  <2>2. CASE SkipFile \/ NoPending \/ CloseFile \/ AllClosed \/ Join
    <3>1. ~(InFile' /\ ~berr')
      BY <2>2 DEF SkipFile, NoPending, CloseFile, AllClosed, Join, InFile
    <3> QED BY <3>1 DEF Progress
  <2>3. CASE ReadData \/ ReadRef \/ BatchFull \/ SubmitFails \/ CollectReturns \/ ReadOther
             \/ SerialEnds
    <3>1. /\ UNCHANGED <<archive, fi, written, blk, np, ci>>
          /\ InFile /\ (~berr' => ~berr)
          /\ mpc # "release" /\ mpc' # "release"
      BY <2>3 DEF ReadData, ReadRef, BatchFull, SubmitFails, CollectReturns,
                  ReadOther, SerialEnds, fileVars, batchVars, InFile
    <3>2. Done' = Done BY <3>1 DEF Done
    <3> QED BY <1>b, <3>1, <3>2
  <2>4. CASE Take
    <3>1. /\ UNCHANGED <<archive, fi, blk, np, ci>> /\ InFile
          /\ mpc = "take" /\ mpc' = "release"
      BY <2>4 DEF Take, fileVars, batchVars, InFile
    <3>2. Done' = Done + 1 /\ BlockAt(ci) = Done + 1 /\ Done \in Nat
      BY <1>0, <1>a, <3>1 DEF Done, BlockAt, Control
    <3>3. SUFFICES ASSUME ~berr' PROVE Progress'
      BY DEF Progress
    <3>4. /\ ~berr /\ slots[pend[ci]].error = "OK"
          /\ written' = Append(written, slots[pend[ci]].output)
      BY <2>4, <3>3 DEF Take
    <3>5. /\ slots[pend[ci]].output = Done + 1
          /\ archive[fi][Done + 1] = "data"
      BY <2>4, <3>2, <3>4, CurrentSlot DEF Take, Results, Window
    <3>6. /\ written = [b \in 1 .. Done |-> b]
          /\ \A b \in 1 .. Done : archive[fi][b] \in {"data", "ref"}
      BY <3>1, <3>4 DEF Progress
    <3> HIDE DEF Done
    <3>7. /\ written' = [b \in 1 .. Done + 1 |-> b]
          /\ \A b \in 1 .. Done + 1 : archive'[fi'][b] \in {"data", "ref"}
      BY <3>1, <3>2, <3>4, <3>5, <3>6, WroteNext
    <3> QED BY <3>2, <3>7 DEF Progress
  <2>5. CASE CollectEnds
    <3>1. Done' = Done
      BY <1>0, <2>5 DEF CollectEnds, Done
    <3> QED BY <1>b, <2>5, <3>1 DEF CollectEnds, fileVars, InFile
  <2>6. CASE ResolveRef \/ SerialBlock
    <3>1. /\ UNCHANGED <<archive, fi, np, ci>> /\ np = 0 /\ ci = 1 /\ InFile
          /\ mpc # "release" /\ mpc' # "release"
      BY <2>6 DEF ResolveRef, SerialBlock, WriteBlock, Control, fileVars, batchVars, InFile
    <3>2. Done = blk - 1 /\ blk - 1 \in Nat /\ blk = (blk - 1) + 1
      BY <1>0, <3>1 DEF Done
    <3>3. SUFFICES ASSUME ~berr' PROVE Progress'
      BY DEF Progress
    <3>4. /\ ~berr /\ archive[fi][blk] \in {"data", "ref"}
          /\ written' = Append(written, blk) /\ blk' = blk + 1
      BY <2>6, <3>3 DEF ResolveRef, SerialBlock, WriteBlock, Frame
    <3>5. Done' = blk
      BY <1>0, <3>1, <3>4 DEF Done
    <3>6. /\ written = [b \in 1 .. blk - 1 |-> b]
          /\ \A b \in 1 .. blk - 1 : archive[fi][b] \in {"data", "ref"}
      BY <3>1, <3>2, <3>4 DEF Progress
    <3>7. /\ written' = [b \in 1 .. (blk - 1) + 1 |-> b]
          /\ \A b \in 1 .. (blk - 1) + 1 : archive'[fi'][b] \in {"data", "ref"}
      BY <3>1, <3>2, <3>4, <3>6, WroteNext
    <3> QED BY <3>2, <3>5, <3>7 DEF Progress
  <2> QED BY <1>1, <2>1, <2>2, <2>3, <2>4, <2>5, <2>6 DEF MainAlone
<1>2. CASE Asleep \/ UNCHANGED vars \/ \E w \in Slots : WorkerMoves(w) /\ UNCHANGED mainVars
  <2>1. UNCHANGED mainVars BY <1>2 DEF Asleep, vars
  <2> QED BY <2>1 DEF Progress, InFile, Done, mainVars, fileVars, batchVars
<1>3. CASE Submit
  <2>1. Done' = Done
    BY <1>0, <1>3 DEF Submit, Done
  <2> QED BY <1>b, <1>3, <2>1 DEF Submit, fileVars, InFile
<1>4. CASE Release
  <2>1. Done' = Done
    BY <1>0, <1>4 DEF Release, Done
  <2> QED BY <1>b, <1>4, <2>1 DEF Release, fileVars, InFile
<1>5. CASE Destroy
  BY <1>5 DEF Destroy, Progress, InFile
<1> QED BY <1>1, <1>2, <1>3, <1>4, <1>5, StepCases
-----------------------------------------------------------------------------
(* Errors on record have a cause.                                          *)

\* A frame of this or an earlier file does not decode.
BadSoFar == Faults \/ \E f \in Files : f <= fi /\ \E b \in 1 .. Count(f) : archive[f][b] = "bad"

LEMMA CauseStep ==
  ASSUME TypeOK, Control, Window, Results, CancelHasCause, [Next]_vars
  PROVE  CancelHasCause'
<1> USE DEF BadSoFar
<1>0. CancelHasCause <=> ((errorFlag \/ \E s \in Slots : slots[s].error # "OK") => BadSoFar)
  BY DEF CancelHasCause
<1>1. BadSoFar => BadSoFar'
  <2>1. archive' = archive /\ (fi' = fi \/ fi' = fi + 1)
    BY DEF Next, MainStep, OpenFile, SkipFile, NoPending, ReadData, ReadRef,
           ReadOther, BatchFull, SubmitWaits, Submit, SubmitFails, CollectWaits,
           CollectReturns, Take, Release, CollectEnds, ResolveRef, SerialBlock, WriteBlock,
           SerialEnds, CloseFile, AllClosed, Destroy, Join, Workers, Spurious,
           Ended, vars, mainVars, fileVars
  <2>2. fi \in Int /\ \A f \in Files : f \in Int
    BY ExtractAssumption DEF TypeOK, Files
  <2> QED BY <2>1, <2>2 DEF Count
\* Only a worker puts an error on record.
<1>2. SUFFICES ASSUME \/ errorFlag' /\ ~errorFlag
                      \/ \E s \in Slots : slots'[s].error # "OK" /\ slots[s].error = "OK",
                      ~BadSoFar
               PROVE  FALSE
  BY <1>0, <1>1 DEF CancelHasCause
<1>3. ~errorFlag /\ \A s \in Slots : slots[s].error = "OK"
  BY <1>0, <1>2
<1>4. PICK w \in Slots : WorkerMoves(w) /\ UNCHANGED mainVars
  <2>1. ~(UNCHANGED poolVars) BY <1>2 DEF poolVars
  <2>2. ~Asleep BY <1>2 DEF Asleep, MainSleeps, MainSpurious
  <2>3. ~Submit
    <3>1. SUFFICES ASSUME NEW ok \in MayDecode, SubmitFills(Target, blk, ok)
                   PROVE  FALSE
      BY DEF Submit
    <3>2. errorFlag' = errorFlag BY <3>1 DEF SubmitFills
    <3>3. ASSUME NEW s \in Slots PROVE slots'[s].error \in {"OK", slots[s].error}
      BY <3>1 DEF SubmitFills, TypeOK, PoolTypeOK
    <3> QED BY <1>2, <3>2, <3>3
  <2>4. ~Release
    <3>1. SUFFICES ASSUME ReleaseSlot(pend[ci]) PROVE FALSE
      BY DEF Release
    <3>2. errorFlag' = errorFlag BY <3>1 DEF ReleaseSlot
    <3>3. ASSUME NEW s \in Slots PROVE slots'[s].error = slots[s].error
      BY <3>1 DEF ReleaseSlot, TypeOK, PoolTypeOK, Slot
    <3> QED BY <1>2, <3>2, <3>3
  <2>5. ~Destroy BY <1>2 DEF Destroy, SignalShutdown
  <2> QED BY <2>1, <2>2, <2>3, <2>4, <2>5, StepCases DEF vars
<1>5. worker[w] \in Busy /\ ~slots[w].sound
  <2>1. ~WorkerEnter(w) /\ ~WorkerSpurious(w) /\ ~WorkerCheck(w)
    BY <1>2 DEF WorkerEnter, WorkerSpurious, WorkerCheck
  <2>2. ~WorkerMark(w)
    BY <1>2 DEF WorkerMark, TypeOK, PoolTypeOK, Slot
  <2>3. ~WorkerRaise(w)
    BY <1>3 DEF WorkerRaise, Results
  <2>4. ~WorkerCancel(w)
    BY <1>3 DEF WorkerCancel, Results
  <2>5. WorkerProcess(w)
    BY <1>4, <2>1, <2>2, <2>3, <2>4 DEF WorkerMoves, WorkerStep
  <2> QED BY <1>2, <2>5, SMTT(20) DEF WorkerProcess, TypeOK, PoolTypeOK, Slot, Busy
<1>6. PICK j \in ci .. np : pend[j] = w
  BY <1>5 DEF Results, Window
<1>7. archive[fi][BlockAt(j)] = "bad"
  BY <1>2, <1>5, <1>6 DEF Window
<1>8. fi \in Files /\ BlockAt(j) \in 1 .. Count(fi)
  BY <1>6, ArchiveTyped DEF Control, InFile, TypeOK, BlockAt
<1> QED BY <1>2, <1>7, <1>8, ExtractAssumption DEF Files

-----------------------------------------------------------------------------
(* The fate of a file is the archive's doing alone.                        *)

LEMMA FateFrozen ==
  ASSUME [Next]_vars
  PROVE  /\ archive' = archive /\ Pool' = Pool
         /\ \A f : /\ Count(f)' = Count(f) /\ RaisesError(f)' = RaisesError(f)
                   /\ Decided(f)' = Decided(f) /\ Pooled(f)' = Pooled(f)
<1>1. archive' = archive /\ started' = started
  BY DEF Next, MainStep, OpenFile, SkipFile, NoPending, ReadData, ReadRef,
         ReadOther, BatchFull, SubmitWaits, Submit, SubmitFails, CollectWaits,
         CollectReturns, Take, Release, CollectEnds, ResolveRef, SerialBlock, WriteBlock,
         SerialEnds, CloseFile, AllClosed, Destroy, Join, Workers, Spurious,
         Ended, vars, mainVars, poolVars, SubmitBlocks, WaitBlocks, MainSleeps, MainSpurious,
         SubmitFills, SubmitRefuses, WaitReturns, ReleaseSlot, SignalShutdown,
         WorkerStep, WorkerEnter, WorkerSpurious, WorkerCheck, WorkerCancel,
         WorkerProcess, WorkerRaise, WorkerMark
<1>2. Pool' = Pool BY <1>1 DEF Pool
<1>3. \A f : Count(f)' = Count(f) /\ RaisesError(f)' = RaisesError(f)
  BY <1>1 DEF Count, RaisesError
<1>4. \A f : Spec0!Recoverable(f)' = Spec0!Recoverable(f)
  BY <1>1 DEF Spec0!Recoverable
<1>5. \A f : Decided(f)' = Decided(f)
  BY <1>1, <1>2, <1>3, <1>4 DEF Decided
<1>6. \A f : Pooled(f)' = Pooled(f)
  BY <1>2, <1>3 DEF Pooled
<1> QED BY <1>1, <1>2, <1>3, <1>5, <1>6

\* A file that reaches its end without an error was to be published.
LEMMA ClosedSoundly ==
  ASSUME TypeOK, Control, Progress, Judged, mpc = "close", ~berr
  PROVE  Decided(fi) /\ ContentMatches
<1>1. fi \in Files /\ blk = Count(fi) + 1 /\ np = 0 /\ ci = 1 /\ Count(fi) \in Nat
  BY ArchiveTyped DEF Control, InFile, TypeOK
<1>2. Done = Count(fi) BY <1>1 DEF Done
<1>3. /\ written = [b \in 1 .. Count(fi) |-> b]
      /\ \A b \in 1 .. Count(fi) : archive[fi][b] \in {"data", "ref"}
  BY <1>2 DEF Progress, InFile
<1>4. Spec0!Recoverable(fi) BY <1>3 DEF Spec0!Recoverable, Count
<1>5. Tainted /\ Pooled(fi) => \A b \in 1 .. Count(fi) : archive[fi][b] = "ref"
  BY <1>2 DEF Judged, InFile
<1>6. CASE Pooled(fi) BY <1>4, <1>5, <1>6, <1>3 DEF Decided, Tainted, Pooled, ContentMatches
<1>7. CASE ~Pooled(fi) BY <1>1, <1>4, <1>7, <1>3 DEF Decided, Pooled, ContentMatches
<1> QED BY <1>6, <1>7

\* A file that hands a bad frame to the pool has raised the flag when it ends.
LEMMA ClosedFlagged ==
  ASSUME TypeOK, Control, Progress, Judged, mpc = "close", Pool, RaisesError(fi)
  PROVE  errorFlag
<1>1. SUFFICES ASSUME ~errorFlag PROVE FALSE OBVIOUS
<1>2. fi \in Files /\ np = 0 /\ ci = 1 /\ blk \in Nat \ {0} /\ Count(fi) \in Nat
  BY ArchiveTyped DEF Control, InFile, TypeOK
<1>3. Done = blk - 1 BY <1>2 DEF Done
<1>4. PICK b \in 1 .. Count(fi) :
        /\ archive[fi][b] = "bad"
        /\ \A c \in 1 .. b - 1 : archive[fi][c] \notin {"other", "badref"}
  BY DEF RaisesError
<1>5. Pooled(fi) BY DEF Pooled, RaisesError
<1>6. b \notin 1 .. blk - 1 BY <1>1, <1>3, <1>4 DEF Judged, InFile
<1>7. CASE ~berr
  <2>1. blk = Count(fi) + 1 BY <1>7 DEF Control
  <2> QED BY <1>2, <1>4, <1>6, <2>1
<1>8. CASE berr
  <2>1. blk <= Count(fi) /\ archive[fi][blk] \in {"other", "badref"}
    BY <1>1, <1>5, <1>8 DEF Judged, InFile, Frame
  <2>2. b # blk BY <1>4, <2>1
  <2>3. blk \in 1 .. b - 1 BY <1>2, <1>6, <2>2
  <2> QED BY <1>4, <2>1, <2>3
<1> QED BY <1>7, <1>8

\* Only the end of a file takes the next one, when nothing else fails.
LEMMA NextFile ==
  ASSUME ~Faults, [Next]_vars, ~CloseFile
  PROVE  UNCHANGED <<fi, outcome>>
  BY DEF Next, MainStep, OpenFile, SkipFile, NoPending, ReadData, ReadRef,
         ReadOther, BatchFull, SubmitWaits, Submit, SubmitFails, CollectWaits,
         CollectReturns, Take, Release, CollectEnds, ResolveRef, SerialBlock, WriteBlock,
         SerialEnds, AllClosed, Destroy, Join, Workers, Spurious,
         Ended, vars, mainVars, fileVars

LEMMA SettledStep ==
  ASSUME TypeOK, Control, Progress, Settled, Judged, ~Faults, [Next]_vars
  PROVE  Settled'
<1>0. fi \in Int /\ \A f \in Files : f \in Int
  BY ExtractAssumption DEF TypeOK, Files
<1>1. CASE CloseFile
  <2>1. fi \in Files /\ fi' = fi + 1 BY <1>1 DEF CloseFile, Control, InFile
  <2>2. outcome'[fi] = "published" <=> Decided(fi)
    <3>1. berr => ~Decided(fi) BY <1>1 DEF CloseFile, Judged, InFile
    <3>2. ~berr => Decided(fi) /\ ContentMatches
      BY <1>1, ClosedSoundly DEF CloseFile
    <3> QED BY <1>1, <2>1, <3>1, <3>2 DEF CloseFile, TypeOK
  <2>3. \A f \in Files : f # fi => outcome'[f] = outcome[f]
    BY <1>1 DEF CloseFile, TypeOK
  <2>4. ASSUME NEW f \in Files
        PROVE  IF f < fi' THEN outcome'[f] = "published" <=> Decided(f)
               ELSE outcome'[f] = "pending"
    <3>1. CASE f = fi BY <1>0, <2>1, <2>2, <3>1
    <3>2. CASE f # fi
      <4>1. f < fi' <=> f < fi BY <1>0, <2>1, <3>2
      <4> QED BY <2>3, <3>2, <4>1 DEF Settled
    <3> QED BY <3>1, <3>2
  <2> QED BY <2>4, FateFrozen DEF Settled
<1>2. CASE ~CloseFile
  <2>1. UNCHANGED <<fi, outcome>> BY <1>2, NextFile
  <2> QED BY <2>1, FateFrozen DEF Settled
<1> QED BY <1>1, <1>2

LEMMA PathStep ==
  ASSUME TypeOK, Control, Path, ~Faults, [Next]_vars
  PROVE  Path'
<1>0. blk \in Nat \ {0} BY DEF TypeOK
<1>a. archive' = archive /\ \A f : Pooled(f)' = Pooled(f) BY FateFrozen
\* Steps that read nothing.
<1>b. ASSUME UNCHANGED <<fi, blk>>, InFile, berr' = berr \/ mpc' \notin {"fill", "submit", "ref", "serial"},
             mpc' = mpc \/ mpc' = "close" \/
               (mpc \notin {"serial", "close"} /\ mpc' \notin {"serial", "open"}
                /\ (mpc' \in {"fill", "submit", "ref"} => ~berr))
      PROVE  Path'
  BY <1>a, <1>b DEF Path, InFile
<1>c. ASSUME Frame \notin {"other", "badref"}, blk' = blk + 1, fi' = fi, InFile
      PROVE  \A b \in 1 .. blk' - 1 : archive'[fi'][b] \notin {"other", "badref"}
  <2>1. \A b \in 1 .. blk' - 1 : b \in 1 .. blk - 1 \/ b = blk BY <1>0, <1>c
  <2> QED BY <1>a, <1>c, <2>1 DEF Path, Frame
<1>1. CASE MainAlone /\ UNCHANGED poolVars
  <2>1. CASE OpenFile
    <3>1. \A b \in 1 .. blk' - 1 : FALSE BY <2>1 DEF OpenFile
    <3>2. fi' = fi /\ ~berr' /\ mpc' \in {"fill", "serial"} /\ (mpc' = "fill" <=> Pooled(fi))
      BY <2>1 DEF OpenFile, fileVars, Pooled
    <3> QED BY <1>a, <3>1, <3>2 DEF Path, InFile
  <2>2. CASE ReadData \/ ReadRef \/ BatchFull \/ CollectReturns \/ SerialEnds
    BY <1>b, <2>2 DEF ReadData, ReadRef, BatchFull, CollectReturns, SerialEnds,
                      fileVars, InFile, Path
  <2>3. CASE ReadOther \/ Take
    BY <1>b, <2>3 DEF ReadOther, Take, fileVars, InFile
  <2>4. CASE CollectEnds
    BY <1>b, <2>4 DEF CollectEnds, fileVars, InFile
  <2>5. CASE ResolveRef
    <3>1. CASE Frame = "ref" /\ blk' = blk + 1 /\ mpc' = "fill" /\ berr' = berr
      <4>1. fi' = fi /\ mpc = "ref" /\ InFile BY <2>5 DEF ResolveRef, fileVars, InFile
      <4> QED BY <1>a, <1>c, <3>1, <4>1 DEF Path, InFile
    <3>2. CASE berr' = TRUE /\ mpc' = "collect" /\ UNCHANGED blk
      BY <1>b, <2>5, <3>2 DEF ResolveRef, fileVars, InFile
    <3> QED BY <2>5, <3>1, <3>2 DEF ResolveRef, WriteBlock
  <2>6. CASE SerialBlock
    <3>1. CASE Frame \in {"data", "ref"} /\ blk' = blk + 1 /\ mpc' = mpc /\ berr' = berr
      <4>1. fi' = fi /\ mpc = "serial" /\ InFile BY <2>6 DEF SerialBlock, fileVars, InFile
      <4> QED BY <1>a, <1>c, <3>1, <4>1 DEF Path, InFile
    <3>2. CASE mpc' = "close" /\ UNCHANGED blk
      BY <1>b, <2>6, <3>2 DEF SerialBlock, fileVars, InFile
    <3> QED BY <2>6, <3>1, <3>2 DEF SerialBlock, WriteBlock
  <2>7. CASE CloseFile \/ AllClosed \/ Join
    BY <2>7 DEF CloseFile, AllClosed, Join, Path, InFile
  <2>8. ~SkipFile /\ ~NoPending /\ ~SubmitFails
    BY DEF SkipFile, NoPending, SubmitFails
  <2> QED BY <1>1, <2>1, <2>2, <2>3, <2>4, <2>5, <2>6, <2>7, <2>8 DEF MainAlone
<1>2. CASE Asleep \/ UNCHANGED vars \/ \E w \in Slots : WorkerMoves(w) /\ UNCHANGED mainVars
  <2>1. UNCHANGED mainVars BY <1>2 DEF Asleep, vars
  <2> QED BY <1>a, <2>1 DEF Path, InFile, mainVars, fileVars
<1>3. CASE Submit
  <2>1. /\ Frame \notin {"other", "badref"} /\ InFile /\ mpc = "submit"
        /\ UNCHANGED <<fi, berr>> /\ blk' = blk + 1 /\ mpc' = "fill"
    BY <1>3 DEF Submit, Control, fileVars, InFile
  <2> QED BY <1>a, <1>c, <2>1 DEF Path, InFile
<1>4. CASE Release
  BY <1>b, <1>4 DEF Release, fileVars, InFile
<1>5. CASE Destroy
  BY <1>5 DEF Destroy, Path, InFile
<1> QED BY <1>1, <1>2, <1>3, <1>4, <1>5, StepCases

LEMMA FlaggedStep ==
  ASSUME TypeOK, Control, Window, Results, Progress, Path, Flagged, Judged,
         ~Faults, [Next]_vars
  PROVE  Flagged'
<1>0. /\ fi \in Int /\ \A f \in Files : f \in Int
      /\ \A f : RaisesError(f)' = RaisesError(f) /\ Pool' = Pool
  BY ExtractAssumption, FateFrozen DEF TypeOK, Files
<1>1. CASE CloseFile
  <2>1. UNCHANGED poolVars /\ fi \in Files /\ fi' = fi + 1
    BY <1>1 DEF CloseFile, Control, InFile
  <2>2. \A s \in Slots : slots[s].status = "EMPTY" /\ worker[s] \notin Busy
    <3>1. ci > np BY <1>1 DEF CloseFile, Control
    <3>2. \A s \in Slots : slots[s].status = "EMPTY" BY <3>1, NothingPending
    <3> QED BY <3>2 DEF Results
  <2>3. ASSUME Tainted' PROVE errorFlag
    <3>1. PICK g \in 1 .. fi : RaisesError(g) BY <1>0, <2>1, <2>3 DEF Tainted
    <3>2. CASE g = fi
      BY <1>0, <1>1, <2>3, <3>1, <3>2, ClosedFlagged DEF CloseFile, Tainted
    <3>3. CASE g # fi
      <4>1. g \in 1 .. fi - 1 BY <1>0, <3>3
      <4> QED BY <1>0, <2>3, <3>1, <4>1 DEF Tainted, Flagged
    <3> QED BY <3>2, <3>3
  <2>4. \A g \in Files : g <= fi => g <= fi' BY <1>0, <2>1
  <2> QED BY <1>0, <2>1, <2>2, <2>3, <2>4 DEF Flagged, poolVars, Busy
<1>2. CASE ~CloseFile
  <2>1. fi' = fi BY <1>2, NextFile
  <2>2. Tainted' = Tainted BY <1>0, <2>1 DEF Tainted
  <2>3. (\E g \in Files : g <= fi /\ RaisesError(g))' = (\E g \in Files : g <= fi /\ RaisesError(g))
    BY <1>0, <2>1
  <2>4. CASE UNCHANGED poolVars
    BY <2>2, <2>3, <2>4 DEF Flagged, poolVars
  <2>5. CASE Asleep
    BY <2>2, <2>3, <2>5 DEF Flagged, Asleep, MainSleeps, MainSpurious
  <2>6. CASE Submit
    <3>1. PICK ok \in BOOLEAN : SubmitFills(Target, blk, ok)
      BY <2>6 DEF Submit, MayDecode
    <3>2. errorFlag' = errorFlag BY <3>1 DEF SubmitFills
    <3>3. \A s \in Slots : \/ slots'[s] = slots[s]
                           \/ slots'[s].status = "READY" /\ slots'[s].error = "OK"
      BY <3>1 DEF SubmitFills, TypeOK, PoolTypeOK
    <3>4. \A s \in Slots : \/ worker'[s] = worker[s]
                           \/ worker'[s] = "lock"
      BY <3>1 DEF SubmitFills, WorkersWoken, TypeOK, PoolTypeOK
    <3>5. \A s \in Slots : worker[s] = "mark" => slots[s].status = "READY"
      BY DEF Results, Busy
    <3>6. slots[Target].status = "EMPTY" BY <3>1 DEF SubmitFills
    <3> QED BY <2>2, <2>3, <3>2, <3>3, <3>4 DEF Flagged
  <2>7. CASE Release
    <3>1. worker' = worker /\ errorFlag' = errorFlag
      BY <2>7 DEF Release, ReleaseSlot
    <3>2. \A s \in Slots : /\ slots'[s].error = slots[s].error
                           /\ slots'[s].status \in {"EMPTY", slots[s].status}
      BY <2>7 DEF Release, ReleaseSlot, TypeOK, PoolTypeOK, Slot
    <3> QED BY <2>2, <2>3, <3>1, <3>2 DEF Flagged
  <2>8. CASE Destroy
    <3>1. slots' = slots /\ errorFlag' = errorFlag
      BY <2>8 DEF Destroy, SignalShutdown
    <3>2. \A s \in Slots : worker'[s] = worker[s] \/ worker'[s] = "lock"
      BY <2>8 DEF Destroy, SignalShutdown, WorkersWoken, TypeOK, PoolTypeOK
    <3> QED BY <2>2, <2>3, <3>1, <3>2 DEF Flagged
  <2>9. CASE \E w \in Slots : WorkerMoves(w) /\ UNCHANGED mainVars
    <3>1. PICK w \in Slots : WorkerMoves(w) BY <2>9
    <3>t. slots \in [Slots -> Slot] /\ worker \in [Slots -> WorkerState]
      BY DEF TypeOK, PoolTypeOK
    <3>2. CASE WorkerEnter(w) \/ WorkerSpurious(w) \/ WorkerCheck(w)
      <4>1. slots' = slots /\ errorFlag' = errorFlag
        BY <3>2 DEF WorkerEnter, WorkerSpurious, WorkerCheck
      <4>2. \A s \in Slots : \/ worker'[s] = worker[s]
                             \/ worker'[s] \in {"check", "exited", "asleep", "lock", "cancel"}
                             \/ worker'[s] = "process" /\ ~errorFlag
        BY <3>t, <3>2 DEF WorkerEnter, WorkerSpurious, WorkerCheck
      <4> QED BY <2>2, <2>3, <4>1, <4>2 DEF Flagged
    <3>3. CASE WorkerCancel(w)
      <4>1. errorFlag /\ errorFlag' = errorFlag BY <3>3 DEF WorkerCancel, Results
      <4>2. \A s \in Slots : /\ worker'[s] = worker[s] \/ worker'[s] = "lock"
                             /\ slots'[s] = slots[s] \/ slots'[s].error = "CORRUPT"
        BY <3>t, <3>3 DEF WorkerCancel, Slot
      <4> QED BY <2>2, <2>3, <4>1, <4>2 DEF Flagged
    <3>4. CASE WorkerProcess(w)
      <4>1. errorFlag' = errorFlag /\ ~Tainted
        BY <3>1, <3>4 DEF WorkerProcess, Flagged
      <4>2. \A s \in Slots :
              /\ s # w => worker'[s] = worker[s] /\ slots'[s] = slots[s]
              /\ slots'[s].status = slots[s].status
        BY <3>t, <3>4 DEF WorkerProcess, Slot
      <4>3. slots[w].status = "READY" BY <3>4 DEF WorkerProcess, Results, Busy
      <4>4. CASE slots[w].sound
        <5>1. slots'[w].error = "OK" BY <3>t, <3>4, <4>4 DEF WorkerProcess, Slot
        <5> QED BY <2>2, <2>3, <4>1, <4>2, <4>3, <5>1 DEF Flagged
      <4>5. CASE ~slots[w].sound
        <5>1. worker'[w] = "raise" BY <3>t, <3>4, <4>5 DEF WorkerProcess
        <5>2. PICK j \in ci .. np : pend[j] = w
          BY <4>3 DEF Window
        <5>3. /\ archive[fi][BlockAt(j)] = "bad" /\ fi \in Files
              /\ np > 0 /\ BlockAt(j) \in 1 .. blk - 1 /\ BlockAt(j) \in 1 .. Count(fi)
          <6>1. archive[fi][BlockAt(j)] = "bad" BY <4>5, <5>2 DEF Window
          <6>2. ci \in Nat /\ np > 0 /\ np \in Nat /\ blk \in Nat /\ np < blk
            BY <5>2, PoolAssumption DEF TypeOK, Control
          <6>3. fi \in Files /\ blk <= Count(fi) + 1 /\ Count(fi) \in Nat
            BY <6>2, ArchiveTyped DEF Control, InFile, TypeOK
          <6> QED BY <5>2, <6>1, <6>2, <6>3 DEF BlockAt, TypeOK
        <5>4. Pooled(fi) /\ InFile BY <5>3 DEF Control, Path, InFile
        <5>5. \A c \in 1 .. BlockAt(j) - 1 : archive[fi][c] \notin {"other", "badref"}
          BY <1>0, <5>3, <5>4 DEF Path, TypeOK
        <5>6. RaisesError(fi) BY <5>3, <5>4, <5>5 DEF RaisesError, Pooled
        <5>7. \E g \in Files : g <= fi /\ RaisesError(g) BY <1>0, <5>3, <5>6
        <5> QED BY <2>2, <2>3, <4>1, <4>2, <4>3, <5>1, <5>7 DEF Flagged
      <4> QED BY <4>4, <4>5
    <3>5. CASE WorkerRaise(w)
      <4>1. errorFlag' /\ slots' = slots /\ slots[w].error # "OK" /\ ~Tainted
        BY <3>1, <3>5 DEF WorkerRaise, Results, Flagged
      <4> QED BY <2>2, <2>3, <4>1, <3>1 DEF Flagged
    <3>6. CASE WorkerMark(w)
      <4>1. errorFlag' = errorFlag /\ ~Tainted /\ (slots[w].error # "OK" => errorFlag)
        BY <3>1, <3>6 DEF WorkerMark, Flagged
      <4>2. \A s \in Slots :
              /\ s # w => worker'[s] = worker[s] /\ slots'[s] = slots[s]
              /\ slots'[s].error = slots[s].error
        BY <3>t, <3>6 DEF WorkerMark, Slot
      <4> QED BY <2>2, <2>3, <4>1, <4>2, <3>1 DEF Flagged
    <3> QED BY <3>1, <3>2, <3>3, <3>4, <3>5, <3>6 DEF WorkerMoves, WorkerStep
  <2> QED BY <2>4, <2>5, <2>6, <2>7, <2>8, <2>9, StepCases DEF vars
<1> QED BY <1>1, <1>2

LEMMA FlagStays ==
  ASSUME [Next]_vars, errorFlag
  PROVE  errorFlag'
<1>1. \A w \in Slots : WorkerMoves(w) => errorFlag'
  BY DEF WorkerMoves, WorkerStep, WorkerEnter, WorkerSpurious, WorkerCheck,
         WorkerCancel, WorkerProcess, WorkerRaise, WorkerMark
<1> QED BY <1>1, StepCases
        DEF poolVars, vars, Asleep, MainSleeps, MainSpurious, Submit, SubmitFills,
            Release, ReleaseSlot, Destroy, SignalShutdown

LEMMA JudgedStep ==
  ASSUME TypeOK, Control, Window, Results, Path, Flagged, Judged,
         ~Faults, [Next]_vars
  PROVE  Judged'
<1>0. /\ ci \in Nat \ {0} /\ np \in Nat /\ blk \in Nat \ {0} /\ fi \in Int
      /\ \A f \in Files : f \in Int
  BY PoolAssumption, ExtractAssumption DEF TypeOK, Files
<1>a. /\ archive' = archive /\ (errorFlag => errorFlag')
      /\ \A f : Pooled(f)' = Pooled(f) /\ Decided(f)' = Decided(f)
      /\ fi' = fi => Tainted' = Tainted
  <2>1. fi' = fi => Tainted' = Tainted BY FateFrozen DEF Tainted
  <2> QED BY <2>1, FateFrozen, FlagStays
\* Steps that neither judge the file nor get any further in it.
<1>b. ASSUME UNCHANGED <<fi, blk, berr>>, InFile, Done' = Done
      PROVE  Judged'
  <2>1. Count(fi)' = Count(fi) /\ Frame' = Frame
    BY <1>a, <1>b DEF Count, Frame
  <2> QED BY <1>a, <1>b, <2>1 DEF Judged
<1>c. ASSUME ~InFile' PROVE Judged'
  BY <1>c DEF Judged
\* Steps that stop at a frame which has no place there.
<1>d. ASSUME UNCHANGED <<fi, blk>>, InFile, Done' = Done, ~berr, berr',
             blk <= Count(fi), Frame \notin {"data", "ref"},
             Frame \in {"other", "badref"} \/ ~Pooled(fi)
      PROVE  Judged'
  <2>1. fi \in Files /\ Count(fi) \in Nat
    BY <1>d, ArchiveTyped DEF Control, TypeOK
  <2>2. ~Decided(fi)
    BY <1>0, <1>d, <2>1 DEF Decided, Spec0!Recoverable, Count, Frame
  <2>3. Count(fi)' = Count(fi) /\ Frame' = Frame
    BY <1>a, <1>d DEF Count, Frame
  <2> QED BY <1>a, <1>d, <2>2, <2>3 DEF Judged
<1>1. CASE MainAlone /\ UNCHANGED poolVars
  <2>1. CASE OpenFile
    <3>1. ci' = 1 /\ np' = 0 /\ blk' = 1 /\ mpc' # "release" /\ ~berr'
      BY <2>1 DEF OpenFile, Control, batchVars
    <3>2. \A b \in 1 .. Done' : FALSE BY <3>1 DEF Done
    <3> QED BY <3>1, <3>2 DEF Judged
  <2>2. CASE CloseFile \/ AllClosed \/ Join
    BY <1>c, <2>2 DEF CloseFile, AllClosed, Join, InFile
  <2>3. CASE ReadData \/ ReadRef \/ BatchFull \/ CollectReturns \/ SerialEnds
    <3>1. /\ UNCHANGED <<fi, blk, berr, np, ci>> /\ InFile
          /\ mpc # "release" /\ mpc' # "release"
      BY <2>3 DEF ReadData, ReadRef, BatchFull, CollectReturns, SerialEnds,
                  fileVars, batchVars, InFile
    <3>2. Done' = Done BY <3>1 DEF Done
    <3> QED BY <1>b, <3>1, <3>2
  <2>4. CASE ReadOther
    <3>1. /\ UNCHANGED <<fi, blk, np, ci>> /\ InFile /\ berr' /\ ~berr
          /\ mpc # "release" /\ mpc' # "release" /\ blk <= Count(fi)
          /\ Frame = "other"
      BY <2>4 DEF ReadOther, MayFill, fileVars, batchVars, InFile, Path
    <3>2. Done' = Done BY <3>1 DEF Done
    <3> QED BY <1>d, <3>1, <3>2
  <2>5. CASE Take
    <3>1. /\ UNCHANGED <<fi, blk, np, ci>> /\ InFile /\ fi \in Files
          /\ mpc = "take" /\ mpc' = "release" /\ InFile' /\ Pooled(fi)
      BY <2>5 DEF Take, fileVars, batchVars, InFile, Path, Control
    <3>2. Done' = Done + 1 /\ BlockAt(ci) = Done + 1 /\ Done \in Nat /\ Done + 1 <= Count(fi)
      <4>1. np < blk /\ ci <= np /\ blk <= Count(fi) + 1 /\ Count(fi) \in Nat
        BY <3>1, ArchiveTyped DEF Control, TypeOK
      <4> QED BY <1>0, <3>1, <4>1 DEF Done, BlockAt
    <3>3. /\ pend[ci] \in Slots /\ slots[pend[ci]].status = "DONE" /\ ci \in ci .. np
      BY <3>1, CurrentSlot
    <3>4. /\ archive[fi][Done + 1] \in {"data", "bad"}
          /\ archive[fi][Done + 1] = "bad" => slots[pend[ci]].error # "OK"
      BY <3>2, <3>3 DEF Window, Results
    <3>5. slots[pend[ci]].error # "OK" => errorFlag
      BY <3>3 DEF Flagged
    <3>6. Tainted => slots[pend[ci]].error # "OK"
      BY <3>3 DEF Flagged
    <3> HIDE DEF Done
    <3>7. \A b \in 1 .. Done' : b \in 1 .. Done \/ b = Done + 1
      BY <3>2
    <3>8. \A b \in 1 .. Done' : archive'[fi'][b] = "bad" => errorFlag'
      BY <1>a, <3>1, <3>4, <3>5, <3>7 DEF Judged
    <3>9. CASE slots[pend[ci]].error = "OK"
      <4>1. berr' = berr /\ ~Tainted BY <2>5, <3>6, <3>9 DEF Take
      <4>2. Count(fi)' = Count(fi) /\ Frame' = Frame BY <1>a, <3>1 DEF Count, Frame
      <4> QED BY <1>a, <3>1, <3>8, <4>1, <4>2 DEF Judged
    <3>10. CASE slots[pend[ci]].error # "OK"
      <4>1. berr' /\ errorFlag BY <2>5, <3>5, <3>10 DEF Take
      <4>2. PICK g \in Files : g <= fi /\ RaisesError(g) BY <4>1 DEF Flagged
      <4>3. Done + 1 \in 1 .. Count(fi) /\ Count(fi) \in Nat
        BY <3>1, <3>2, ArchiveTyped DEF TypeOK
      <4>4. CASE g = fi
        <5>1. ~Spec0!Recoverable(fi)
          BY <4>2, <4>4 DEF RaisesError, Spec0!Recoverable, Count
        <5> QED BY <1>a, <3>1, <3>8, <4>1, <5>1 DEF Judged, Decided
      <4>5. CASE g # fi
        <5>1. g \in 1 .. fi - 1 BY <1>0, <4>2, <4>5 DEF Files
        <5>2. ~(\A b \in 1 .. Count(fi) : archive[fi][b] = "ref")
          BY <3>4, <4>3
        <5>3. ~Decided(fi)
          BY <3>1, <4>2, <4>3, <5>1, <5>2 DEF Decided, Pooled
        <5> QED BY <1>a, <3>1, <3>8, <4>1, <5>3 DEF Judged
      <4> QED BY <4>4, <4>5
    <3> QED BY <3>9, <3>10
  <2>6. CASE CollectEnds
    <3>1. Done' = Done BY <1>0, <2>6 DEF CollectEnds, Done, Control
    <3> QED BY <1>b, <2>6, <3>1 DEF CollectEnds, fileVars, InFile
  <2>7. CASE ResolveRef \/ SerialBlock
    <3>1. /\ UNCHANGED <<fi, np, ci>> /\ np = 0 /\ ci = 1 /\ InFile /\ ~berr
          /\ mpc # "release" /\ mpc' # "release"
          /\ mpc = "serial" => ~Pooled(fi) /\ SerialBlock
          /\ mpc # "serial" => ResolveRef
      BY <2>7 DEF ResolveRef, SerialBlock, WriteBlock, Control, fileVars, batchVars,
                  InFile, Path
    <3>2. Done = blk - 1 BY <1>0, <3>1 DEF Done
    <3>3. CASE /\ Frame \in {"data", "ref"} /\ (Frame = "ref" \/ ~Pooled(fi))
               /\ blk' = blk + 1 /\ berr' = berr
      <4>1. Done' = blk BY <1>0, <3>1, <3>3 DEF Done
      <4>2. \A b \in 1 .. blk : b \in 1 .. Done \/ b = blk BY <1>0, <3>2
      <4> HIDE DEF Done
      <4> QED BY <1>a, <3>1, <3>3, <4>1, <4>2 DEF Judged, Frame
    <3>4. CASE Frame \notin {"data", "ref"} /\ berr' /\ UNCHANGED blk
      <4>1. Done' = Done BY <3>1, <3>4 DEF Done
      <4>2. blk <= Count(fi) BY <2>7 DEF ResolveRef, SerialBlock, Control
      <4>3. Frame \in {"ref", "badref"} \/ ~Pooled(fi)
        BY <3>1 DEF ResolveRef, Control
      <4> QED BY <1>d, <3>1, <3>4, <4>1, <4>2, <4>3
    <3>5. Frame \in {"ref", "badref"} \/ ~Pooled(fi)
      BY <3>1 DEF ResolveRef, Control
    <3>6. CASE ResolveRef
      BY <3>1, <3>3, <3>4, <3>5, <3>6 DEF ResolveRef, WriteBlock, Control
    <3>7. CASE SerialBlock
      <4>1. ~Pooled(fi) BY <3>1, <3>7 DEF SerialBlock
      <4> QED BY <3>3, <3>4, <3>7, <4>1 DEF SerialBlock, WriteBlock
    <3> QED BY <2>7, <3>6, <3>7
  <2>8. ~SkipFile /\ ~NoPending /\ ~SubmitFails
    BY DEF SkipFile, NoPending, SubmitFails
  <2> QED BY <1>1, <2>1, <2>2, <2>3, <2>4, <2>5, <2>6, <2>7, <2>8 DEF MainAlone
<1>2. CASE Asleep \/ UNCHANGED vars \/ \E w \in Slots : WorkerMoves(w) /\ UNCHANGED mainVars
  <2>1. UNCHANGED mainVars BY <1>2 DEF Asleep, vars
  <2>2. Done' = Done /\ InFile' = InFile
    BY <2>1 DEF Done, InFile, mainVars, batchVars
  <2> QED BY <1>b, <1>c, <2>1, <2>2 DEF mainVars, fileVars
<1>3. CASE Submit
  <2>1. /\ UNCHANGED <<fi, berr>> /\ ~berr /\ InFile /\ Done' = Done
    BY <1>0, <1>3 DEF Submit, Path, fileVars, InFile, Done
  <2> QED BY <1>a, <2>1 DEF Judged
<1>4. CASE Release
  <2>1. Done' = Done BY <1>0, <1>4 DEF Release, Done
  <2> QED BY <1>b, <1>4, <2>1 DEF Release, fileVars, InFile
<1>5. CASE Destroy
  BY <1>c, <1>5 DEF Destroy, InFile
<1> QED BY <1>1, <1>2, <1>3, <1>4, <1>5, StepCases

-----------------------------------------------------------------------------
(* The theorems.                                                           *)

LEMMA IInvStep == IInv /\ [Next]_vars => IInv'
<1> SUFFICES ASSUME IInv, [Next]_vars PROVE IInv' OBVIOUS
<1>1. (TypeOK /\ Control /\ Window /\ Results /\ Progress /\ CancelHasCause)'
  BY TypeOKStep, ControlStep, WindowStep, PoolStep, ProgressStep, CauseStep
     DEF IInv
<1>2. ~Faults => Fate'
  BY SettledStep, PathStep, FlaggedStep, JudgedStep DEF IInv, Fate
<1> QED BY <1>1, <1>2 DEF IInv

\* The batch loops of zupt_extract keep their books: the slots in use, the
\* blocks bound to them and the blocks written agree at every step.
THEOREM Invariance == Spec => []IInv
  BY InitIInv, IInvStep, PTL DEF Spec

\* Every variable of an extraction keeps its type.
THEOREM TypeCorrect == Spec => []TypeOK
<1>1. IInv => TypeOK BY DEF IInv
<1> QED BY <1>1, Invariance, PTL

\* A slot has one owner at a time: a worker at work on it finds it READY, and
\* the main thread takes the result of a DONE slot whose worker has let go.
THEOREM SlotsHaveOneOwner == Spec => []OneOwner
<1>1. IInv => OneOwner
  <2> SUFFICES ASSUME IInv PROVE OneOwner OBVIOUS
  <2>1. mpc \in {"take", "release"} =>
          /\ pend[ci] \in Slots
          /\ slots[pend[ci]].status = "DONE"
    BY CurrentSlot DEF IInv
  <2> QED BY <2>1 DEF IInv, Results, OneOwner
<1> QED BY <1>1, Invariance, PTL

\* Whatever the interleaving of the workers, a file without an error reaches
\* the final check with exactly its own blocks in their order.
THEOREM OrderIsKept == Spec => []OrderKept
<1>1. IInv => OrderKept
  <2> SUFFICES ASSUME IInv, mpc = "close", ~berr
               PROVE  written = [b \in 1 .. Count(fi) |-> b]
    BY DEF OrderKept
  <2>1. blk = Count(fi) + 1 /\ np = 0 /\ ci = 1
    BY DEF IInv, Control
  <2>2. fi \in Files BY DEF IInv, Control, InFile
  <2>3. Count(fi) \in Nat BY <2>2, ArchiveTyped DEF IInv, TypeOK
  <2>4. Done = Count(fi) BY <2>1, <2>3 DEF Done
  <2> QED BY <2>4 DEF IInv, Progress, InFile
<1> QED BY <1>1, Invariance, PTL

\* Every file starts on an idle pool, and so does zpar_destroy.
THEOREM PoolIsDrained == Spec => []PoolDrained
<1>1. IInv => PoolDrained
  <2> SUFFICES ASSUME IInv, mpc \in {"open", "close", "destroy"}
               PROVE  /\ \A s \in Slots : slots[s].status = "EMPTY"
                      /\ np = 0 /\ ~mainAsleep
    BY DEF PoolDrained
  <2>1. np = 0 /\ ci = 1 /\ ~mainAsleep BY DEF IInv, Control
  <2>2. ~(\E j \in ci .. np : TRUE) BY <2>1
  <2> QED BY <2>1, <2>2 DEF IInv, Window
<1> QED BY <1>1, Invariance, PTL

\* No block is cancelled unless a frame of this or an earlier file is bad.
THEOREM CancellationHasCause == Spec => []CancelHasCause
<1>1. IInv => CancelHasCause BY DEF IInv
<1> QED BY <1>1, Invariance, PTL

\* When nothing but the archive is at fault, its frames alone decide which files
\* are published, whatever the number of threads and their interleaving: the
\* sound ones, unless error_flag was left set by an earlier file of the pool and
\* the file has a block to decode.
THEOREM FateIsDecided ==
  ASSUME ~Faults
  PROVE  Spec => []OutcomeDecided
<1>1. IInv => OutcomeDecided
  <2>1. ASSUME IInv, NEW f \in Files, outcome[f] # "pending"
        PROVE  outcome[f] = "published" <=> Decided(f)
    BY <2>1 DEF IInv, Fate, Settled
  <2> QED BY <2>1 DEF OutcomeDecided
<1> QED BY <1>1, Invariance, PTL

\* Without the conditions of the hanging runs (no clamp, consecutive sequence
\* numbers) zpar_submit_decompress never waits: a batch is no longer than the
\* pool, and the blocks of one batch have different slots.
THEOREM SubmitNeverWaits ==
  ASSUME Threads <= MaxThreads, SeqModes \subseteq {"positional", "linear"}
  PROVE  Spec => []SubmitFindsSlotFree
<1>1. IInv => SubmitFindsSlotFree
  <2> SUFFICES ASSUME IInv, mpc = "submit", slots[Target].status # "EMPTY"
               PROVE  FALSE
    BY DEF SubmitFindsSlotFree
  <2> USE DEF IInv
  <2>1. /\ fi \in Files /\ fi \in Nat /\ np < Threads /\ ci = 1 /\ np < blk
        /\ np \in Nat /\ blk \in Nat
    BY PoolAssumption, ExtractAssumption
       DEF Control, TypeOK, MayFill, InFile, Files
  <2>2. Target \in Slots BY <2>1, TargetIsSlot
  <2>3. PICK j \in 1 .. np : pend[j] = Target
    BY <2>1, <2>2 DEF Window
  <2>4. pend[j] = SlotOf(SeqOf(fi, BlockAt(j))) BY <2>1, <2>3 DEF Window
  <2>5. BlockAt(j) \in Nat \ {0} /\ BlockAt(j) < blk /\ blk - BlockAt(j) <= np
    BY <2>1, <2>3 DEF BlockAt
  <2> DEFINE a == SeqOf(fi, BlockAt(j))
             b == SeqOf(fi, blk)
  <2>6. a \in Nat /\ b \in Nat
    BY <2>1, <2>5, SeqTyped, ExtractAssumption DEF TypeOK
  <2>7. b - a = blk - BlockAt(j)
    <3>1. CASE seqMode = "positional"
      <4>1. fi * SeqStride \in Nat BY <2>1, PoolAssumption
      <4> QED BY <2>1, <2>5, <3>1, <4>1 DEF SeqOf
    <3>2. CASE seqMode = "linear"
      BY <2>1, <2>5, <3>2 DEF SeqOf
    <3> QED BY <3>1, <3>2 DEF TypeOK
  <2>8. NSlots = Threads BY PoolAssumption DEF NSlots
  <2>9. a < b /\ b - a < NSlots
    BY <2>1, <2>5, <2>6, <2>7, <2>8, PoolAssumption
  <2> QED BY <2>3, <2>4, <2>6, <2>9, CloseSequencesDiffer DEF Target
<1> QED BY <1>1, Invariance, PTL

-----------------------------------------------------------------------------

LEMMA UndisturbedStep ==
  ASSUME IInv, [Next]_vars, NEW s \in Slots, worker[s] \in Busy
  PROVE  slots'[s].block = slots[s].block /\ slots'[s].status # "EMPTY"
<1> USE DEF IInv
<1>0. slots[s].status = "READY" BY DEF Results
<1>1. CASE slots' = slots BY <1>0, <1>1
<1>2. CASE \E w \in Slots : WorkerMoves(w)
  BY <1>0, <1>2, WorkerFrame DEF TypeOK
<1>3. CASE Submit
  <2>1. slots[Target].status = "EMPTY" BY <1>3 DEF Submit, SubmitFills
  <2> QED BY <1>0, <1>3, <2>1 DEF Submit, SubmitFills, TypeOK, PoolTypeOK
<1>4. CASE Release
  <2>1. slots[pend[ci]].status = "DONE" BY <1>4, CurrentSlot DEF Release
  <2> QED BY <1>0, <1>4, <2>1 DEF Release, ReleaseSlot, TypeOK, PoolTypeOK
<1>5. CASE Destroy
  BY <1>1, <1>5 DEF Destroy, SignalShutdown
<1>6. Asleep => slots' = slots
  BY DEF Asleep, MainSleeps, MainSpurious
<1>7. UNCHANGED poolVars => slots' = slots BY DEF poolVars
<1> QED BY <1>1, <1>2, <1>3, <1>4, <1>5, <1>6, <1>7, StepCases DEF vars

\* Nobody refills, frees or releases a slot while a worker is at work on it.
THEOREM BusySlotsAreUndisturbed == Spec => SlotUndisturbed
<1>1. IInv /\ [Next]_vars =>
        [\A s \in Slots : worker[s] \in Busy =>
           /\ slots'[s].block = slots[s].block
           /\ slots'[s].status # "EMPTY"]_vars
  BY UndisturbedStep
<1> QED BY <1>1, Invariance, PTL DEF Spec, SlotUndisturbed

-----------------------------------------------------------------------------

LEMMA RefinementInit == Init => Spec0!SpecInit
  BY DEF Init, Spec0!SpecInit, Files, Spec0!Files

LEMMA RefinementStep == IInv /\ [Next]_vars => [Spec0!SpecNext]_(Spec0!specVars)
<1> SUFFICES ASSUME IInv, [Next]_vars PROVE [Spec0!SpecNext]_(Spec0!specVars)
  OBVIOUS
<1> USE DEF IInv
<1>1. CASE CloseFile
  <2>1. fi \in Spec0!Files
    BY <1>1 DEF CloseFile, Control, InFile, Files, Spec0!Files
  <2>2. CASE ~berr /\ ContentMatches /\ outcome' = [outcome EXCEPT ![fi] = "published"]
                   /\ content' = [content EXCEPT ![fi] = written]
    <3>1. blk = Count(fi) + 1 /\ np = 0 /\ ci = 1 /\ Count(fi) \in Nat
      BY <1>1, <2>1, <2>2, ArchiveTyped
         DEF CloseFile, Control, TypeOK, Files, Spec0!Files
    <3>2. Done = Count(fi) BY <1>1, <3>1 DEF Done, CloseFile
    <3>3. Spec0!Recoverable(fi)
      BY <1>1, <2>2, <3>2 DEF CloseFile, Progress, InFile, Count, Spec0!Recoverable
    <3>4. written = Spec0!Whole(fi)
      BY <2>2 DEF ContentMatches, Count, Spec0!Whole
    <3>5. Spec0!PublishWhole
      BY <1>1, <2>1, <2>2, <3>3, <3>4 DEF CloseFile, Spec0!PublishWhole
    <3> QED BY <3>5 DEF Spec0!SpecNext
  <2>3. CASE outcome' = [outcome EXCEPT ![fi] = "failed"] /\ UNCHANGED content
    <3>1. Spec0!ReportFailed
      BY <1>1, <2>1, <2>3 DEF CloseFile, Spec0!ReportFailed
    <3> QED BY <3>1 DEF Spec0!SpecNext
  <2> QED BY <1>1, <2>2, <2>3 DEF CloseFile
<1>2. CASE SkipFile
  <2>1. Spec0!ReportFailed
    BY <1>2 DEF SkipFile, Spec0!ReportFailed, Files, Spec0!Files
  <2> QED BY <2>1 DEF Spec0!SpecNext
<1>3. ~CloseFile /\ ~SkipFile => UNCHANGED <<archive, fi, outcome, content>>
  BY DEF Next, MainStep, OpenFile, NoPending, ReadData, ReadRef,
         ReadOther, BatchFull, SubmitWaits, Submit, SubmitFails, CollectWaits,
         CollectReturns, Take, Release, CollectEnds, ResolveRef, SerialBlock, WriteBlock,
         SerialEnds, AllClosed, Destroy, Join, Workers, Spurious,
         Ended, vars, mainVars, fileVars
<1> QED BY <1>1, <1>2, <1>3 DEF Spec0!specVars

\* Extraction by any number of threads, with any outcome of allocation, output
\* creation and writes, keeps the promise of FileExtraction: what is published
\* is whole and in order, and every file is settled once.
THEOREM ExtractionIsSafe == Spec => ImplementsExtraction
  BY RefinementInit, RefinementStep, Invariance, PTL
     DEF Spec, ImplementsExtraction, Spec0!SafeExtraction
=============================================================================
