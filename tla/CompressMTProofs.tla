-------------------------- MODULE CompressMTProofs --------------------------
(***************************************************************************)
(* Proofs about CompressMT: the inductive invariant IInv and what follows  *)
(* from it, for any number of threads, slots, files and blocks.            *)
(***************************************************************************)
EXTENDS CompressMT, ZParProofs

LEMMA SeqTyped ==
  ASSUME NEW f \in Nat, NEW b \in Nat \ {0}
  PROVE  SeqOf(f, b) \in Nat /\ SlotOf(SeqOf(f, b)) \in Slots
<1>1. f * SeqStride \in Nat BY PoolAssumption
<1>2. SeqOf(f, b) \in Nat BY <1>1 DEF SeqOf
<1> QED BY <1>2, SlotOfIsSlot

LEMMA TargetIsSlot ==
  ASSUME TypeOK, fi \in Files
  PROVE  Target \in Slots
  BY SeqTyped, CompressAssumption DEF TypeOK, Target, Files

LEMMA InputTyped ==
  ASSUME input \in Inputs, NEW f \in Files
  PROVE  /\ Count(f) \in Nat /\ Count(f) <= SeqStride
         /\ \A b \in 1 .. Count(f) : input[f][b] \in Nat \ {0} /\ input[f][b] \in Contents
<1>1. input[f] \in Seq(Nat \ {0}) BY CompressAssumption
<1>2. Count(f) \in Nat /\ \A b \in 1 .. Count(f) : input[f][b] \in Nat \ {0}
  BY <1>1 DEF Count
<1>3. Count(f) <= SeqStride BY CompressAssumption DEF Count
<1>4. \A b \in 1 .. Count(f) : input[f][b] \in Contents BY DEF Contents
<1> QED BY <1>2, <1>3, <1>4

LEMMA FramesTyped ==
  ASSUME NEW c \in Nat, NEW q \in Nat, NEW t \in Nat, NEW r \in Nat
  PROVE  DataFrame(c, q) \in Frame /\ RefFrame(t, q, r) \in Frame /\ TornFrame \in Frame
  BY DEF DataFrame, RefFrame, TornFrame, Frame

-----------------------------------------------------------------------------
(* The initial states.                                                     *)

LEMMA InitIInv == Init => IInv
<1> SUFFICES ASSUME Init PROVE IInv OBVIOUS
<1> USE SlotsNonEmpty, PoolAssumption, CompressAssumption
<1>1. PoolTypeOK /\ Results
  BY PoolInitTyped DEF Init
<1>2. TypeOK
  <2>1. pend \in [1 .. Threads -> Slots] BY DEF Init
  <2>2. frames \in Seq(Frame)
    <3>1. <<>> \in Seq(Frame) OBVIOUS
    <3> QED BY <3>1 DEF Init
  <2>3. table \in [Contents -> [frame : Nat, seq : Nat]]
    BY DEF Init, Absent
  <2>4. /\ fi \in 1 .. NFiles + 1 /\ blk \in Nat \ {0}
        /\ np \in 0 .. Threads /\ ci \in 1 .. Threads + 1
    BY DEF Init
  <2>5. index \in [Files -> [first : Nat, count : Nat]] BY DEF Init
  <2> QED BY <1>1, <2>1, <2>2, <2>3, <2>4, <2>5 DEF Init, TypeOK, MainState
<1>3. Control
  BY DEF Init, PoolInit, Control, InFile
<1>4. Window
  BY DEF Init, PoolInit, Window
<1>5. Len(frames) = 0 /\ fi = 1 BY DEF Init
<1>6. Growing BY <1>5 DEF Growing
<1>7. TableTrue BY DEF Init, TableTrue
<1>8. Layout BY <1>5 DEF Init, Layout, InFile, FirstFree, Files
<1> QED BY <1>1, <1>2, <1>3, <1>4, <1>6, <1>7, <1>8 DEF IInv

-----------------------------------------------------------------------------
(* Steps by what they do to the pool.                                      *)

\* The steps of the main thread that leave the pool alone.
MainAlone ==
  \/ OpenInput \/ OpenFails
  \/ ReadBlock \/ ReadFails \/ BatchFull
  \/ CollectReturns \/ Take \/ CollectEnds
  \/ SerialRef \/ SerialRefFails \/ SerialData \/ SerialReadFails
  \/ SerialGivesUp \/ SerialEnds
  \/ CheckInput \/ InputChanged \/ AllRead \/ Join \/ Finish

\* The steps that change only who sleeps and who is awake.
Asleep ==
  /\ MainSleeps \/ MainSpurious
  /\ UNCHANGED mainVars
  /\ mpc = "submit" \/ (mpc = "collect" /\ ci <= np) \/ mainAsleep

LEMMA StepCases ==
  ASSUME [Next]_vars
  PROVE  \/ MainAlone /\ UNCHANGED poolVars
         \/ Asleep
         \/ Submit
         \/ Release
         \/ Destroy
         \/ \E w \in Slots : WorkerMoves(w) /\ UNCHANGED mainVars
         \/ UNCHANGED vars
<1>1. MainAlone => UNCHANGED poolVars
  BY DEF MainAlone, OpenInput, OpenFails, ReadBlock, ReadFails, BatchFull,
         CollectReturns, Take, CollectEnds, SerialRef, SerialRefFails,
         SerialData, SerialReadFails, SerialGivesUp, SerialEnds, CheckInput,
         InputChanged, AllRead, Join, Finish, WaitReturns
<1>2. SubmitWaits \/ CollectWaits => Asleep
  BY DEF SubmitWaits, CollectWaits, SubmitBlocks, WaitBlocks, Asleep
<1>3. Spurious => Asleep \/ \E w \in Slots : WorkerMoves(w) /\ UNCHANGED mainVars
  BY DEF Spurious, Asleep, MainSpurious, WorkerMoves
<1>4. \A w \in Slots : Workers(w) => WorkerMoves(w) /\ UNCHANGED mainVars
  BY DEF Workers, WorkerMoves
<1>5. MainStep => \/ MainAlone \/ SubmitWaits \/ CollectWaits
                  \/ Submit \/ Release \/ Destroy
  BY DEF MainStep, MainAlone
<1> QED BY <1>1, <1>2, <1>3, <1>4, <1>5 DEF Next, Ended

LEMMA PendingAreSlots ==
  ASSUME TypeOK, Control, NEW j \in ci .. np
  PROVE  j \in 1 .. Threads /\ pend[j] \in Slots
<1>1. j \in 1 .. Threads BY PoolAssumption DEF TypeOK, Control
<1> QED BY <1>1 DEF TypeOK

\* The slot being taken or released.
LEMMA CurrentSlot ==
  ASSUME TypeOK, Control, Window, mpc \in {"take", "release"}
  PROVE  /\ ci \in ci .. np /\ ci \in 1 .. Threads
         /\ pend[ci] \in Slots /\ slots[pend[ci]].status = "DONE"
<1>1. ci \in ci .. np BY DEF TypeOK, Control
<1> QED BY <1>1, PendingAreSlots DEF Window

LEMMA PoolStep ==
  ASSUME TypeOK, Control, Window, Results, [Next]_vars
  PROVE  PoolTypeOK' /\ Results'
<1>0. PoolTypeOK BY DEF TypeOK
<1>1. CASE MainAlone /\ UNCHANGED poolVars
  BY <1>0, <1>1, SleepKeeps
<1>2. CASE Asleep
  BY <1>0, <1>2, SleepKeeps DEF Asleep
<1>3. CASE Submit
  <2>1. Target \in Slots
    BY <1>3, TargetIsSlot DEF Submit, Control, InFile
  <2>2. blk \in Nat BY DEF TypeOK
  <2>3. PICK ok \in BOOLEAN : SubmitFills(Target, blk, ok)
    BY <1>3 DEF Submit, MayCompress
  <2> QED BY <1>0, <2>1, <2>2, <2>3, SubmitKeeps
<1>4. CASE Release
  <2>1. pend[ci] \in Slots /\ slots[pend[ci]].status = "DONE"
    BY <1>4, CurrentSlot DEF Release
  <2> QED BY <1>0, <1>4, <2>1, ReleaseKeeps DEF Release
<1>5. CASE Destroy
  BY <1>0, <1>5, ShutdownKeeps DEF Destroy
<1>6. CASE \E w \in Slots : WorkerMoves(w) /\ UNCHANGED mainVars
  BY <1>0, <1>6, WorkerTyped, WorkerResults
<1>7. CASE UNCHANGED vars
  BY <1>0, <1>7, SleepKeeps DEF vars
<1> QED BY <1>1, <1>2, <1>3, <1>4, <1>5, <1>6, <1>7, StepCases

-----------------------------------------------------------------------------
(* Steps by what they do to the archive.                                   *)

LEMMA BatchTyped ==
  ASSUME TypeOK
  PROVE  ci \in Nat \ {0} /\ np \in Nat /\ blk \in Nat \ {0} /\ fi \in Nat \ {0}
  BY PoolAssumption, CompressAssumption DEF TypeOK

\* While a file is being read, the block dealt with next is one of its blocks,
\* or all are dealt with.
LEMMA DoneTyped ==
  ASSUME TypeOK, Control, InFile
  PROVE  /\ fi \in Files /\ Done \in Nat
         /\ mpc \in {"take", "serial"} /\ blk <= Count(fi) => Done + 1 \in 1 .. Count(fi)
         /\ mpc = "take" => Done + 1 \in 1 .. Count(fi) /\ BlockAt(ci) = Done + 1
         /\ mpc = "serial" => Done = blk - 1
<1>1. fi \in Files /\ blk <= Count(fi) + 1 BY DEF Control
<1>2. Count(fi) \in Nat BY <1>1, InputTyped DEF TypeOK
<1>3. /\ ci <= np + 1 /\ np < blk
      /\ mpc \in {"take", "release"} => ci <= np
      /\ mpc = "serial" => ci = 1 /\ np = 0
  BY BatchTyped DEF Control
<1>4. Done \in Nat
  <2>1. CASE mpc = "release" BY <1>3, <2>1, BatchTyped DEF Done
  <2>2. CASE mpc # "release" BY <1>3, <2>2, BatchTyped DEF Done
  <2> QED BY <2>1, <2>2
<1>5. mpc = "take" => Done + 1 \in 1 .. Count(fi) /\ BlockAt(ci) = Done + 1
  BY <1>1, <1>2, <1>3, <1>4, BatchTyped DEF Done, BlockAt
<1>6. mpc = "serial" => Done = blk - 1
  BY <1>3, BatchTyped DEF Done
<1> QED BY <1>1, <1>2, <1>4, <1>5, <1>6, BatchTyped

\* The result taken from a slot is that of the next block.
LEMMA TakesNext ==
  ASSUME TypeOK, Control, Window, Results, mpc = "take",
         slots[pend[ci]].error = "OK"
  PROVE  slots[pend[ci]].output = Done + 1
<1>1. InFile BY DEF InFile
<1>2. /\ pend[ci] \in Slots /\ slots[pend[ci]].status = "DONE"
      /\ slots[pend[ci]].block = BlockAt(ci)
  BY CurrentSlot DEF Window
<1> QED BY <1>1, <1>2, DoneTyped DEF Results

Counted == [index EXCEPT ![fi].count = @ + 1]

\* A frame the serial path or a worker makes of block b of file fi.
Makes(fr, b) ==
  \/ fr = DataFrame(input[fi][b], SeqOf(fi, b))
  \/ /\ mode.dedup /\ ~streamErr
     /\ table[input[fi][b]] # Absent
     /\ fr = RefFrame(table[input[fi][b]].frame, SeqOf(fi, b),
                      IF mode.encrypt THEN table[input[fi][b]].seq ELSE 0)

Enters(b) ==
  \/ table' = table
  \/ table' = [table EXCEPT ![input[fi][b]] = [frame |-> Len(frames) + 1,
                                               seq |-> SeqOf(fi, b)]]

Opened ==
  /\ mpc = "open" /\ InFile' /\ fi \in Files /\ Done' = 0
  /\ index' = [index EXCEPT ![fi] = [first |-> Len(frames) + 1, count |-> 0]]
  /\ UNCHANGED <<input, mode, fi, writeErr, result, table, frames, streamErr>>

Wrote(fr) ==
  /\ InFile /\ InFile' /\ Done + 1 \in 1 .. Count(fi)
  /\ Done' = Done + 1
  /\ Makes(fr, Done + 1)
  /\ \/ table' = table
     \/ /\ fr = DataFrame(input[fi][Done + 1], SeqOf(fi, Done + 1))
        /\ Enters(Done + 1)
  /\ frames' = Append(frames, fr) /\ index' = Counted
  /\ UNCHANGED <<input, mode, fi, writeErr, result, streamErr>>

Tore ==
  /\ InFile /\ Done + 1 \in 1 .. Count(fi)
  /\ InFile' => Done' = Done + 1
  /\ mpc' # "open"
  /\ table' = table \/ (streamErr' /\ Enters(Done + 1))
  /\ frames' = Append(frames, TornFrame)
  /\ index' = Counted \/ index' = index
  /\ streamErr' \in {streamErr, TRUE} /\ writeErr' \in {writeErr, TRUE}
  /\ streamErr' \/ writeErr'
  /\ UNCHANGED <<input, mode, fi, result>>

Skipped ==
  /\ InFile /\ InFile' /\ Done' = Done + 1
  /\ writeErr' = TRUE
  /\ UNCHANGED <<input, mode, fi, result, table, frames, index, streamErr>>

Closed ==
  /\ mpc = "check" /\ mpc' = "open" /\ fi' = fi + 1
  /\ UNCHANGED <<input, mode, writeErr, result, table, frames, index, streamErr>>

Quiet ==
  /\ InFile' => InFile /\ Done' = Done
  /\ mpc' = "open" => mpc = "open"
  /\ writeErr' \in {writeErr, TRUE}
  /\ InFile /\ ~InFile' => writeErr' \/ result' = "failed"
  /\ result = "failed" => result' = "failed"
  /\ UNCHANGED <<input, mode, fi, table, frames, index, streamErr>>

LEMMA SerialEffects ==
  ASSUME TypeOK, Control, SerialRef \/ SerialRefFails \/ SerialData
  PROVE  Tore \/ \E fr : Wrote(fr)
<1>0. mpc = "serial" /\ InFile /\ blk <= Count(fi)
  BY DEF SerialRef, SerialRefFails, SerialData, InFile
<1>1. Done = blk - 1 /\ Done + 1 = blk /\ Done + 1 \in 1 .. Count(fi)
  BY <1>0, DoneTyped, BatchTyped
<1>2. ci = 1 /\ np = 0 BY <1>0 DEF Control
<1>3. ASSUME blk' = blk + 1, mpc' = mpc, UNCHANGED batchVars
      PROVE  InFile' /\ Done' = Done + 1
  <2>1. InFile' BY <1>0, <1>3 DEF InFile
  <2>2. Done' = blk' - 1 BY <1>0, <1>2, <1>3 DEF Done, batchVars
  <2> QED BY <1>1, <1>3, <2>1, <2>2, BatchTyped
<1>4. CASE SerialRef
  <2> DEFINE fr == RefFrame(table[Content].frame, SeqOf(fi, blk),
                            IF mode.encrypt THEN table[Content].seq ELSE 0)
  <2>1. Wrote(fr)
    BY <1>0, <1>1, <1>3, <1>4
       DEF SerialRef, WriteWhole, Wrote, Makes, Enters, Counted, Known, Content
  <2> QED BY <2>1
<1>5. CASE SerialRefFails
  <2>1. mpc' \notin {"open"} /\ ~InFile'
    BY <1>5 DEF SerialRefFails, LoopEnd, InFile
  <2> QED BY <1>0, <1>1, <1>5, <2>1 DEF SerialRefFails, Tore
<1>6. CASE SerialData
  <2>1. Enters(Done + 1)
    BY <1>1, <1>6 DEF SerialData, Enters, Content
  <2>2. CASE WriteTorn
    <3>1. mpc' # "open" BY <1>0, <1>6 DEF SerialData
    <3> QED BY <1>0, <1>1, <1>3, <1>6, <2>1, <2>2, <3>1
            DEF SerialData, WriteTorn, Tore, Counted
  <2>3. CASE WriteWhole(DataFrame(Content, SeqOf(fi, blk)))
    <3>1. Wrote(DataFrame(Content, SeqOf(fi, blk)))
      BY <1>0, <1>1, <1>3, <1>6, <2>1, <2>3
         DEF SerialData, WriteWhole, Wrote, Makes, Counted, Content
    <3> QED BY <3>1
  <2> QED BY <1>6, <2>2, <2>3 DEF SerialData
<1> QED BY <1>4, <1>5, <1>6

LEMMA TakeEffects ==
  ASSUME TypeOK, Control, Window, Results, Take
  PROVE  Tore \/ Skipped \/ \E fr : Wrote(fr)
<1>0. mpc = "take" /\ InFile /\ mpc' = "release" /\ InFile' BY DEF Take, InFile
<1>1. Done + 1 \in 1 .. Count(fi) BY <1>0, DoneTyped
<1>2. UNCHANGED <<input, mode, fi, blk, np, ci, result, table>>
  BY DEF Take, batchVars
<1>3. Done' = Done + 1
  <2>1. Done' = blk - 1 - (np - ci) BY <1>0, <1>2 DEF Done
  <2>2. Done = blk - 1 - (np - ci + 1) BY <1>0 DEF Done
  <2> QED BY <2>1, <2>2, BatchTyped
<1>4. CASE slots[pend[ci]].error = "OK"
  <2>1. slots[pend[ci]].output = Done + 1 BY <1>0, <1>4, TakesNext
  <2> DEFINE fr == DataFrame(input[fi][Done + 1], SeqOf(fi, Done + 1))
  <2>2. WriteWhole(fr) \/ WriteTorn BY <1>4, <2>1 DEF Take
  <2>3. CASE WriteWhole(fr)
    <3>1. Wrote(fr)
      BY <1>0, <1>1, <1>2, <1>3, <2>3 DEF WriteWhole, Wrote, Makes, Enters, Counted
    <3> QED BY <3>1
  <2>4. CASE WriteTorn
    BY <1>0, <1>1, <1>2, <1>3, <2>4 DEF WriteTorn, Tore, Counted
  <2> QED BY <2>2, <2>3, <2>4
<1>5. CASE slots[pend[ci]].error # "OK"
  BY <1>0, <1>2, <1>3, <1>5 DEF Take, Skipped
<1> QED BY <1>4, <1>5

LEMMA StepEffects ==
  ASSUME TypeOK, Control, Window, Results, [Next]_vars
  PROVE  Opened \/ Tore \/ Skipped \/ Closed \/ Quiet \/ \E fr : Wrote(fr)
\* Steps that leave the batch as it is.
<1>1. ASSUME UNCHANGED <<blk, np, ci>>, mpc # "release", mpc' # "release"
      PROVE  Done' = Done
  BY <1>1 DEF Done
<1>2. CASE MainAlone
  <2>1. CASE OpenInput
    <3>1. ci = 1 /\ np = 0 BY <2>1 DEF OpenInput, Control
    <3>2. mpc' \in {"fill", "serial"} /\ blk' = 1 /\ ci' = 1 /\ np' = 0
      BY <2>1, <3>1 DEF OpenInput, batchVars
    <3>3. Done' = 0
      <4>1. Done' = blk' - 1 - (np' - ci' + 1) BY <3>2 DEF Done
      <4> QED BY <3>2, <4>1
    <3>4. InFile' BY <3>2 DEF InFile
    <3>5. Opened BY <2>1, <3>3, <3>4 DEF OpenInput, Opened
    <3> QED BY <3>5
  <2>2. CASE Take BY <2>2, TakeEffects
  <2>3. CASE SerialRef \/ SerialRefFails \/ SerialData BY <2>3, SerialEffects
  <2>4. CASE CheckInput
    <3>1. Closed BY <2>4 DEF CheckInput, Closed, outputVars
    <3> QED BY <3>1
  <2>5. CASE OpenFails \/ AllRead
    <3>1. mpc = "open" /\ mpc' \in {"destroy", "finish"}
      BY <2>5 DEF OpenFails, AllRead, LoopEnd
    <3>2. ~InFile /\ ~InFile' /\ mpc' # "open" BY <3>1 DEF InFile
    <3> QED BY <2>5, <3>2 DEF OpenFails, AllRead, Quiet, outputVars
  <2>6. CASE ReadBlock \/ ReadFails \/ BatchFull \/ CollectReturns
    <3>1. /\ mpc \in {"fill", "collect"} /\ mpc' \in {"submit", "collect", "take"}
          /\ UNCHANGED <<blk, np, ci>>
      BY <2>6 DEF ReadBlock, ReadFails, BatchFull, CollectReturns, batchVars
    <3>2. InFile /\ InFile' /\ mpc' # "open" /\ Done' = Done
      BY <1>1, <3>1 DEF InFile
    <3> QED BY <2>6, <3>2
            DEF ReadBlock, ReadFails, BatchFull, CollectReturns, Quiet, outputVars
  <2>7. CASE CollectEnds
    <3>1. mpc' \in {"fill", "check"} \/ (writeErr' /\ mpc' \in {"destroy", "finish"})
      BY <2>7 DEF CollectEnds, LoopEnd
    <3>2. mpc = "collect" /\ ci = np + 1 /\ np' = 0 /\ ci' = 1 /\ blk' = blk
      BY <2>7, BatchTyped DEF CollectEnds, Control
    <3>3. Done' = Done
      <4>1. mpc' # "release" BY <3>1
      <4>2. Done' = blk' - 1 - (np' - ci' + 1) BY <4>1 DEF Done
      <4>3. Done = blk - 1 - (np - ci + 1) BY <3>2 DEF Done
      <4> QED BY <3>2, <4>2, <4>3, BatchTyped
    <3>4. InFile /\ mpc' # "open" /\ (InFile' \/ writeErr')
      BY <3>1, <3>2 DEF InFile
    <3> QED BY <2>7, <3>3, <3>4 DEF CollectEnds, Quiet, outputVars
  <2>8. CASE SerialReadFails \/ SerialGivesUp \/ InputChanged
    <3>1. /\ mpc \in {"serial", "check"} /\ mpc' \in {"destroy", "finish", "exit"}
          /\ writeErr' \/ result' = "failed"
      BY <2>8 DEF SerialReadFails, SerialGivesUp, InputChanged, LoopEnd
    <3>2. InFile /\ ~InFile' /\ mpc' # "open" BY <3>1 DEF InFile
    <3> QED BY <2>8, <3>1, <3>2
            DEF SerialReadFails, SerialGivesUp, InputChanged, Quiet, outputVars
  <2>9. CASE SerialEnds
    <3>1. mpc = "serial" /\ (mpc' = "check" \/ (writeErr' /\ mpc' \in {"destroy", "finish"}))
      BY <2>9 DEF SerialEnds, LoopEnd
    <3>2. Done' = Done
      BY <1>1, <2>9, <3>1 DEF SerialEnds, batchVars
    <3>3. InFile /\ mpc' # "open" /\ (InFile' \/ writeErr')
      BY <2>9, <3>1 DEF InFile, SerialEnds
    <3> QED BY <2>9, <3>2, <3>3 DEF SerialEnds, Quiet, outputVars
  <2>10. CASE Join \/ Finish
    <3>1. ~InFile /\ ~InFile' /\ mpc' # "open"
      BY <2>10 DEF Join, Finish, InFile
    <3>2. result # "failed" BY <2>10 DEF Join, Finish, Control
    <3> QED BY <2>10, <3>1, <3>2 DEF Join, Finish, Quiet, outputVars
  <2> QED BY <1>2, <2>1, <2>2, <2>3, <2>4, <2>5, <2>6, <2>7, <2>8, <2>9, <2>10
          DEF MainAlone
<1>3. CASE UNCHANGED mainVars
  <2>1. Done' = Done /\ InFile' = InFile
    BY <1>3 DEF Done, InFile, mainVars, batchVars
  <2> QED BY <1>3, <2>1 DEF Quiet, mainVars, outputVars
<1>4. CASE Submit
  <2>1. mpc = "submit" /\ mpc' = "fill" /\ np' = np + 1 /\ blk' = blk + 1 /\ ci' = ci
    BY <1>4 DEF Submit
  <2>2. Done' = Done
    <3>1. Done' = blk' - 1 - (np' - ci' + 1) BY <2>1 DEF Done
    <3>2. Done = blk - 1 - (np - ci + 1) BY <2>1 DEF Done
    <3> QED BY <2>1, <3>1, <3>2, BatchTyped
  <2>3. InFile /\ InFile' BY <2>1 DEF InFile
  <2> QED BY <1>4, <2>1, <2>2, <2>3 DEF Submit, Quiet, outputVars
<1>5. CASE Release
  <2>1. mpc = "release" /\ mpc' = "collect" /\ ci' = ci + 1 /\ np' = np /\ blk' = blk
    BY <1>5 DEF Release
  <2>2. Done' = Done
    <3>1. Done' = blk' - 1 - (np' - ci' + 1) BY <2>1 DEF Done
    <3>2. Done = blk - 1 - (np - ci) BY <2>1 DEF Done
    <3> QED BY <2>1, <3>1, <3>2, BatchTyped
  <2>3. InFile /\ InFile' BY <2>1 DEF InFile
  <2> QED BY <1>5, <2>1, <2>2, <2>3 DEF Release, Quiet, outputVars
<1>6. CASE Destroy
  <2>1. ~InFile /\ ~InFile' /\ mpc' # "open"
    BY <1>6 DEF Destroy, InFile
  <2> QED BY <1>6, <2>1 DEF Destroy, Quiet, outputVars
<1> QED BY <1>2, <1>3, <1>4, <1>5, <1>6, StepCases DEF Asleep, vars

-----------------------------------------------------------------------------
(* Type correctness.                                                       *)

LEMMA AppendTyped ==
  ASSUME frames \in Seq(Frame), NEW fr \in Frame, frames' = Append(frames, fr)
  PROVE  /\ frames' \in Seq(Frame) /\ Len(frames') = Len(frames) + 1
         /\ Len(frames) \in Nat
         /\ \A k \in 1 .. Len(frames) : frames'[k] = frames[k]
         /\ frames'[Len(frames) + 1] = fr
  OBVIOUS

LEMMA MakesTyped ==
  ASSUME TypeOK, fi \in Files, NEW b \in 1 .. Count(fi), NEW fr, Makes(fr, b)
  PROVE  /\ fr \in Frame /\ fr.seq = SeqOf(fi, b) /\ fr.kind # "torn"
         /\ SeqOf(fi, b) \in Nat
<1>1. SeqOf(fi, b) \in Nat
  <2>1. b \in Nat \ {0} BY InputTyped DEF TypeOK
  <2> QED BY <2>1, SeqTyped, BatchTyped
<1>2. CASE fr = DataFrame(input[fi][b], SeqOf(fi, b))
  <2>1. input[fi][b] \in Nat BY InputTyped DEF TypeOK
  <2> QED BY <1>1, <1>2, <2>1 DEF DataFrame, Frame
<1>3. CASE fr # DataFrame(input[fi][b], SeqOf(fi, b))
  <2> DEFINE e == table[input[fi][b]]
  <2>1. fr = RefFrame(e.frame, SeqOf(fi, b), IF mode.encrypt THEN e.seq ELSE 0)
    BY <1>3 DEF Makes
  <2>2. input[fi][b] \in Contents BY InputTyped DEF TypeOK
  <2>3. e.frame \in Nat /\ e.seq \in Nat BY <2>2 DEF TypeOK
  <2>4. (IF mode.encrypt THEN e.seq ELSE 0) \in Nat BY <2>3
  <2> HIDE DEF e
  <2> QED BY <1>1, <2>1, <2>3, <2>4 DEF RefFrame, Frame
<1> QED BY <1>2, <1>3

LEMMA OutputTyped ==
  ASSUME TypeOK, Control, Window, Results, [Next]_vars
  PROVE  /\ input' \in Inputs /\ mode' \in Modes
         /\ fi' \in 1 .. NFiles + 1
         /\ writeErr' \in BOOLEAN /\ streamErr' \in BOOLEAN
         /\ table' \in [Contents' -> [frame : Nat, seq : Nat]]
         /\ frames' \in Seq(Frame)
         /\ index' \in [Files -> [first : Nat, count : Nat]]
<1>0. Len(frames) \in Nat BY DEF TypeOK
<1>1. ASSUME UNCHANGED input PROVE Contents' = Contents
  BY <1>1 DEF Contents, Count
<1>2. ASSUME fi \in Files, NEW b \in 1 .. Count(fi), Enters(b)
      PROVE  table' \in [Contents -> [frame : Nat, seq : Nat]]
  <2>1. b \in Nat \ {0} BY <1>2, InputTyped DEF TypeOK
  <2>2. SeqOf(fi, b) \in Nat BY <2>1, SeqTyped, BatchTyped
  <2> DEFINE e == [frame |-> Len(frames) + 1, seq |-> SeqOf(fi, b)]
  <2>3. e \in [frame : Nat, seq : Nat] BY <1>0, <2>2
  <2>4. table \in [Contents -> [frame : Nat, seq : Nat]] BY DEF TypeOK
  <2>5. table' = table \/ table' = [table EXCEPT ![input[fi][b]] = e]
    BY <1>2 DEF Enters
  <2> HIDE DEF e
  <2> QED BY <2>3, <2>4, <2>5
<1>3. fi \in Files => Counted \in [Files -> [first : Nat, count : Nat]]
  <2> SUFFICES ASSUME fi \in Files
               PROVE  Counted \in [Files -> [first : Nat, count : Nat]]
    OBVIOUS
  <2>1. index \in [Files -> [first : Nat, count : Nat]] BY DEF TypeOK
  <2>2. index[fi].count + 1 \in Nat /\ index[fi].first \in Nat BY <2>1
  <2>3. index[fi] \in [first : Nat, count : Nat] BY <2>1
  <2>4. [index[fi] EXCEPT !.count = @ + 1] \in [first : Nat, count : Nat]
    BY <2>2, <2>3
  <2>5. Counted = [index EXCEPT ![fi] = [index[fi] EXCEPT !.count = @ + 1]]
    BY DEF Counted
  <2> QED BY <2>1, <2>4, <2>5
<1>4. CASE Opened
  BY <1>0, <1>1, <1>4 DEF Opened, TypeOK
<1>5. CASE \E fr : Wrote(fr)
  <2>1. PICK fr : Wrote(fr) BY <1>5
  <2>2. fi \in Files BY <2>1 DEF Wrote, Control
  <2>3. fr \in Frame BY <2>1, <2>2, MakesTyped DEF Wrote
  <2>4. frames' \in Seq(Frame) BY <2>1, <2>3, AppendTyped DEF Wrote, TypeOK
  <2> QED BY <1>1, <1>2, <1>3, <2>1, <2>2, <2>4 DEF Wrote, TypeOK
<1>6. CASE Tore
  <2>1. fi \in Files BY <1>6 DEF Tore, Control
  <2>2. TornFrame \in Frame BY FramesTyped
  <2>3. frames' \in Seq(Frame) BY <1>6, <2>2, AppendTyped DEF Tore, TypeOK
  <2>4. table' \in [Contents -> [frame : Nat, seq : Nat]]
    BY <1>2, <1>6, <2>1 DEF Tore, TypeOK
  <2>5. writeErr' \in BOOLEAN /\ streamErr' \in BOOLEAN
    BY <1>6 DEF Tore, TypeOK
  <2> QED BY <1>1, <1>3, <1>6, <2>1, <2>3, <2>4, <2>5 DEF Tore, TypeOK
<1>7. CASE Skipped
  <2>1. writeErr' \in BOOLEAN
    BY <1>7 DEF Skipped
  <2> QED BY <1>1, <1>7, <2>1 DEF Skipped, TypeOK
<1>8. CASE Closed
  <2>1. fi \in Files BY <1>8 DEF Closed, Control, InFile
  <2>2. fi' \in 1 .. NFiles + 1
    BY <1>8, <2>1, CompressAssumption DEF Closed, Files
  <2> QED BY <1>1, <1>8, <2>2 DEF Closed, TypeOK
<1>9. CASE Quiet
  <2>1. writeErr' \in BOOLEAN BY <1>9 DEF Quiet, TypeOK
  <2> QED BY <1>1, <1>9, <2>1 DEF Quiet, TypeOK
<1> QED BY <1>4, <1>5, <1>6, <1>7, <1>8, <1>9, StepEffects

LEMMA TypeOKStep ==
  ASSUME TypeOK, Control, Window, Results, [Next]_vars
  PROVE  TypeOK'
<1> USE PoolAssumption, CompressAssumption
<1>0. PoolTypeOK' BY PoolStep
<1>1. mpc' \in MainState /\ result' \in {"pending", "published", "failed"}
      /\ blk' \in Nat \ {0} /\ np' \in 0 .. Threads /\ ci' \in 1 .. Threads + 1
      /\ pend' \in [1 .. Threads -> Slots]
  <2>1. CASE Submit
    <3>1. Target \in Slots
      BY <2>1, TargetIsSlot DEF Submit, Control, InFile
    <3>2. np + 1 \in 1 .. Threads
      BY <2>1 DEF Submit, Control, MayFill, TypeOK
    <3>3. pend' \in [1 .. Threads -> Slots]
      BY <2>1, <3>1, <3>2 DEF Submit, TypeOK
    <3> QED BY <2>1, <3>2, <3>3 DEF Submit, TypeOK, MainState
  <2>2. CASE Release
    <3>1. ci + 1 \in 1 .. Threads + 1
      BY <2>2, CurrentSlot DEF Release
    <3> QED BY <2>2, <3>1 DEF Release, TypeOK, MainState
  <2>3. CASE Destroy
    BY <2>3 DEF Destroy, TypeOK, MainState, batchVars
  <2>4. CASE UNCHANGED mainVars
    BY <2>4 DEF mainVars, TypeOK, batchVars
  <2>5. CASE OpenInput \/ OpenFails \/ AllRead \/ CheckInput \/ InputChanged
    <3>1. mpc' \in MainState
      BY <2>5 DEF OpenInput, OpenFails, AllRead, CheckInput, InputChanged,
                  LoopEnd, MainState
    <3>2. blk' \in Nat \ {0} /\ UNCHANGED <<batchVars, result>>
      BY <2>5 DEF OpenInput, OpenFails, AllRead, CheckInput, InputChanged, TypeOK
    <3> QED BY <3>1, <3>2 DEF TypeOK, batchVars
  <2>6. CASE ReadBlock \/ ReadFails \/ BatchFull \/ CollectReturns \/ Take
    <3>1. mpc' \in MainState
      BY <2>6 DEF ReadBlock, ReadFails, BatchFull, CollectReturns, Take, MainState
    <3>2. UNCHANGED <<blk, batchVars, result>>
      BY <2>6 DEF ReadBlock, ReadFails, BatchFull, CollectReturns, Take
    <3> QED BY <3>1, <3>2 DEF TypeOK, batchVars
  <2>7. CASE CollectEnds
    <3>1. mpc' \in MainState BY <2>7 DEF CollectEnds, LoopEnd, MainState
    <3>2. np' \in 0 .. Threads /\ ci' \in 1 .. Threads + 1
      BY <2>7 DEF CollectEnds
    <3> QED BY <2>7, <3>1, <3>2 DEF CollectEnds, TypeOK
  <2>8. CASE SerialRef \/ SerialRefFails \/ SerialData
    <3>1. mpc' \in MainState
      BY <2>8 DEF SerialRef, SerialRefFails, SerialData, LoopEnd, MainState
    <3>2. UNCHANGED <<batchVars, result>>
      BY <2>8 DEF SerialRef, SerialRefFails, SerialData
    <3>3. blk' = blk \/ blk' = blk + 1
      BY <2>8 DEF SerialRef, SerialRefFails, SerialData
    <3>4. blk' \in Nat \ {0}
      BY <3>3, BatchTyped
    <3> QED BY <3>1, <3>2, <3>4 DEF TypeOK, batchVars
  <2>9. CASE SerialReadFails \/ SerialGivesUp \/ SerialEnds \/ Join \/ Finish
    <3>1. mpc' \in MainState
      BY <2>9 DEF SerialReadFails, SerialGivesUp, SerialEnds, Join, Finish,
                  LoopEnd, MainState
    <3>2. UNCHANGED <<blk, batchVars>> /\ result' \in {result, "published", "failed"}
      BY <2>9 DEF SerialReadFails, SerialGivesUp, SerialEnds, Join, Finish
    <3> QED BY <3>1, <3>2 DEF TypeOK, batchVars
  <2> QED BY <2>1, <2>2, <2>3, <2>4, <2>5, <2>6, <2>7, <2>8, <2>9, StepCases
          DEF MainAlone, Asleep, vars
<1> QED BY <1>0, <1>1, OutputTyped DEF TypeOK

-----------------------------------------------------------------------------
(* Where the batch variables can be.                                       *)

LEMMA ControlStep ==
  ASSUME TypeOK, Control, Window, [Next]_vars
  PROVE  Control'
<1> USE DEF Control, InFile, Count, MayFill, LoopEnd, batchVars, outputVars
<1>0. /\ ci \in Nat /\ np \in Nat /\ blk \in Nat \ {0}
      /\ fi \in Files => Len(input[fi]) \in Nat
      /\ fi \in 1 .. NFiles + 1 /\ Files = 1 .. NFiles /\ NFiles \in Nat
      /\ writeErr \in BOOLEAN
  BY InputTyped, PoolAssumption, CompressAssumption DEF TypeOK, Files
<1>1. CASE MainAlone /\ UNCHANGED poolVars
  <2>1. CASE OpenInput
    BY <1>0, <1>1, <2>1 DEF OpenInput, poolVars
  <2>2. CASE OpenFails
    BY <1>0, <1>1, <2>2 DEF OpenFails, poolVars
  <2>3. CASE ReadBlock \/ ReadFails \/ BatchFull
    BY <1>0, <1>1, <2>3 DEF ReadBlock, ReadFails, BatchFull, poolVars
  <2>4. CASE CollectReturns
    BY <1>0, <1>1, <2>4 DEF CollectReturns, WaitReturns, poolVars
  <2>5. CASE Take
    BY <1>0, <1>1, <2>5 DEF Take, poolVars
  <2>6. CASE CollectEnds
    BY <1>0, <1>1, <2>6 DEF CollectEnds, poolVars
  <2>7. CASE SerialRef
    BY <1>0, <1>1, <2>7 DEF SerialRef, poolVars
  <2>8. CASE SerialRefFails
    BY <1>0, <1>1, <2>8 DEF SerialRefFails, poolVars
  <2>9. CASE SerialData
    BY <1>0, <1>1, <2>9 DEF SerialData, poolVars
  <2>10. CASE SerialReadFails \/ SerialGivesUp
    BY <1>0, <1>1, <2>10 DEF SerialReadFails, SerialGivesUp, poolVars
  <2>11. CASE SerialEnds
    BY <1>0, <1>1, <2>11 DEF SerialEnds, poolVars
  <2>12. CASE CheckInput \/ InputChanged
    BY <1>0, <1>1, <2>12 DEF CheckInput, InputChanged, poolVars
  <2>13. CASE AllRead \/ Join
    BY <1>0, <1>1, <2>13 DEF AllRead, Join, poolVars
  <2>14. CASE Finish
    BY <1>0, <1>1, <2>14 DEF Finish, poolVars
  <2> QED BY <1>1, <2>1, <2>2, <2>3, <2>4, <2>5, <2>6, <2>7, <2>8, <2>9, <2>10,
             <2>11, <2>12, <2>13, <2>14 DEF MainAlone
<1>2. CASE Asleep
  BY <1>0, <1>2 DEF Asleep, MainSleeps, MainSpurious, mainVars
<1>3. CASE Submit
  BY <1>0, <1>3 DEF Submit, SubmitFills
<1>4. CASE Release
  BY <1>0, <1>4 DEF Release, ReleaseSlot
<1>5. CASE Destroy
  BY <1>0, <1>5 DEF Destroy, SignalShutdown
<1>6. CASE \E w \in Slots : WorkerMoves(w) /\ UNCHANGED mainVars
  <2>1. (mainAsleep' => mainAsleep) /\ shutdown' = shutdown
    BY <1>6 DEF WorkerMoves, WorkerStep, WorkerEnter, WorkerSpurious,
                WorkerCheck, WorkerCancel, WorkerProcess, WorkerRaise, WorkerMark
  <2> QED BY <1>0, <1>6, <2>1 DEF mainVars
<1>7. CASE UNCHANGED vars
  BY <1>7 DEF vars, poolVars, mainVars
<1> QED BY <1>1, <1>2, <1>3, <1>4, <1>5, <1>6, <1>7, StepCases

-----------------------------------------------------------------------------
(* The slots in use are those of the batch.                                *)

LEMMA PendingDiffer ==
  ASSUME TypeOK, Control, Window,
         NEW j \in ci .. np, NEW k \in ci .. np, j # k
  PROVE  pend[j] # pend[k]
<1>1. BlockAt(j) # BlockAt(k) BY DEF BlockAt, TypeOK
<1> QED BY <1>1 DEF Window

\* With nothing pending, every slot is free.
LEMMA NothingPending ==
  ASSUME TypeOK, Window, ci > np
  PROVE  \A s \in Slots : slots[s].status = "EMPTY"
<1>1. \A j \in ci .. np : FALSE BY DEF TypeOK
<1> QED BY <1>1 DEF Window

LEMMA WindowStep ==
  ASSUME TypeOK, Control, Window, Results, [Next]_vars
  PROVE  Window'
<1>0. ci \in Nat \ {0} /\ np \in Nat /\ blk \in Nat \ {0}
  BY BatchTyped
<1>1. CASE MainAlone /\ UNCHANGED poolVars
  <2>1. CASE \/ OpenInput \/ OpenFails \/ SerialRef \/ SerialRefFails \/ SerialData
             \/ SerialReadFails \/ SerialGivesUp \/ SerialEnds
             \/ CheckInput \/ InputChanged \/ AllRead \/ Join \/ Finish
    <3>1. mpc \in {"open", "serial", "check", "join", "finish"}
      BY <2>1 DEF OpenInput, OpenFails, SerialRef, SerialRefFails, SerialData,
                  SerialReadFails, SerialGivesUp, SerialEnds, CheckInput,
                  InputChanged, AllRead, Join, Finish
    <3>2. ci > np
      BY <1>0, <3>1 DEF Control
    <3>3. ci' = ci /\ np' = np
      BY <2>1 DEF OpenInput, OpenFails, SerialRef, SerialRefFails, SerialData,
                  SerialReadFails, SerialGivesUp, SerialEnds, CheckInput,
                  InputChanged, AllRead, Join, Finish, batchVars
    <3>4. mpc' \notin {"take", "release"}
      BY <2>1 DEF OpenInput, OpenFails, SerialRef, SerialRefFails, SerialData,
                  SerialReadFails, SerialGivesUp, SerialEnds, CheckInput,
                  InputChanged, AllRead, Join, Finish, LoopEnd
    <3>5. \A j \in ci' .. np' : FALSE BY <1>0, <3>2, <3>3
    <3> QED BY <1>1, <3>2, <3>4, <3>5, NothingPending DEF Window, poolVars
  <2>2. CASE CollectEnds
    <3>1. ci > np BY <2>2 DEF CollectEnds
    <3>2. \A j \in ci' .. np' : FALSE BY <2>2 DEF CollectEnds
    <3>3. mpc' \notin {"take", "release"} BY <2>2 DEF CollectEnds, LoopEnd
    <3> QED BY <1>1, <3>1, <3>2, <3>3, NothingPending DEF Window, poolVars
  <2>3. CASE CollectReturns
    <3>1. slots[pend[ci]].status = "DONE"
      BY <2>3 DEF CollectReturns, WaitReturns, Control
    <3> QED BY <1>1, <2>3, <3>1
            DEF CollectReturns, Window, BlockAt, SeqOf, poolVars, batchVars
  <2>4. CASE Take
    BY <1>1, <2>4 DEF Take, Window, BlockAt, SeqOf, poolVars, batchVars
  <2>5. CASE ReadBlock \/ ReadFails \/ BatchFull
    <3>1. /\ UNCHANGED <<fi, blk, pend, np, ci>>
          /\ mpc' \notin {"take", "release"}
      BY <2>5 DEF ReadBlock, ReadFails, BatchFull, batchVars
    <3> QED BY <1>1, <3>1 DEF Window, BlockAt, SeqOf, poolVars
  <2> QED BY <1>1, <2>1, <2>2, <2>3, <2>4, <2>5 DEF MainAlone
<1>2. CASE Asleep \/ UNCHANGED vars
  <2>1. UNCHANGED slots /\ UNCHANGED mainVars
    BY <1>2 DEF Asleep, MainSleeps, MainSpurious, vars, poolVars
  <2> QED BY <2>1 DEF Window, BlockAt, SeqOf, mainVars, batchVars
<1>3. CASE Submit
  <2>1. Target \in Slots
    BY <1>3, TargetIsSlot DEF Submit, Control, InFile
  <2>2. /\ ci' = ci /\ np' = np + 1 /\ blk' = blk + 1 /\ ci = 1
        /\ fi' = fi /\ mpc' = "fill"
    BY <1>3 DEF Submit, Control
  <2>3. np + 1 \in 1 .. Threads
    BY <1>0, <1>3, PoolAssumption DEF Submit, Control, MayFill, TypeOK
  <2>4. /\ pend'[np + 1] = Target
        /\ \A j \in 1 .. np : pend'[j] = pend[j]
    BY <1>0, <1>3, <2>3, PoolAssumption DEF Submit, TypeOK
  <2>5. PICK ok \in MayCompress : SubmitFills(Target, blk, ok)
    BY <1>3 DEF Submit
  <2>6. /\ slots[Target].status = "EMPTY"
        /\ slots'[Target].status = "READY" /\ slots'[Target].block = blk
        /\ \A s \in Slots : s # Target => slots'[s] = slots[s]
    BY <2>1, <2>5 DEF SubmitFills, TypeOK, PoolTypeOK
  <2>7. \A j \in 1 .. np : pend[j] \in Slots /\ pend[j] # Target
    BY <2>2, <2>6, PendingAreSlots DEF Window
  <2>8. \A j \in 1 .. np + 1 : BlockAt(j)' = BlockAt(j)
    BY <1>0, <2>2 DEF BlockAt
  <2>9. BlockAt(np + 1) = blk
    BY <1>0 DEF BlockAt
  <2>10. \A b : SeqOf(fi, b)' = SeqOf(fi, b)
    BY <2>2 DEF SeqOf
  <2>11. ASSUME NEW j \in 1 .. np + 1
         PROVE  /\ slots'[pend'[j]].status # "EMPTY"
                /\ slots'[pend'[j]].block = BlockAt(j)
                /\ pend'[j] = SlotOf(SeqOf(fi, BlockAt(j)))
    <3>1. CASE j \in 1 .. np
      BY <2>2, <2>4, <2>6, <2>7, <3>1 DEF Window
    <3>2. CASE j = np + 1
      BY <2>4, <2>6, <2>9, <3>2 DEF Target
    <3> QED BY <1>0, <3>1, <3>2
  <2>12. ASSUME NEW s \in Slots, slots'[s].status # "EMPTY"
         PROVE  \E j \in 1 .. np + 1 : pend'[j] = s
    <3>1. CASE s = Target BY <1>0, <2>4, <3>1
    <3>2. CASE s # Target
      <4>1. PICK j \in 1 .. np : pend[j] = s
        BY <2>2, <2>6, <2>12, <3>2 DEF Window
      <4> QED BY <1>0, <2>4, <4>1
    <3> QED BY <3>1, <3>2
  <2> QED BY <1>0, <2>2, <2>8, <2>10, <2>11, <2>12 DEF Window
<1>4. CASE Release
  <2>1. /\ ci' = ci + 1 /\ mpc' = "collect"
        /\ UNCHANGED <<fi, blk, np, pend>>
    BY <1>4 DEF Release
  <2>2. /\ ci \in ci .. np /\ pend[ci] \in Slots
    BY <1>4, CurrentSlot DEF Release
  <2>3. /\ slots'[pend[ci]].status = "EMPTY"
        /\ \A s \in Slots : s # pend[ci] => slots'[s] = slots[s]
    BY <1>4, <2>2 DEF Release, ReleaseSlot, TypeOK, PoolTypeOK, Slot
  <2>4. \A j \in ci + 1 .. np :
          j \in ci .. np /\ pend[j] \in Slots /\ pend[j] # pend[ci]
    BY <1>0, <2>2, PendingAreSlots, PendingDiffer
  <2>5. ASSUME NEW s \in Slots, slots'[s].status # "EMPTY"
        PROVE  \E j \in ci + 1 .. np : pend[j] = s
    <3>1. s # pend[ci] BY <2>3, <2>5
    <3>2. PICK j \in ci .. np : pend[j] = s BY <2>3, <2>5, <3>1 DEF Window
    <3> QED BY <1>0, <3>1, <3>2
  <2>6. \A j : BlockAt(j)' = BlockAt(j) /\ \A b : SeqOf(fi, b)' = SeqOf(fi, b)
    BY <2>1 DEF BlockAt, SeqOf
  <2> QED BY <2>1, <2>3, <2>4, <2>5, <2>6 DEF Window
<1>5. CASE Destroy
  BY <1>5 DEF Destroy, SignalShutdown, Window, BlockAt, SeqOf, batchVars
<1>6. CASE \E w \in Slots : WorkerMoves(w) /\ UNCHANGED mainVars
  <2>1. PICK w \in Slots : WorkerMoves(w) BY <1>6
  <2>2. UNCHANGED <<fi, blk, np, pend, ci, mpc>>
    BY <1>6 DEF mainVars, batchVars
  <2>3. \A s \in Slots :
          /\ slots'[s].block = slots[s].block
          /\ slots'[s].status = "EMPTY" <=> slots[s].status = "EMPTY"
          /\ slots[s].status = "DONE" => slots'[s] = slots[s]
    BY <2>1, WorkerFrame DEF TypeOK
  <2>4. \A j \in ci .. np : pend[j] \in Slots
    BY PendingAreSlots
  <2>5. mpc \in {"take", "release"} => slots'[pend[ci]].status = "DONE"
    BY <2>3, CurrentSlot
  <2>6. \A j : BlockAt(j)' = BlockAt(j) /\ \A b : SeqOf(fi, b)' = SeqOf(fi, b)
    BY <2>2 DEF BlockAt, SeqOf
  <2> QED BY <2>2, <2>3, <2>4, <2>5, <2>6 DEF Window
<1> QED BY <1>1, <1>2, <1>3, <1>4, <1>5, <1>6, StepCases

-----------------------------------------------------------------------------
(* Sequences grow.                                                         *)

LEMMA SeqGrows ==
  ASSUME NEW f \in Nat, NEW b \in Nat \ {0}
  PROVE  SeqOf(f, b) \in Nat /\ SeqOf(f, b) < SeqOf(f, b + 1)
<1>1. f * SeqStride \in Nat BY PoolAssumption
<1> QED BY <1>1 DEF SeqOf

\* The first block of a file comes after the last one of the file before.
LEMMA SeqCarries ==
  ASSUME NEW f \in Nat, NEW b \in Nat, b <= SeqStride
  PROVE  SeqOf(f, b + 1) \in Nat /\ SeqOf(f, b + 1) <= SeqOf(f + 1, 1)
<1> DEFINE p == f * SeqStride
<1>1. p \in Nat BY PoolAssumption
<1>2. (f + 1) * SeqStride = p + SeqStride BY PoolAssumption
<1>3. SeqOf(f, b + 1) = p + b BY <1>1 DEF SeqOf
<1>4. SeqOf(f + 1, 1) = p + SeqStride BY <1>1, <1>2, PoolAssumption DEF SeqOf
<1> HIDE DEF p
<1> QED BY <1>1, <1>3, <1>4, PoolAssumption

LEMMA DoneAtCheck ==
  ASSUME TypeOK, Control, mpc = "check"
  PROVE  InFile /\ fi \in Files /\ Done = Count(fi)
<1>1. InFile BY DEF InFile
<1>2. fi \in Files /\ blk = Count(fi) + 1 /\ ci = 1 /\ np = 0
  BY <1>1 DEF Control
<1>3. Count(fi) \in Nat BY <1>2, InputTyped DEF TypeOK
<1>4. Done = blk - 1 - (np - ci + 1) BY DEF Done
<1> QED BY <1>1, <1>2, <1>3, <1>4

LEMMA GrowingStep ==
  ASSUME TypeOK, Control, Window, Results, Growing, [Next]_vars
  PROVE  Growing'
<1> DEFINE Bound(q) == \A k \in 1 .. Len(frames) :
                         frames[k].kind # "torn" => frames[k].seq < q
<1>a. frames \in Seq(Frame) BY DEF TypeOK
<1>b. \A x \in Frame : x.seq \in Nat BY DEF Frame
<1>0. /\ Len(frames) \in Nat
      /\ \A k \in 1 .. Len(frames) : frames[k].seq \in Nat
      /\ fi \in Nat
  BY <1>a, <1>b, BatchTyped
<1>1. mpc = "open" => Bound(SeqOf(fi, 1))
  BY DEF Growing, NextBlock
<1>2. InFile => Bound(SeqOf(fi, Done + 1)) /\ Done \in Nat
  BY DoneTyped DEF Growing, NextBlock, InFile
<1>3. ASSUME NEW q \in Nat, NEW r \in Nat, q <= r, Bound(q) PROVE Bound(r)
  BY <1>0, <1>3
<1>4. ASSUME frames' = frames,
             mpc' = "open" => Bound(SeqOf(fi', 1)),
             InFile' => Bound(SeqOf(fi', Done' + 1))
      PROVE  Growing'
  <2>1. \A f, b : SeqOf(f, b)' = SeqOf(f', b') BY DEF SeqOf
  <2> QED BY <1>4, <2>1 DEF Growing, NextBlock, InFile
<1>5. ASSUME InFile, Done' = Done + 1, fi' = fi
      PROVE  Bound(SeqOf(fi', Done' + 1))
  <2>1. Done + 1 \in Nat \ {0} BY <1>2, <1>5
  <2> DEFINE n == Done + 1
  <2>2. n \in Nat \ {0} /\ n + 1 \in Nat \ {0} BY <2>1
  <2> HIDE DEF n
  <2>3. SeqOf(fi, n) \in Nat /\ SeqOf(fi, n) < SeqOf(fi, n + 1)
    BY <1>0, <2>2, SeqGrows
  <2>4. SeqOf(fi, n + 1) \in Nat BY <1>0, <2>2, SeqGrows
  <2>5. SeqOf(fi, n) <= SeqOf(fi, n + 1) BY <2>3, <2>4
  <2> QED BY <1>2, <1>3, <1>5, <2>3, <2>4, <2>5 DEF n
<1> HIDE DEF Bound
<1>6. CASE Opened
  BY <1>1, <1>4, <1>6 DEF Opened, InFile
<1>7. CASE \E fr : Wrote(fr)
  <2>1. PICK fr : Wrote(fr) BY <1>7
  <2>2. /\ InFile /\ InFile' /\ Done + 1 \in 1 .. Count(fi) /\ fi' = fi
        /\ Done' = Done + 1 /\ frames' = Append(frames, fr)
    BY <2>1 DEF Wrote
  <2>3. fi \in Files BY <2>2 DEF Control
  <2>4. fr \in Frame /\ fr.seq = SeqOf(fi, Done + 1)
    BY <2>1, <2>2, <2>3, MakesTyped DEF Wrote
  <2>5. /\ Len(frames') = Len(frames) + 1
        /\ \A k \in 1 .. Len(frames) : frames'[k] = frames[k]
        /\ frames'[Len(frames) + 1] = fr
    BY <2>2, <2>4, AppendTyped DEF TypeOK
  <2>6. Bound(SeqOf(fi, Done + 1)) /\ Bound(SeqOf(fi, Done + 1 + 1))
    BY <1>2, <1>5, <2>2
  <2>7. /\ SeqOf(fi, Done + 1) < SeqOf(fi, Done + 1 + 1)
    BY <1>0, <1>2, <2>2, SeqGrows
  <2>8. ASSUME NEW j \in 1 .. Len(frames'), NEW k \in 1 .. Len(frames'), j < k,
               frames'[j].kind # "torn", frames'[k].kind # "torn"
        PROVE  frames'[j].seq < frames'[k].seq
    <3>1. CASE k = Len(frames) + 1
      BY <1>0, <2>4, <2>5, <2>6, <2>8, <3>1 DEF Bound
    <3>2. CASE k # Len(frames) + 1
      BY <1>0, <2>5, <2>8, <3>2 DEF Growing
    <3> QED BY <3>1, <3>2
  <2>9. ASSUME NEW k \in 1 .. Len(frames'), frames'[k].kind # "torn"
        PROVE  frames'[k].seq < SeqOf(fi, Done + 1 + 1)
    BY <1>0, <2>4, <2>5, <2>6, <2>7, <2>9 DEF Bound
  <2>10. NextBlock' = Done + 1 + 1
    BY <2>2 DEF NextBlock, InFile
  <2>11. SeqOf(fi, NextBlock)' = SeqOf(fi, Done + 1 + 1)
    BY <2>2, <2>10 DEF SeqOf
  <2> QED BY <2>8, <2>9, <2>11 DEF Growing
<1>8. CASE Tore
  <2>1. /\ InFile /\ (InFile' => Done' = Done + 1) /\ fi' = fi /\ mpc' # "open"
        /\ frames' = Append(frames, TornFrame)
    BY <1>8 DEF Tore
  <2>2. /\ Len(frames') = Len(frames) + 1
        /\ \A k \in 1 .. Len(frames) : frames'[k] = frames[k]
        /\ frames'[Len(frames) + 1].kind = "torn"
    BY <2>1, FramesTyped, AppendTyped DEF TypeOK, TornFrame
  <2>3. InFile' => Bound(SeqOf(fi, Done + 1 + 1))
    BY <1>5, <2>1
  <2>4. InFile' => NextBlock' = Done + 1 + 1
    BY <2>1 DEF NextBlock
  <2>5. InFile' => SeqOf(fi, NextBlock)' = SeqOf(fi, Done + 1 + 1)
    BY <2>1, <2>4 DEF SeqOf
  <2>6. ASSUME NEW k \in 1 .. Len(frames'), frames'[k].kind # "torn"
        PROVE  k \in 1 .. Len(frames) /\ frames'[k] = frames[k]
    BY <1>0, <2>2, <2>6
  <2> QED BY <2>1, <2>3, <2>5, <2>6 DEF Growing, Bound
<1>9. CASE Skipped
  <2>1. mpc' # "open" BY <1>9 DEF Skipped, InFile
  <2> QED BY <1>4, <1>5, <1>9, <2>1 DEF Skipped
<1>10. CASE Closed
  <2>1. mpc = "check" /\ mpc' = "open" /\ fi' = fi + 1 /\ frames' = frames
    BY <1>10 DEF Closed
  <2>2. InFile /\ fi \in Files /\ Done = Count(fi) BY <2>1, DoneAtCheck
  <2>3. /\ SeqOf(fi, Done + 1) \in Nat
        /\ SeqOf(fi, Done + 1) <= SeqOf(fi + 1, 1)
    BY <1>0, <2>2, SeqCarries, InputTyped DEF TypeOK
  <2>4. SeqOf(fi + 1, 1) \in Nat BY <1>0, SeqTyped
  <2>5. Bound(SeqOf(fi + 1, 1)) BY <1>2, <1>3, <2>2, <2>3, <2>4
  <2>6. ~InFile' BY <2>1 DEF InFile
  <2> QED BY <1>4, <2>1, <2>5, <2>6
<1>11. CASE Quiet
  BY <1>1, <1>2, <1>4, <1>11 DEF Quiet
<1> QED BY <1>6, <1>7, <1>8, <1>9, <1>10, <1>11, StepEffects

-----------------------------------------------------------------------------
(* The dedup index.                                                        *)

LEMMA TableStep ==
  ASSUME TypeOK, Control, Window, Results, TableTrue, [Next]_vars
  PROVE  TableTrue'
<1>0. Len(frames) \in Nat BY DEF TypeOK
<1>1. ASSUME input' = input PROVE Contents' = Contents
  BY <1>1 DEF Contents, Count
<1>2. ASSUME UNCHANGED <<input, table, frames, streamErr>> PROVE TableTrue'
  BY <1>1, <1>2 DEF TableTrue, DataFrame, Absent
<1>3. ASSUME UNCHANGED <<input, table, streamErr>>, NEW fr \in Frame,
             frames' = Append(frames, fr)
      PROVE  TableTrue'
  <2>1. /\ Len(frames') = Len(frames) + 1
        /\ \A k \in 1 .. Len(frames) : frames'[k] = frames[k]
    BY <1>3, AppendTyped DEF TypeOK
  <2>2. ASSUME ~streamErr, NEW c \in Contents, table[c] # Absent
        PROVE  /\ table[c].frame \in 1 .. Len(frames) + 1
               /\ frames'[table[c].frame] = DataFrame(c, table[c].seq)
    BY <1>0, <2>1, <2>2 DEF TableTrue
  <2> QED BY <1>1, <1>3, <2>1, <2>2 DEF TableTrue, DataFrame, Absent
<1>4. CASE \E fr : Wrote(fr)
  <2>1. PICK fr : Wrote(fr) BY <1>4
  <2> DEFINE b == Done + 1
             c0 == input[fi][b]
             e == [frame |-> Len(frames) + 1, seq |-> SeqOf(fi, b)]
  <2>2. /\ InFile /\ b \in 1 .. Count(fi) /\ Makes(fr, b)
        /\ frames' = Append(frames, fr) /\ UNCHANGED <<input, streamErr>>
    BY <2>1 DEF Wrote
  <2>3. fi \in Files BY <2>2 DEF Control
  <2>4. fr \in Frame BY <2>2, <2>3, MakesTyped
  <2>5. CASE table' = table
    BY <1>3, <2>2, <2>4, <2>5
  <2>6. CASE /\ fr = DataFrame(c0, SeqOf(fi, b))
             /\ table' = [table EXCEPT ![c0] = e]
    <3>1. /\ Len(frames') = Len(frames) + 1
          /\ \A k \in 1 .. Len(frames) : frames'[k] = frames[k]
          /\ frames'[Len(frames) + 1] = fr
      BY <2>2, <2>4, AppendTyped DEF TypeOK
    <3>2. c0 \in Contents BY <2>2, <2>3, InputTyped DEF TypeOK
    <3> HIDE DEF c0, b, e
    <3>3. table'[c0] = e /\ \A c \in Contents : c # c0 => table'[c] = table[c]
      BY <2>6, <3>2 DEF TypeOK
    <3>4. e.frame = Len(frames) + 1 /\ e.seq = SeqOf(fi, b)
      BY DEF e
    <3>5. ASSUME ~streamErr, NEW c \in Contents, table'[c] # Absent
          PROVE  /\ table'[c].frame \in 1 .. Len(frames) + 1
                 /\ frames'[table'[c].frame] = DataFrame(c, table'[c].seq)
      <4>1. CASE c = c0
        BY <1>0, <2>6, <3>1, <3>3, <3>4, <4>1
      <4>2. CASE c # c0
        <5>1. /\ table[c].frame \in 1 .. Len(frames)
              /\ frames[table[c].frame] = DataFrame(c, table[c].seq)
          BY <3>3, <3>5, <4>2 DEF TableTrue
        <5> QED BY <1>0, <3>1, <3>3, <4>2, <5>1
      <4> QED BY <4>1, <4>2
    <3> QED BY <1>1, <2>2, <3>1, <3>5 DEF TableTrue, DataFrame, Absent
  <2> QED BY <2>1, <2>5, <2>6 DEF Wrote, Enters
<1>5. CASE Tore
  <2>1. CASE streamErr' BY <2>1 DEF TableTrue
  <2>2. CASE ~streamErr'
    <3>1. /\ UNCHANGED <<input, table, streamErr>>
          /\ frames' = Append(frames, TornFrame)
      BY <1>5, <2>2 DEF Tore, TypeOK
    <3> QED BY <1>3, <3>1, FramesTyped
  <2> QED BY <2>1, <2>2
<1>6. CASE Opened \/ Skipped \/ Closed \/ Quiet
  BY <1>2, <1>6 DEF Opened, Skipped, Closed, Quiet
<1> QED BY <1>4, <1>5, <1>6, StepEffects

-----------------------------------------------------------------------------
(* The archive holds what was read.                                        *)

LEMMA StandsStays ==
  ASSUME TypeOK, NEW k, NEW f, NEW b, StandsFor(k, f, b),
         UNCHANGED <<input, mode>>,
         Len(frames') \in Nat, Len(frames) <= Len(frames'),
         \A i \in 1 .. Len(frames) : frames'[i] = frames[i]
  PROVE  StandsFor(k, f, b)'
<1>1. k \in 1 .. Len(frames) /\ Len(frames) \in Nat BY DEF StandsFor, TypeOK
<1>2. k \in 1 .. Len(frames') /\ frames'[k] = frames[k] BY <1>1
<1>3. \A t \in 1 .. k - 1 : t \in 1 .. Len(frames) /\ frames'[t] = frames[t]
  BY <1>1
<1> QED BY <1>2, <1>3 DEF StandsFor, DataFrame, RefFrame, SeqOf

\* A frame just made stands for its block.
LEMMA MakesStands ==
  ASSUME TypeOK, TableTrue, fi \in Files, ~streamErr,
         NEW b \in 1 .. Count(fi), NEW fr \in Frame, Makes(fr, b),
         frames' = Append(frames, fr), UNCHANGED <<input, mode, fi>>,
         NEW n, n = Len(frames) + 1
  PROVE  StandsFor(n, fi, b)'
<1>0. /\ Len(frames') = Len(frames) + 1 /\ Len(frames) \in Nat
      /\ \A k \in 1 .. Len(frames) : frames'[k] = frames[k]
      /\ frames'[Len(frames) + 1] = fr
  BY AppendTyped DEF TypeOK
<1>1. CASE fr = DataFrame(input[fi][b], SeqOf(fi, b))
  BY <1>0, <1>1 DEF StandsFor, DataFrame, SeqOf
<1>2. CASE fr # DataFrame(input[fi][b], SeqOf(fi, b))
  <2> DEFINE c == input[fi][b]
             t == table[c].frame
  <2>1. /\ mode.dedup /\ table[c] # Absent
        /\ fr = RefFrame(t, SeqOf(fi, b), IF mode.encrypt THEN table[c].seq ELSE 0)
    BY <1>2 DEF Makes
  <2>2. c \in Contents BY InputTyped DEF TypeOK
  <2>3. t \in 1 .. Len(frames) /\ frames[t] = DataFrame(c, table[c].seq)
    BY <2>1, <2>2 DEF TableTrue
  <2>4. /\ frames'[t] = frames[t]
        /\ frames[t].kind = "data" /\ frames[t].content = c /\ frames[t].seq = table[c].seq
    BY <1>0, <2>3 DEF DataFrame
  <2>5. t \in 1 .. (Len(frames) + 1) - 1 BY <1>0, <2>3
  <2> HIDE DEF c, t
  <2>6. mode'.dedup /\ (mode'.encrypt = mode.encrypt) BY <2>1
  <2>7. frames'[Len(frames) + 1] =
          RefFrame(t, SeqOf(fi, b), IF mode.encrypt THEN frames'[t].seq ELSE 0)
    BY <1>0, <2>1, <2>4
  <2>8. frames'[t].kind = "data" /\ frames'[t].content = input'[fi][b]
    BY <2>4 DEF c
  <2> QED BY <1>0, <2>5, <2>6, <2>7, <2>8 DEF StandsFor, RefFrame, SeqOf
<1> QED BY <1>1, <1>2

LEMMA LayoutStep ==
  ASSUME TypeOK, Control, Window, Results, TableTrue, Layout, [Next]_vars
  PROVE  Layout'
<1> DEFINE Fine == result # "failed" /\ ~writeErr /\ ~streamErr
<1>0. /\ Len(frames) \in Nat /\ fi \in Nat \ {0}
      /\ index \in [Files -> [first : Nat, count : Nat]]
      /\ \A f \in Files : f \in Nat \ {0} /\ (f # 1 => f - 1 \in Files)
  BY BatchTyped, CompressAssumption DEF TypeOK, Files
\* What holds of the files read so far, when there is nothing wrong.
<1>1. ASSUME Fine
      PROVE  /\ \A f \in Files : f < fi => InPlace(f, Count(f)) /\ index[f].first = FirstFree(f)
             /\ InFile => InPlace(fi, Done) /\ index[fi].first = FirstFree(fi)
             /\ Len(frames) + 1 = IF InFile THEN index[fi].first + Done ELSE FirstFree(fi)
  BY <1>1 DEF Layout
<1>2. CASE ~Fine'
  BY <1>2 DEF Layout
<1>3. CASE Opened
  <2>1. /\ mpc = "open" /\ ~InFile /\ InFile' /\ fi \in Files /\ Done' = 0
        /\ index' = [index EXCEPT ![fi] = [first |-> Len(frames) + 1, count |-> 0]]
        /\ UNCHANGED <<input, mode, fi, frames>> /\ Fine' = Fine
    BY <1>3 DEF Opened, InFile
  <2>2. /\ index'[fi].first = Len(frames) + 1 /\ index'[fi].count = 0
        /\ \A f \in Files : f < fi => index'[f] = index[f]
    BY <1>0, <2>1
  <2>3. \A f \in Files : f <= fi => FirstFree(f)' = FirstFree(f)
    BY <1>0, <2>2 DEF FirstFree
  <2>4. \A k, f, b : StandsFor(k, f, b)' = StandsFor(k, f, b)
    BY <2>1 DEF StandsFor, DataFrame, RefFrame, SeqOf
  <2>5. \A f \in Files : f < fi => InPlace(f, Count(f))' = InPlace(f, Count(f))
    BY <2>1, <2>2, <2>4 DEF InPlace, Count
  <2>6. InPlace(fi, Done)'
    BY <2>1, <2>2 DEF InPlace
  <2>7. Fine => index'[fi].first = FirstFree(fi)'
    BY <1>0, <1>1, <2>1, <2>2, <2>3
  <2>8. Fine => Len(frames') + 1 = index'[fi].first + Done'
    BY <1>0, <2>1, <2>2
  <2> QED BY <1>0, <1>1, <2>1, <2>2, <2>3, <2>5, <2>6, <2>7, <2>8 DEF Layout
<1>4. CASE \E fr : Wrote(fr)
  <2>1. PICK fr : Wrote(fr) BY <1>4
  <2>2. /\ InFile /\ InFile' /\ Done + 1 \in 1 .. Count(fi) /\ Done' = Done + 1
        /\ Makes(fr, Done + 1)
        /\ frames' = Append(frames, fr) /\ index' = Counted
        /\ UNCHANGED <<input, mode, fi>> /\ Fine' = Fine
    BY <2>1 DEF Wrote
  <2>3. fi \in Files /\ Done \in Nat BY <2>2, DoneTyped
  <2>4. fr \in Frame BY <2>2, <2>3, MakesTyped
  <2>5. /\ Len(frames') = Len(frames) + 1
        /\ \A k \in 1 .. Len(frames) : frames'[k] = frames[k]
    BY <2>2, <2>4, AppendTyped DEF TypeOK
  <2>6. /\ index'[fi].first = index[fi].first /\ index'[fi].count = index[fi].count + 1
        /\ \A f \in Files : f < fi => index'[f] = index[f]
    BY <1>0, <2>2, <2>3 DEF Counted
  <2>7. \A f \in Files : f <= fi => FirstFree(f)' = FirstFree(f)
    BY <1>0, <2>6 DEF FirstFree
  <2>8. \A k, f, b : StandsFor(k, f, b) => StandsFor(k, f, b)'
    BY <1>0, <2>2, <2>5, StandsStays
  <2>9. \A f \in Files : f < fi => (InPlace(f, Count(f)) => InPlace(f, Count(f))')
    BY <2>2, <2>6, <2>8 DEF InPlace, Count
  <2>10. ASSUME Fine PROVE InPlace(fi, Done)'
    <3>1. Len(frames) + 1 = index[fi].first + Done BY <1>1, <2>2, <2>10
    <3>2. index[fi].count = Done
          /\ \A b \in 1 .. Done : StandsFor(index[fi].first + b - 1, fi, b)
      BY <1>1, <2>2, <2>10 DEF InPlace
    <3>3. PICK n, b : n = Len(frames) + 1 /\ b = Done + 1 OBVIOUS
    <3>4. StandsFor(n, fi, b)'
      BY <2>2, <2>3, <2>4, <2>10, <3>3, MakesStands
    <3>5. n = index'[fi].first + b - 1 /\ fi' = fi
      BY <1>0, <2>2, <2>3, <2>6, <3>1, <3>3
    <3>6. StandsFor(index[fi].first + b - 1, fi, b)'
      BY <3>4, <3>5
    <3>7. \A x \in 1 .. Done : StandsFor(index[fi].first + x - 1, fi, x)'
      BY <2>2, <2>6, <2>8, <3>2
    <3>8. Done' = b /\ \A x \in 1 .. b : x \in 1 .. Done \/ x = b
      BY <2>2, <2>3, <3>3
    <3>9. \A x \in 1 .. Done' : StandsFor(index[fi].first + x - 1, fi, x)'
      BY <3>6, <3>7, <3>8
    <3>10. index'[fi].count = Done'
      BY <2>2, <2>6, <3>2
    <3> QED BY <2>2, <3>9, <3>10 DEF InPlace
  <2>11. Fine => Len(frames') + 1 = index'[fi].first + Done'
    BY <1>0, <1>1, <2>2, <2>3, <2>5, <2>6
  <2> QED BY <1>0, <1>1, <2>2, <2>3, <2>6, <2>7, <2>9, <2>10, <2>11, SMTT(20) DEF Layout
<1>5. CASE Tore \/ Skipped
  <2>1. writeErr' \/ streamErr' BY <1>5 DEF Tore, Skipped
  <2> QED BY <1>2, <2>1
<1>6. CASE Closed
  <2>1. /\ mpc = "check" /\ mpc' = "open" /\ fi' = fi + 1
        /\ UNCHANGED <<input, mode, frames, index>> /\ Fine' = Fine
    BY <1>6 DEF Closed
  <2>2. InFile /\ fi \in Files /\ Done = Count(fi) BY <2>1, DoneAtCheck
  <2>3. ~InFile' BY <2>1 DEF InFile
  <2>4. \A k, f, b : StandsFor(k, f, b)' = StandsFor(k, f, b)
    BY <2>1 DEF StandsFor, DataFrame, RefFrame, SeqOf
  <2>5. \A f : /\ InPlace(f, Count(f))' = InPlace(f, Count(f))
               /\ FirstFree(f)' = FirstFree(f)
    BY <2>1, <2>4 DEF InPlace, Count, FirstFree
  <2>6. \A f \in Files : f < fi + 1 => f < fi \/ f = fi
    BY <1>0
  <2>7. ASSUME Fine PROVE Len(frames) + 1 = FirstFree(fi + 1)
    <3>1. Len(frames) + 1 = index[fi].first + Done /\ index[fi].count = Done
      BY <1>1, <2>2, <2>7 DEF InPlace
    <3>2. FirstFree(fi + 1) = index[fi].first + index[fi].count
      BY <1>0, <2>2 DEF FirstFree
    <3> QED BY <3>1, <3>2
  <2>8. FirstFree(fi)' = FirstFree(fi + 1)
    BY <2>1 DEF FirstFree
  <2> QED BY <1>1, <2>1, <2>2, <2>3, <2>5, <2>6, <2>7, <2>8 DEF Layout
<1>7. CASE Quiet /\ Fine'
  <2>1. /\ InFile' <=> InFile
        /\ InFile => Done' = Done
        /\ UNCHANGED <<input, mode, fi, frames, index>> /\ Fine
    <3>1. result # "failed" /\ ~streamErr BY <1>7 DEF Quiet
    <3>2. ~writeErr
      <4>1. writeErr' \in {writeErr, TRUE} /\ ~writeErr' BY <1>7 DEF Quiet
      <4> QED BY <4>1
    <3>3. InFile /\ ~InFile' => FALSE
      BY <1>7 DEF Quiet
    <3> QED BY <1>7, <3>1, <3>2, <3>3 DEF Quiet
  <2>2. \A k, f, b : StandsFor(k, f, b)' = StandsFor(k, f, b)
    BY <2>1 DEF StandsFor, DataFrame, RefFrame, SeqOf
  <2>3. \A f : /\ InPlace(f, Count(f))' = InPlace(f, Count(f))
               /\ FirstFree(f)' = FirstFree(f)
    BY <2>1, <2>2 DEF InPlace, Count, FirstFree
  <2>4. InFile => InPlace(fi, Done)' = InPlace(fi, Done)
    BY <2>1, <2>2 DEF InPlace
  <2>5. FirstFree(fi)' = FirstFree(fi) BY <2>1 DEF FirstFree
  <2> QED BY <1>1, <2>1, <2>3, <2>4, <2>5 DEF Layout
<1> QED BY <1>2, <1>3, <1>4, <1>5, <1>6, <1>7, StepEffects

-----------------------------------------------------------------------------
(* The theorems.                                                           *)

LEMMA IInvStep == IInv /\ [Next]_vars => IInv'
<1> SUFFICES ASSUME IInv, [Next]_vars PROVE IInv' OBVIOUS
<1>1. TypeOK /\ Control /\ Window /\ Results /\ Growing /\ TableTrue /\ Layout
  BY DEF IInv
<1>2. TypeOK' BY <1>1, TypeOKStep
<1>3. Control' BY <1>1, ControlStep
<1>4. Window' BY <1>1, WindowStep
<1>5. Results' BY <1>1, PoolStep
<1>6. Growing' BY <1>1, GrowingStep
<1>7. TableTrue' BY <1>1, TableStep
<1>8. Layout' BY <1>1, LayoutStep
<1> QED BY <1>2, <1>3, <1>4, <1>5, <1>6, <1>7, <1>8 DEF IInv

\* The state the main thread and the workers share always fits together: which
\* slots are in use and for which block, what a finished slot holds, and what
\* the archive under construction holds of the files read so far.
THEOREM Invariance == Spec => []IInv
  BY InitIInv, IInvStep, PTL DEF Spec

\* Every variable of a compression keeps its type.
THEOREM TypeCorrect == Spec => []TypeOK
<1>1. IInv => TypeOK BY DEF IInv
<1> QED BY <1>1, Invariance, PTL

\* A slot has one owner at a time: a worker at work on it finds it READY, and
\* the main thread writes the result of a DONE slot whose worker has let go.
THEOREM SlotsHaveOneOwner == Spec => []OneOwner
<1>1. IInv => OneOwner
  <2> SUFFICES ASSUME IInv PROVE OneOwner OBVIOUS
  <2>1. mpc \in {"take", "release"} =>
          /\ pend[ci] \in Slots
          /\ slots[pend[ci]].status = "DONE"
    BY CurrentSlot DEF IInv
  <2> QED BY <2>1 DEF IInv, Results, OneOwner
<1> QED BY <1>1, Invariance, PTL

\* Every file starts on an idle pool, and so does zpar_destroy.
THEOREM PoolIsDrained == Spec => []PoolDrained
<1>1. IInv => PoolDrained
  <2> SUFFICES ASSUME IInv, mpc \in {"open", "check", "destroy", "finish"}
               PROVE  /\ \A s \in Slots : slots[s].status = "EMPTY"
                      /\ np = 0 /\ ~mainAsleep
    BY DEF PoolDrained
  <2>1. np = 0 /\ ci = 1 /\ ~mainAsleep BY DEF IInv, Control
  <2> QED BY <2>1, NothingPending DEF IInv
<1> QED BY <1>1, Invariance, PTL

\* With no more threads asked for than the pool allows, zpar_submit_compress
\* never waits: a batch is no longer than the pool, and the blocks of one batch
\* have different slots.
THEOREM SubmitNeverWaits ==
  ASSUME Threads <= MaxThreads
  PROVE  Spec => []SubmitFindsSlotFree
<1>1. IInv => SubmitFindsSlotFree
  <2> SUFFICES ASSUME IInv, mpc = "submit", slots[Target].status # "EMPTY"
               PROVE  FALSE
    BY DEF SubmitFindsSlotFree
  <2> USE DEF IInv
  <2>1. /\ fi \in Files /\ fi \in Nat /\ np < Threads /\ ci = 1 /\ np < blk
        /\ np \in Nat /\ blk \in Nat \ {0}
    BY BatchTyped DEF Control, MayFill, InFile
  <2>2. Target \in Slots BY <2>1, TargetIsSlot
  <2>3. PICK j \in 1 .. np : pend[j] = Target
    BY <2>1, <2>2 DEF Window
  <2>4. pend[j] = SlotOf(SeqOf(fi, BlockAt(j))) BY <2>1, <2>3 DEF Window
  <2>5. BlockAt(j) \in Nat \ {0} /\ BlockAt(j) < blk /\ blk - BlockAt(j) <= np
    BY <2>1, <2>3 DEF BlockAt
  <2> DEFINE a == SeqOf(fi, BlockAt(j))
             b == SeqOf(fi, blk)
  <2>6. a \in Nat /\ b \in Nat
    BY <2>1, <2>5, SeqTyped
  <2>7. b - a = blk - BlockAt(j)
    <3>1. fi * SeqStride \in Nat BY <2>1, PoolAssumption
    <3> QED BY <2>1, <2>5, <3>1 DEF SeqOf
  <2>8. NSlots = Threads BY PoolAssumption DEF NSlots
  <2>9. a < b /\ b - a < NSlots
    BY <2>1, <2>5, <2>6, <2>7, <2>8, PoolAssumption
  <2> QED BY <2>3, <2>4, <2>6, <2>9, CloseSequencesDiffer DEF Target
<1> QED BY <1>1, Invariance, PTL

\* Every frame of the archive is authenticated under a sequence of its own.
THEOREM SequencesAreUnique == Spec => []SequencesDiffer
<1>1. IInv => SequencesDiffer
  <2> SUFFICES ASSUME IInv, NEW j \in 1 .. Len(frames), NEW k \in 1 .. Len(frames),
                      j # k, frames[j].kind # "torn", frames[k].kind # "torn"
               PROVE  frames[j].seq # frames[k].seq
    BY DEF SequencesDiffer
  <2>1. frames \in Seq(Frame) /\ \A x \in Frame : x.seq \in Nat
    BY DEF IInv, TypeOK, Frame
  <2>2. j < k => frames[j].seq < frames[k].seq BY DEF IInv, Growing
  <2>3. k < j => frames[k].seq < frames[j].seq BY DEF IInv, Growing
  <2>4. frames[j].seq \in Nat /\ frames[k].seq \in Nat BY <2>1
  <2> QED BY <2>2, <2>3, <2>4
<1> QED BY <1>1, Invariance, PTL

\* When the archive is published nothing has gone wrong and every file is read.
LEMMA WhenPublished ==
  ASSUME IInv, fi = NFiles + 1, ~writeErr, ~streamErr, result # "failed", ~InFile
  PROVE  /\ \A f \in Files : InPlace(f, Count(f)) /\ index[f].first = FirstFree(f)
         /\ Len(frames) + 1 = FirstFree(NFiles + 1)
<1>1. \A f \in Files : f < fi BY CompressAssumption DEF Files
<1> QED BY <1>1 DEF IInv, Layout

\* The frames of a published archive are those of its files, in their order,
\* and without --dedup they do not depend on the number of threads.
THEOREM PublishedFilesTile == Spec => []FilesTile
<1>1. IInv => FilesTile
  <2> SUFFICES ASSUME IInv, result = "published" PROVE FilesTile
    BY DEF FilesTile
  <2>1. mpc = "exit" /\ fi = NFiles + 1 /\ ~writeErr /\ ~streamErr
    BY DEF IInv, Control
  <2>2. ~InFile BY <2>1 DEF InFile
  <2>3. /\ \A f \in Files : InPlace(f, Count(f)) /\ index[f].first = FirstFree(f)
        /\ Len(frames) + 1 = FirstFree(NFiles + 1)
    BY <2>1, <2>2, WhenPublished
  <2>4. \A f \in Files :
          index[f].first = IF f = 1 THEN 1 ELSE index[f - 1].first + index[f - 1].count
    BY <2>3 DEF FirstFree
  <2>5. NFiles > 0 => Len(frames) = index[NFiles].first + index[NFiles].count - 1
    <3>1. Len(frames) \in Nat /\ NFiles \in Nat
          /\ index \in [Files -> [first : Nat, count : Nat]]
      BY CompressAssumption DEF IInv, TypeOK
    <3>2. NFiles > 0 => NFiles \in Files BY <3>1 DEF Files
    <3>3. NFiles > 0 => FirstFree(NFiles + 1) = index[NFiles].first + index[NFiles].count
      BY <3>1 DEF FirstFree
    <3> QED BY <2>3, <3>1, <3>2, <3>3
  <2>6. ~mode.dedup =>
          \A f \in Files : \A b \in 1 .. Count(f) :
            frames[index[f].first + b - 1] = DataFrame(input[f][b], SeqOf(f, b))
    BY <2>3 DEF InPlace, StandsFor
  <2> QED BY <2>4, <2>5, <2>6 DEF FilesTile
<1> QED BY <1>1, Invariance, PTL

\* The dedup index is true of the archive: no reference is made to a frame that
\* holds something else.
THEOREM DedupTableIsTrue == Spec => []TableTrue
<1>1. IInv => TableTrue BY DEF IInv
<1> QED BY <1>1, Invariance, PTL

-----------------------------------------------------------------------------

LEMMA RefinementInit == Init => Spec0!SpecInit
  BY DEF Init, Spec0!SpecInit

\* A block in place reads back.
LEMMA InPlaceReadsBack ==
  ASSUME NEW f \in Files, InPlace(f, Count(f)), NEW b \in 1 .. Count(f)
  PROVE  Spec0!ReadsBack(f, b, input[f][b])
<1> DEFINE k == index[f].first + b - 1
           c == input[f][b]
           q == SeqOf(f, b)
<1>1. StandsFor(k, f, b) BY DEF InPlace
<1>2. mode.encrypt => Spec0!ReaderSeq(f, b) = q
  BY DEF Spec0!ReaderSeq, SeqOf
<1>3. k \in 1 .. Len(frames) BY <1>1 DEF StandsFor
<1>4. CASE frames[k] = DataFrame(c, q)
  BY <1>2, <1>3, <1>4 DEF Spec0!ReadsBack, Spec0!Opens, DataFrame
<1>5. CASE frames[k] # DataFrame(c, q)
  <2>1. PICK t \in 1 .. k - 1 :
          /\ frames[t].kind = "data" /\ frames[t].content = c
          /\ frames[k] = RefFrame(t, q, IF mode.encrypt THEN frames[t].seq ELSE 0)
    BY <1>1, <1>5 DEF StandsFor
  <2>2. /\ frames[k].kind = "ref" /\ frames[k].target = t /\ frames[k].seq = q
        /\ frames[k].source = IF mode.encrypt THEN frames[t].seq ELSE 0
    BY <2>1 DEF RefFrame
  <2>3. Spec0!Opens(frames[k], Spec0!ReaderSeq(f, b))
        /\ Spec0!Opens(frames[t], frames[k].source)
    BY <1>2, <2>2 DEF Spec0!Opens
  <2> QED BY <1>3, <2>1, <2>2, <2>3 DEF Spec0!ReadsBack
<1> QED BY <1>4, <1>5

LEMMA RefinementStep == IInv /\ [Next]_vars => [Spec0!SpecNext]_(Spec0!specVars)
<1> SUFFICES ASSUME IInv, [Next]_vars PROVE [Spec0!SpecNext]_(Spec0!specVars)
  OBVIOUS
<1>1. CASE mpc = "exit"
  <2>1. UNCHANGED mainVars
    BY <1>1 DEF Next, MainStep, OpenInput, OpenFails, ReadBlock, ReadFails,
           BatchFull, SubmitWaits, Submit, CollectWaits, CollectReturns, Take,
           Release, CollectEnds, SerialRef, SerialRefFails, SerialData,
           SerialReadFails, SerialGivesUp, SerialEnds, CheckInput,
           InputChanged, AllRead, Destroy, Join, Finish, Workers, Spurious,
           Ended, vars
  <2> QED BY <2>1 DEF mainVars, outputVars, Spec0!specVars
<1>2. CASE mpc # "exit"
  <2>1. result = "pending" BY <1>2 DEF IInv, Control
  <2>2. UNCHANGED <<input, mode>>
    BY DEF Next, MainStep, OpenInput, OpenFails, ReadBlock, ReadFails,
           BatchFull, SubmitWaits, Submit, CollectWaits, CollectReturns, Take,
           Release, CollectEnds, SerialRef, SerialRefFails, SerialData,
           SerialReadFails, SerialGivesUp, SerialEnds, CheckInput,
           InputChanged, AllRead, Destroy, Join, Finish, Workers, Spurious,
           Ended, vars, mainVars
  <2>3. CASE result' = result
    <3>1. Spec0!Prepare BY <2>1, <2>2, <2>3 DEF Spec0!Prepare
    <3> QED BY <3>1 DEF Spec0!SpecNext
  <2>4. CASE result' = "failed"
    <3>1. Spec0!Abandon BY <2>1, <2>2, <2>4 DEF Spec0!Abandon
    <3> QED BY <3>1 DEF Spec0!SpecNext
  <2>5. CASE Finish /\ result' = "published"
    <3>1. /\ mpc = "finish" /\ ~writeErr /\ ~streamErr
          /\ UNCHANGED <<input, mode, frames, index>>
      BY <2>5 DEF Finish, outputVars
    <3>2. fi = NFiles + 1 BY <3>1 DEF IInv, Control
    <3>3. \A f \in Files : InPlace(f, Count(f))
      BY <2>1, <3>1, <3>2, WhenPublished DEF InFile
    <3>4. Spec0!Restores
      BY <3>3, InPlaceReadsBack
         DEF Spec0!Restores, Spec0!Files, Files, InPlace, Count
    <3>5. Spec0!Restores'
      BY <3>1, <3>4 DEF Spec0!Restores, Spec0!ReadsBack, Spec0!Opens, Spec0!ReaderSeq
    <3>6. Spec0!Publish BY <2>1, <2>2, <2>5, <3>5 DEF Spec0!Publish
    <3> QED BY <3>6 DEF Spec0!SpecNext
  <2>6. result' \in {result, "failed"} \/ (Finish /\ result' = "published")
    BY DEF Next, MainStep, OpenInput, OpenFails, ReadBlock, ReadFails,
           BatchFull, SubmitWaits, Submit, CollectWaits, CollectReturns, Take,
           Release, CollectEnds, SerialRef, SerialRefFails, SerialData,
           SerialReadFails, SerialGivesUp, SerialEnds, CheckInput,
           InputChanged, AllRead, Destroy, Join, Finish, Workers, Spurious,
           Ended, vars, mainVars
  <2> QED BY <2>3, <2>4, <2>5, <2>6
<1> QED BY <1>1, <1>2

\* Compression by any number of threads, with or without --dedup and encryption
\* and with any read or write failing, keeps the promise of ArchiveCreation: a
\* published archive reads back as the input, block by block.
THEOREM CreationIsSafe == Spec => ImplementsCreation
  BY RefinementInit, RefinementStep, Invariance, PTL
     DEF Spec, ImplementsCreation, Spec0!SafeCreation
=============================================================================
