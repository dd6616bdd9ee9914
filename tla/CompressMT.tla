----------------------------- MODULE CompressMT -----------------------------
(***************************************************************************)
(* zupt_compress_files, which writes an archive that is not solid: per     *)
(* file, the main thread reads blocks, hands them to the workers of ZPar   *)
(* in batches and writes the compressed blocks in order; without a pool,   *)
(* and always with --dedup, it compresses each block itself and replaces a *)
(* block already in the archive by a reference.  A file that changes while *)
(* it is read, and any failed read or write, abandons the whole archive.   *)
(***************************************************************************)
EXTENDS ZPar, Sequences

CONSTANTS
  NFiles,   \* number of input files
  Inputs,   \* the inputs considered: per file, the contents of its blocks
  Modes,    \* the option sets considered
  Faults    \* may allocation, reading and writing fail, and inputs change?

VARIABLES
  input,     \* the input files; they do not change
  mode,      \* [dedup, encrypt]; it does not change
  mpc,       \* where the main thread is
  fi,        \* the file being compressed
  blk,       \* the next block of it to read (block_seq + 1)
  pend,      \* pending_slots
  np,        \* npending
  ci,        \* the pending slot being collected (pi + 1)
  writeErr,  \* write_err
  streamErr, \* the error indicator of the output stream
  table,     \* the dedup index: content -> the frame that holds it and its
             \* sequence
  frames,    \* the frames in the temporary output
  index,     \* per file, first_block_offset (as a frame) and block_count
  result     \* what zupt_compress_files has reported

batchVars == <<pend, np, ci>>
outputVars == <<table, frames, index, streamErr>>
mainVars == <<input, mode, mpc, fi, blk, writeErr, result, batchVars, outputVars>>
vars == <<poolVars, mainVars>>

\* The refinement mapping: the pool, the batch, the dedup index and the error
\* flags are hidden, the archive and the verdict are what they are.
Spec0 == INSTANCE ArchiveCreation
           WITH input <- input, mode <- mode, frames <- frames,
                index <- index, result <- result

Files == 1 .. NFiles

ASSUME CompressAssumption ==
  /\ NFiles \in Nat
  /\ Inputs \subseteq [Files -> Seq(Nat \ {0})]
  /\ Modes \subseteq [dedup : BOOLEAN, encrypt : BOOLEAN]
  /\ Faults \in BOOLEAN
  \* block_seq does not run into the file number
  /\ \A x \in Inputs, f \in Files : Len(x[f]) <= SeqStride

MainState == {"open", "fill", "submit", "collect", "take", "release",
              "serial", "check", "destroy", "join", "finish", "exit"}

\* Is there a pool?  Threads = 1, --dedup and a pool without threads mean no.
Pool == Threads > 1 /\ started > 0 /\ ~mode.dedup

Count(f) == Len(input[f])
Content == input[fi][blk]

\* Mutant: the sequence starts again with every file.
SeqOfBlock(f, b) == b - 1

\* The AAD sequence of a frame: where it belongs.
SeqOf(f, b) == f * SeqStride + (b - 1)

Target == SlotOf(SeqOf(fi, blk))

DataFrame(c, seq) ==
  [kind |-> "data", content |-> c, seq |-> seq, target |-> 0, source |-> 0]
RefFrame(target, seq, source) ==
  [kind |-> "ref", content |-> 0, seq |-> seq, target |-> target, source |-> source]
TornFrame ==
  [kind |-> "torn", content |-> 0, seq |-> 0, target |-> 0, source |-> 0]

\* The contents of the blocks of the input.
Contents == UNION {{input[f][b] : b \in 1 .. Count(f)} : f \in Files}

Absent == [frame |-> 0, seq |-> 0]

Init ==
  /\ PoolInit
  /\ input \in Inputs
  /\ mode \in Modes
  /\ mode.dedup => started = 0
  /\ mpc = "open"
  /\ fi = 1 /\ blk = 1
  /\ pend = [i \in 1 .. Threads |-> 0]
  /\ np = 0 /\ ci = 1
  /\ writeErr = FALSE /\ streamErr = FALSE
  /\ table = [c \in Contents |-> Absent]
  /\ frames = <<>>
  /\ index = [f \in Files |-> [first |-> 0, count |-> 0]]
  /\ result = "pending"

\* Leaving the loop over the files: the pool goes before the index is written.
LoopEnd == IF Pool THEN "destroy" ELSE "finish"

-----------------------------------------------------------------------------
(* Writing a frame.                                                        *)

\* Mutant: block_count is not incremented.
WriteWholeUncounted(frame) ==
  /\ frames' = Append(frames, frame)
  /\ UNCHANGED <<index, writeErr, streamErr>>

\* A frame written whole counts in the index entry of its file.
WriteWhole(frame) ==
  /\ frames' = Append(frames, frame)
  /\ index' = [index EXCEPT ![fi].count = @ + 1]
  /\ UNCHANGED <<writeErr, streamErr>>

\* Only the write of the payload is checked at once; a short write of the
\* frame header is known to the stream alone.
WriteTorn ==
  /\ Faults
  /\ frames' = Append(frames, TornFrame)
  /\ index' = [index EXCEPT ![fi].count = @ + 1]
  /\ streamErr' = TRUE
  /\ writeErr' \in {writeErr, TRUE}

-----------------------------------------------------------------------------
(* Opening an input.                                                       *)

OpenInput ==
  /\ mpc = "open" /\ fi \in Files
  /\ index' = [index EXCEPT ![fi] = [first |-> Len(frames) + 1, count |-> 0]]
  /\ blk' = 1
  /\ mpc' = IF Pool THEN "fill" ELSE "serial"
  /\ UNCHANGED <<poolVars, input, mode, fi, writeErr, result, batchVars,
                 table, frames, streamErr>>

\* The header cannot be rewritten to say MULTITHREADED, the input cannot be
\* opened, or there is no memory for pending_slots.
OpenFails ==
  /\ Faults
  /\ mpc = "open" /\ fi \in Files
  /\ writeErr' = TRUE
  /\ mpc' = LoopEnd
  /\ UNCHANGED <<poolVars, input, mode, fi, blk, result, batchVars, outputVars>>

-----------------------------------------------------------------------------
(* Filling a batch.                                                        *)

MayFill == blk <= Count(fi) /\ np < Threads

ReadBlock ==
  /\ mpc = "fill" /\ MayFill
  /\ mpc' = "submit"
  /\ UNCHANGED <<poolVars, input, mode, fi, blk, writeErr, result, batchVars, outputVars>>

\* A short read ends the batch; what is pending is still collected.
ReadFails ==
  /\ Faults
  /\ mpc = "fill" /\ MayFill
  /\ writeErr' = TRUE
  /\ mpc' = "collect"
  /\ UNCHANGED <<poolVars, input, mode, fi, blk, result, batchVars, outputVars>>

BatchFull ==
  /\ mpc = "fill" /\ ~MayFill
  /\ mpc' = "collect"
  /\ UNCHANGED <<poolVars, input, mode, fi, blk, writeErr, result, batchVars, outputVars>>

SubmitWaits ==
  /\ mpc = "submit"
  /\ SubmitBlocks(Target)
  /\ UNCHANGED mainVars

\* A worker can fail only for want of memory.
MayCompress == IF Faults THEN BOOLEAN ELSE {TRUE}

Submit ==
  /\ mpc = "submit"
  /\ \E ok \in MayCompress : SubmitFills(Target, blk, ok)
  /\ pend' = [pend EXCEPT ![np + 1] = Target]
  /\ np' = np + 1 /\ blk' = blk + 1
  /\ mpc' = "fill"
  /\ UNCHANGED <<input, mode, fi, ci, writeErr, result, outputVars>>

-----------------------------------------------------------------------------
(* Collecting the batch in the order it was submitted.                     *)

CollectWaits ==
  /\ mpc = "collect" /\ ci <= np
  /\ WaitBlocks(pend[ci])
  /\ UNCHANGED mainVars

CollectReturns ==
  /\ mpc = "collect" /\ ci <= np
  /\ WaitReturns(pend[ci])
  /\ mpc' = "take"
  /\ UNCHANGED <<input, mode, fi, blk, writeErr, result, batchVars, outputVars>>

\* Mutant: the position in the batch is taken for the slot.
TakeByPosition ==
  /\ mpc = "take"
  /\ LET b == IF slots[ci - 1].output = 0 THEN 1 ELSE slots[ci - 1].output
     IN  WriteWhole(DataFrame(input[fi][b], SeqOf(fi, b)))
  /\ mpc' = "release"
  /\ UNCHANGED <<poolVars, input, mode, fi, blk, result, batchVars, table>>

\* Unlocked: an errored slot is skipped, the others are still written.
Take ==
  /\ mpc = "take"
  /\ LET b == slots[pend[ci]].output
     IN  IF slots[pend[ci]].error = "OK"
         THEN WriteWhole(DataFrame(input[fi][b], SeqOf(fi, b))) \/ WriteTorn
         ELSE /\ writeErr' = TRUE
              /\ UNCHANGED <<frames, index, streamErr>>
  /\ mpc' = "release"
  /\ UNCHANGED <<poolVars, input, mode, fi, blk, result, batchVars, table>>

Release ==
  /\ mpc = "release"
  /\ ReleaseSlot(pend[ci])
  /\ ci' = ci + 1 /\ mpc' = "collect"
  /\ UNCHANGED <<input, mode, fi, blk, pend, np, writeErr, result, outputVars>>

CollectEnds ==
  /\ mpc = "collect" /\ ci > np
  /\ np' = 0 /\ ci' = 1
  /\ mpc' = IF writeErr THEN LoopEnd
            ELSE IF blk <= Count(fi) THEN "fill" ELSE "check"
  /\ UNCHANGED <<poolVars, input, mode, fi, blk, pend, writeErr, result, outputVars>>

-----------------------------------------------------------------------------
(* The serial path.                                                        *)

\* zupt_dedup_lookup_secure finds the content of the block.
Known == mode.dedup /\ table[Content] # Absent

\* Mutant: the reference does not carry the sequence of the original frame.
SerialRefBare ==
  /\ mpc = "serial" /\ blk <= Count(fi)
  /\ Known /\ ~streamErr
  /\ WriteWhole(RefFrame(table[Content].frame, SeqOf(fi, blk), 0))
  /\ blk' = blk + 1
  /\ UNCHANGED <<poolVars, input, mode, mpc, fi, result, batchVars, table>>

\* A block already in the archive is replaced by a reference to it, which
\* carries, if it is authenticated, the sequence of the original frame.
SerialRef ==
  /\ mpc = "serial" /\ blk <= Count(fi)
  /\ Known /\ ~streamErr
  /\ WriteWhole(RefFrame(table[Content].frame, SeqOf(fi, blk),
                         IF mode.encrypt THEN table[Content].seq ELSE 0))
  /\ blk' = blk + 1
  /\ UNCHANGED <<poolVars, input, mode, mpc, fi, result, batchVars, table>>

\* The write of a reference is checked, any earlier failure of the stream
\* included, and ends the file.
SerialRefFails ==
  /\ Faults
  /\ mpc = "serial" /\ blk <= Count(fi)
  /\ Known
  /\ frames' = Append(frames, TornFrame)
  /\ streamErr' \in {streamErr, TRUE} /\ writeErr' = TRUE
  /\ mpc' = LoopEnd
  /\ UNCHANGED <<poolVars, input, mode, fi, blk, result, batchVars, table, index>>

\* A new block is written and, with --dedup, entered into the dedup index,
\* written whole or not, unless the index is full there.
SerialData ==
  /\ mpc = "serial" /\ blk <= Count(fi)
  /\ ~Known
  /\ WriteWhole(DataFrame(Content, SeqOf(fi, blk))) \/ WriteTorn
  /\ \/ /\ mode.dedup
        /\ table' = [table EXCEPT ![Content] = [frame |-> Len(frames) + 1,
                                                seq |-> SeqOf(fi, blk)]]
     \/ UNCHANGED table
  /\ blk' = blk + 1
  /\ UNCHANGED <<poolVars, input, mode, mpc, fi, result, batchVars>>

SerialReadFails ==
  /\ Faults
  /\ mpc = "serial" /\ blk <= Count(fi)
  /\ writeErr' = TRUE
  /\ mpc' = LoopEnd
  /\ UNCHANGED <<poolVars, input, mode, fi, blk, result, batchVars, outputVars>>

\* The block cannot be encrypted: zupt_compress_files gives up on the spot.
SerialGivesUp ==
  /\ Faults /\ mode.encrypt
  /\ mpc = "serial" /\ blk <= Count(fi)
  /\ ~Known
  /\ result' = "failed"
  /\ mpc' = "exit"
  /\ UNCHANGED <<poolVars, input, mode, fi, blk, writeErr, batchVars, outputVars>>

SerialEnds ==
  /\ mpc = "serial" /\ blk > Count(fi)
  /\ mpc' = IF writeErr THEN LoopEnd ELSE "check"
  /\ UNCHANGED <<poolVars, input, mode, fi, blk, writeErr, result, batchVars, outputVars>>

-----------------------------------------------------------------------------
(* Closing an input and ending the archive.                                *)

\* The input still has the identity it had when it was opened.
CheckInput ==
  /\ mpc = "check"
  /\ fi' = fi + 1 /\ mpc' = "open"
  /\ UNCHANGED <<poolVars, input, mode, blk, writeErr, result, batchVars, outputVars>>

InputChanged ==
  /\ Faults
  /\ mpc = "check"
  /\ writeErr' = TRUE
  /\ mpc' = LoopEnd
  /\ UNCHANGED <<poolVars, input, mode, fi, blk, result, batchVars, outputVars>>

AllRead ==
  /\ mpc = "open" /\ fi \notin Files
  /\ mpc' = LoopEnd
  /\ UNCHANGED <<poolVars, input, mode, fi, blk, writeErr, result, batchVars, outputVars>>

Destroy ==
  /\ mpc = "destroy"
  /\ SignalShutdown
  /\ mpc' = "join"
  /\ UNCHANGED <<input, mode, fi, blk, writeErr, result, batchVars, outputVars>>

Join ==
  /\ mpc = "join" /\ AllJoined
  /\ mpc' = "finish"
  /\ UNCHANGED <<poolVars, input, mode, fi, blk, writeErr, result, batchVars, outputVars>>

\* Index, footer and trailer are written and the temporary file takes the
\* place of the output, unless a write failed before or fails now.
Finish ==
  /\ mpc = "finish"
  /\ \/ ~writeErr /\ ~streamErr /\ result' = "published"
     \/ (writeErr \/ streamErr \/ Faults) /\ result' = "failed"
  /\ mpc' = "exit"
  /\ UNCHANGED <<poolVars, input, mode, fi, blk, writeErr, batchVars, outputVars>>

-----------------------------------------------------------------------------

MainStep ==
  \/ OpenInput \/ OpenFails
  \/ ReadBlock \/ ReadFails \/ BatchFull \/ SubmitWaits \/ Submit
  \/ CollectWaits \/ CollectReturns \/ Take \/ Release \/ CollectEnds
  \/ SerialRef \/ SerialRefFails \/ SerialData \/ SerialReadFails
  \/ SerialGivesUp \/ SerialEnds
  \/ CheckInput \/ InputChanged \/ AllRead \/ Destroy \/ Join \/ Finish

Workers(w) == WorkerStep(w) /\ UNCHANGED mainVars

Spurious ==
  /\ MainSpurious \/ \E w \in Slots : WorkerSpurious(w)
  /\ UNCHANGED mainVars

\* The process has ended, so there is nothing left to do.
Ended == mpc = "exit" /\ UNCHANGED vars

Next == MainStep \/ (\E w \in Slots : Workers(w)) \/ Spurious \/ Ended

Spec == Init /\ [][Next]_vars

\* The scheduler runs every thread that can run.
Fairness == WF_vars(MainStep) /\ \A w \in Slots : WF_vars(Workers(w))

FairSpec == Spec /\ Fairness

-----------------------------------------------------------------------------
(* Properties.                                                             *)

Frame == [kind : {"data", "ref", "torn"}, content : Nat, seq : Nat,
          target : Nat, source : Nat]

\* Every variable keeps its type; pending slots are slots.
TypeOK ==
  /\ PoolTypeOK
  /\ input \in Inputs
  /\ mode \in Modes
  /\ mpc \in MainState
  /\ fi \in 1 .. NFiles + 1
  /\ blk \in Nat \ {0}
  /\ pend \in [1 .. Threads -> Slots]
  /\ np \in 0 .. Threads
  /\ ci \in 1 .. Threads + 1
  /\ writeErr \in BOOLEAN
  /\ streamErr \in BOOLEAN
  /\ table \in [Contents -> [frame : Nat, seq : Nat]]
  /\ frames \in Seq(Frame)
  /\ index \in [Files -> [first : Nat, count : Nat]]
  /\ result \in {"pending", "published", "failed"}

\* A slot has one owner.  A worker works without the mutex only on a READY
\* slot, and the slot whose result the main thread writes without the mutex is
\* DONE and its worker is no longer at work on it (worker_entry against the
\* collection loop of zupt_compress_files).
OneOwner ==
  /\ \A s \in Slots : worker[s] \in Busy => slots[s].status = "READY"
  /\ mpc \in {"take", "release"} =>
       /\ slots[pend[ci]].status = "DONE"
       /\ worker[pend[ci]] \notin Busy

\* zpar_submit_compress never has to wait for a slot, which only the thread
\* that waits could free.
SubmitFindsSlotFree == mpc = "submit" => slots[Target].status = "EMPTY"

\* The pool is idle between files and before zpar_destroy, also after a short
\* read in the middle of a batch.
PoolDrained ==
  mpc \in {"open", "check", "destroy", "finish"} =>
    /\ \A s \in Slots : slots[s].status = "EMPTY"
    /\ np = 0 /\ ~mainAsleep

\* No two frames are authenticated under the same sequence, neither within a
\* file nor across files, so none can stand in for another.
SequencesDiffer ==
  \A j, k \in 1 .. Len(frames) :
    j # k /\ frames[j].kind # "torn" /\ frames[k].kind # "torn" =>
      frames[j].seq # frames[k].seq

\* A published archive holds the frames of the first file, then those of the
\* second, and so on, with nothing between and nothing after them: without
\* --dedup it is the same archive for every number of threads.
FilesTile ==
  result = "published" =>
    /\ \A f \in Files :
         index[f].first = IF f = 1 THEN 1 ELSE index[f - 1].first + index[f - 1].count
    /\ NFiles > 0 => Len(frames) = index[NFiles].first + index[NFiles].count - 1
    /\ ~mode.dedup =>
         \A f \in Files : \A b \in 1 .. Count(f) :
           frames[index[f].first + b - 1] = DataFrame(input[f][b], SeqOf(f, b))

\* What is in the archive stays there: a frame the dedup index refers to is
\* the frame that was entered, and holds the content it is entered under.
TableTrue ==
  ~streamErr =>
    \A c \in Contents : table[c] # Absent =>
      /\ table[c].frame \in 1 .. Len(frames)
      /\ frames[table[c].frame] = DataFrame(c, table[c].seq)

\* Compression ends, with every worker joined.
Termination == <>(mpc = "exit")

\* Compression publishes an archive that reads back as the input, or nothing.
ImplementsCreation == Spec0!SafeCreation

-----------------------------------------------------------------------------
(* The inductive invariant.                                                *)

InFile == mpc \in {"fill", "submit", "collect", "take", "release", "serial",
                   "check"}

\* The block handed to pend[j] of the batch under way.
BlockAt(j) == blk - np + j - 1

\* How many blocks are dealt with: all that were read but are not pending.
Done == blk - 1 - (IF mpc = "release" THEN np - ci ELSE np - ci + 1)

\* Where the batch variables can be, given where the main thread is.
Control ==
  /\ ci \in 1 .. np + 1 /\ np < blk
  /\ mpc \notin {"collect", "take", "release"} => ci = 1
  /\ mpc \notin {"fill", "submit", "collect", "take", "release"} => np = 0
  /\ mpc \in {"take", "release"} => ci <= np
  /\ mainAsleep => mpc = "submit" \/ (mpc = "collect" /\ ci <= np)
  /\ InFile => fi \in Files /\ blk <= Count(fi) + 1
  /\ mpc = "submit" => MayFill
  /\ mpc = "check" => blk = Count(fi) + 1
  /\ mpc \in {"open", "fill", "submit", "check"} => ~writeErr
  /\ mpc \in {"destroy", "join", "finish"} /\ ~writeErr => fi = NFiles + 1
  /\ mpc \in {"join", "finish", "exit"} \/ ~shutdown
  /\ result # "pending" <=> mpc = "exit"
  /\ result = "published" => fi = NFiles + 1 /\ ~writeErr /\ ~streamErr

\* The slots in use are those of the pending part of the batch, each with its
\* own block; two pending slots differ because their blocks do.
Window ==
  /\ \A j \in ci .. np :
       /\ slots[pend[j]].status # "EMPTY"
       /\ slots[pend[j]].block = BlockAt(j)
       /\ pend[j] = SlotOf(SeqOf(fi, BlockAt(j)))
  /\ \A s \in Slots : slots[s].status # "EMPTY" => \E j \in ci .. np : pend[j] = s
  /\ mpc \in {"take", "release"} => slots[pend[ci]].status = "DONE"

\* Sequences grow along the archive, and the next frame continues them.
NextBlock == IF mpc = "open" THEN 1 ELSE Done + 1

Growing ==
  /\ \A j, k \in 1 .. Len(frames) :
       j < k /\ frames[j].kind # "torn" /\ frames[k].kind # "torn" =>
         frames[j].seq < frames[k].seq
  /\ mpc = "open" \/ InFile =>
       \A k \in 1 .. Len(frames) :
         frames[k].kind # "torn" => frames[k].seq < SeqOf(fi, NextBlock)

\* Frame k stands for block b of file f.
StandsFor(k, f, b) ==
  /\ k \in 1 .. Len(frames)
  /\ \/ frames[k] = DataFrame(input[f][b], SeqOf(f, b))
     \/ /\ mode.dedup
        /\ \E t \in 1 .. k - 1 :
             /\ frames[t].kind = "data" /\ frames[t].content = input[f][b]
             /\ frames[k] = RefFrame(t, SeqOf(f, b),
                                     IF mode.encrypt THEN frames[t].seq ELSE 0)

\* The first n blocks of file f are in the archive, in place.
InPlace(f, n) ==
  /\ index[f].count = n
  /\ \A b \in 1 .. n : StandsFor(index[f].first + b - 1, f, b)

\* The frame after the last one of the files before f.
FirstFree(f) == IF f = 1 THEN 1 ELSE index[f - 1].first + index[f - 1].count

\* While nothing has gone wrong the archive is what was read so far.
Layout ==
  result # "failed" /\ ~writeErr /\ ~streamErr =>
    /\ \A f \in Files : f < fi => InPlace(f, Count(f)) /\ index[f].first = FirstFree(f)
    /\ InFile => InPlace(fi, Done) /\ index[fi].first = FirstFree(fi)
    /\ Len(frames) + 1 = IF InFile THEN index[fi].first + Done ELSE FirstFree(fi)

\* What zupt_compress_files relies on at every moment: the slots in use are
\* exactly the uncollected part of the batch, frames appear under growing
\* sequences, the dedup index points at what it was told, and while nothing
\* has gone wrong the index entries describe exactly the frames written.
IInv == TypeOK /\ Control /\ Window /\ Results /\ Growing /\ TableTrue /\ Layout
=============================================================================
