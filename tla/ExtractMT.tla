----------------------------- MODULE ExtractMT ------------------------------
(***************************************************************************)
(* zupt_extract over an archive that is not solid: the main thread reads   *)
(* frames, hands DATA frames to the workers of ZPar in batches of at most  *)
(* effective_threads, resolves DEDUP_REF frames itself after flushing the  *)
(* batch, writes the results in order and publishes the file if nothing    *)
(* went wrong.  Files of one block, and all files when there is no pool,   *)
(* take the serial path.                                                   *)
(***************************************************************************)
EXTENDS ZPar, Sequences

CONSTANTS
  NFiles,    \* number of index entries
  Archives,  \* the archives considered: per file, the kinds of its frames
  SeqModes,  \* the block_seq conventions considered
  Faults     \* may allocation, reading, output creation and writing fail?

VARIABLES
  archive,   \* the archive being extracted; it does not change
  seqMode,   \* the convention its flags select
  mpc,       \* where the main thread is
  fi,        \* the index entry being extracted
  blk,       \* the next block of it to read (decomp_seq + 1)
  pend,      \* pending_slots
  np,        \* npending
  ci,        \* the pending slot being collected (pi + 1)
  flushing,  \* the collection is the flush before a DEDUP_REF
  berr,      \* the file has failed
  written,   \* the blocks written to the file's temporary output
  outcome,   \* what became of each file
  content    \* what each published file holds: the numbers of its blocks

fileVars == <<fi, outcome, content>>
batchVars == <<pend, np, ci, flushing>>
mainVars == <<archive, seqMode, mpc, blk, berr, written, fileVars, batchVars>>
vars == <<poolVars, mainVars>>

\* The refinement mapping: the pool and the batch are hidden, the files settled
\* so far and what they hold are what they are.
Spec0 == INSTANCE FileExtraction
           WITH archive <- archive, fi <- fi, outcome <- outcome,
                content <- content

Files == 1 .. NFiles
Frames == Spec0!Frames

ASSUME ExtractAssumption ==
  /\ NFiles \in Nat
  /\ Archives \subseteq [Files -> Seq(Frames)]
  /\ SeqModes \subseteq {"positional", "linear", "zero"}
  /\ Faults \in BOOLEAN

MainState == {"open", "fill", "submit", "collect", "take", "release", "ref",
              "serial", "close", "destroy", "join", "exit"}

\* Is there a pool?  Threads = 1, and a pool without threads, mean serial.
Pool == Threads > 1 /\ started > 0

Count(f) == Len(archive[f])
Frame == archive[fi][blk]

\* archive_data_aad_seq: "zero" is a plaintext dedup archive, "linear" a disk
\* image, "positional" every other archive.
SeqOf(f, b) ==
  CASE seqMode = "linear"     -> b - 1
    [] seqMode = "zero"       -> 0
    [] seqMode = "positional" -> f * SeqStride + (b - 1)

\* The slot the current block would be submitted to.
Target == SlotOf(SeqOf(fi, blk))

Init ==
  /\ PoolInit
  /\ archive \in Archives
  /\ seqMode \in SeqModes
  /\ mpc = "open"
  /\ fi = 1 /\ blk = 1
  /\ pend = [i \in 1 .. Threads |-> 0]
  /\ np = 0 /\ ci = 1 /\ flushing = FALSE
  /\ berr = FALSE /\ written = <<>>
  /\ outcome = [f \in Files |-> "pending"]
  /\ content = [f \in Files |-> <<>>]

-----------------------------------------------------------------------------
(* Opening a file.                                                         *)

\* Mutant: files of one block go to the pool as well.
OpenFileShort ==
  /\ mpc = "open" /\ fi \in Files
  /\ blk' = 1 /\ berr' = FALSE /\ written' = <<>>
  /\ mpc' = IF Pool /\ Count(fi) > 0 THEN "fill" ELSE "serial"
  /\ UNCHANGED <<poolVars, archive, seqMode, fileVars, batchVars>>

OpenFile ==
  /\ mpc = "open" /\ fi \in Files
  /\ blk' = 1 /\ berr' = FALSE /\ written' = <<>>
  /\ mpc' = IF Pool /\ Count(fi) > 1 THEN "fill" ELSE "serial"
  /\ UNCHANGED <<poolVars, archive, seqMode, fileVars, batchVars>>

\* The path is refused or the temporary output cannot be created.
SkipFile ==
  /\ Faults
  /\ mpc = "open" /\ fi \in Files
  /\ outcome' = [outcome EXCEPT ![fi] = "failed"]
  /\ fi' = fi + 1
  /\ UNCHANGED <<poolVars, archive, seqMode, mpc, blk, berr, written, content,
                 batchVars>>

\* The output is open but pending_slots cannot be allocated.
NoPending ==
  /\ Faults
  /\ mpc = "open" /\ fi \in Files /\ Pool /\ Count(fi) > 1
  /\ blk' = 1 /\ berr' = TRUE /\ written' = <<>>
  /\ mpc' = "close"
  /\ UNCHANGED <<poolVars, archive, seqMode, fileVars, batchVars>>

-----------------------------------------------------------------------------
(* Filling a batch.                                                        *)

\* Mutant: a batch of one block too many.
MayFillOver == blk <= Count(fi) /\ np <= Threads

MayFill == blk <= Count(fi) /\ np < Threads

ReadData ==
  /\ mpc = "fill" /\ MayFill
  /\ Frame \in {"data", "bad"}
  /\ mpc' = "submit"
  /\ UNCHANGED <<poolVars, archive, seqMode, blk, berr, written, fileVars, batchVars>>

\* A reference ends the batch: what is pending is written before it.
ReadRef ==
  /\ mpc = "fill" /\ MayFill
  /\ Frame \in {"ref", "badref"}
  /\ mpc' = "collect" /\ flushing' = TRUE
  /\ UNCHANGED <<poolVars, archive, seqMode, blk, berr, written, fileVars,
                 pend, np, ci>>

\* The frame cannot be read or is of no kind that belongs in a file.
ReadOther ==
  /\ mpc = "fill" /\ MayFill
  /\ Frame = "other" \/ Faults
  /\ mpc' = "collect" /\ berr' = TRUE
  /\ UNCHANGED <<poolVars, archive, seqMode, blk, written, fileVars, batchVars>>

BatchFull ==
  /\ mpc = "fill" /\ ~MayFill
  /\ mpc' = "collect"
  /\ UNCHANGED <<poolVars, archive, seqMode, blk, berr, written, fileVars, batchVars>>

SubmitWaits ==
  /\ mpc = "submit"
  /\ SubmitBlocks(Target)
  /\ UNCHANGED mainVars

\* Whether the worker will succeed with the frame: it may lack the memory.
MayDecode == {Frame = "data"} \cup (IF Faults THEN {FALSE} ELSE {})

Submit ==
  /\ mpc = "submit"
  /\ \E ok \in MayDecode : SubmitFills(Target, blk, ok)
  /\ pend' = [pend EXCEPT ![np + 1] = Target]
  /\ np' = np + 1 /\ blk' = blk + 1
  /\ mpc' = "fill"
  /\ UNCHANGED <<archive, seqMode, berr, written, fileVars, ci, flushing>>

SubmitFails ==
  /\ Faults
  /\ mpc = "submit"
  /\ SubmitRefuses(Target)
  /\ berr' = TRUE /\ mpc' = "collect"
  /\ UNCHANGED <<archive, seqMode, blk, written, fileVars, batchVars>>

-----------------------------------------------------------------------------
(* Collecting the batch in the order it was submitted.                     *)

CollectWaits ==
  /\ mpc = "collect" /\ ci <= np
  /\ WaitBlocks(pend[ci])
  /\ UNCHANGED mainVars

CollectReturns ==
  /\ mpc = "collect" /\ ci <= np
  /\ WaitReturns(pend[ci])
  /\ mpc' = "take"
  /\ UNCHANGED <<archive, seqMode, blk, berr, written, fileVars, batchVars>>

\* Unlocked: an errored slot fails the file, the others are still written.
Take ==
  /\ mpc = "take"
  /\ IF slots[pend[ci]].error = "OK"
     THEN \/ /\ written' = Append(written, slots[pend[ci]].output)
             /\ UNCHANGED berr
          \/ /\ Faults
             /\ berr' = TRUE
             /\ UNCHANGED written
     ELSE berr' = TRUE /\ UNCHANGED written
  /\ mpc' = "release"
  /\ UNCHANGED <<poolVars, archive, seqMode, blk, fileVars, batchVars>>

Release ==
  /\ mpc = "release"
  /\ ReleaseSlot(pend[ci])
  /\ ci' = ci + 1 /\ mpc' = "collect"
  /\ UNCHANGED <<archive, seqMode, blk, berr, written, fileVars, pend, np, flushing>>

\* Mutant: a batch that has failed keeps its slots.
CollectEndsStale ==
  /\ mpc = "collect" /\ (ci > np \/ berr)
  /\ np' = 0 /\ ci' = 1 /\ flushing' = FALSE
  /\ mpc' = IF berr THEN "close"
            ELSE IF flushing THEN "ref"
            ELSE IF blk <= Count(fi) THEN "fill" ELSE "close"
  /\ UNCHANGED <<poolVars, archive, seqMode, blk, berr, written, fileVars, pend>>

CollectEnds ==
  /\ mpc = "collect" /\ ci > np
  /\ np' = 0 /\ ci' = 1 /\ flushing' = FALSE
  /\ mpc' = IF berr THEN "close"
            ELSE IF flushing THEN "ref"
            ELSE IF blk <= Count(fi) THEN "fill" ELSE "close"
  /\ UNCHANGED <<poolVars, archive, seqMode, blk, berr, written, fileVars, pend>>

\* The main thread writes the block it has decoded itself.
WriteBlock ==
  \/ written' = Append(written, blk) /\ UNCHANGED berr
  \/ Faults /\ berr' = TRUE /\ UNCHANGED written

\* A DEDUP_REF is read, checked, decoded and written by the main thread; a
\* failed write does not end the batch.
ResolveRef ==
  /\ mpc = "ref"
  /\ \/ /\ Frame = "ref"
        /\ WriteBlock
        /\ blk' = blk + 1 /\ mpc' = "fill"
     \/ /\ Frame # "ref" \/ Faults
        /\ berr' = TRUE /\ mpc' = "collect"
        /\ UNCHANGED <<written, blk>>
  /\ UNCHANGED <<poolVars, archive, seqMode, fileVars, batchVars>>

-----------------------------------------------------------------------------
(* The serial path: a frame at a time, stopping at the first one that does *)
(* not decode, but not at a failed write.                                  *)

SerialBlock ==
  /\ mpc = "serial" /\ blk <= Count(fi)
  /\ \/ /\ Frame \in {"data", "ref"}
        /\ WriteBlock
        /\ blk' = blk + 1 /\ UNCHANGED mpc
     \/ /\ Frame \notin {"data", "ref"} \/ Faults
        /\ berr' = TRUE /\ mpc' = "close"
        /\ UNCHANGED <<written, blk>>
  /\ UNCHANGED <<poolVars, archive, seqMode, fileVars, batchVars>>

SerialEnds ==
  /\ mpc = "serial" /\ blk > Count(fi)
  /\ mpc' = "close"
  /\ UNCHANGED <<poolVars, archive, seqMode, blk, berr, written, fileVars, batchVars>>

-----------------------------------------------------------------------------
(* Closing a file: the size and content hash check, then the publication.  *)

ContentMatches == written = [b \in 1 .. Count(fi) |-> b]

\* Mutant: the outcome of the blocks and of the check is not looked at.
CloseFileBlind ==
  /\ mpc = "close"
  /\ outcome' = [outcome EXCEPT ![fi] = "published"]
  /\ content' = [content EXCEPT ![fi] = written]
  /\ fi' = fi + 1 /\ mpc' = "open"
  /\ UNCHANGED <<poolVars, archive, seqMode, blk, berr, written, batchVars>>

CloseFile ==
  /\ mpc = "close"
  /\ \/ /\ ~berr /\ ContentMatches
        /\ outcome' = [outcome EXCEPT ![fi] = "published"]
        /\ content' = [content EXCEPT ![fi] = written]
     \/ /\ berr \/ ~ContentMatches \/ Faults
        /\ outcome' = [outcome EXCEPT ![fi] = "failed"]
        /\ UNCHANGED content
  /\ fi' = fi + 1 /\ mpc' = "open"
  /\ UNCHANGED <<poolVars, archive, seqMode, blk, berr, written, batchVars>>

AllClosed ==
  /\ mpc = "open" /\ fi \notin Files
  /\ mpc' = IF Pool THEN "destroy" ELSE "exit"
  /\ UNCHANGED <<poolVars, archive, seqMode, blk, berr, written, fileVars, batchVars>>

Destroy ==
  /\ mpc = "destroy"
  /\ SignalShutdown
  /\ mpc' = "join"
  /\ UNCHANGED <<archive, seqMode, blk, berr, written, fileVars, batchVars>>

Join ==
  /\ mpc = "join" /\ AllJoined
  /\ mpc' = "exit"
  /\ UNCHANGED <<poolVars, archive, seqMode, blk, berr, written, fileVars, batchVars>>

-----------------------------------------------------------------------------

MainStep ==
  \/ OpenFile \/ SkipFile \/ NoPending
  \/ ReadData \/ ReadRef \/ ReadOther \/ BatchFull
  \/ SubmitWaits \/ Submit \/ SubmitFails
  \/ CollectWaits \/ CollectReturns \/ Take \/ Release \/ CollectEnds
  \/ ResolveRef \/ SerialBlock \/ SerialEnds
  \/ CloseFile \/ AllClosed \/ Destroy \/ Join

Workers(w) == WorkerStep(w) /\ UNCHANGED mainVars

Spurious ==
  /\ MainSpurious \/ \E w \in Slots : WorkerSpurious(w)
  /\ UNCHANGED mainVars

\* The process has ended, so there is nothing left to do.
Ended == mpc = "exit" /\ UNCHANGED vars

Next == MainStep \/ (\E w \in Slots : Workers(w)) \/ Spurious \/ Ended

Spec == Init /\ [][Next]_vars

\* The scheduler runs every thread that can run.
Fairness == WF_vars(MainStep) /\ \A w \in Slots : WF_vars(Workers(w))

FairSpec == Spec /\ Fairness

-----------------------------------------------------------------------------
(* Properties.                                                             *)

\* Every variable keeps its type; pending slots are slots.
TypeOK ==
  /\ PoolTypeOK
  /\ archive \in Archives
  /\ seqMode \in SeqModes
  /\ mpc \in MainState
  /\ fi \in 1 .. NFiles + 1
  /\ blk \in Nat \ {0}
  /\ pend \in [1 .. Threads -> Slots]
  /\ np \in 0 .. Threads
  /\ ci \in 1 .. Threads + 1
  /\ flushing \in BOOLEAN
  /\ berr \in BOOLEAN
  /\ written \in Seq(Nat)
  /\ outcome \in [Files -> {"pending", "published", "failed"}]
  /\ content \in [Files -> Seq(Nat)]

\* A slot has one owner.  A worker works without the mutex only on a READY
\* slot, and the slot whose result the main thread reads without the mutex is
\* DONE and its worker is no longer at work on it (worker_entry against the
\* collection loops of zupt_extract).
OneOwner ==
  /\ \A s \in Slots : worker[s] \in Busy => slots[s].status = "READY"
  /\ mpc \in {"take", "release"} =>
       /\ slots[pend[ci]].status = "DONE"
       /\ worker[pend[ci]] \notin Busy

\* zpar_submit_decompress never has to wait: the slot a block_seq selects is
\* free whenever the batch loop submits.  The main thread is the only one
\* that frees slots, so waiting there would be waiting for itself.
SubmitFindsSlotFree == mpc = "submit" => slots[Target].status = "EMPTY"

\* The batch loops alone keep the order and lose, add and repeat nothing: a
\* file without an error reaches the final check with exactly its blocks, so
\* the content hash of zupt_extract catches only damaged archives.
OrderKept == mpc = "close" /\ ~berr => written = [b \in 1 .. Count(fi) |-> b]

\* The next file starts on an idle pool: whatever error ended the last one,
\* all its slots were collected and released.
PoolDrained ==
  mpc \in {"open", "close", "destroy"} =>
    /\ \A s \in Slots : slots[s].status = "EMPTY"
    /\ np = 0 /\ ~mainAsleep

\* A block can only be cancelled, or a worker error be on record, if a DATA
\* frame of this or an earlier file does not decode (or memory ran out).
CancelHasCause ==
  (errorFlag \/ \E s \in Slots : slots[s].error # "OK") => Faults \/
    \E f \in Files : f <= fi /\ \E b \in 1 .. Count(f) : archive[f][b] = "bad"

\* Does file f hand a frame that does not decode to the pool?
RaisesError(f) ==
  /\ Count(f) > 1
  /\ \E b \in 1 .. Count(f) :
       /\ archive[f][b] = "bad"
       /\ \A c \in 1 .. b - 1 : archive[f][c] \notin {"other", "badref"}

\* What decides the fate of a file when nothing but the archive is at fault:
\* its own frames and, as error_flag is never cleared, the errors of earlier
\* files that used the pool; the interleaving of the workers does not matter.
Decided(f) ==
  /\ Spec0!Recoverable(f)
  /\ \/ ~Pool \/ Count(f) <= 1
     \/ \A b \in 1 .. Count(f) : archive[f][b] = "ref"
     \/ \A g \in 1 .. f - 1 : ~RaisesError(g)

OutcomeDecided ==
  \A f \in Files : outcome[f] # "pending" =>
    (outcome[f] = "published" <=> Decided(f))

\* A file all of whose frames can be recovered is published.
SoundFilesPublished ==
  \A f \in Files : Spec0!Recoverable(f) => outcome[f] # "failed"

\* While a worker is at work on its slot nobody refills, frees or releases it.
SlotUndisturbed ==
  [][\A s \in Slots : worker[s] \in Busy =>
       /\ slots'[s].block = slots[s].block
       /\ slots'[s].status # "EMPTY"]_vars

\* Extraction ends, with every worker joined.
Termination == <>(mpc = "exit")

\* Extraction implements what zupt_extract promises file by file.
ImplementsExtraction == Spec0!SafeExtraction

-----------------------------------------------------------------------------
(* The inductive invariant.                                                *)

InFile == mpc \in {"fill", "submit", "collect", "take", "release", "ref",
                   "serial", "close"}

\* The block handed to pend[j] of the batch under way.
BlockAt(j) == blk - np + j - 1

\* Where the batch variables can be, given where the main thread is.
Control ==
  /\ ci \in 1 .. np + 1 /\ np < blk
  /\ mpc \notin {"collect", "take", "release"} => ci = 1 /\ ~flushing
  /\ mpc \notin {"fill", "submit", "collect", "take", "release"} => np = 0
  /\ mpc \in {"take", "release"} => ci <= np
  /\ mainAsleep => mpc = "submit" \/ (mpc = "collect" /\ ci <= np)
  /\ InFile => fi \in Files /\ blk <= Count(fi) + 1
  /\ mpc = "submit" => MayFill /\ Frame \in {"data", "bad"}
  /\ mpc = "ref" \/ flushing => blk <= Count(fi) /\ Frame \in {"ref", "badref"}
  /\ mpc = "ref" => ~berr
  /\ mpc = "close" /\ ~berr => blk = Count(fi) + 1
  /\ mpc \in {"join", "exit"} \/ ~shutdown

\* The slots in use are those of the pending part of the batch, each with its
\* own block; two pending slots differ because their blocks do.
Window ==
  /\ \A j \in ci .. np :
       /\ slots[pend[j]].status # "EMPTY"
       /\ slots[pend[j]].block = BlockAt(j)
       /\ IF slots[pend[j]].sound THEN archive[fi][BlockAt(j)] = "data"
          ELSE archive[fi][BlockAt(j)] = "bad" \/ Faults
       /\ pend[j] = SlotOf(SeqOf(fi, BlockAt(j)))
  /\ \A s \in Slots : slots[s].status # "EMPTY" => \E j \in ci .. np : pend[j] = s
  /\ mpc \in {"take", "release"} => slots[pend[ci]].status = "DONE"

\* How many blocks are written: all that were read but are not pending.
Done == blk - 1 - (IF mpc = "release" THEN np - ci ELSE np - ci + 1)

Progress ==
  InFile /\ ~berr =>
    /\ written = [b \in 1 .. Done |-> b]
    /\ \A b \in 1 .. Done : archive[fi][b] \in {"data", "ref"}

\* Does file f go through the pool?
Pooled(f) == Pool /\ Count(f) > 1

\* A file before this one left error_flag set.
Tainted == Pool /\ \E g \in 1 .. fi - 1 : RaisesError(g)

\* The files before this one are settled as decided, the others not at all.
Settled ==
  \A f \in Files :
    IF f < fi THEN outcome[f] = "published" <=> Decided(f) ELSE outcome[f] = "pending"

\* The way a file takes through zupt_extract, and what it has found on it.
Path ==
  /\ mpc \in {"fill", "submit", "collect", "take", "release", "ref"} => Pooled(fi)
  /\ mpc = "serial" => ~Pooled(fi)
  /\ mpc \in {"fill", "submit", "ref", "serial"} => ~berr
  /\ InFile => \A b \in 1 .. blk - 1 : archive[fi][b] \notin {"other", "badref"}

\* The error flag is raised before the result is DONE, and only by a frame that
\* is bad and is reached; once a file has raised it no block is decoded.
Flagged ==
  /\ \A s \in Slots :
       (worker[s] = "mark" \/ slots[s].status = "DONE") /\ slots[s].error # "OK" => errorFlag
  /\ errorFlag \/ (\E s \in Slots : slots[s].error # "OK") =>
       \E g \in Files : g <= fi /\ RaisesError(g)
  /\ Tainted =>
       /\ errorFlag
       /\ \A s \in Slots : /\ worker[s] \notin {"process", "raise", "mark"}
                           /\ slots[s].status = "DONE" => slots[s].error # "OK"

\* The file has failed only if it is to fail, and then the flag is up or the
\* frame it stopped at is at fault; what it has done without failing is what a
\* file after an error may do, resolve references.
Judged ==
  InFile =>
    /\ berr => ~Decided(fi)
    /\ berr /\ Pooled(fi) /\ ~errorFlag =>
         blk <= Count(fi) /\ Frame \in {"other", "badref"}
    /\ \A b \in 1 .. Done : archive[fi][b] = "bad" => errorFlag
    /\ Tainted /\ Pooled(fi) /\ ~berr => \A b \in 1 .. Done : archive[fi][b] = "ref"

\* Why the fate of a file is the archive's doing alone.
Fate == Settled /\ Path /\ Flagged /\ Judged

\* What zupt_extract relies on at every moment: the slots in use are exactly
\* the uncollected part of the batch, each bound to its own block; a finished
\* slot holds the result of that block; what is written is every block read
\* and collected so far; and, as long as nothing else fails, each file is on
\* its way to the end its frames have decided.
IInv ==
  /\ TypeOK /\ Control /\ Window /\ Results /\ Progress /\ CancelHasCause
  /\ ~Faults => Fate
=============================================================================
