-------------------------------- MODULE ZPar --------------------------------
(***************************************************************************)
(* The worker pool of zupt_parallel.c: one slot per worker, one mutex, the *)
(* condition variables work_ready (main to workers) and work_done (workers *)
(* to main), and an atomic error_flag that cancels the blocks still queued *)
(* once a block has failed.                                                *)
(*                                                                         *)
(* A critical section that does not wait is one step; what the code does   *)
(* outside the mutex is a step of its own.  A wait set is kept in the      *)
(* program counters: a worker that is "asleep" is in the wait set of       *)
(* work_ready, and mainAsleep says that the main thread is in that of      *)
(* work_done.  POSIX allows a wait to return without a signal, so do the   *)
(* Spurious actions.  The module has no Next of its own: the drivers       *)
(* CompressMT and ExtractMT compose these steps with the main thread.      *)
(***************************************************************************)
EXTENDS Integers

CONSTANTS
  Threads,         \* what the caller asks zpar_create for, and its batch size
  MaxThreads,      \* ZUPT_MAX_THREADS
  StartedChoices,  \* how many of the zthread_create calls may succeed
  SeqStride        \* 2^32: the block_seq distance between two files

\* ctx->nslots: the request clamped.
NSlots == IF Threads < MaxThreads THEN Threads ELSE MaxThreads

ASSUME PoolAssumption ==
  /\ Threads \in Nat \ {0}
  /\ MaxThreads \in Nat \ {0}
  /\ SeqStride \in Nat
  /\ StartedChoices \subseteq 0 .. NSlots

VARIABLES
  started,    \* ctx->threads_running
  slots,      \* ctx->slots
  worker,     \* where each worker thread is
  errorFlag,  \* ctx->error_flag # 0
  shutdown,   \* ctx->shutdown
  mainAsleep  \* the main thread waits on ctx->work_done

poolVars == <<started, slots, worker, errorFlag, shutdown, mainAsleep>>

Slots == 0 .. NSlots - 1

\* The slot a block_seq is bound to, whichever slots are free.
SlotOf(seq) == seq % NSlots

NoBlock == 0

\* What a slot holds: block is the block it was filled with, sound says
\* whether processing that block succeeds, output is the processed block.
Slot == [status : {"EMPTY", "READY", "DONE"},
         block  : Nat,
         sound  : BOOLEAN,
         error  : {"OK", "FAILED", "CORRUPT"},
         output : Nat]

WorkerState == {"none", "lock", "asleep", "check", "cancel", "process",
                "raise", "mark", "exited"}

\* The states in which a worker works on its slot without the mutex.
Busy == {"check", "cancel", "process", "raise", "mark"}

PoolTypeOK ==
  /\ started \in 0 .. NSlots
  /\ slots \in [Slots -> Slot]
  /\ worker \in [Slots -> WorkerState]
  /\ errorFlag \in BOOLEAN
  /\ shutdown \in BOOLEAN
  /\ mainAsleep \in BOOLEAN

\* zpar_create: the launch loop stops at the first thread that cannot start.
PoolInit ==
  /\ started \in StartedChoices
  /\ slots = [s \in Slots |-> [status |-> "EMPTY", block |-> NoBlock,
                               sound |-> TRUE, error |-> "OK",
                               output |-> NoBlock]]
  /\ worker = [s \in Slots |-> IF s < started THEN "lock" ELSE "none"]
  /\ errorFlag = FALSE
  /\ shutdown = FALSE
  /\ mainAsleep = FALSE

-----------------------------------------------------------------------------
(* The worker thread of slot w.                                            *)

WorkersWoken ==
  [s \in Slots |-> IF worker[s] = "asleep" THEN "lock" ELSE worker[s]]

\* Lock; a READY slot is served even during shutdown.
WorkerEnter(w) ==
  /\ worker[w] = "lock"
  /\ worker' = [worker EXCEPT ![w] =
       IF slots[w].status = "READY" THEN "check"
       ELSE IF shutdown THEN "exited" ELSE "asleep"]
  /\ UNCHANGED <<started, slots, errorFlag, shutdown, mainAsleep>>

WorkerSpurious(w) ==
  /\ worker[w] = "asleep"
  /\ worker' = [worker EXCEPT ![w] = "lock"]
  /\ UNCHANGED <<started, slots, errorFlag, shutdown, mainAsleep>>

\* Unlocked: has another worker already failed?
WorkerCheck(w) ==
  /\ worker[w] = "check"
  /\ worker' = [worker EXCEPT ![w] = IF errorFlag THEN "cancel" ELSE "process"]
  /\ UNCHANGED <<started, slots, errorFlag, shutdown, mainAsleep>>

WorkerCancel(w) ==
  /\ worker[w] = "cancel"
  /\ slots' = [slots EXCEPT ![w].error = "CORRUPT", ![w].status = "DONE"]
  /\ worker' = [worker EXCEPT ![w] = "lock"]
  /\ mainAsleep' = FALSE
  /\ UNCHANGED <<started, errorFlag, shutdown>>

\* Unlocked: worker_compress or worker_decompress.
WorkerProcess(w) ==
  /\ worker[w] = "process"
  /\ IF slots[w].sound
     THEN /\ slots' = [slots EXCEPT ![w].error = "OK",
                                    ![w].output = slots[w].block]
          /\ worker' = [worker EXCEPT ![w] = "mark"]
     ELSE /\ slots' = [slots EXCEPT ![w].error = "FAILED",
                                    ![w].output = NoBlock]
          /\ worker' = [worker EXCEPT ![w] = "raise"]
  /\ UNCHANGED <<started, errorFlag, shutdown, mainAsleep>>

\* Unlocked: the failure is published before the slot is DONE.
WorkerRaise(w) ==
  /\ worker[w] = "raise"
  /\ errorFlag' = TRUE
  /\ worker' = [worker EXCEPT ![w] = "mark"]
  /\ UNCHANGED <<started, slots, shutdown, mainAsleep>>

\* Mutant: DONE is set without the broadcast on work_done.
WorkerMarkSilent(w) ==
  /\ worker[w] = "mark"
  /\ slots' = [slots EXCEPT ![w].status = "DONE"]
  /\ worker' = [worker EXCEPT ![w] = "lock"]
  /\ UNCHANGED <<started, errorFlag, shutdown, mainAsleep>>

WorkerMark(w) ==
  /\ worker[w] = "mark"
  /\ slots' = [slots EXCEPT ![w].status = "DONE"]
  /\ worker' = [worker EXCEPT ![w] = "lock"]
  /\ mainAsleep' = FALSE
  /\ UNCHANGED <<started, errorFlag, shutdown>>

\* What a worker does on its own account; a spurious wake-up is not its doing.
WorkerStep(w) ==
  \/ WorkerEnter(w) \/ WorkerCheck(w) \/ WorkerCancel(w)
  \/ WorkerProcess(w) \/ WorkerRaise(w) \/ WorkerMark(w)

-----------------------------------------------------------------------------
(* The calls of the main thread.  Each is the critical section of the call *)
(* and is enabled only while the main thread is awake.                     *)

MainSleeps ==
  /\ mainAsleep' = TRUE
  /\ UNCHANGED <<started, slots, worker, errorFlag, shutdown>>

MainSpurious ==
  /\ mainAsleep
  /\ mainAsleep' = FALSE
  /\ UNCHANGED <<started, slots, worker, errorFlag, shutdown>>

\* zpar_submit_*: the slot is not free, wait on work_done.
SubmitBlocks(s) ==
  /\ ~mainAsleep
  /\ slots[s].status # "EMPTY" /\ ~shutdown
  /\ MainSleeps

\* zpar_submit_*: fill the slot and wake the workers.
SubmitFills(s, b, isSound) ==
  /\ ~mainAsleep
  /\ slots[s].status = "EMPTY" /\ ~shutdown
  /\ slots' = [slots EXCEPT ![s] = [status |-> "READY", block |-> b,
                                    sound |-> isSound, error |-> "OK",
                                    output |-> NoBlock]]
  /\ worker' = WorkersWoken
  /\ UNCHANGED <<started, errorFlag, shutdown, mainAsleep>>

\* zpar_submit_*: the call gives up and returns -1 (the input buffer cannot
\* be enlarged); the slot keeps its state.
SubmitRefuses(s) ==
  /\ ~mainAsleep
  /\ slots[s].status = "EMPTY" /\ ~shutdown
  /\ UNCHANGED poolVars

\* zpar_wait_slot: the slot is not DONE, wait on work_done.
WaitBlocks(s) ==
  /\ ~mainAsleep
  /\ slots[s].status # "DONE" /\ ~shutdown
  /\ MainSleeps

\* Mutant: an if in place of the while: any wake-up is taken for the result.
WaitReturnsEarly(s) == ~mainAsleep /\ UNCHANGED poolVars

\* zpar_wait_slot returns.
WaitReturns(s) ==
  /\ ~mainAsleep
  /\ slots[s].status = "DONE" \/ shutdown
  /\ UNCHANGED poolVars

\* zpar_release_slot: the output is freed and a blocked submitter is woken.
ReleaseSlot(s) ==
  /\ ~mainAsleep
  /\ slots' = [slots EXCEPT ![s].status = "EMPTY", ![s].output = NoBlock]
  /\ UNCHANGED <<started, worker, errorFlag, shutdown, mainAsleep>>

\* Mutant: the flag is set without the broadcast on work_ready.
SignalShutdownSilent ==
  /\ shutdown' = TRUE
  /\ UNCHANGED <<started, slots, worker, errorFlag, mainAsleep>>

\* zpar_destroy, first half: tell the workers to stop.
SignalShutdown ==
  /\ shutdown' = TRUE
  /\ worker' = WorkersWoken
  /\ UNCHANGED <<started, slots, errorFlag, mainAsleep>>

\* zpar_destroy, second half: every running thread has been joined.
AllJoined == \A s \in Slots : s < started => worker[s] = "exited"

-----------------------------------------------------------------------------
\* The pool's part of the drivers' inductive invariants: a worker works on a
\* READY slot, and a finished slot without an error holds the result of the
\* block it was filled with.
Results ==
  \A s \in Slots :
    /\ worker[s] \in Busy => slots[s].status = "READY"
    /\ worker[s] = "raise" => slots[s].error # "OK"
    /\ worker[s] = "cancel" => errorFlag
    /\ /\ worker[s] = "mark" \/ slots[s].status = "DONE"
       /\ slots[s].error = "OK"
       => slots[s].sound /\ slots[s].output = slots[s].block
=============================================================================
