---------------------------- MODULE AtomicOutput ----------------------------
(***************************************************************************)
(* How zupt creates a file: zupt_safe_fopen_output (an extracted file) and *)
(* zupt_safe_fopen_archive (an archive, a restored image, a saved key)     *)
(* open a temporary file next to the output, zupt_finish_output gives it   *)
(* the final name or removes it.  Several processes may write the same     *)
(* final name at once, each may be killed between any two system calls,    *)
(* and the power may fail.                                                 *)
(*                                                                         *)
(* A file is named by the writer that creates it; Old is a file that was   *)
(* there before.  Temporary names carry 96 random bits and O_EXCL, so two  *)
(* writers never share one.  What a power failure leaves is a choice: of   *)
(* the entries the final name has had since the directory was last synced, *)
(* and of a file's content only what fsync has made durable.               *)
(***************************************************************************)
EXTENDS Naturals, FiniteSets

CONSTANTS
  Writers,  \* the processes that write the name
  Old,      \* the file found under the final name
  None,     \* no file
  Faults    \* may system calls fail?

ASSUME OutputAssumption ==
  /\ Old \notin Writers /\ None \notin Writers /\ Old # None
  /\ Faults \in BOOLEAN

VARIABLES
  replace,   \* does the writer replace an existing file? (an archive does)
  dirSync,   \* does the file system sync directories?
  pc,        \* where each writer is
  content,   \* what was given to the stream: "part" or "whole"
  noted,     \* the error indicator of the stream
  want,      \* publish
  failed,    \* failed
  cached,    \* what a reader of the file sees
  durable,   \* what is left of the file after a power failure
  temp,      \* does the temporary name exist?
  final,     \* the file under the final name
  onDisk,    \* the files a power failure may leave under the final name
  published  \* the writers that have taken the final name

streamVars == <<content, noted>>
fileVars == <<cached, durable>>
dirVars == <<temp, final, onDisk, published>>
given == <<replace, dirSync>>
vars == <<given, pc, want, failed, streamVars, fileVars, dirVars>>

Stages == {"idle", "write", "flush", "sync", "close", "publish", "unlink",
           "syncdir", "done", "killed"}

Init ==
  /\ replace \in [Writers -> BOOLEAN]
  /\ dirSync \in BOOLEAN
  /\ pc = [w \in Writers |-> "idle"]
  /\ content = [w \in Writers |-> "part"]
  /\ noted = [w \in Writers |-> FALSE]
  /\ want = [w \in Writers |-> FALSE]
  /\ failed = [w \in Writers |-> FALSE]
  /\ cached = [w \in Writers |-> "part"]
  /\ durable = [w \in Writers |-> "part"]
  /\ temp = [w \in Writers |-> FALSE]
  /\ final \in {None, Old}
  /\ onDisk = {final}
  /\ published = {}

Moves(w, from, to) == pc[w] = from /\ pc' = [pc EXCEPT ![w] = to]

\* The final name now refers to f; the directory is not synced.
Rebinds(f) == final' = f /\ onDisk' = onDisk \cup {f}

-----------------------------------------------------------------------------

Open(w) ==
  /\ Moves(w, "idle", "write")
  /\ temp' = [temp EXCEPT ![w] = TRUE]
  /\ UNCHANGED <<given, want, failed, streamVars, fileVars, final, onDisk, published>>

\* A bad path, no free temporary name, no memory for the stream: of the
\* temporary file nothing is left but where its removal fails as well.
OpenFails(w) ==
  /\ Faults
  /\ Moves(w, "idle", "done")
  /\ failed' = [failed EXCEPT ![w] = TRUE]
  /\ \E left \in BOOLEAN : temp' = [temp EXCEPT ![w] = left]
  /\ UNCHANGED <<given, want, streamVars, fileVars, final, onDisk, published>>

\* The caller has given all its data to the stream.
WriteAll(w) ==
  /\ pc[w] = "write" /\ content[w] = "part" /\ ~noted[w]
  /\ content' = [content EXCEPT ![w] = "whole"]
  /\ UNCHANGED <<given, pc, want, failed, noted, fileVars, dirVars>>

\* Something was not written, which the caller need not have noticed.
WriteShort(w) ==
  /\ Faults
  /\ pc[w] = "write" /\ ~noted[w]
  /\ noted' = [noted EXCEPT ![w] = TRUE]
  /\ UNCHANGED <<given, pc, want, failed, content, fileVars, dirVars>>

\* The caller ends: it publishes when it has written everything, as far as it
\* can tell, and discards when it has met an error of its own.
CallFinish(w) ==
  /\ Moves(w, "write", "flush")
  /\ \E p \in BOOLEAN :
       /\ p => content[w] = "whole" \/ noted[w]
       /\ want' = [want EXCEPT ![w] = p]
  /\ failed' = [failed EXCEPT ![w] = noted[w]]
  /\ UNCHANGED <<given, streamVars, fileVars, dirVars>>

-----------------------------------------------------------------------------
(* zupt_finish_output.                                                     *)

Flush(w) ==
  /\ Moves(w, "flush", "sync")
  /\ \/ /\ ~noted[w]
        /\ cached' = [cached EXCEPT ![w] = content[w]]
        /\ UNCHANGED failed
     \/ /\ Faults
        /\ failed' = [failed EXCEPT ![w] = TRUE]
        /\ UNCHANGED cached
  /\ UNCHANGED <<given, want, streamVars, durable, dirVars>>

\* Mutant: the file is not synced before it is published.
SyncNever(w) ==
  /\ Moves(w, "sync", "close")
  /\ UNCHANGED <<given, want, failed, streamVars, fileVars, dirVars>>

\* fsync, for a file that is to be published.
Sync(w) ==
  /\ Moves(w, "sync", "close")
  /\ \/ /\ want[w] /\ ~failed[w]
        /\ durable' = [durable EXCEPT ![w] = cached[w]]
        /\ UNCHANGED failed
     \/ /\ Faults /\ want[w] /\ ~failed[w]
        /\ failed' = [failed EXCEPT ![w] = TRUE]
        /\ UNCHANGED durable
     \/ /\ ~want[w] \/ failed[w]
        /\ UNCHANGED <<failed, durable>>
  /\ UNCHANGED <<given, want, streamVars, cached, dirVars>>

\* Mutant: an error does not call the publication off.
CloseStubborn(w) ==
  /\ Moves(w, "close", "publish")
  /\ UNCHANGED <<given, failed, want, streamVars, fileVars, dirVars>>

\* fclose; any error so far calls the publication off.
Close(w) ==
  /\ Moves(w, "close", "publish")
  /\ \E e \in {failed[w], Faults \/ failed[w]} :
       /\ failed' = [failed EXCEPT ![w] = e]
       /\ want' = [want EXCEPT ![w] = @ /\ ~e]
  /\ UNCHANGED <<given, streamVars, fileVars, dirVars>>

Discard(w) ==
  /\ ~want[w]
  /\ Moves(w, "publish", "unlink")
  /\ UNCHANGED <<given, want, failed, streamVars, fileVars, dirVars>>

\* renameat: the temporary name becomes the final one.
Rename(w) ==
  /\ want[w] /\ replace[w]
  /\ Moves(w, "publish", "unlink")
  /\ temp' = [temp EXCEPT ![w] = FALSE]
  /\ Rebinds(w)
  /\ published' = published \cup {w}
  /\ UNCHANGED <<given, want, failed, streamVars, fileVars>>

\* linkat: the final name becomes a second name, if it is free.
Link(w) ==
  /\ want[w] /\ ~replace[w] /\ final = None
  /\ Moves(w, "publish", "unlink")
  /\ Rebinds(w)
  /\ published' = published \cup {w}
  /\ UNCHANGED <<given, want, failed, streamVars, fileVars, temp>>

\* Mutant: that the name could not be taken is not reported.
PublishUnnoticed(w) ==
  /\ want[w]
  /\ Faults \/ (~replace[w] /\ final # None)
  /\ Moves(w, "publish", "unlink")
  /\ UNCHANGED <<given, want, failed, streamVars, fileVars, dirVars>>

\* The name is taken, or the call fails.
PublishFails(w) ==
  /\ want[w]
  /\ Faults \/ (~replace[w] /\ final # None)
  /\ Moves(w, "publish", "unlink")
  /\ failed' = [failed EXCEPT ![w] = TRUE]
  /\ UNCHANGED <<given, want, streamVars, fileVars, dirVars>>

\* Mutant: the temporary name is only removed when nothing was published.
UnlinkDiscarded(w) ==
  /\ Moves(w, "unlink", "syncdir")
  /\ temp' = [temp EXCEPT ![w] = want[w] /\ @]
  /\ UNCHANGED <<given, want, failed, streamVars, fileVars, final, onDisk, published>>

\* unlinkat; that a rename has already taken the name is not an error.
Unlink(w) ==
  /\ Moves(w, "unlink", "syncdir")
  /\ \/ /\ temp' = [temp EXCEPT ![w] = FALSE]
        /\ UNCHANGED failed
     \/ /\ Faults /\ temp[w]
        /\ failed' = [failed EXCEPT ![w] = TRUE]
        /\ UNCHANGED temp
  /\ UNCHANGED <<given, want, streamVars, fileVars, final, onDisk, published>>

\* fsync of the directory, if one of its names has changed; that it fails, or
\* that the file system has no such thing, is ignored.
SyncDir(w) ==
  /\ Moves(w, "syncdir", "done")
  /\ \/ /\ w \in published \/ ~temp[w]
        /\ onDisk' = {final}
     \/ /\ ~dirSync \/ (w \notin published /\ temp[w])
        /\ UNCHANGED onDisk
  /\ UNCHANGED <<given, want, failed, streamVars, fileVars, temp, final, published>>

-----------------------------------------------------------------------------

\* The process of a writer is killed.
Kill(w) ==
  /\ pc[w] \notin {"idle", "done", "killed"}
  /\ pc' = [pc EXCEPT ![w] = "killed"]
  /\ UNCHANGED <<given, want, failed, streamVars, fileVars, dirVars>>

\* Every process ends, and what is on disk is what there is.  Any temporary
\* name of a file that was begun may be left.
PowerFailure ==
  /\ \E w \in Writers : pc[w] \notin {"idle", "killed"}
  /\ pc' = [w \in Writers |-> "killed"]
  /\ cached' = durable
  /\ \E f \in onDisk : final' = f /\ onDisk' = {f}
  /\ temp' \in {left \in [Writers -> BOOLEAN] : \A w \in Writers : left[w] => pc[w] # "idle"}
  /\ UNCHANGED <<given, want, failed, streamVars, durable, published>>

FinishStep(w) ==
  \/ Flush(w) \/ Sync(w) \/ Close(w) \/ Discard(w) \/ Rename(w) \/ Link(w)
  \/ PublishFails(w) \/ Unlink(w) \/ SyncDir(w)

WriterStep(w) ==
  \/ Open(w) \/ OpenFails(w) \/ WriteAll(w) \/ WriteShort(w) \/ CallFinish(w)
  \/ FinishStep(w) \/ Kill(w)

Next == (\E w \in Writers : WriterStep(w)) \/ PowerFailure

Spec == Init /\ [][Next]_vars

-----------------------------------------------------------------------------
(* Properties.                                                             *)

Content == {"part", "whole"}

\* Every variable keeps its type.
TypeOK ==
  /\ replace \in [Writers -> BOOLEAN]
  /\ dirSync \in BOOLEAN
  /\ pc \in [Writers -> Stages]
  /\ content \in [Writers -> Content]
  /\ noted \in [Writers -> BOOLEAN]
  /\ want \in [Writers -> BOOLEAN]
  /\ failed \in [Writers -> BOOLEAN]
  /\ cached \in [Writers -> Content]
  /\ durable \in [Writers -> Content]
  /\ temp \in [Writers -> BOOLEAN]
  /\ final \in Writers \cup {Old, None}
  /\ onDisk \in SUBSET (Writers \cup {Old, None}) /\ final \in onDisk
  /\ published \in SUBSET Writers

\* Whoever opens the final name, now or after a power failure at any moment,
\* finds an old file or all of a new one (the order of zupt_finish_output:
\* flush, fsync, close, then publish).
FinalIsWhole ==
  /\ final \in Writers => cached[final] = "whole"
  /\ \A f \in onDisk : f \in Writers => durable[f] = "whole"

\* An extracted file never takes the place of another (linkat, replace = 0):
\* of several extractions to one name at most one publishes, none does where a
\* file was before, and as long as only extractions publish an old file stays.
NothingOverwritten ==
  /\ \A v, w \in published : v # w => replace[v] \/ replace[w]
  /\ final \in Writers /\ ~replace[final] => Old \notin onDisk
  /\ (\A w \in published : ~replace[w]) /\ Old \in onDisk => final = Old

\* zupt_finish_output tells the truth when it reports success: the requested
\* file was published, or the discarded one never was.
SuccessIsTrue ==
  \A w \in Writers : pc[w] = "done" /\ ~failed[w] =>
    (w \in published <=> want[w])

\* Once a writer has reported that its file is published no power failure brings
\* back the old one ("Attempt it for crash durability"), where directories can
\* be synced.
SuccessIsDurable ==
  dirSync => \A w \in published : pc[w] = "done" => onDisk \subseteq published

\* A temporary file stays behind only where a process was killed or a call
\* failed.
LitterHasCause ==
  \A w \in Writers : temp[w] =>
    pc[w] \notin {"idle", "done"} \/ failed[w]

-----------------------------------------------------------------------------
(* The inductive invariant.                                                *)

\* The stages after the call, after the flush and after the sync.
AfterWrite == {"flush", "sync", "close", "publish", "unlink", "syncdir", "done"}
AfterFlush == AfterWrite \ {"flush"}
AfterSync == AfterFlush \ {"sync"}
AfterClose == AfterSync \ {"close"}
Opened == Stages \ {"idle", "killed"}

\* What is known of a writer on its way to the publication.
Underway ==
  \A w \in Writers :
    /\ pc[w] \in AfterWrite /\ ~failed[w] => ~noted[w]
    /\ want[w] => content[w] = "whole" \/ noted[w]
    /\ pc[w] \in AfterFlush /\ ~failed[w] => cached[w] = content[w]
    /\ pc[w] \in AfterSync /\ want[w] /\ ~failed[w] => durable[w] = cached[w]
    /\ pc[w] = "publish" /\ want[w] => ~failed[w]

\* A writer takes the final name at its one publication only, with all its
\* content on disk; after the first one the name belongs to some publisher,
\* until a power failure ends every writer.
Publications ==
  /\ \A w \in published :
       /\ pc[w] \in {"unlink", "syncdir", "done", "killed"}
       /\ durable[w] = "whole" /\ cached[w] = "whole"
  /\ onDisk \cap Writers \subseteq published
  /\ published = {} => onDisk = {final}
  /\ published # {} => final \in published \/ \A w \in Writers : pc[w] = "killed"
  /\ \A w \in Writers :
       pc[w] \in {"unlink", "syncdir", "done"} /\ ~failed[w] =>
         (w \in published <=> want[w])

Temporaries ==
  \A w \in Writers : temp[w] =>
    pc[w] \in (Opened \ {"syncdir", "done"}) \cup {"killed"} \/ failed[w]

IInv ==
  /\ TypeOK /\ Underway /\ Publications /\ Temporaries
  /\ NothingOverwritten /\ SuccessIsDurable
=============================================================================
