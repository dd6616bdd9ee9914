----------------------------- MODULE DiskRestore -----------------------------
(***************************************************************************)
(* zupt_disk_restore: it copies the archive to a private snapshot, opens   *)
(* and tests that, opens the target once and decides by what it has opened *)
(* there, and writes the image: to a device in place, to a file by way of  *)
(* zupt_atomic_output.  Meanwhile others may overwrite, damage or truncate *)
(* the archive and exchange what the name of the target refers to.         *)
(***************************************************************************)
EXTENDS DiskArchive

CONSTANTS
  OtherImage,  \* the image of the archive that overwrites this one
  Old,         \* what is in a block of a target to begin with
  Torn         \* what is in a block that was written in part

ASSUME RestoreAssumption ==
  /\ OtherImage \in Images
  /\ Old \notin Contents /\ Torn \notin Contents /\ Old # Torn

VARIABLES
  file,      \* the archive on disk
  length,    \* how many of its pieces are there
  over,      \* how many of them the other archive has overwritten
  snapshot,  \* the private copy
  copied,    \* the number of pieces copied
  rpc,       \* where the restore is
  path,      \* what the name of the target refers to
  found,     \* what the restore found when it opened the target
  opened,    \* what it writes to
  data,      \* what is in the targets
  restored,  \* block_seq: the number of blocks written
  rerr,      \* why the restore failed: "none", "io" or "decode"
  rresult    \* what zupt_disk_restore has reported

fileVars == <<file, length, over>>
snapshotVars == <<snapshot, copied>>
targetVars == <<path, found, opened, data>>
restoreVars == <<fileVars, snapshotVars, rpc, targetVars, restored, rerr, rresult>>

\* The pieces of an archive in their order: the header, the frames of the
\* blocks, and index, footer and trailer.
Last == NBlocks + 1
Pieces == 0 .. Last

WithPiece(a, k, from) ==
  IF k = 0 THEN [a EXCEPT !.id = from.id, !.flags = from.flags]
  ELSE IF k = Last THEN [a EXCEPT !.tail = from.tail, !.image = from.image]
  ELSE [a EXCEPT !.frames[k] = from.frames[k]]

Blank ==
  [id |-> "A", flags |-> WriterFlags(FALSE, FALSE),
   frames |-> [p \in Blocks |-> BadFrame(Zero)], tail |-> "bad",
   image |-> [p \in Blocks |-> Zero]]

\* The objects the name of the target refers to, one after the other, and the
\* file that the restore makes.
Targets == {"t1", "t2"}
New == "new"
Untouched == [p \in Blocks |-> Old]

\* What open(O_NOFOLLOW) and fstat make of a target.
Kinds == {"absent", "file", "device", "symlink", "archive", "linked", "small",
          "unmeasured", "other", "denied"}

RestoreInit ==
  /\ over = 0
  /\ snapshot = Blank /\ copied = 0
  /\ rpc = "idle"
  /\ path \in {"t1", "none"}
  /\ found = "none" /\ opened = "none"
  /\ data = [o \in Targets \cup {New} |-> Untouched]
  /\ restored = 0
  /\ rerr = "none" /\ rresult = "pending"

Fails(why) ==
  /\ rpc' = "done" /\ rresult' = "failed" /\ rerr' = why
  /\ UNCHANGED <<fileVars, snapshotVars, targetVars, restored>>

-----------------------------------------------------------------------------
(* The snapshot.                                                           *)

\* The archive is opened, measured and identified.
RestoreBegins ==
  /\ rpc = "idle" /\ length = NBlocks + 2
  /\ rpc' = "copy"
  /\ UNCHANGED <<fileVars, snapshotVars, targetVars, restored, rerr, rresult>>

CopyPiece ==
  /\ rpc = "copy" /\ copied < length
  /\ snapshot' = WithPiece(snapshot, copied, file)
  /\ copied' = copied + 1
  /\ rpc' = IF copied = Last THEN "open" ELSE "copy"
  /\ UNCHANGED <<fileVars, targetVars, restored, rerr, rresult>>

\* The archive has become shorter than it was measured, or reading or writing
\* fails.
CopyFails ==
  /\ rpc = "copy" /\ (copied >= length \/ Faults)
  /\ Fails("io")

\* Mutant: the archive itself is read, the snapshot is not used.
StreamShared == file

\* What everything from here on reads.
Stream == snapshot

OpenSnapshot ==
  /\ rpc = "open" /\ OpensArchive(Stream)
  /\ rpc' = "preflight"
  /\ UNCHANGED <<fileVars, snapshotVars, targetVars, restored, rerr, rresult>>

OpenSnapshotFails ==
  /\ rpc = "open" /\ (~OpensArchive(Stream) \/ Faults)
  /\ Fails("io")

\* The whole archive is tested before any target is opened.
Preflight ==
  /\ rpc = "preflight" /\ Tested(Stream)
  /\ rpc' = "target"
  /\ UNCHANGED <<fileVars, snapshotVars, targetVars, restored, rerr, rresult>>

PreflightFails ==
  /\ rpc = "preflight" /\ (~Tested(Stream) \/ Faults)
  /\ Fails("io")

-----------------------------------------------------------------------------
(* The target.                                                             *)

\* A device is written to through the descriptor that was classified; for a
\* file, or where there is none, a new one is made next to it.  Everything
\* else is refused: links, the archive itself, a device that is too small or
\* cannot be measured.
OpenTarget ==
  /\ rpc = "target"
  /\ found' \in IF path = "none" THEN {"absent"} ELSE Kinds \ {"absent"}
  /\ \/ /\ found' = "device" /\ opened' = path
        /\ rpc' = "map" /\ UNCHANGED <<rerr, rresult>>
     \/ /\ found' \in {"absent", "file"} /\ opened' = New
        /\ rpc' = "map" /\ UNCHANGED <<rerr, rresult>>
     \/ /\ found' \notin {"device", "absent", "file"} \/ Faults
        /\ rpc' = "done" /\ rresult' = "failed" /\ rerr' = "io"
        /\ UNCHANGED opened
  /\ UNCHANGED <<fileVars, snapshotVars, path, data, restored>>

\* zupt_legacy_disk_aad_map_build, for archives that need it.
BuildMap ==
  /\ rpc = "map" /\ MapBuilt(Stream)
  /\ rpc' = "blocks"
  /\ UNCHANGED <<fileVars, snapshotVars, targetVars, restored, rerr, rresult>>

BuildMapFails ==
  /\ rpc = "map"
  /\ \/ ~MapBuilt(Stream) /\ Fails("decode")
     \/ Faults /\ LegacyDedup(Stream) /\ Fails("io")

-----------------------------------------------------------------------------
(* The blocks.                                                             *)

ThisBlock == restored + 1

\* The loop of zupt_disk_restore finds c in block p.
RestoreReads(a, p, c) ==
  LET f == a.frames[p]
      r == a.frames[f.at]
  IN  \/ f.kind = "data" /\ Opens(a, f, p - 1) /\ c = f.content
      \/ /\ f.kind = "ref" /\ RefOpens(a, f, p - 1)
         /\ f.at \in 1 .. p
         /\ r.kind = "data" /\ r.content = f.content
         /\ Opens(a, r, SourceSeq(a, f)) /\ c = r.content

\* Mutant: the target is resolved again for every write.
SinkByName == IF opened = New THEN New ELSE path

\* Where the blocks go.
Sink == opened

WriteBlock ==
  /\ rpc = "blocks" /\ ThisBlock \in Blocks
  /\ \E c \in Contents :
       /\ RestoreReads(Stream, ThisBlock, c)
       /\ data' = [data EXCEPT ![Sink][ThisBlock] = c]
  /\ restored' = ThisBlock
  /\ UNCHANGED <<fileVars, snapshotVars, rpc, path, found, opened, rerr, rresult>>

\* The write to the target falls short: the loop ends, with an error.
WriteFails ==
  /\ Faults
  /\ rpc = "blocks" /\ ThisBlock \in Blocks
  /\ \E c \in Contents : RestoreReads(Stream, ThisBlock, c)
  /\ data' \in {data, [data EXCEPT ![Sink][ThisBlock] = Torn]}
  /\ rerr' = "io"
  /\ rpc' = "finish"
  /\ UNCHANGED <<fileVars, snapshotVars, path, found, opened, restored, rresult>>

\* A block cannot be read, opened or decompressed: the loop ends.
ReadFails ==
  /\ rpc = "blocks" /\ ThisBlock \in Blocks
  /\ \/ (\A c \in Contents : ~RestoreReads(Stream, ThisBlock, c)) /\ rerr' = "decode"
     \/ Faults /\ rerr' = "io"
  /\ rpc' = "finish"
  /\ UNCHANGED <<fileVars, snapshotVars, targetVars, restored, rresult>>

\* All blocks are written: is it the image that the index is about?
HashFits == Stream.flags.hash => \A p \in Blocks : data[Sink][p] = Stream.image[p]

AllRestored ==
  /\ rpc = "blocks" /\ restored = NBlocks
  /\ rerr' \in (IF HashFits THEN {"none"} ELSE {"decode"}) \cup
               (IF Faults THEN {"io"} ELSE {})
  /\ rpc' = "finish"
  /\ UNCHANGED <<fileVars, snapshotVars, targetVars, restored, rresult>>

\* zupt_atomic_output_finish: the new file gets the name, if all went well,
\* and then its directory may fail to sync; or it is removed.
FinishFile ==
  /\ rpc = "finish" /\ opened = New
  /\ rpc' = "done"
  /\ \/ /\ rerr = "none" /\ path' = New /\ rresult' = "restored"
     \/ /\ rerr = "none" /\ Faults /\ path' = New /\ rresult' = "failed"
     \/ /\ rerr # "none" \/ Faults
        /\ rresult' = "failed" /\ UNCHANGED path
  /\ UNCHANGED <<fileVars, snapshotVars, found, opened, data, restored, rerr>>

\* Mutant: errors of the loop do not count.
FinishDeviceForgets ==
  /\ rpc = "finish" /\ opened # New
  /\ rpc' = "done" /\ rresult' = "restored"
  /\ UNCHANGED <<fileVars, snapshotVars, targetVars, restored, rerr>>

\* fsync and close of the device.
FinishDevice ==
  /\ rpc = "finish" /\ opened # New
  /\ rpc' = "done"
  /\ \/ rerr = "none" /\ rresult' = "restored"
     \/ (rerr # "none" \/ Faults) /\ rresult' = "failed"
  /\ UNCHANGED <<fileVars, snapshotVars, targetVars, restored, rerr>>

-----------------------------------------------------------------------------
(* What others do, to an archive that is there.                            *)

Other == Encoded(OtherImage, "B", file.flags)

\* Piece by piece, another archive is written over this one.
Overwrite ==
  /\ rpc # "done" /\ length = NBlocks + 2 /\ over \in Pieces
  /\ file' = WithPiece(file, over, Other)
  /\ over' = over + 1
  /\ UNCHANGED <<length, snapshotVars, rpc, targetVars, restored, rerr, rresult>>

\* A frame is damaged, or index, footer or trailer are.
Damage ==
  /\ rpc # "done" /\ length = NBlocks + 2 /\ over = 0
  /\ \/ \E p \in Blocks : file' = [file EXCEPT !.frames[p] = BadFrame(Zero)]
     \/ file' = [file EXCEPT !.tail = "bad"]
  /\ over' = Last + 1
  /\ UNCHANGED <<length, snapshotVars, rpc, targetVars, restored, rerr, rresult>>

Truncate ==
  /\ rpc = "copy" /\ length = NBlocks + 2 /\ over = 0
  /\ length' \in Pieces
  /\ UNCHANGED <<file, over, snapshotVars, rpc, targetVars, restored, rerr, rresult>>

\* The name of the target comes to refer to something else, or to nothing.
Exchange ==
  /\ rpc # "done" /\ path = "t1"
  /\ path' \in {"t2", "none"}
  /\ UNCHANGED <<fileVars, snapshotVars, rpc, found, opened, data, restored, rerr, rresult>>

-----------------------------------------------------------------------------
(* The inductive invariant, and the properties.                            *)

RestoreTypeOK ==
  /\ file \in Archives /\ length \in 0 .. NBlocks + 2 /\ over \in 0 .. Last + 1
  /\ snapshot \in Archives /\ copied \in 0 .. Last + 1
  /\ rpc \in {"idle", "copy", "open", "preflight", "target", "map", "blocks",
              "finish", "done"}
  /\ path \in Targets \cup {"none", New}
  /\ found \in Kinds \cup {"none"}
  /\ opened \in Targets \cup {"none", New}
  /\ data \in [Targets \cup {New} -> [Blocks -> Contents \cup {Old, Torn}]]
  /\ restored \in 0 .. NBlocks
  /\ rerr \in {"none", "io", "decode"}
  /\ rresult \in {"pending", "restored", "failed"}

\* From the test on, the snapshot is one that has passed it.
TestedFirst ==
  rpc \in {"target", "map", "blocks", "finish"} \/ opened # "none" => Tested(snapshot)

\* The snapshot is whole before anything is opened.
Copied ==
  /\ rpc = "idle" => copied = 0
  /\ rpc = "copy" => copied <= Last
  /\ rpc \notin {"idle", "copy", "done"} \/ opened # "none" => copied = Last + 1

\* What is opened is a device that was found to be one, or the new file.
OpenedIsFound ==
  /\ rpc \in {"idle", "copy", "open", "preflight", "target"} => opened = "none"
  /\ rpc \in {"map", "blocks", "finish"} => opened # "none"
  /\ opened \in Targets => found = "device"

\* Of the blocks of what is opened, those that count are what the snapshot
\* holds, and one more may be torn; nothing else is touched.
BlocksInOrder ==
  /\ \A o \in Targets \cup {New} : o # opened => data[o] = Untouched
  /\ opened = "none" => restored = 0
  /\ opened # "none" => \A p \in Blocks :
       \/ p <= restored /\ RestoreReads(snapshot, p, data[opened][p])
       \/ p = restored + 1 /\ rerr = "io" /\ data[opened][p] = Torn
       \/ p > restored /\ data[opened][p] = Old

\* Everything is restored, and it is the image of the index.
Complete ==
  /\ rerr = "none" /\ opened # "none" /\ restored = NBlocks
  /\ snapshot.flags.hash => \A p \in Blocks : data[opened][p] = snapshot.image[p]

OutcomeTrue ==
  /\ rpc \notin {"finish", "done"} => rerr = "none" /\ rresult = "pending"
  /\ rpc = "finish" => rresult = "pending" /\ (rerr = "none" => Complete)
  /\ rresult = "restored" => Complete /\ (opened = New => path = New)
  /\ path = New => Complete /\ opened = New /\ rpc = "done"
  /\ rerr # "decode"

RestoreInv ==
  RestoreTypeOK /\ Copied /\ TestedFirst /\ OpenedIsFound /\ BlocksInOrder /\ OutcomeTrue

\* What the test before the first write has accepted is restored: a restore
\* that has come to write fails for want of I/O only, however the archive on
\* disk changes meanwhile.
PreflightDecides == rerr # "decode"

\* Nothing that was there is written to but the device that was opened and
\* found large enough; and that gets, block by block, the image that the whole
\* archive was found to hold before the first write.
OnlyDeviceWritten ==
  \A t \in Targets : data[t] # Untouched =>
    /\ t = opened /\ found = "device"
    /\ \E i \in Images :
         /\ TestedAs(snapshot, i)
         /\ \A p \in Blocks :
              \/ p <= restored /\ data[t][p] = i[p]
              \/ p = restored + 1 /\ rerr = "io" /\ data[t][p] = Torn
              \/ p > restored /\ data[t][p] = Old

\* A file that the restore gives the name of the target holds a whole image.
NameIsWhole == path = New => TestedAs(snapshot, data[New])
=============================================================================
