------------------------------ MODULE DiskImage ------------------------------
(***************************************************************************)
(* zupt disk backup followed by zupt disk restore: what comes back from an *)
(* archive that was made while the source was in use, and that is restored *)
(* while others work on the archive and the target.  An archive of 5.2.1   *)
(* may be restored as well.                                                *)
(***************************************************************************)
EXTENDS DiskBackup, DiskRestore

vars == <<backupVars, restoreVars>>

\* An archive of 5.2.1, which references to earlier frames when it was made
\* with --dedup.
LegacyArchive ==
  \E i \in Images, e, d \in BOOLEAN :
    /\ image = i /\ file = Encoded(i, "A", LegacyFlags(e, d))
    /\ length = NBlocks + 2

Init ==
  /\ RestoreInit
  /\ \/ BackupInit /\ file = Blank /\ length = 0
     \/ /\ LegacyArchive
        /\ source = image /\ size = NBlocks /\ edits = 0
        /\ bpc = "done" /\ flags = file.flags /\ blocks = NBlocks
        /\ table = [c \in Contents |-> Absent]
        /\ frames = file.frames /\ stored = {}
        /\ writeErr = FALSE /\ streamErr = FALSE
        /\ published = FALSE

\* The archive that has been published is what a restore finds.
Publish ==
  /\ BackupPublishes
  /\ file' = Written /\ length' = NBlocks + 2
  /\ UNCHANGED <<over, snapshotVars, rpc, targetVars, restored, rerr, rresult>>

Backup ==
  /\ \/ RefBlock \/ RefFails \/ DataBlock \/ DataTorn \/ ReadShort \/ GivesUp
     \/ AllRead \/ BackupDiscards \/ SourceEdited
  /\ UNCHANGED restoreVars

Restore ==
  /\ \/ RestoreBegins \/ CopyPiece \/ CopyFails
     \/ OpenSnapshot \/ OpenSnapshotFails \/ Preflight \/ PreflightFails
     \/ OpenTarget \/ BuildMap \/ BuildMapFails
     \/ WriteBlock \/ WriteFails \/ ReadFails \/ AllRestored
     \/ FinishFile \/ FinishDevice
     \/ Overwrite \/ Damage \/ Truncate \/ Exchange
  /\ UNCHANGED backupVars

Next == Publish \/ Backup \/ Restore

Spec == Init /\ [][Next]_vars

\* The image of every piece is that of one of the two archives.
ImagesKnown ==
  /\ length # 0 \/ rpc # "idle" => bpc = "done" /\ file.image \in {image, OtherImage}
  /\ copied = Last + 1 => snapshot.image \in {image, OtherImage}

IInv == BackupInv /\ RestoreInv /\ ImagesKnown

\* A restore that reports success has put an image in place that a backup has
\* read, and no mixture of two; archives of 5.2.1 have no content hash and are
\* restored with a warning instead.
RestoredIsBackedUp ==
  rresult = "restored" /\ snapshot.flags.hash =>
    /\ data[opened] \in {image, OtherImage}
    /\ opened = New => path = New
=============================================================================
