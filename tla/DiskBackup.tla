----------------------------- MODULE DiskBackup ------------------------------
(***************************************************************************)
(* zupt_disk_backup: one thread reads the source block by block, replaces  *)
(* a block that is already in the archive by a reference (--dedup), and    *)
(* publishes the archive under its name when nothing has gone wrong.  The  *)
(* source is a device or a file in use: it may be written to and resized   *)
(* while it is read.                                                       *)
(***************************************************************************)
EXTENDS DiskArchive

CONSTANTS
  Compressible,  \* the contents that the codec makes smaller
  MaxEdits       \* how often the source changes (a bound of the model)

ASSUME BackupAssumption ==
  Compressible \subseteq Contents /\ MaxEdits \in Nat

VARIABLES
  source,    \* the blocks of the source
  size,      \* its size, in blocks
  edits,     \* how often it has changed
  bpc,       \* where the backup is
  flags,     \* global_flags
  blocks,    \* block_seq: the number of blocks read
  image,     \* the blocks read, which content_hash has hashed
  table,     \* the dedup index: content -> block and sequence of the frame
  frames,    \* the frames in the temporary output
  stored,    \* the blocks whose frames hold the bytes of the block as they are
  writeErr,  \* write_err
  streamErr, \* the error indicator of the output stream
  published  \* does the archive have its name?

sourceVars == <<source, size, edits>>
archiveVars == <<image, table, frames, stored>>
readVars == <<sourceVars, bpc, flags, blocks, archiveVars, writeErr, streamErr>>
backupVars == <<readVars, published>>

Absent == [at |-> 0, seq |-> 0]

BackupInit ==
  /\ source \in Images /\ size = NBlocks /\ edits = 0
  /\ bpc = "read"
  /\ \E e, d \in BOOLEAN : flags = WriterFlags(e, d)
  /\ blocks = 0
  /\ image = [p \in Blocks |-> Zero]
  /\ table = [c \in Contents |-> Absent]
  /\ frames = [p \in Blocks |-> BadFrame(Zero)]
  /\ stored = {}
  /\ writeErr = FALSE /\ streamErr = FALSE
  /\ published = FALSE

-----------------------------------------------------------------------------
(* The loop over the blocks.                                               *)

\* The block to be read, and its logical_aad_seq.
This == blocks + 1
Content == source[This]

\* The source gives the block in full.
Readable == bpc = "read" /\ This \in Blocks /\ This <= size

\* Is the block a repetition?
Known == flags.dedup /\ table[Content] # Absent

\* The block has been read: content_hash and total_read.
CountBlock ==
  /\ blocks' = This
  /\ image' = [image EXCEPT ![This] = Content]

\* Mutant: a reference carries its own sequence as that of the frame.
RefBlockOwnSeq ==
  /\ Readable /\ Known /\ ~streamErr
  /\ CountBlock
  /\ frames' = [frames EXCEPT ![This] =
                  RefFrame("A", Content, blocks, table[Content].at, blocks)]
  /\ UNCHANGED <<sourceVars, bpc, flags, table, stored, writeErr, streamErr, published>>

\* A block that is in the archive is replaced by a reference.
RefBlock ==
  /\ Readable /\ Known /\ ~streamErr
  /\ CountBlock
  /\ frames' = [frames EXCEPT ![This] =
                  RefFrame("A", Content, blocks, table[Content].at, table[Content].seq)]
  /\ UNCHANGED <<sourceVars, bpc, flags, table, stored, writeErr, streamErr, published>>

\* The reference cannot be encrypted or written, or a write before it fell
\* short.
RefFails ==
  /\ Readable /\ Known
  /\ Faults \/ streamErr
  /\ writeErr' = TRUE
  /\ image' = [image EXCEPT ![This] = Content]
  /\ bpc' = "close"
  /\ UNCHANGED <<sourceVars, flags, blocks, table, frames, stored, streamErr, published>>

\* A frame enters the dedup index, unless its probe window is full.
Indexed ==
  \/ flags.dedup
     /\ table' = [table EXCEPT ![Content] = [at |-> This, seq |-> blocks]]
  \/ UNCHANGED table

\* A block is written as it is when it is zero, or when compressing it does
\* not help.
AsItIs == Content = Zero \/ Content \notin Compressible

DataBlock ==
  /\ Readable /\ ~Known
  /\ CountBlock
  /\ frames' = [frames EXCEPT ![This] = DataFrame("A", Content, blocks)]
  /\ stored' = IF AsItIs THEN stored \cup {This} ELSE stored
  /\ Indexed
  /\ UNCHANGED <<sourceVars, bpc, flags, writeErr, streamErr, published>>

\* A write falls short.  Only that of the payload is checked at once, and the
\* loop goes on in any case.
DataTorn ==
  /\ Faults
  /\ Readable /\ ~Known
  /\ CountBlock
  /\ frames' = [frames EXCEPT ![This] = BadFrame(Content)]
  /\ streamErr' = TRUE
  /\ writeErr' \in {writeErr, TRUE}
  /\ Indexed
  /\ UNCHANGED <<sourceVars, bpc, flags, stored, published>>

\* The source has become shorter, or cannot be read.
ReadShort ==
  /\ bpc = "read" /\ This \in Blocks
  /\ This > size \/ Faults
  /\ writeErr' = TRUE
  /\ bpc' = "close"
  /\ UNCHANGED <<sourceVars, flags, blocks, archiveVars, streamErr, published>>

\* No memory: the temporary output is removed at once.
GivesUp ==
  /\ Faults
  /\ bpc \in {"read", "close"}
  /\ bpc' = "done"
  /\ UNCHANGED <<sourceVars, flags, blocks, archiveVars, writeErr, streamErr, published>>

AllRead ==
  /\ bpc = "read" /\ blocks = NBlocks
  /\ bpc' = "close"
  /\ UNCHANGED <<sourceVars, flags, blocks, archiveVars, writeErr, streamErr, published>>

-----------------------------------------------------------------------------
(* The end: index, footer and trailer, the checks, and publication.        *)

\* The archive in the temporary output.
Written ==
  [id |-> "A", flags |-> flags, frames |-> frames, tail |-> "A", image |-> image]

\* Nothing is known to have gone wrong and the source has its size still.
MayPublish == ~writeErr /\ ~streamErr /\ blocks = NBlocks /\ size = NBlocks

\* The archive gets its name, even if a failure to sync the directory makes
\* the backup report one.
BackupPublishes ==
  /\ bpc = "close" /\ MayPublish
  /\ bpc' = "done"
  /\ published' = TRUE
  /\ UNCHANGED <<sourceVars, flags, blocks, archiveVars, writeErr, streamErr>>

\* Some check fails, or zupt_atomic_output_finish does.
BackupDiscards ==
  /\ bpc = "close" /\ (~MayPublish \/ Faults)
  /\ bpc' = "done"
  /\ UNCHANGED <<sourceVars, flags, blocks, archiveVars, writeErr, streamErr, published>>

-----------------------------------------------------------------------------
(* Others use the source.                                                  *)

SourceEdited ==
  /\ bpc \in {"read", "close"} /\ edits < MaxEdits
  /\ edits' = edits + 1
  /\ \/ /\ \E p \in Blocks, c \in Contents : source' = [source EXCEPT ![p] = c]
        /\ UNCHANGED size
     \/ /\ size' \in {NBlocks - 1, NBlocks, NBlocks + 1}
        /\ UNCHANGED source
  /\ UNCHANGED <<bpc, flags, blocks, archiveVars, writeErr, streamErr, published>>

-----------------------------------------------------------------------------
(* The inductive invariant, and the properties.                            *)

BackupTypeOK ==
  /\ source \in Images /\ size \in Nat /\ edits \in Nat
  /\ bpc \in {"read", "close", "done"}
  /\ flags \in Flags
  /\ blocks \in 0 .. NBlocks
  /\ image \in Images
  /\ table \in [Contents -> [at : 0 .. NBlocks, seq : Nat]]
  /\ frames \in [Blocks -> Frames]
  /\ stored \subseteq Blocks
  /\ writeErr \in BOOLEAN /\ streamErr \in BOOLEAN
  /\ published \in BOOLEAN

\* The frame of block p holds the block, or refers to an earlier one that does.
Holds(p) ==
  \/ frames[p] = DataFrame("A", image[p], p - 1)
  \/ \E q \in 1 .. p - 1 :
       /\ flags.dedup
       /\ frames[q] = DataFrame("A", image[p], q - 1)
       /\ frames[p] = RefFrame("A", image[p], p - 1, q, q - 1)

FramesTrue == \A p \in 1 .. blocks : Holds(p)

\* The dedup index leads to the frame that holds the block.
TableTrue ==
  \A c \in Contents : table[c] # Absent =>
    LET q == table[c].at
    IN  /\ q \in 1 .. blocks /\ table[c].seq = q - 1
        /\ frames[q] = DataFrame("A", c, q - 1)

\* What has been read is the source, as long as that has not changed.
SourceRead == edits = 0 => \A p \in 1 .. blocks : image[p] = source[p]

BackupInv ==
  /\ BackupTypeOK
  /\ SourceRead
  /\ flags.hash /\ ~streamErr => FramesTrue /\ TableTrue
  /\ flags.hash => flags.auth = (flags.encrypt /\ flags.dedup)
  /\ bpc # "done" => flags.hash
  /\ published => flags.hash /\ ~streamErr /\ blocks = NBlocks /\ bpc = "done"

\* An archive that is published reads back as the blocks that were read, by
\* the rules of zupt_test_archive_stream and whatever references it holds; and
\* as the source, if that has not changed meanwhile.
ArchiveReadsBack ==
  published =>
    /\ TestedAs(Written, image)
    /\ edits = 0 => image = source

\* "Zero regions are represented without storing their full contents."
ZeroRegionsShort == \A p \in stored : frames[p].content # Zero
=============================================================================
