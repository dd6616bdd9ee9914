--------------------------- MODULE DiskImageProofs ---------------------------
(***************************************************************************)
(* A disk image that comes back is one that a backup has read, whatever    *)
(* happens to the source, the archive and the target meanwhile: IInv is    *)
(* inductive for images of any size and any contents, and the properties   *)
(* follow from it.                                                         *)
(***************************************************************************)
EXTENDS DiskImage, TLAPS, WellFoundedInduction

(***************************************************************************)
(* The format.                                                             *)
(***************************************************************************)

\* A set of numbers has a least one.
LEMMA Least ==
  ASSUME NEW T \in SUBSET Nat, T # {}
  PROVE  \E x \in T : \A y \in T : ~(y < x)
<1>1. PICK x \in T : \A y \in T : <<y, x>> \notin OpToRel(<, Nat)
  BY NatLessThanWellFounded, WFMin
<1>2. \A y \in T : <<y, x>> \in Nat \X Nat
  OBVIOUS
<1>3. \A y \in T : y < x => <<y, x>> \in OpToRel(<, Nat)
  BY <1>2 DEF OpToRel
<1> QED BY <1>1, <1>3

\* The first block with the content of block p.
LEMMA FirstIsFirst ==
  ASSUME NEW i \in Images, NEW p \in Blocks
  PROVE  First(i, p) \in 1 .. p /\ i[First(i, p)] = i[p]
<1> DEFINE T == {q \in 1 .. p : i[q] = i[p]}
<1>1. p \in T /\ T \in SUBSET Nat
  BY ImageAssumption DEF Blocks
<1>2. PICK q \in T : \A r \in T : ~(r < q)
  BY <1>1, Least
<1>3. \A r \in 1 .. q - 1 : r \in 1 .. p /\ r < q
  BY <1>1, <1>2, ImageAssumption DEF Blocks
<1>4. q \in 1 .. p /\ i[q] = i[p] /\ \A r \in 1 .. q - 1 : i[r] # i[p]
  BY <1>2, <1>3
<1> QED BY <1>4 DEF First

\* What Encoded makes is an archive.
LEMMA EncodedType ==
  ASSUME NEW i \in Images, NEW id \in Ids, NEW fl \in Flags
  PROVE  Encoded(i, id, fl) \in Archives
<1> USE ImageAssumption DEF Blocks, Images, Frames
<1>1. ASSUME NEW p \in Blocks
      PROVE  /\ DataFrame(id, i[p], p - 1) \in Frames
             /\ RefFrame(id, i[p], p - 1, First(i, p), First(i, p) - 1) \in Frames
  <2>1. First(i, p) \in 1 .. p
    BY FirstIsFirst
  <2> QED BY <2>1 DEF DataFrame, RefFrame
<1> QED BY <1>1 DEF Encoded, Archives, Ids

\* Both readers find the same in a block.
LEMMA ReadersAgree ==
  ASSUME NEW a, NEW p, NEW c
  PROVE  RestoreReads(a, p, c) <=> TestReads(a, p, c)
BY DEF RestoreReads, TestReads, Opens, RefOpens

\* There is one thing at most to find in a block.
LEMMA ReadOnce ==
  ASSUME NEW a, NEW p, NEW c, NEW d, TestReads(a, p, c), TestReads(a, p, d)
  PROVE  c = d
BY DEF TestReads, Opens, RefOpens

\* An archive that passes the test holds one image.
LEMMA TestedHolds ==
  ASSUME NEW a, Tested(a)
  PROVE  \E i \in Images :
           /\ TestedAs(a, i)
           /\ \A p \in Blocks : \A c : RestoreReads(a, p, c) => c = i[p]
<1>1. PICK i \in Images : TestedAs(a, i)
  BY DEF Tested
<1>2. ASSUME NEW p \in Blocks, NEW c, RestoreReads(a, p, c) PROVE c = i[p]
  BY <1>1, <1>2, ReadersAgree, ReadOnce DEF TestedAs
<1> QED BY <1>1, <1>2

-----------------------------------------------------------------------------
(***************************************************************************)
(* The backup.                                                             *)
(***************************************************************************)

\* A block that is in the archive stays as it is.
LEMMA HoldsStays ==
  ASSUME flags' = flags, NEW p \in Nat \ {0},
         \A q \in 1 .. p : frames'[q] = frames[q] /\ image'[q] = image[q]
  PROVE  Holds(p) => Holds(p)'
<1>1. p \in 1 .. p /\ \A q \in 1 .. p - 1 : q \in 1 .. p
  OBVIOUS
<1> QED BY <1>1 DEF Holds

\* Type correctness of the backup.
LEMMA BackupTypeStep == BackupTypeOK /\ (Backup \/ Publish) => BackupTypeOK'
<1> SUFFICES ASSUME BackupTypeOK, Backup \/ Publish PROVE BackupTypeOK'
  OBVIOUS
<1> USE ImageAssumption, BackupAssumption DEF BackupTypeOK, Readable, CountBlock,
    Known, This, Content, sourceVars, archiveVars, restoreVars, Images, Absent
<1>a. blocks + 1 \in Nat /\ (blocks + 1 \in Blocks => blocks + 1 <= NBlocks)
  BY DEF Blocks
<1>b. ASSUME NEW c \in Contents, NEW s \in Nat, NEW q \in 0 .. NBlocks, NEW n \in Nat
      PROVE  DataFrame("A", c, s) \in Frames /\ RefFrame("A", c, s, q, n) \in Frames
             /\ BadFrame(c) \in Frames
  BY DEF DataFrame, RefFrame, BadFrame, Frames, Ids
<1>c. ASSUME Indexed, This \in Blocks, Content \in Contents
      PROVE  table' \in [Contents -> [at : 0 .. NBlocks, seq : Nat]]
  <2>1. [at |-> This, seq |-> blocks] \in [at : 0 .. NBlocks, seq : Nat]
    BY <1>c DEF Blocks
  <2> QED BY <1>c, <2>1 DEF Indexed
<1>1. CASE RefBlock
  BY <1>1, <1>a, <1>b DEF RefBlock
<1>2. CASE RefFails
  BY <1>2, <1>a, <1>b DEF RefFails
<1>3. CASE DataBlock
  BY <1>3, <1>a, <1>b, <1>c DEF DataBlock
<1>4. CASE DataTorn
  <2>1. source' \in Images /\ size' \in Nat /\ edits' \in Nat /\ bpc' = bpc
        /\ flags' = flags /\ stored' = stored /\ published' = published
    BY <1>4 DEF DataTorn
  <2>2. writeErr' \in BOOLEAN /\ streamErr' \in BOOLEAN
    BY <1>4 DEF DataTorn
  <2>3. table' \in [Contents -> [at : 0 .. NBlocks, seq : Nat]]
    BY <1>4, <1>c DEF DataTorn
  <2>4. blocks' \in 0 .. NBlocks /\ image' \in Images /\ frames' \in [Blocks -> Frames]
    BY <1>4, <1>a, <1>b DEF DataTorn
  <2> QED BY <2>1, <2>2, <2>3, <2>4
<1>5. CASE ReadShort
  BY <1>5 DEF ReadShort
<1>6. CASE GivesUp
  BY <1>6 DEF GivesUp
<1>7. CASE AllRead
  BY <1>7 DEF AllRead
<1>8. CASE BackupDiscards
  BY <1>8 DEF BackupDiscards
<1>9. CASE SourceEdited
  BY <1>9 DEF SourceEdited
<1>10. CASE Publish
  BY <1>10 DEF Publish, BackupPublishes
<1> QED BY <1>1, <1>2, <1>3, <1>4, <1>5, <1>6, <1>7, <1>8, <1>9, <1>10 DEF Backup

\* What has been read is the source.
LEMMA SourceReadStep == BackupTypeOK /\ SourceRead /\ (Backup \/ Publish) => SourceRead'
<1> SUFFICES ASSUME BackupTypeOK, SourceRead, Backup \/ Publish PROVE SourceRead'
  OBVIOUS
<1> USE ImageAssumption DEF BackupTypeOK, SourceRead, Readable, CountBlock, This,
    Content, sourceVars, archiveVars, Images
<1>a. \A p \in 1 .. blocks : p # blocks + 1
  OBVIOUS
<1>b. \A p \in 1 .. blocks + 1 : p \in 1 .. blocks \/ p = blocks + 1
  OBVIOUS
<1>1. CASE RefBlock
  BY <1>1, <1>a, <1>b DEF RefBlock
<1>2. CASE RefFails
  BY <1>2, <1>a, <1>b DEF RefFails
<1>3. CASE DataBlock
  BY <1>3, <1>a, <1>b DEF DataBlock
<1>4. CASE DataTorn
  <2>1. /\ edits' = edits /\ source' = source /\ blocks' = blocks + 1
        /\ image' = [image EXCEPT ![blocks + 1] = source[blocks + 1]]
    BY <1>4 DEF DataTorn
  <2>2. ASSUME NEW p \in 1 .. blocks + 1, edits = 0 PROVE image'[p] = source[p]
    <3>1. image \in [Blocks -> Contents] /\ blocks + 1 \in Blocks
      BY <1>4 DEF DataTorn
    <3> QED BY <2>1, <2>2, <3>1, <1>a, <1>b
  <2> QED BY <2>1, <2>2
<1>5. CASE ReadShort
  BY <1>5 DEF ReadShort
<1>6. CASE GivesUp
  BY <1>6 DEF GivesUp
<1>7. CASE AllRead
  BY <1>7 DEF AllRead
<1>8. CASE BackupDiscards
  BY <1>8 DEF BackupDiscards
<1>9. CASE SourceEdited
  BY <1>9 DEF SourceEdited
<1>10. CASE Publish
  BY <1>10 DEF Publish, BackupPublishes
<1> QED BY <1>1, <1>2, <1>3, <1>4, <1>5, <1>6, <1>7, <1>8, <1>9, <1>10 DEF Backup

\* A repeated block refers to the frame that holds it.
LEMMA RefBlockTrue ==
  BackupTypeOK /\ FramesTrue /\ TableTrue /\ RefBlock => FramesTrue' /\ TableTrue'
<1> SUFFICES ASSUME BackupTypeOK, FramesTrue, TableTrue, RefBlock
             PROVE  FramesTrue' /\ TableTrue'
  OBVIOUS
<1> USE ImageAssumption DEF This
<1> DEFINE q == table[Content].at
<1>1. /\ This \in Blocks /\ blocks \in 0 .. NBlocks /\ blocks' = blocks + 1
      /\ flags' = flags /\ table' = table /\ flags.dedup /\ table[Content] # Absent
      /\ Content \in Contents
  BY DEF RefBlock, Readable, Known, CountBlock, BackupTypeOK, Images, Content
<1>2. /\ q \in 1 .. blocks /\ table[Content].seq = q - 1
      /\ frames[q] = DataFrame("A", Content, q - 1)
  BY <1>1 DEF TableTrue
<1>3. \A r \in 1 .. blocks : frames'[r] = frames[r] /\ image'[r] = image[r]
  <2>1. \A r \in 1 .. blocks : r \in Blocks /\ r # blocks + 1
    BY <1>1 DEF Blocks
  <2> QED BY <2>1 DEF RefBlock, CountBlock, BackupTypeOK, Images
<1>4. /\ frames'[blocks + 1] = RefFrame("A", Content, blocks, q, q - 1)
      /\ image'[blocks + 1] = Content
  BY <1>1, <1>2 DEF RefBlock, CountBlock, BackupTypeOK, Images
<1>5. ASSUME NEW p, p = blocks + 1 PROVE Holds(p)'
  <2>1. q \in 1 .. p - 1 /\ p - 1 = blocks
    BY <1>1, <1>2, <1>5
  <2>2. frames'[q] = DataFrame("A", image'[p], q - 1)
    BY <1>2, <1>3, <1>4, <1>5
  <2>3. frames'[p] = RefFrame("A", image'[p], p - 1, q, q - 1)
    BY <1>4, <1>5, <2>1
  <2> QED BY <1>1, <2>1, <2>2, <2>3 DEF Holds
<1>6. \A p \in 1 .. blocks : Holds(p)'
  <2> TAKE p \in 1 .. blocks
  <2>1. p \in Nat \ {0} /\ \A r \in 1 .. p : r \in 1 .. blocks
    BY <1>1
  <2> QED BY <1>1, <1>3, <2>1, HoldsStays DEF FramesTrue
<1>7. \A p \in 1 .. blocks' : p \in 1 .. blocks \/ p = blocks + 1
  BY <1>1
<1>8. TableTrue'
  <2>1. \A r \in 1 .. blocks : r \in 1 .. blocks'
    BY <1>1
  <2> QED BY <1>1, <1>3, <2>1 DEF TableTrue, Absent
<1>9. FramesTrue'
  BY <1>5, <1>6, <1>7 DEF FramesTrue
<1> QED BY <1>8, <1>9

\* A new block is in its own frame, and the dedup index knows where.
LEMMA DataBlockTrue ==
  BackupTypeOK /\ FramesTrue /\ TableTrue /\ DataBlock => FramesTrue' /\ TableTrue'
<1> SUFFICES ASSUME BackupTypeOK, FramesTrue, TableTrue, DataBlock
             PROVE  FramesTrue' /\ TableTrue'
  OBVIOUS
<1> USE ImageAssumption DEF This
<1>1. /\ This \in Blocks /\ blocks \in 0 .. NBlocks /\ blocks' = blocks + 1
      /\ flags' = flags /\ Content \in Contents
  BY DEF DataBlock, Readable, CountBlock, BackupTypeOK, Images, Content
<1>2. \A r \in 1 .. blocks : frames'[r] = frames[r] /\ image'[r] = image[r]
  <2>1. \A r \in 1 .. blocks : r \in Blocks /\ r # blocks + 1
    BY <1>1 DEF Blocks
  <2> QED BY <2>1 DEF DataBlock, CountBlock, BackupTypeOK, Images
<1>3. /\ frames'[blocks + 1] = DataFrame("A", Content, blocks)
      /\ image'[blocks + 1] = Content /\ (blocks + 1) - 1 = blocks
  BY <1>1 DEF DataBlock, CountBlock, BackupTypeOK, Images
<1>4. ASSUME NEW p, p = blocks + 1 PROVE Holds(p)'
  BY <1>1, <1>3, <1>4 DEF Holds
<1>5. \A p \in 1 .. blocks : Holds(p)'
  <2> TAKE p \in 1 .. blocks
  <2>1. p \in Nat \ {0} /\ \A r \in 1 .. p : r \in 1 .. blocks
    BY <1>1
  <2> QED BY <1>1, <1>2, <2>1, HoldsStays DEF FramesTrue
<1>6. \A p \in 1 .. blocks' : p \in 1 .. blocks \/ p = blocks + 1
  BY <1>1
<1>7. ASSUME NEW c \in Contents, table'[c] # Absent
      PROVE  /\ table'[c].at \in 1 .. blocks' /\ table'[c].seq = table'[c].at - 1
             /\ frames'[table'[c].at] = DataFrame("A", c, table'[c].at - 1)
  <2>1. CASE table'[c] = table[c]
    <3>1. /\ table[c].at \in 1 .. blocks /\ table[c].seq = table[c].at - 1
          /\ frames[table[c].at] = DataFrame("A", c, table[c].at - 1)
      BY <1>7, <2>1 DEF TableTrue
    <3> QED BY <1>1, <1>2, <2>1, <3>1
  <2>2. CASE c = Content /\ table'[c] = [at |-> blocks + 1, seq |-> blocks]
    BY <1>1, <1>3, <2>2
  <2>3. \/ table'[c] = table[c]
        \/ c = Content /\ table'[c] = [at |-> blocks + 1, seq |-> blocks]
    BY <1>1 DEF DataBlock, Indexed, BackupTypeOK
  <2> QED BY <2>1, <2>2, <2>3
<1>8. TableTrue'
  BY <1>7 DEF TableTrue, Absent
<1>9. FramesTrue'
  BY <1>4, <1>5, <1>6 DEF FramesTrue
<1> QED BY <1>8, <1>9

\* The invariant of the backup is inductive.
LEMMA BackupStep == BackupInv /\ (Backup \/ Publish) => BackupInv'
<1> SUFFICES ASSUME BackupInv, Backup \/ Publish PROVE BackupInv'
  OBVIOUS
<1>1. BackupTypeOK' /\ SourceRead'
  BY BackupTypeStep, SourceReadStep DEF BackupInv
<1>2. flags' = flags
  BY DEF Backup, Publish, BackupPublishes, RefBlock, RefFails, DataBlock, DataTorn,
     ReadShort, GivesUp, AllRead, BackupDiscards, SourceEdited
<1>3. flags'.hash /\ ~streamErr' => FramesTrue' /\ TableTrue'
  <2> SUFFICES ASSUME flags.hash, ~streamErr' PROVE FramesTrue' /\ TableTrue'
    BY <1>2
  <2>1. CASE RefBlock
    BY <2>1, RefBlockTrue DEF BackupInv, RefBlock
  <2>2. CASE DataBlock
    BY <2>2, DataBlockTrue DEF BackupInv, DataBlock
  <2>3. CASE DataTorn
    BY <2>3 DEF DataTorn
  <2>4. CASE RefFails
    <3>1. /\ ~streamErr /\ frames' = frames /\ table' = table /\ blocks' = blocks
          /\ blocks \in 0 .. NBlocks
      BY <2>4 DEF RefFails, BackupInv, BackupTypeOK
    <3>2. \A r \in 1 .. blocks : image'[r] = image[r]
      BY <2>4, <3>1, ImageAssumption DEF RefFails, BackupInv, BackupTypeOK, Images, Blocks, This
    <3>3. FramesTrue'
      <4> SUFFICES ASSUME NEW p \in 1 .. blocks PROVE Holds(p)'
        BY <3>1 DEF FramesTrue
      <4>1. p \in Nat \ {0} /\ \A r \in 1 .. p : r \in 1 .. blocks
        BY <3>1
      <4> QED BY <1>2, <3>1, <3>2, <4>1, HoldsStays DEF FramesTrue, BackupInv
    <3> QED BY <3>1, <3>3 DEF TableTrue, BackupInv, Absent
  <2>5. CASE UNCHANGED <<flags, blocks, image, table, frames, streamErr>>
    BY <2>5 DEF BackupInv, FramesTrue, TableTrue, Holds, Absent
  <2> QED BY <2>1, <2>2, <2>3, <2>4, <2>5 DEF Backup, Publish, BackupPublishes,
          ReadShort, GivesUp, AllRead, BackupDiscards, SourceEdited, archiveVars
<1>4. bpc' # "done" => flags'.hash
  BY <1>2 DEF Backup, Publish, BackupPublishes, RefBlock, RefFails, DataBlock, DataTorn,
     Readable, ReadShort, GivesUp, AllRead, BackupDiscards, SourceEdited, BackupInv
<1>5. published' => flags'.hash /\ ~streamErr' /\ blocks' = NBlocks /\ bpc' = "done"
  <2>1. CASE Backup
    BY <2>1, <1>2 DEF Backup, RefBlock, RefFails, DataBlock, DataTorn, Readable,
       ReadShort, GivesUp, AllRead, BackupDiscards, SourceEdited, BackupInv
  <2>2. CASE Publish
    BY <2>2 DEF Publish, BackupPublishes, MayPublish, BackupInv, readVars
  <2> QED BY <2>1, <2>2
<1> QED BY <1>1, <1>2, <1>3, <1>4, <1>5 DEF BackupInv

\* A restore does not change what the backup works on.
LEMMA BackupKept == BackupInv /\ UNCHANGED backupVars => BackupInv'
BY DEF BackupInv, BackupTypeOK, SourceRead, FramesTrue, TableTrue, Holds, Absent,
   backupVars, readVars, sourceVars, archiveVars

\* What is published passes the test.
LEMMA ReadsBack == BackupInv => ArchiveReadsBack
<1> SUFFICES ASSUME BackupInv, published
             PROVE  TestedAs(Written, image) /\ (edits = 0 => image = source)
  BY DEF ArchiveReadsBack
<1> USE ImageAssumption
<1>1. /\ flags.hash /\ ~streamErr /\ blocks = NBlocks /\ FramesTrue
      /\ flags.auth = (flags.encrypt /\ flags.dedup)
      /\ image \in Images /\ source \in Images /\ flags \in Flags
  BY DEF BackupInv, BackupTypeOK
<1>2. edits = 0 => image = source
  <2>1. edits = 0 => \A p \in Blocks : image[p] = source[p]
    BY <1>1 DEF BackupInv, SourceRead, Blocks
  <2> QED BY <1>1, <2>1 DEF Images
<1>3. ~LegacyDedup(Written)
  BY <1>1 DEF LegacyDedup, Written
<1>4. ASSUME NEW p \in Blocks PROVE TestReads(Written, p, image[p])
  <2>1. Holds(p)
    BY <1>1 DEF FramesTrue, Blocks
  <2>2. CASE frames[p] = DataFrame("A", image[p], p - 1)
    BY <2>2 DEF TestReads, Opens, Written, DataFrame
  <2>3. ASSUME NEW q \in 1 .. p - 1, flags.dedup,
               frames[q] = DataFrame("A", image[p], q - 1),
               frames[p] = RefFrame("A", image[p], p - 1, q, q - 1)
        PROVE  TestReads(Written, p, image[p])
    <3>1. RefOpens(Written, frames[p], p - 1)
      BY <2>3 DEF RefOpens, Written, RefFrame
    <3>2. /\ frames[p].at = q /\ SourceSeq(Written, frames[p]) = q - 1
          /\ frames[p].content = image[p]
      BY <1>3, <2>3 DEF SourceSeq, RefFrame
    <3>3. Opens(Written, frames[q], q - 1) /\ frames[q].kind = "data"
          /\ frames[q].content = image[p]
      BY <2>3 DEF Opens, Written, DataFrame
    <3>4. Written.frames = frames /\ q \in 1 .. p
      BY DEF Written, Blocks
    <3> QED BY <3>1, <3>2, <3>3, <3>4 DEF TestReads
  <2> QED BY <2>1, <2>2, <2>3 DEF Holds
<1>5. OpensArchive(Written) /\ MapBuilt(Written) /\ Written.image = image
  BY <1>3 DEF OpensArchive, MapBuilt, Written
<1> QED BY <1>2, <1>4, <1>5 DEF TestedAs

-----------------------------------------------------------------------------
(***************************************************************************)
(* The restore.                                                            *)
(***************************************************************************)

\* A piece of one archive fits into another.
LEMMA PieceType ==
  ASSUME NEW a \in Archives, NEW from \in Archives, NEW k \in Pieces
  PROVE  /\ WithPiece(a, k, from) \in Archives
         /\ k = Last => WithPiece(a, k, from).image = from.image
         /\ k # Last => WithPiece(a, k, from).image = a.image
<1> USE ImageAssumption DEF Archives, WithPiece
<1>1. CASE k = 0
  <2>1. k # Last /\ WithPiece(a, k, from) = [a EXCEPT !.id = from.id, !.flags = from.flags]
    BY <1>1 DEF Last
  <2> QED BY <2>1
<1>2. CASE k = Last
  <2>1. WithPiece(a, k, from) = [a EXCEPT !.tail = from.tail, !.image = from.image]
    BY <1>2 DEF Last
  <2> QED BY <1>2, <2>1
<1>3. CASE k \in Blocks
  <2>1. /\ k # 0 /\ k # Last /\ from.frames[k] \in Frames
        /\ a.frames \in [Blocks -> Frames]
    BY <1>3 DEF Last, Blocks
  <2>2. WithPiece(a, k, from) = [a EXCEPT !.frames[k] = from.frames[k]]
    BY <2>1
  <2>3. [a.frames EXCEPT ![k] = from.frames[k]] \in [Blocks -> Frames]
    BY <2>1
  <2> QED BY <2>1, <2>2, <2>3
<1> QED BY <1>1, <1>2, <1>3 DEF Pieces, Last, Blocks

\* Type correctness of the restore.
LEMMA RestoreTypeStep ==
  BackupTypeOK /\ RestoreTypeOK /\ (Restore \/ Publish) => RestoreTypeOK'
<1> SUFFICES ASSUME BackupTypeOK, RestoreTypeOK, Restore \/ Publish PROVE RestoreTypeOK'
  OBVIOUS
<1> USE ImageAssumption, RestoreAssumption DEF RestoreTypeOK, Fails, fileVars,
    snapshotVars, targetVars, Stream, Sink
<1>1. CASE RestoreBegins
  BY <1>1 DEF RestoreBegins
<1>2. CASE CopyPiece
  <2>1. copied \in Pieces /\ copied + 1 \in 0 .. Last + 1
    BY <1>2 DEF CopyPiece, Pieces, Last
  <2>2. snapshot' \in Archives
    BY <1>2, <2>1, PieceType DEF CopyPiece
  <2> QED BY <1>2, <2>1, <2>2 DEF CopyPiece
<1>3. CASE CopyFails
  BY <1>3 DEF CopyFails
<1>4. CASE OpenSnapshot
  BY <1>4 DEF OpenSnapshot
<1>5. CASE OpenSnapshotFails
  BY <1>5 DEF OpenSnapshotFails
<1>6. CASE Preflight
  BY <1>6 DEF Preflight
<1>7. CASE PreflightFails
  BY <1>7 DEF PreflightFails
<1>8. CASE OpenTarget
  BY <1>8 DEF OpenTarget, Kinds
<1>9. CASE BuildMap
  BY <1>9 DEF BuildMap
<1>10. CASE BuildMapFails
  BY <1>10 DEF BuildMapFails
<1>11. CASE WriteBlock
  <2>1. PICK c \in Contents : data' = [data EXCEPT ![opened][ThisBlock] = c]
    BY <1>11 DEF WriteBlock
  <2>2. data' \in [Targets \cup {New} -> [Blocks -> Contents \cup {Old, Torn}]]
    <3>1. CASE opened \in Targets \cup {New}
      <4>1. [data[opened] EXCEPT ![ThisBlock] = c] \in [Blocks -> Contents \cup {Old, Torn}]
        BY <3>1
      <4> QED BY <2>1, <3>1, <4>1
    <3>2. CASE opened \notin Targets \cup {New}
      BY <2>1, <3>2
    <3> QED BY <3>1, <3>2
  <2>3. ThisBlock \in 0 .. NBlocks
    BY <1>11 DEF WriteBlock, Blocks
  <2> QED BY <1>11, <2>2, <2>3 DEF WriteBlock
<1>12. CASE WriteFails
  BY <1>12 DEF WriteFails
<1>13. CASE ReadFails
  BY <1>13 DEF ReadFails
<1>14. CASE AllRestored
  BY <1>14 DEF AllRestored
<1>15. CASE FinishFile
  BY <1>15 DEF FinishFile
<1>16. CASE FinishDevice
  BY <1>16 DEF FinishDevice
<1>17. CASE Overwrite
  <2>1. Other \in Archives
    BY EncodedType DEF Other, Archives, Ids
  <2>2. over + 1 \in 0 .. Last + 1
    BY <1>17 DEF Overwrite, Pieces, Last
  <2> QED BY <1>17, <2>1, <2>2, PieceType DEF Overwrite
<1>18. CASE Damage
  <2>1. BadFrame(Zero) \in Frames
    BY DEF BadFrame, Frames, Ids
  <2> QED BY <1>18, <2>1 DEF Damage, Archives, Last
<1>19. CASE Truncate
  BY <1>19 DEF Truncate, Pieces, Last
<1>20. CASE Exchange
  BY <1>20 DEF Exchange, Targets
<1>21. CASE Publish
  <2>1. Written \in Archives
    BY DEF Written, Archives, BackupTypeOK, Ids
  <2> QED BY <1>21, <2>1 DEF Publish
<1> QED BY <1>1, <1>2, <1>3, <1>4, <1>5, <1>6, <1>7, <1>8, <1>9, <1>10, <1>11, <1>12,
           <1>13, <1>14, <1>15, <1>16, <1>17, <1>18, <1>19, <1>20, <1>21 DEF Restore

\* The snapshot is whole before it is read.
LEMMA CopiedStep == RestoreInv /\ (Restore \/ Publish) => Copied' /\ OpenedIsFound'
<1> SUFFICES ASSUME RestoreInv, Restore \/ Publish PROVE Copied' /\ OpenedIsFound'
  OBVIOUS
<1> USE ImageAssumption DEF RestoreInv, RestoreTypeOK, Copied, OpenedIsFound, Fails,
    fileVars, snapshotVars, targetVars, Targets, New
<1>1. CASE RestoreBegins
  BY <1>1 DEF RestoreBegins, Last
<1>2. CASE CopyPiece
  BY <1>2 DEF CopyPiece, Last
<1>3. CASE CopyFails
  BY <1>3 DEF CopyFails
<1>4. CASE OpenSnapshot
  BY <1>4 DEF OpenSnapshot
<1>5. CASE OpenSnapshotFails
  BY <1>5 DEF OpenSnapshotFails
<1>6. CASE Preflight
  BY <1>6 DEF Preflight
<1>7. CASE PreflightFails
  BY <1>7 DEF PreflightFails
<1>8. CASE OpenTarget
  <2>1. opened = "none" /\ copied = Last + 1 /\ path # New
    BY <1>8 DEF OpenTarget, OutcomeTrue
  <2> QED BY <1>8, <2>1 DEF OpenTarget, Kinds
<1>9. CASE BuildMap
  BY <1>9 DEF BuildMap
<1>10. CASE BuildMapFails
  BY <1>10 DEF BuildMapFails
<1>11. CASE WriteBlock
  BY <1>11 DEF WriteBlock
<1>12. CASE WriteFails
  BY <1>12 DEF WriteFails
<1>13. CASE ReadFails
  BY <1>13 DEF ReadFails
<1>14. CASE AllRestored
  BY <1>14 DEF AllRestored
<1>15. CASE FinishFile
  BY <1>15 DEF FinishFile
<1>16. CASE FinishDevice
  BY <1>16 DEF FinishDevice
<1>17. CASE Overwrite
  BY <1>17 DEF Overwrite
<1>18. CASE Damage
  BY <1>18 DEF Damage
<1>19. CASE Truncate
  BY <1>19 DEF Truncate
<1>20. CASE Exchange
  BY <1>20 DEF Exchange
<1>21. CASE Publish
  BY <1>21 DEF Publish
<1> QED BY <1>1, <1>2, <1>3, <1>4, <1>5, <1>6, <1>7, <1>8, <1>9, <1>10, <1>11, <1>12,
           <1>13, <1>14, <1>15, <1>16, <1>17, <1>18, <1>19, <1>20, <1>21 DEF Restore

\* What has passed the test is not copied again.
LEMMA TestedFirstStep == RestoreInv /\ (Restore \/ Publish) => TestedFirst'
<1> SUFFICES ASSUME RestoreInv, Restore \/ Publish PROVE TestedFirst'
  OBVIOUS
<1>1. CASE CopyPiece
  <2>1. opened' = "none" /\ rpc' \in {"open", "copy"}
    BY <1>1 DEF CopyPiece, RestoreInv, OpenedIsFound, targetVars
  <2> QED BY <2>1 DEF TestedFirst
<1>2. CASE Preflight
  BY <1>2 DEF Preflight, TestedFirst, snapshotVars, Stream
<1>3. CASE ~CopyPiece /\ ~Preflight
  <2>1. /\ snapshot' = snapshot
        /\ rpc' \in {"target", "map", "blocks", "finish"}
             => rpc \in {"target", "map", "blocks", "finish"}
        /\ opened' # opened => rpc = "target"
    BY <1>3 DEF Restore, Publish, Fails, fileVars, snapshotVars, targetVars,
       RestoreBegins, CopyFails, OpenSnapshot, OpenSnapshotFails, PreflightFails,
       OpenTarget, BuildMap, BuildMapFails, WriteBlock, WriteFails, ReadFails,
       AllRestored, FinishFile, FinishDevice, Overwrite, Damage, Truncate, Exchange
  <2>2. Tested(snapshot)' <=> Tested(snapshot)
    BY <2>1 DEF Tested, TestedAs, OpensArchive, MapBuilt, LegacyDedup, TestReads, Opens,
       RefOpens, SourceSeq
  <2> QED BY <2>1, <2>2 DEF RestoreInv, TestedFirst
<1> QED BY <1>1, <1>2, <1>3

\* The blocks that have been written are what the snapshot holds.
LEMMA BlocksStep == RestoreInv /\ (Restore \/ Publish) => BlocksInOrder'
<1> SUFFICES ASSUME RestoreInv, Restore \/ Publish PROVE BlocksInOrder'
  OBVIOUS
<1> USE ImageAssumption, RestoreAssumption
<1>1. CASE UNCHANGED <<snapshot, opened, data, restored>> /\ (rerr' = rerr \/ rerr = "none")
  BY <1>1 DEF RestoreInv, BlocksInOrder, RestoreReads, RefOpens, Opens, SourceSeq,
     LegacyDedup, Untouched
<1>2. CASE CopyPiece
  BY <1>2 DEF CopyPiece, RestoreInv, OpenedIsFound, BlocksInOrder, targetVars, Untouched
<1>3. CASE OpenTarget
  <2>1. /\ opened = "none" /\ data' = data /\ restored = 0 /\ restored' = 0
    BY <1>3 DEF OpenTarget, RestoreInv, OpenedIsFound, BlocksInOrder
  <2>2. /\ opened' \in Targets \cup {New, "none"}
        /\ \A o \in Targets \cup {New} : data[o] = Untouched /\ o # "none"
    BY <1>3, <2>1 DEF OpenTarget, RestoreInv, RestoreTypeOK, BlocksInOrder, OutcomeTrue,
       Targets, New
  <2>3. \A p \in Blocks : p > 0 /\ Untouched[p] = Old
    BY DEF Blocks, Untouched
  <2> QED BY <2>1, <2>2, <2>3 DEF BlocksInOrder, Untouched
<1>4. CASE WriteBlock
  <2>1. PICK c \in Contents : /\ RestoreReads(snapshot, restored + 1, c)
                             /\ data' = [data EXCEPT ![opened][restored + 1] = c]
    BY <1>4 DEF WriteBlock, Stream, Sink, ThisBlock
  <2>2. /\ snapshot' = snapshot /\ opened' = opened /\ restored' = restored + 1
        /\ restored + 1 \in Blocks /\ restored \in Nat
        /\ opened # "none" /\ opened \in Targets \cup {New}
    BY <1>4 DEF WriteBlock, RestoreInv, RestoreTypeOK, OpenedIsFound, snapshotVars, ThisBlock
  <2>3. \A o \in Targets \cup {New} : o # opened' => data'[o] = Untouched
    BY <2>1, <2>2 DEF RestoreInv, RestoreTypeOK, BlocksInOrder
  <2>4. ASSUME NEW p \in Blocks
        PROVE  \/ p <= restored' /\ RestoreReads(snapshot', p, data'[opened'][p])
               \/ p > restored' /\ data'[opened'][p] = Old
    <3>1. CASE p = restored + 1
      <4>1. data'[opened][p] = c
        BY <2>1, <2>2, <3>1 DEF RestoreInv, RestoreTypeOK
      <4> QED BY <2>1, <2>2, <3>1, <4>1
    <3>2. CASE p # restored + 1
      <4>1. data'[opened][p] = data[opened][p]
        BY <2>1, <2>2, <3>2 DEF RestoreInv, RestoreTypeOK
      <4>2. \/ p <= restored /\ RestoreReads(snapshot, p, data[opened][p])
            \/ p > restored /\ data[opened][p] = Old
        BY <2>2, <3>2 DEF RestoreInv, BlocksInOrder
      <4> QED BY <2>2, <3>2, <4>1, <4>2 DEF Blocks
    <3> QED BY <3>1, <3>2
  <2> QED BY <2>2, <2>3, <2>4 DEF BlocksInOrder, RestoreReads, RefOpens, Opens, SourceSeq,
          LegacyDedup
<1>5. CASE WriteFails
  <2>1. /\ snapshot' = snapshot /\ opened' = opened /\ restored' = restored
        /\ restored + 1 \in Blocks /\ restored \in Nat
        /\ opened # "none" /\ opened \in Targets \cup {New}
        /\ rerr' = "io" /\ rerr = "none"
        /\ data' \in {data, [data EXCEPT ![opened][restored + 1] = Torn]}
    BY <1>5 DEF WriteFails, RestoreInv, RestoreTypeOK, OpenedIsFound, OutcomeTrue,
       snapshotVars, ThisBlock, Sink
  <2>2. CASE data' = data
    BY <2>1, <2>2 DEF RestoreInv, BlocksInOrder, RestoreReads, RefOpens, Opens, SourceSeq,
       LegacyDedup, Untouched
  <2>3. CASE data' = [data EXCEPT ![opened][restored + 1] = Torn]
    <3>1. \A o \in Targets \cup {New} : o # opened' => data'[o] = Untouched
      BY <2>1, <2>3 DEF RestoreInv, RestoreTypeOK, BlocksInOrder
    <3>2. ASSUME NEW p \in Blocks
          PROVE  \/ p <= restored' /\ RestoreReads(snapshot', p, data'[opened'][p])
                 \/ p = restored' + 1 /\ rerr' = "io" /\ data'[opened'][p] = Torn
                 \/ p > restored' /\ data'[opened'][p] = Old
      <4>1. p = restored + 1 => data'[opened][p] = Torn
        BY <2>1, <2>3 DEF RestoreInv, RestoreTypeOK
      <4>2. p # restored + 1 => data'[opened][p] = data[opened][p]
        BY <2>1, <2>3 DEF RestoreInv, RestoreTypeOK
      <4>3. p # restored + 1 =>
              \/ p <= restored /\ RestoreReads(snapshot, p, data[opened][p])
              \/ p > restored /\ data[opened][p] = Old
        BY <2>1 DEF RestoreInv, BlocksInOrder
      <4> QED BY <2>1, <4>1, <4>2, <4>3
    <3> QED BY <2>1, <3>1, <3>2 DEF BlocksInOrder, RestoreReads, RefOpens, Opens,
            SourceSeq, LegacyDedup
  <2> QED BY <2>1, <2>2, <2>3
<1>6. CASE ~CopyPiece /\ ~OpenTarget /\ ~WriteBlock /\ ~WriteFails
  <2>1. UNCHANGED <<snapshot, opened, data, restored>>
    BY <1>6 DEF Restore, Publish, Fails, fileVars, snapshotVars, targetVars,
       RestoreBegins, CopyFails, OpenSnapshot, OpenSnapshotFails, Preflight,
       PreflightFails, BuildMap, BuildMapFails, ReadFails, AllRestored, FinishFile,
       FinishDevice, Overwrite, Damage, Truncate, Exchange
  <2>2. rerr' = rerr \/ rpc \notin {"finish", "done"}
    BY <1>6 DEF Restore, Publish, Fails, fileVars, snapshotVars, targetVars,
       RestoreBegins, CopyFails, OpenSnapshot, OpenSnapshotFails, Preflight,
       PreflightFails, BuildMap, BuildMapFails, ReadFails, AllRestored, FinishFile,
       FinishDevice, Overwrite, Damage, Truncate, Exchange
  <2> QED BY <1>1, <2>1, <2>2 DEF RestoreInv, OutcomeTrue
<1> QED BY <1>2, <1>3, <1>4, <1>5, <1>6

\* All blocks are written: that is the image the snapshot was found to hold.
LEMMA AllAsTested ==
  ASSUME RestoreInv, opened # "none", restored = NBlocks
  PROVE  TestedAs(snapshot, data[opened])
<1> USE ImageAssumption, RestoreAssumption
<1>1. PICK i \in Images :
        /\ TestedAs(snapshot, i)
        /\ \A p \in Blocks : \A c : RestoreReads(snapshot, p, c) => c = i[p]
  BY TestedHolds DEF RestoreInv, TestedFirst
<1>2. \A p \in Blocks : data[opened][p] = i[p]
  BY <1>1 DEF RestoreInv, BlocksInOrder, Blocks
<1>3. data[opened] \in [Blocks -> Contents \cup {Old, Torn}]
  BY DEF RestoreInv, RestoreTypeOK
<1>4. data[opened] = i
  BY <1>2, <1>3 DEF Images
<1> QED BY <1>1, <1>4

\* A block of an archive that has passed the test can be read.
LEMMA NextReads ==
  ASSUME NEW a, Tested(a), NEW p \in Blocks
  PROVE  \E c \in Contents : RestoreReads(a, p, c)
<1>1. PICK i \in Images : TestedAs(a, i)
  BY DEF Tested
<1>2. i[p] \in Contents /\ TestReads(a, p, i[p])
  BY <1>1 DEF TestedAs, Images
<1> QED BY <1>2, ReadersAgree

\* The restore fails for want of I/O only, and succeeds only with everything.
LEMMA OutcomeStep == RestoreInv /\ (Restore \/ Publish) => OutcomeTrue'
<1> SUFFICES ASSUME RestoreInv, Restore \/ Publish PROVE OutcomeTrue'
  OBVIOUS
<1> USE DEF OutcomeTrue, Complete, Fails, fileVars, snapshotVars, targetVars, Stream
<1>a. OutcomeTrue
  BY DEF RestoreInv
<1>b. path \in Targets \cup {"none", New} /\ New \notin Targets \cup {"none"}
  BY DEF RestoreInv, RestoreTypeOK, Targets, New
<1>1. CASE RestoreBegins
  BY <1>1, <1>a, <1>b DEF RestoreBegins
<1>2. CASE CopyPiece
  BY <1>2, <1>a, <1>b DEF CopyPiece
<1>3. CASE CopyFails
  BY <1>3, <1>a, <1>b DEF CopyFails
<1>4. CASE OpenSnapshot
  BY <1>4, <1>a, <1>b DEF OpenSnapshot
<1>5. CASE OpenSnapshotFails
  BY <1>5, <1>a, <1>b DEF OpenSnapshotFails
<1>6. CASE Preflight
  BY <1>6, <1>a, <1>b DEF Preflight
<1>7. CASE PreflightFails
  BY <1>7, <1>a, <1>b DEF PreflightFails
<1>8. CASE OpenTarget
  <2>1. rpc' # "finish" /\ (rpc' = "done" => rresult' = "failed" /\ rerr' = "io")
        /\ (rpc' # "done" => rresult' = rresult /\ rerr' = rerr)
        /\ rpc = "target" /\ rpc' \in {"map", "done"} /\ path' = path
    BY <1>8 DEF OpenTarget
  <2> QED BY <1>a, <1>b, <2>1
<1>9. CASE BuildMap
  BY <1>9, <1>a, <1>b DEF BuildMap
<1>10. CASE BuildMapFails
  <2>1. MapBuilt(snapshot)
    BY <1>10 DEF BuildMapFails, RestoreInv, TestedFirst, Tested, TestedAs
  <2> QED BY <1>10, <1>a, <1>b, <2>1 DEF BuildMapFails
<1>11. CASE WriteBlock
  BY <1>11, <1>a, <1>b DEF WriteBlock
<1>12. CASE WriteFails
  BY <1>12, <1>a, <1>b DEF WriteFails
<1>13. CASE ReadFails
  <2>1. \E c \in Contents : RestoreReads(snapshot, ThisBlock, c)
    BY <1>13, NextReads DEF ReadFails, RestoreInv, TestedFirst
  <2> QED BY <1>13, <1>a, <1>b, <2>1 DEF ReadFails
<1>14. CASE AllRestored
  <2>1. opened # "none" /\ restored = NBlocks
    BY <1>14 DEF AllRestored, RestoreInv, OpenedIsFound
  <2>2. TestedAs(snapshot, data[opened])
    BY <2>1, AllAsTested
  <2>3. HashFits
    BY <2>2 DEF HashFits, TestedAs, Sink
  <2>4. UNCHANGED <<snapshot, opened, data, restored, path, rresult>>
        /\ rpc = "blocks" /\ rpc' = "finish" /\ rerr' \in {"none", "io"}
    BY <1>14, <2>3 DEF AllRestored
  <2>5. snapshot.flags.hash => \A p \in Blocks : data[opened][p] = snapshot.image[p]
    BY <2>3 DEF HashFits, Sink
  <2> QED BY <1>a, <1>b, <2>1, <2>4, <2>5
<1>15. CASE FinishFile
  BY <1>15, <1>a, <1>b DEF FinishFile
<1>16. CASE FinishDevice
  BY <1>16, <1>a, <1>b DEF FinishDevice
<1>17. CASE Overwrite
  BY <1>17, <1>a, <1>b DEF Overwrite
<1>18. CASE Damage
  BY <1>18, <1>a, <1>b DEF Damage
<1>19. CASE Truncate
  BY <1>19, <1>a, <1>b DEF Truncate
<1>20. CASE Exchange
  <2>1. path # New /\ path' # New
    BY <1>20 DEF Exchange, New
  <2> QED BY <1>20, <1>a, <2>1 DEF Exchange
<1>21. CASE Publish
  BY <1>21, <1>a, <1>b DEF Publish
<1> QED BY <1>1, <1>2, <1>3, <1>4, <1>5, <1>6, <1>7, <1>8, <1>9, <1>10, <1>11, <1>12,
           <1>13, <1>14, <1>15, <1>16, <1>17, <1>18, <1>19, <1>20, <1>21 DEF Restore

\* The invariant of the restore is inductive.
LEMMA RestoreStep ==
  BackupTypeOK /\ RestoreInv /\ (Restore \/ Publish) => RestoreInv'
BY RestoreTypeStep, CopiedStep, TestedFirstStep, BlocksStep, OutcomeStep DEF RestoreInv

\* A backup that goes on does not change what a restore works on.
LEMMA RestoreKept == RestoreInv /\ UNCHANGED restoreVars => RestoreInv'
BY DEF RestoreInv, RestoreTypeOK, Copied, TestedFirst, OpenedIsFound, BlocksInOrder,
   OutcomeTrue, Complete, restoreVars, fileVars, snapshotVars, targetVars, Tested,
   TestedAs, OpensArchive, MapBuilt, LegacyDedup, TestReads, RestoreReads, Opens,
   RefOpens, SourceSeq, Untouched

-----------------------------------------------------------------------------
(***************************************************************************)
(* Both together.                                                          *)
(***************************************************************************)

LEMMA InitInv == Init => IInv
<1> SUFFICES ASSUME Init PROVE IInv
  OBVIOUS
<1> USE ImageAssumption, BackupAssumption, RestoreAssumption
<1>1. BadFrame(Zero) \in Frames
  BY DEF BadFrame, Frames, Ids
<1>2. Blank \in Archives
  BY <1>1 DEF Blank, Archives, WriterFlags, Flags, Ids, Images
<1>3. BackupInv
  <2>1. CASE BackupInit
    <3>1. flags \in Flags /\ flags.hash /\ flags.auth = (flags.encrypt /\ flags.dedup)
      BY <2>1 DEF BackupInit, WriterFlags, Flags
    <3>2. [c \in Contents |-> Absent] \in [Contents -> [at : 0 .. NBlocks, seq : Nat]]
      BY DEF Absent
    <3>3. [p \in Blocks |-> BadFrame(Zero)] \in [Blocks -> Frames]
          /\ [p \in Blocks |-> Zero] \in Images
      BY <1>1 DEF Images
    <3>4. BackupTypeOK
      <4>1. table \in [Contents -> [at : 0 .. NBlocks, seq : Nat]]
        BY <2>1, <3>2 DEF BackupInit
      <4>2. frames \in [Blocks -> Frames] /\ image \in Images
        BY <2>1, <3>3 DEF BackupInit
      <4>3. /\ source \in Images /\ size \in Nat /\ edits \in Nat /\ blocks \in 0 .. NBlocks
            /\ stored \subseteq Blocks
        BY <2>1 DEF BackupInit
      <4>4. bpc = "read" /\ writeErr = FALSE /\ streamErr = FALSE /\ published = FALSE
        BY <2>1 DEF BackupInit
      <4> QED BY <3>1, <4>1, <4>2, <4>3, <4>4 DEF BackupTypeOK
    <3> QED BY <2>1, <3>1, <3>4 DEF BackupInit, BackupInv, SourceRead, FramesTrue, TableTrue
  <2>2. CASE ~BackupInit
    <3>1. PICK i \in Images, e \in BOOLEAN, d \in BOOLEAN :
            /\ image = i /\ file = Encoded(i, "A", LegacyFlags(e, d))
      BY <2>2 DEF Init, LegacyArchive
    <3>2. LegacyFlags(e, d) \in Flags
      BY DEF LegacyFlags, Flags
    <3>3. file \in Archives /\ file.flags = LegacyFlags(e, d)
      BY <3>1, <3>2, EncodedType DEF Encoded, Ids
    <3>4. flags \in Flags /\ ~flags.hash /\ frames \in [Blocks -> Frames]
      <4>1. flags = LegacyFlags(e, d) /\ frames = file.frames
        BY <2>2, <3>3 DEF Init
      <4>2. ~LegacyFlags(e, d).hash
        BY DEF LegacyFlags
      <4>3. file.frames \in [Blocks -> Frames]
        BY <3>3 DEF Archives
      <4> QED BY <3>2, <4>1, <4>2, <4>3
    <3>5. [c \in Contents |-> Absent] \in [Contents -> [at : 0 .. NBlocks, seq : Nat]]
      BY DEF Absent
    <3>6. BackupTypeOK
      <4>1. table \in [Contents -> [at : 0 .. NBlocks, seq : Nat]]
        BY <2>2, <3>5 DEF Init
      <4>2. /\ source \in Images /\ size \in Nat /\ edits \in Nat /\ blocks \in 0 .. NBlocks
            /\ stored \subseteq Blocks /\ image \in Images
        BY <2>2, <3>1 DEF Init
      <4>3. bpc = "done" /\ writeErr = FALSE /\ streamErr = FALSE /\ published = FALSE
        BY <2>2 DEF Init
      <4> QED BY <3>4, <4>1, <4>2, <4>3 DEF BackupTypeOK
    <3> QED BY <2>2, <3>1, <3>4, <3>6 DEF Init, BackupInv, SourceRead
  <2> QED BY <2>1, <2>2
<1>4. RestoreTypeOK
  <2>1. file \in Archives /\ length \in 0 .. NBlocks + 2
    <3>1. CASE file = Blank /\ length = 0
      BY <1>2, <3>1
    <3>2. CASE LegacyArchive
      <4>1. \A e, d \in BOOLEAN : LegacyFlags(e, d) \in Flags
        BY DEF LegacyFlags, Flags
      <4> QED BY <3>2, <4>1, EncodedType DEF LegacyArchive, Ids
    <3> QED BY <3>1, <3>2 DEF Init
  <2> QED BY <1>2, <2>1 DEF Init, RestoreInit, RestoreTypeOK, Last, Targets, New,
          Untouched
<1>5. Copied /\ TestedFirst /\ OpenedIsFound /\ BlocksInOrder /\ OutcomeTrue
  BY DEF Init, RestoreInit, Copied, TestedFirst, OpenedIsFound, BlocksInOrder,
     OutcomeTrue, Untouched, Targets, New, Last
<1>6. ImagesKnown
  BY DEF Init, RestoreInit, ImagesKnown, LegacyArchive, Encoded, Last
<1> QED BY <1>3, <1>4, <1>5, <1>6 DEF IInv, RestoreInv

\* The image of a piece is that of one of the two archives.
LEMMA ImagesStep == IInv /\ Next => ImagesKnown'
<1> SUFFICES ASSUME IInv, Next PROVE ImagesKnown'
  OBVIOUS
<1> USE ImageAssumption DEF ImagesKnown, fileVars, snapshotVars, targetVars
<1>1. /\ BackupInv /\ RestoreTypeOK /\ ImagesKnown /\ Copied
  BY DEF IInv, RestoreInv
<1>2. CASE Publish
  <2>1. /\ file' = Written /\ Written.image = image /\ image' = image /\ bpc' = "done"
        /\ snapshot' = snapshot /\ copied' = copied
    BY <1>2 DEF Publish, BackupPublishes, Written, archiveVars
  <2> QED BY <1>1, <2>1
<1>3. CASE Backup
  <2>1. bpc # "done" /\ UNCHANGED restoreVars
    BY <1>3 DEF Backup, RefBlock, RefFails, DataBlock, DataTorn, Readable, ReadShort,
       GivesUp, AllRead, BackupDiscards, SourceEdited
  <2>2. length = 0 /\ rpc = "idle" /\ copied # Last + 1
    BY <1>1, <2>1 DEF Copied, Last
  <2> QED BY <2>1, <2>2 DEF restoreVars
<1>4. CASE Restore
  <2>1. image' = image /\ bpc' = bpc
    BY <1>4 DEF Restore, backupVars, readVars, archiveVars
  <2>2. CASE CopyPiece
    <3>1. /\ copied \in Pieces /\ snapshot' = WithPiece(snapshot, copied, file)
          /\ file' = file /\ copied' = copied + 1 /\ rpc = "copy"
      BY <1>1, <2>2 DEF CopyPiece, RestoreTypeOK, Copied, Pieces, Last
    <3>2. copied = Last => snapshot'.image = file.image
      <4>1. file \in Archives /\ snapshot \in Archives
        BY <1>1 DEF RestoreTypeOK
      <4> QED BY <3>1, <4>1, PieceType
    <3>3. copied' = Last + 1 => copied = Last
      BY <3>1 DEF Last, Pieces
    <3> QED BY <1>1, <2>1, <3>1, <3>2, <3>3
  <2>3. CASE Overwrite
    <3>1. Encoded(OtherImage, "B", file.flags).image = OtherImage
      BY DEF Encoded
    <3>2. Other \in Archives /\ Other.image = OtherImage
      BY <1>1, <3>1, EncodedType, RestoreAssumption DEF RestoreTypeOK, Archives, Ids, Other
    <3>3. file'.image \in {file.image, OtherImage}
      BY <1>1, <2>3, <3>2, PieceType DEF Overwrite, RestoreTypeOK
    <3>4. length # 0 /\ UNCHANGED <<snapshot, copied>>
      BY <2>3 DEF Overwrite
    <3> QED BY <1>1, <2>1, <3>3, <3>4
  <2>4. CASE Damage
    <3>1. file'.image = file.image
      BY <1>1, <2>4 DEF Damage, RestoreTypeOK, Archives
    <3>2. length # 0 /\ UNCHANGED <<snapshot, copied>>
      BY <2>4 DEF Damage
    <3> QED BY <1>1, <2>1, <3>1, <3>2
  <2>5. CASE ~CopyPiece /\ ~Overwrite /\ ~Damage
    <3>1. /\ UNCHANGED <<file, snapshot, copied>>
          /\ length' # 0 \/ rpc' # "idle" => length # 0 \/ rpc # "idle"
      BY <1>4, <2>5 DEF Restore, Fails, RestoreBegins, CopyFails, OpenSnapshot,
         OpenSnapshotFails, Preflight, PreflightFails, OpenTarget, BuildMap,
         BuildMapFails, WriteBlock, WriteFails, ReadFails, AllRestored, FinishFile,
         FinishDevice, Truncate, Exchange
    <3> QED BY <1>1, <2>1, <3>1
  <2> QED BY <2>2, <2>3, <2>4, <2>5
<1> QED BY <1>2, <1>3, <1>4 DEF Next

LEMMA IInvStep == IInv /\ [Next]_vars => IInv'
<1> SUFFICES ASSUME IInv, [Next]_vars PROVE IInv'
  OBVIOUS
<1>1. BackupInv /\ RestoreInv /\ ImagesKnown /\ BackupTypeOK
  BY DEF IInv, BackupInv
<1>2. CASE Backup \/ Publish
  BY <1>1, <1>2, BackupStep, RestoreKept, RestoreStep, ImagesStep DEF IInv, Next, Backup
<1>3. CASE Restore
  BY <1>1, <1>3, BackupKept, RestoreStep, ImagesStep DEF IInv, Next, Restore
<1>4. CASE UNCHANGED vars
  BY <1>1, <1>4, BackupKept, RestoreKept DEF IInv, vars, ImagesKnown, restoreVars,
     fileVars, snapshotVars, backupVars, readVars, archiveVars
<1> QED BY <1>2, <1>3, <1>4 DEF Next

\* The inductive invariant of backup and restore.
THEOREM Invariance == Spec => []IInv
BY InitInv, IInvStep, PTL DEF Spec

\* What is published passes the test that comes before a restore.
THEOREM PublishedReadsBack == Spec => []ArchiveReadsBack
<1>1. IInv => ArchiveReadsBack
  BY ReadsBack DEF IInv
<1> QED BY <1>1, Invariance, PTL

\* A restore that has begun to write fails for want of I/O only: test and
\* restore read one private copy, and find the same in it.
THEOREM TestDecides == Spec => []PreflightDecides
<1>1. IInv => PreflightDecides
  BY DEF IInv, RestoreInv, OutcomeTrue, PreflightDecides
<1> QED BY <1>1, Invariance, PTL

\* Of what was there, nothing but the device that was opened is written to,
\* and that with an image which was found whole.
THEOREM WrittenInPlace == Spec => []OnlyDeviceWritten
<1>1. IInv => OnlyDeviceWritten
  <2> SUFFICES ASSUME IInv, NEW t \in Targets, data[t] # Untouched
               PROVE  /\ t = opened /\ found = "device"
                      /\ \E i \in Images :
                           /\ TestedAs(snapshot, i)
                           /\ \A p \in Blocks :
                                \/ p <= restored /\ data[t][p] = i[p]
                                \/ p = restored + 1 /\ rerr = "io" /\ data[t][p] = Torn
                                \/ p > restored /\ data[t][p] = Old
    BY DEF OnlyDeviceWritten
  <2>1. t = opened /\ found = "device" /\ opened # "none"
    BY DEF IInv, RestoreInv, BlocksInOrder, OpenedIsFound, Targets
  <2>2. PICK i \in Images :
          /\ TestedAs(snapshot, i)
          /\ \A p \in Blocks : \A c : RestoreReads(snapshot, p, c) => c = i[p]
    BY <2>1, TestedHolds DEF IInv, RestoreInv, TestedFirst
  <2> QED BY <2>1, <2>2 DEF IInv, RestoreInv, BlocksInOrder
<1> QED BY <1>1, Invariance, PTL

\* The name of the target comes to stand for a whole image only.
THEOREM PublishedWhole == Spec => []NameIsWhole
<1>1. IInv => NameIsWhole
  BY AllAsTested DEF IInv, RestoreInv, OutcomeTrue, Complete, NameIsWhole
<1> QED BY <1>1, Invariance, PTL

\* A restore that succeeds gives an image that was backed up, and no mixture.
THEOREM RestoreIsFaithful == Spec => []RestoredIsBackedUp
<1>1. IInv => RestoredIsBackedUp
  <2> SUFFICES ASSUME IInv, rresult = "restored", snapshot.flags.hash
               PROVE  /\ data[opened] \in {image, OtherImage}
                      /\ opened = New => path = New
    BY DEF RestoredIsBackedUp
  <2>1. Complete /\ (opened = New => path = New)
    BY DEF IInv, RestoreInv, OutcomeTrue
  <2>2. data[opened] = snapshot.image
    BY <2>1, AllAsTested DEF IInv, Complete, TestedAs
  <2> QED BY <2>1, <2>2 DEF IInv, RestoreInv, Copied, Complete, ImagesKnown
<1> QED BY <1>1, Invariance, PTL
=============================================================================
