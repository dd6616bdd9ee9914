----------------------------- MODULE DiskArchive -----------------------------
(***************************************************************************)
(* A disk-image archive, and what its readers make of it.  Such an archive *)
(* has one index entry and one frame per block of the image: the frames    *)
(* are in the order of the blocks, so a frame is named by its block.       *)
(*                                                                         *)
(* An image is what the chained hash of the index stands for: two images   *)
(* with one hash are the same image here.  The keys of two archives        *)
(* differ, and so do their header and footer, which the trailer binds to   *)
(* each other: an archive is named by its id.  Short last blocks, codecs   *)
(* and the Windows branches are left out.                                  *)
(***************************************************************************)
EXTENDS Naturals

CONSTANTS
  NBlocks,   \* number of blocks of an image
  Contents,  \* what may be in a block
  Zero,      \* the content of a block of zeros
  Faults     \* may system calls and allocations fail?

ASSUME ImageAssumption ==
  NBlocks \in Nat \ {0} /\ Zero \in Contents /\ Faults \in BOOLEAN

Blocks == 1 .. NBlocks
Images == [Blocks -> Contents]

Ids == {"A", "B"}

\* global_flags, as far as the readers branch on them.
Flags == [encrypt : BOOLEAN, dedup : BOOLEAN, auth : BOOLEAN, hash : BOOLEAN]

\* What zupt_disk_backup writes.
WriterFlags(encrypt, dedup) ==
  [encrypt |-> encrypt, dedup |-> dedup, auth |-> encrypt /\ dedup, hash |-> TRUE]

\* What 5.2.1 wrote: references are not authenticated, no content hash.
LegacyFlags(encrypt, dedup) ==
  [encrypt |-> encrypt, dedup |-> dedup, auth |-> FALSE, hash |-> FALSE]

\* A frame: sealed in archive id under sequence seq; content stands for the
\* size and the checksum of its preface, and for the payload of a data frame;
\* at and source are the place and the sequence a reference carries.
DataFrame(id, c, seq) ==
  [kind |-> "data", id |-> id, content |-> c, seq |-> seq, at |-> 0, source |-> 0]
RefFrame(id, c, seq, at, source) ==
  [kind |-> "ref", id |-> id, content |-> c, seq |-> seq, at |-> at, source |-> source]

\* A frame that is not there, was written in part or has been damaged.
BadFrame(c) ==
  [kind |-> "bad", id |-> "A", content |-> c, seq |-> 0, at |-> 0, source |-> 0]

Frames ==
  [kind : {"data", "ref", "bad"}, id : Ids, content : Contents,
   seq : Nat, at : 0 .. NBlocks, source : Nat]

\* An archive: the header, the frames, and index, footer and trailer, which
\* carry the id of the archive they were written for and the image.
Archives ==
  [id : Ids, flags : Flags, frames : [Blocks -> Frames],
   tail : Ids \cup {"bad"}, image : Images]

\* The archive of i, where every repeated block is a reference.
First(i, p) == CHOOSE q \in 1 .. p : i[q] = i[p] /\ \A r \in 1 .. q - 1 : i[r] # i[p]
Encoded(i, id, fl) ==
  [id |-> id, flags |-> fl, tail |-> id, image |-> i,
   frames |-> [p \in Blocks |->
     IF fl.dedup /\ First(i, p) < p
     THEN RefFrame(id, i[p], p - 1, First(i, p), First(i, p) - 1)
     ELSE DataFrame(id, i[p], p - 1)]]

-----------------------------------------------------------------------------

\* decompress_block: an encrypted frame opens with the key of its archive and
\* under its own sequence only.
Opens(a, f, seq) ==
  /\ f.kind = "data"
  /\ a.flags.encrypt => f.id = a.id /\ f.seq = seq

\* zupt_dedup_read_ref: a reference is authenticated in new archives only.
RefOpens(a, f, seq) ==
  /\ f.kind = "ref"
  /\ a.flags.auth => f.id = a.id /\ f.seq = seq

\* An encrypted archive whose references do not say under which sequence the
\* frame they point to was sealed: a map of all frames has to be built.
LegacyDedup(a) == a.flags.encrypt /\ a.flags.dedup /\ ~a.flags.auth
MapBuilt(a) == LegacyDedup(a) => \A p \in Blocks : a.frames[p].kind # "bad"
SourceSeq(a, f) == IF LegacyDedup(a) THEN f.at - 1 ELSE f.source

\* open_archive: the trailer must fit header and footer.
OpensArchive(a) == a.tail = a.id

\* zupt_test_archive_stream finds c in block p.  A reference may point to any
\* frame before the end of its own.
TestReads(a, p, c) ==
  LET f == a.frames[p]
      r == a.frames[f.at]
  IN  \/ Opens(a, f, p - 1) /\ c = f.content
      \/ /\ RefOpens(a, f, p - 1)
         /\ f.at \in 1 .. p
         /\ r.kind = "data" /\ r.content = f.content
         /\ Opens(a, r, SourceSeq(a, f)) /\ c = r.content

\* zupt_test_archive_stream accepts a, which it reads as the image i.
TestedAs(a, i) ==
  /\ OpensArchive(a) /\ MapBuilt(a)
  /\ \A p \in Blocks : TestReads(a, p, i[p])
  /\ a.flags.hash => i = a.image

Tested(a) == \E i \in Images : TestedAs(a, i)
=============================================================================
