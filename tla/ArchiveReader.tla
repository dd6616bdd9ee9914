--------------------------- MODULE ArchiveReader ----------------------------
(***************************************************************************)
(* What zupt_format.c makes of a file it is given: how an archive is       *)
(* opened, decoded, listed, tested and, in solid mode, extracted.  Nothing *)
(* here changes state, so it is a module of operators.                     *)
(*                                                                         *)
(* A file is a header, frames, a footer and perhaps a trailer (the AIT).   *)
(* Places in the file are frame numbers; contents are sequences of units,  *)
(* and the checksum of a content is the content: checksums do not collide. *)
(* Offsets, sizes and hashes of an index entry are those of the solid      *)
(* stream.                                                                 *)
(***************************************************************************)
EXTENDS Envelope, Integers, SequencesExt

CONSTANT MaxSolid   \* the largest solid stream a reader takes (4 GiB), in units

\* Sentinel sequences of the frames that belong to no file.
IndexSeq == -1
CommentSeq == -2

\* The sequence of a block of a solid archive, 1 << 32 | block_seq: all of
\* them count as file 0.
SolidSeq(blockSeq) == blockSeq

Flags == {"encrypted", "solid", "dedup", "aadSeq", "preface", "authRefs",
          "disk", "diskHash"}

Ok(out) == [err |-> "OK", out |-> out]
Fails(err) == [err |-> err, out |-> <<>>]

-----------------------------------------------------------------------------
(* Frames.  The seal of an encrypted frame records the key, the sequence   *)
(* and, when the archive binds prefaces, the preface it was made under;    *)
(* whole is FALSE once the payload has been damaged.  A ring is the        *)
(* zupt_keyring_t in use: its key and use_preface_aad.                     *)

\* zupt_serialize_preface_aad: the fields of a frame outside its payload.
Preface(frame) ==
  [type |-> frame.type, sealed |-> frame.sealed, size |-> frame.size, sum |-> frame.sum]

\* zupt_encrypt_buffer_aad: what the MAC of a package covers.
Seal(ring, seq, preface) ==
  [key |-> ring.key, seq |-> seq, preface |-> IF ring.preface THEN <<preface>> ELSE <<>>]

\* The frame the writers make of a content: keyring.active decides about the
\* seal.
Frame(type, body, ring, seq) ==
  LET bare == [type |-> type, sealed |-> ring.key # NoKey, size |-> Len(body),
               sum |-> body, body |-> body, whole |-> TRUE, seal |-> <<>>]
  IN  IF ring.key = NoKey THEN bare
      ELSE [bare EXCEPT !.seal = <<Seal(ring, seq, Preface(bare))>>]

\* zupt_decrypt_buffer_aad: with bound prefaces one candidate; without, the
\* sequence may also be missing from the MAC, as in the first archives, which
\* no writer makes any more.
SealHolds(frame, ring, seq) ==
  frame.whole /\ frame.seal = <<Seal(ring, seq, Preface(frame))>>

\* Mutant: a frame of size zero is answered before its seal is looked at.
DecodeEmptyFirst(frame, ring, seq) ==
  IF frame.size = 0 THEN Ok(<<>>)
  ELSE IF frame.sealed # (ring.key # NoKey) THEN Fails("AUTH_FAIL")
  ELSE IF frame.sealed /\ ~SealHolds(frame, ring, seq) THEN Fails("AUTH_FAIL")
  ELSE IF frame.size # Len(frame.body) \/ (frame.seal # <<>> /\ ~frame.sealed)
  THEN Fails("CORRUPT")
  ELSE IF ~frame.whole \/ frame.sum # frame.body THEN Fails("BAD_CHECKSUM")
  ELSE Ok(frame.body)

\* decompress_block.  In an encrypted archive every frame must be sealed; a
\* frame of size zero gives nothing, unchecked.
Decode(frame, ring, seq) ==
  IF frame.sealed # (ring.key # NoKey) THEN Fails("AUTH_FAIL")
  ELSE IF frame.sealed /\ ~SealHolds(frame, ring, seq) THEN Fails("AUTH_FAIL")
  ELSE IF frame.size = 0 THEN Ok(<<>>)
  ELSE IF frame.size # Len(frame.body) \/ (frame.seal # <<>> /\ ~frame.sealed)
  THEN Fails("CORRUPT")
  ELSE IF ~frame.whole \/ frame.sum # frame.body THEN Fails("BAD_CHECKSUM")
  ELSE Ok(frame.body)

\* Is there a frame for read_block at this place?
Readable(file, at) == at \in 1 .. Len(file.frames)

-----------------------------------------------------------------------------
(* Opening.                                                                *)

\* zupt_format_ait_write: the trailer is over the header and the footer,
\* under the MAC key of an encrypted archive, a checksum otherwise.
Trailer(header, footer, key) ==
  <<[header |-> header, footer |-> footer, key |-> key]>>

\* Which flags may stand together.
FlagsConsistent(flags) ==
  /\ "authRefs" \in flags => {"encrypted", "dedup", "aadSeq", "preface"} \subseteq flags
  /\ "preface" \in flags => {"encrypted", "aadSeq"} \subseteq flags
  /\ "diskHash" \in flags => "disk" \in flags

\* read_enc_header: the frame of the envelope is checked as it is outside any
\* MAC.
EnvelopeFrame(file) ==
  IF ~Readable(file, file.header.encAt) THEN Fails("CORRUPT")
  ELSE LET eb == file.frames[file.header.encAt]
       IN  IF eb.type # "enc" \/ eb.sealed \/ eb.size # Len(eb.body) \/ eb.size = 0
           THEN Fails("CORRUPT")
           ELSE IF ~eb.whole \/ eb.sum # eb.body THEN Fails("BAD_CHECKSUM")
           ELSE Ok(eb.body)

\* The ring open_archive ends up with.
RingOf(file, opts) ==
  [key |-> IF "encrypted" \notin file.header.flags THEN NoKey
           ELSE OpenEnvelope(EnvelopeFrame(file).out[1], opts),
   preface |-> "preface" \in file.header.flags]

\* The comment, if the header points to one.
CommentOf(file, ring) ==
  IF file.header.commentAt = 0 THEN Ok(<<>>)
  ELSE IF ~Readable(file, file.header.commentAt) THEN Fails("IO")
  ELSE LET cb == file.frames[file.header.commentAt]
       IN  IF cb.type # "comment" \/ cb.size = 0 THEN Fails("CORRUPT")
           ELSE Decode(cb, ring, CommentSeq)

\* The INDEX frame; disk archives of the first versions left it bare.
IndexOf(file, ring) ==
  LET bare == /\ {"disk", "encrypted"} \subseteq file.header.flags
              /\ "diskHash" \notin file.header.flags
  IN  IF ~Readable(file, file.footer.indexAt) THEN Fails("CORRUPT")
      ELSE IF file.frames[file.footer.indexAt].type # "index" THEN Fails("CORRUPT")
      ELSE Decode(file.frames[file.footer.indexAt],
                  IF bare THEN [ring EXCEPT !.key = NoKey] ELSE ring, IndexSeq)

\* What the trailer says of header and footer.
TrailerError(file, ring) ==
  IF file.ait = <<>> \/ file.ait = Trailer(file.header, file.footer, ring.key) THEN "OK"
  ELSE IF "encrypted" \in file.header.flags THEN "AUTH_FAIL" ELSE "BAD_CHECKSUM"

\* read_header, locate_footer_v15 and the first checks of open_archive: an
\* archive without a trailer is refused unless the caller insists.
LayoutError(file, opts) ==
  IF ~file.header.magic THEN "BAD_MAGIC"
  ELSE IF ~file.footer.magic THEN "CORRUPT"
  ELSE IF file.ait = <<>> /\ ~opts.legacy THEN "AUTH_FAIL"
  ELSE IF FlagsConsistent(file.header.flags) THEN "OK" ELSE "CORRUPT"

\* read_enc_header, if the archive says it is encrypted.
EnvelopeError(file, opts) ==
  IF "encrypted" \notin file.header.flags THEN "OK"
  ELSE IF EnvelopeFrame(file).err # "OK" THEN EnvelopeFrame(file).err
  ELSE IF OpenEnvelope(EnvelopeFrame(file).out[1], opts) = NoKey THEN "AUTH_FAIL"
  ELSE "OK"

\* open_archive.  The trailer is verified once the envelope gave the key, and
\* before anything it covers is used.
OpenArchive(file, opts) ==
  LET ring == RingOf(file, opts)
      Refused(err) == [err |-> err, ring |-> [key |-> NoKey, preface |-> FALSE],
                       entries |-> <<>>, comment |-> <<>>]
  IN  IF LayoutError(file, opts) # "OK" THEN Refused(LayoutError(file, opts))
      ELSE IF EnvelopeError(file, opts) # "OK" THEN Refused(EnvelopeError(file, opts))
      ELSE IF TrailerError(file, ring) # "OK" THEN Refused(TrailerError(file, ring))
      ELSE IF CommentOf(file, ring).err # "OK" THEN Refused(CommentOf(file, ring).err)
      ELSE IF IndexOf(file, ring).err # "OK" THEN Refused(IndexOf(file, ring).err)
      ELSE [err |-> "OK", ring |-> ring, entries |-> IndexOf(file, ring).out,
            comment |-> CommentOf(file, ring).out]

\* zupt_list_archive prints the index, or nothing.
List(file, opts) ==
  [err |-> OpenArchive(file, opts).err, entries |-> OpenArchive(file, opts).entries]

-----------------------------------------------------------------------------
(* The solid stream.                                                       *)

\* The sizes of the first i entries, added up.
Sizes(entries) ==
  LET sum[i \in 0 .. Len(entries)] == IF i = 0 THEN 0 ELSE sum[i - 1] + entries[i].size
  IN  sum

TotalSize(entries) == Sizes(entries)[Len(entries)]

\* Frames of the stream: from behind the envelope to the comment or index.
StreamFrom(header) == IF "encrypted" \in header.flags THEN 2 ELSE 1
StreamEnd(file) ==
  IF file.header.commentAt # 0 THEN file.header.commentAt ELSE file.footer.indexAt

\* One turn of the reading loops: the next frame has to be DATA, to decode
\* under the next sequence, and to fit the total.
StreamStep(file, ring, total, got, at) ==
  LET frame == file.frames[at]
      dec == Decode(frame, ring, SolidSeq(at - StreamFrom(file.header)))
  IN  IF got.err # "OK" THEN got
      ELSE IF frame.type # "data" \/ dec.err # "OK" THEN Fails("CORRUPT")
      ELSE IF Len(dec.out) > total - Len(got.out) THEN Fails("CORRUPT")
      ELSE Ok(got.out \o dec.out)

\* What the loop has after i turns.
StreamUpTo(file, ring, total) ==
  LET first == StreamFrom(file.header)
      turns[i \in 0 .. StreamEnd(file) - first] ==
        IF i = 0 THEN Ok(<<>>)
        ELSE StreamStep(file, ring, total, turns[i - 1], first + i - 1)
  IN  turns

\* The whole stream, which has to be as long as the entries say and made of
\* as many blocks as the footer says.
Stream(file, ring, entries) ==
  LET total == TotalSize(entries)
      first == StreamFrom(file.header)
      end == StreamEnd(file)
      metadata == IF file.header.commentAt # 0 THEN 2 ELSE 1
      got == StreamUpTo(file, ring, total)[end - first]
  IN  IF total > MaxSolid THEN Fails("OVERFLOW")
      ELSE IF end < first \/ end > Len(file.frames) + 1 THEN Fails("CORRUPT")
      ELSE IF \/ got.err # "OK" \/ Len(got.out) # total
              \/ end - first # file.footer.total - metadata
      THEN Fails("CORRUPT")
      ELSE got

\* The span of the stream that is a file's.
Stretch(stream, e) == SubSeq(stream, e.offset + 1, e.offset + e.size)

\* Mutant: the span is not compared with the hash.
SoundUnhashed(stream, e) == e.offset + e.size <= Len(stream)

\* Within the stream, and hashing to what the index says.
Sound(stream, e) ==
  e.offset + e.size <= Len(stream) /\ Stretch(stream, e) = e.hash

\* What zupt_test_archive_stream asks of it: the hash of an empty span is not
\* looked at.
PassesTest(stream, e) ==
  e.offset + e.size <= Len(stream) /\ (e.size > 0 => Stretch(stream, e) = e.hash)

\* Mutant: the test looks at the stream only.
TestAnyway(file, opts) ==
  LET a == OpenArchive(file, opts)
      stream == Stream(file, a.ring, a.entries)
  IN  IF a.err # "OK" THEN a.err ELSE stream.err

\* zupt_test_archive_stream for a solid archive.
Test(file, opts) ==
  LET a == OpenArchive(file, opts)
      stream == Stream(file, a.ring, a.entries)
  IN  IF a.err # "OK" THEN a.err
      ELSE IF stream.err # "OK" THEN stream.err
      ELSE IF \A i \in DOMAIN a.entries : PassesTest(stream.out, a.entries[i]) THEN "OK"
      ELSE "BAD_CHECKSUM"

\* What the two extraction loops of zupt_extract_archive offer to write:
\* entries and their contents.  Without the solid flag the entries of a solid
\* archive have no blocks, so only empty files come out.
Recovered(file, opts) ==
  LET a == OpenArchive(file, opts)
      stream == Stream(file, a.ring, a.entries)
      solid == "solid" \in file.header.flags
      Give(e) == [path |-> e.path, content |-> Stretch(stream.out, e)]
  IN  IF a.err # "OK" THEN [err |-> a.err, files |-> {}]
      ELSE IF solid /\ stream.err # "OK" THEN [err |-> stream.err, files |-> {}]
      ELSE LET good == {i \in DOMAIN a.entries :
                          IF solid THEN Sound(stream.out, a.entries[i])
                          ELSE a.entries[i].size = 0 /\ a.entries[i].hash = <<>>}
           IN  [err |-> IF good = DOMAIN a.entries THEN "OK" ELSE "CORRUPT",
                files |-> {IF solid THEN Give(a.entries[i])
                           ELSE [path |-> a.entries[i].path, content |-> <<>>] : i \in good}]
=============================================================================
