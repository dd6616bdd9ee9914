---------------------------- MODULE SolidArchive ----------------------------
(***************************************************************************)
(* zupt_compress_solid (zupt_format.c): all input files become one stream, *)
(* cut into blocks.  The inputs are looked at twice: a first pass notes    *)
(* identity and size of every file, a second one reads them and insists on *)
(* the same identities.  Other programs may change, replace or remove the  *)
(* inputs at any time.  What a reader makes of the archive, also after it  *)
(* was damaged in storage, is ArchiveReader's.                             *)
(*                                                                         *)
(* A node is a file of the input file system, a stamp the modification     *)
(* time of its last change, and every change gives a new one.              *)
(***************************************************************************)
EXTENDS ArchiveReader, ArchivePaths

CONSTANTS
  Symbols,        \* what contents and comments are made of
  InputContents,  \* the contents inputs may have at first: sequences of contents
  NewContents,    \* the contents other programs give to a file
  WriterOpts,     \* the options a run of the program may have
  Readers,        \* the options and credentials readers may have
  BlockUnits,     \* opts->block_size, in units
  MaxEvents       \* bound: changes by other programs

\* There is an input; what is sealed is not sealed to nothing.
ASSUME SolidAssumption ==
  /\ BlockUnits \in Nat \ {0} /\ MaxSolid \in Nat
  /\ MaxEvents \in Nat
  /\ \A c \in InputContents : c \in Seq(Seq(Symbols)) /\ c # <<>>
  /\ \A c \in NewContents : c \in Seq(Symbols)
  /\ \A o \in WriterOpts :
       /\ o.comment \in Seq(Symbols) /\ o.encrypt \in BOOLEAN
       /\ \A c \in InputContents : DOMAIN o.paths = DOMAIN c /\ Len(o.paths) = Len(c)
       /\ o.encrypt => SealedKey(o, "salt") # NoKey

VARIABLES
  nodes,     \* the nodes of the input file system
  name,      \* the node each input path leads to, 0 if there is none
  events,    \* how often other programs acted
  opts,      \* what the program was started with
  pc,        \* where zupt_compress_solid is
  at,        \* fi
  ids,       \* source_identities
  entries,   \* index
  handle,    \* the node of the open stream
  got,       \* what was read of it
  buf,       \* solid_buf
  blockSeq,  \* block_seq
  ring,      \* opts->keyring
  archive,   \* the temporary output: header, frames, footer, trailer
  torn,      \* write_err, or the error indicator of the output stream
  stored,    \* what is at the output path: nothing or a file
  damaged,   \* was it damaged there?
  instant    \* history: the inputs' contents when the first pass ended

inputVars == <<nodes, name, events>>
readVars == <<at, ids, entries, handle, got, buf, instant>>
writeVars == <<blockSeq, ring, archive, torn>>
storeVars == <<stored, damaged>>
solidVars == <<inputVars, opts, pc, readVars, writeVars, storeVars>>

Inputs == DOMAIN name
ContentOf(f) == IF name[f] = 0 THEN <<>> ELSE nodes[name[f]].content

\* zupt_input_identity_from_stream
Identity(n) ==
  [node |-> n, size |-> Len(nodes[n].content), stamp |-> nodes[n].stamp]

Nothing == [header |-> [magic |-> FALSE, flags |-> {}, encAt |-> 0, commentAt |-> 0],
            frames |-> <<>>,
            footer |-> [magic |-> FALSE, indexAt |-> 0, total |-> 0],
            ait |-> <<>>]

SolidInit ==
  /\ opts \in WriterOpts
  /\ \E contents \in InputContents :
       /\ nodes = [i \in DOMAIN contents |-> [stamp |-> 0, content |-> contents[i]]]
       /\ name = [i \in DOMAIN contents |-> i]
  /\ events = 0 /\ pc = "start" /\ at = 1 /\ ids = <<>> /\ entries = <<>>
  /\ handle = 0 /\ got = <<>> /\ buf = <<>> /\ instant = <<>>
  /\ blockSeq = 0 /\ ring = [key |-> NoKey, preface |-> FALSE]
  /\ archive = Nothing /\ torn = FALSE
  /\ stored = <<>> /\ damaged = FALSE

-----------------------------------------------------------------------------
(* Other programs.                                                         *)

Running == pc \notin {"published", "failed"}

Disturb == Running /\ events < MaxEvents /\ events' = events + 1

\* An input is written in place; a stream open on it sees that.
Edit(f, content) ==
  /\ Disturb /\ name[f] # 0
  /\ nodes' = [nodes EXCEPT ![name[f]] = [stamp |-> @.stamp + 1, content |-> content]]
  /\ UNCHANGED <<name, opts, pc, readVars, writeVars, storeVars>>

\* Another file is renamed over an input, perhaps one with the same time; a
\* stream open on the old one keeps it.
Replace(f, content) ==
  /\ Disturb /\ name[f] # 0
  /\ nodes' = Append(nodes, [stamp |-> nodes[name[f]].stamp, content |-> content])
  /\ name' = [name EXCEPT ![f] = Len(nodes) + 1]
  /\ UNCHANGED <<opts, pc, readVars, writeVars, storeVars>>

Unlink(f) ==
  /\ Disturb /\ name[f] # 0
  /\ name' = [name EXCEPT ![f] = 0]
  /\ UNCHANGED <<nodes, opts, pc, readVars, writeVars, storeVars>>

-----------------------------------------------------------------------------
(* The program.                                                            *)

\* zupt_atomic_output_finish(atomic_output, 0): the temporary is discarded.
Fail ==
  /\ pc' = "failed" /\ archive' = Nothing
  /\ UNCHANGED <<inputVars, opts, readVars, blockSeq, ring, torn, storeVars>>

\* The checks before the output is opened, then header and envelope.
Start(salt) ==
  /\ pc = "start"
  /\ IF \/ ~ValidDestinations(opts.paths, TRUE)
        \/ opts.overInput
        \/ opts.encrypt /\ ~CanSeal(EnvelopeType(opts), opts)
     THEN Fail
     ELSE LET key == IF opts.encrypt THEN SealedKey(opts, salt) ELSE NoKey
              env == EnvelopeOf(key)
          IN  /\ ring' = [key |-> key, preface |-> opts.encrypt]
              /\ archive' =
                   [Nothing EXCEPT
                      !.header = [magic |-> TRUE, encAt |-> IF opts.encrypt THEN 1 ELSE 0,
                                  commentAt |-> 0,
                                  flags |-> {"solid"} \cup
                                    IF opts.encrypt THEN {"encrypted", "aadSeq", "preface"}
                                    ELSE {}],
                      !.frames = IF opts.encrypt
                                 THEN <<Frame("enc", <<env>>, [ring EXCEPT !.key = NoKey], 0)>>
                                 ELSE <<>>]
              /\ pc' = "stat"
              /\ UNCHANGED <<inputVars, opts, readVars, blockSeq, torn, storeVars>>

\* The first pass: identity, size and place in the stream of one file.
StatInput ==
  /\ pc = "stat"
  /\ IF name[at] = 0 THEN Fail
     ELSE /\ ids' = Append(ids, Identity(name[at]))
          /\ entries' = Append(entries, [path |-> opts.paths[at], size |-> Len(ContentOf(at)),
                                         offset |-> TotalSize(entries), hash |-> <<>>])
          /\ IF at = Len(opts.paths)
             THEN pc' = "reopen" /\ at' = 1 /\ instant' = [f \in Inputs |-> ContentOf(f)]
             ELSE pc' = "stat" /\ at' = at + 1 /\ UNCHANGED instant
          /\ UNCHANGED <<inputVars, opts, handle, got, buf, writeVars, storeVars>>

\* The second pass opens the file again and wants the same identity.
Reopen ==
  /\ pc = "reopen"
  /\ IF name[at] = 0 THEN Fail
     ELSE IF Identity(name[at]) # ids[at] THEN Fail
     ELSE /\ handle' = name[at] /\ got' = <<>> /\ pc' = "read"
          /\ UNCHANGED <<inputVars, opts, at, ids, entries, buf, instant, writeVars, storeVars>>

\* fread, unit by unit; it comes up short if the file shrank.
ReadUnit ==
  /\ pc = "read" /\ Len(got) < entries[at].size
  /\ IF Len(got) >= Len(nodes[handle].content) THEN Fail
     ELSE /\ got' = Append(got, nodes[handle].content[Len(got) + 1])
          /\ UNCHANGED <<inputVars, opts, pc, at, ids, entries, handle, buf, instant,
                         writeVars, storeVars>>

\* fgetc has to find the end of the file.
ReadEnd ==
  /\ pc = "read" /\ Len(got) = entries[at].size
  /\ IF Len(nodes[handle].content) > Len(got) THEN Fail
     ELSE /\ pc' = "recheck"
          /\ UNCHANGED <<inputVars, opts, readVars, writeVars, storeVars>>

\* Mutant: the identity is not asked for again.
RecheckSkipped ==
  /\ pc = "recheck"
  /\ buf' = buf \o got
  /\ IF at = Len(opts.paths) THEN pc' = "hash" /\ at' = 1
     ELSE pc' = "reopen" /\ at' = at + 1
  /\ UNCHANGED <<inputVars, opts, ids, entries, handle, got, instant, writeVars, storeVars>>

\* final_identity: had the open stream been written to, its time would tell.
Recheck ==
  /\ pc = "recheck"
  /\ IF Identity(handle) # ids[at] THEN Fail
     ELSE /\ buf' = buf \o got
          /\ IF at = Len(opts.paths) THEN pc' = "hash" /\ at' = 1
             ELSE pc' = "reopen" /\ at' = at + 1
          /\ UNCHANGED <<inputVars, opts, ids, entries, handle, got, instant,
                         writeVars, storeVars>>

\* content_hash of every file, over its span of the buffer.
HashFiles ==
  /\ pc = "hash"
  /\ entries' = [i \in DOMAIN entries |->
                   [entries[i] EXCEPT !.hash = Stretch(buf, entries[i])]]
  /\ pc' = "encode"
  /\ UNCHANGED <<inputVars, opts, at, ids, handle, got, buf, instant, writeVars, storeVars>>

-----------------------------------------------------------------------------
(* Writing.  A write may come to nothing; the stream remembers it.         *)

Put(frame, lost) ==
  [archive EXCEPT !.frames = IF lost THEN @ ELSE Append(@, frame)]

\* One turn of the block loop.
EncodeBlock(lost) ==
  /\ pc = "encode" /\ Len(buf) > blockSeq * BlockUnits
  /\ LET end == Min({Len(buf), (blockSeq + 1) * BlockUnits})
         chunk == SubSeq(buf, blockSeq * BlockUnits + 1, end)
     IN  archive' = Put(Frame("data", chunk, ring, SolidSeq(blockSeq)), lost)
  /\ blockSeq' = blockSeq + 1
  /\ torn' = (torn \/ lost)
  /\ UNCHANGED <<inputVars, opts, pc, readVars, ring, storeVars>>

\* write_comment_block and, if there is a comment, the header once more.
WriteComment(lost) ==
  /\ pc = "encode" /\ Len(buf) <= blockSeq * BlockUnits
  /\ IF opts.comment = <<>>
     THEN /\ ~lost /\ pc' = "index"
          /\ UNCHANGED <<inputVars, opts, readVars, writeVars, storeVars>>
     ELSE IF lost THEN Fail
     ELSE /\ archive' = [Put(Frame("comment", opts.comment, ring, CommentSeq), FALSE)
                           EXCEPT !.header.commentAt = Len(archive.frames) + 1]
          /\ pc' = "index"
          /\ UNCHANGED <<inputVars, opts, readVars, blockSeq, ring, torn, storeVars>>

\* The central index, and the footer behind it.
WriteIndex(lost) ==
  /\ pc = "index"
  /\ archive' = [Put(Frame("index", entries, ring, IndexSeq), lost) EXCEPT
                   !.footer = [magic |-> TRUE, indexAt |-> Len(archive.frames) + 1,
                               total |-> blockSeq + (IF opts.comment = <<>> THEN 0 ELSE 1) + 1]]
  /\ torn' = (torn \/ lost)
  /\ pc' = "close"
  /\ UNCHANGED <<inputVars, opts, readVars, blockSeq, ring, storeVars>>

\* The trailer, and zupt_atomic_output_finish.
Publish ==
  /\ pc = "close"
  /\ IF torn THEN Fail
     ELSE /\ stored' = <<[archive EXCEPT !.ait =
                            Trailer(archive.header, archive.footer, ring.key)]>>
          /\ pc' = "published"
          /\ UNCHANGED <<inputVars, opts, readVars, writeVars, damaged>>

-----------------------------------------------------------------------------
(* Storage.                                                                *)

(* One accident: a frame is hit, lost, doubled or out of order, a field of
   header or footer is hit, and the trailer may be cut off with it.        *)

\* What becomes of a frame that is hit.
DamagedFrames(frame) ==
  {[frame EXCEPT !.whole = FALSE], [frame EXCEPT !.sealed = ~@],
   [frame EXCEPT !.size = @ + 1], [frame EXCEPT !.size = 0], [frame EXCEPT !.sum = <<>>]}
  \cup {[frame EXCEPT !.type = t] : t \in {"data", "index"}}

\* The archive is found again as file, with or without its trailer.
FoundAs(file) ==
  /\ stored' \in {<<file>>, <<[file EXCEPT !.ait = <<>>]>>}
  /\ pc = "published" /\ ~damaged /\ damaged' = TRUE
  /\ UNCHANGED <<inputVars, opts, pc, readVars, writeVars>>

DamageFrames ==
  /\ pc = "published" /\ ~damaged
  /\ LET file == stored[1]
         frames == file.frames
     IN  \E i \in DOMAIN frames :
           \/ \E d \in DamagedFrames(frames[i]) :
                FoundAs([file EXCEPT !.frames = [frames EXCEPT ![i] = d]])
           \/ FoundAs([file EXCEPT !.frames = RemoveAt(frames, i)])
           \/ FoundAs([file EXCEPT !.frames = InsertAt(frames, i, frames[i])])
           \/ \E j \in DOMAIN frames :
                FoundAs([file EXCEPT !.frames = [frames EXCEPT ![i] = frames[j], ![j] = frames[i]]])

DamageFields ==
  /\ pc = "published" /\ ~damaged
  /\ LET file == stored[1]
         places == {0} \cup DOMAIN file.frames
     IN  \/ \E g \in file.header.flags : FoundAs([file EXCEPT !.header.flags = @ \ {g}])
         \/ \E i \in places : FoundAs([file EXCEPT !.header.commentAt = i])
         \/ \E i \in places : FoundAs([file EXCEPT !.footer.indexAt = i])
         \/ FoundAs([file EXCEPT !.footer.total = @ + 1])
         \/ FoundAs([file EXCEPT !.header.magic = FALSE])

SolidNext ==
  \/ \E f \in Inputs, c \in NewContents : Edit(f, c) \/ Replace(f, c)
  \/ \E f \in Inputs : Unlink(f)
  \/ Start("salt") \/ StatInput \/ Reopen \/ ReadUnit \/ ReadEnd \/ Recheck \/ HashFiles
  \/ \E lost \in BOOLEAN : EncodeBlock(lost) \/ WriteComment(lost) \/ WriteIndex(lost)
  \/ Publish \/ DamageFrames \/ DamageFields

SolidSpec == SolidInit /\ [][SolidNext]_solidVars

-----------------------------------------------------------------------------
(* What a reader who is given the output path learns.                      *)

Original == {[path |-> opts.paths[f], content |-> instant[f]] : f \in Inputs}

\* The credential the archive was made for, if it was made for any.
RightKey(r) ==
  opts.encrypt => OpenEnvelope(EnvelopeOf(ring.key), r) = ring.key

\* PROPERTY: a published solid archive holds all inputs as they were at one
\* instant, under their names, for whoever has the key: never a mixture of two
\* states.  Only if it is larger than readers take nobody gets anything out
\* (zupt_format.c:2910-3352, 4349).
SolidSnapshot ==
  pc = "published" /\ ~damaged =>
    \A r \in Readers :
      RightKey(r) =>
        /\ OpenArchive(stored[1], r).comment = opts.comment
        /\ Recovered(stored[1], r) =
             IF TotalSize(entries) <= MaxSolid THEN [err |-> "OK", files |-> Original]
             ELSE [err |-> "OVERFLOW", files |-> {}]

\* PROPERTY: whatever happens to the archive in storage, and whatever options the
\* reader has, a file that is given out is one of the originals, and a
\* comment is the original one or none (zupt_format.c:4342-4481).
SolidNothingWrong ==
  pc = "published" =>
    \A r \in Readers :
      /\ Recovered(stored[1], r).files \subseteq Original
      /\ OpenArchive(stored[1], r).comment \in {<<>>, opts.comment}

\* PROPERTY: without the right credential nothing of an encrypted archive is given
\* out, and not even an empty list or a good verdict, damaged or not
\* (zupt_format.c:3745-3932, 4342-4481).
SolidNeedsTheKey ==
  pc = "published" =>
    \A r \in Readers :
      ~RightKey(r) => /\ Recovered(stored[1], r).files = {}
                      /\ List(stored[1], r).err # "OK"
                      /\ Test(stored[1], r) # "OK"

\* PROPERTY: the test of an archive fails exactly when an extraction would
\* (zupt_format.c:4832-4934).
SolidTestTellsTheTruth ==
  pc = "published" /\ "solid" \in stored[1].header.flags =>
    \A r \in Readers :
      (Test(stored[1], r) = "OK") = (Recovered(stored[1], r).err = "OK")

-----------------------------------------------------------------------------
(* The inductive invariant.                                                *)

Phases ==
  {"start", "stat", "reopen", "read", "recheck", "hash", "encode", "index", "close",
   "published", "failed"}

\* The first pass is over; all inputs are in buf; the entries are complete.
Surveyed == pc \notin {"start", "stat"}
Gathered == pc \in {"hash", "encode", "index", "close", "published"}
Hashed == pc \in {"encode", "index", "close", "published"}

NodeType == [stamp : Nat, content : Seq(Symbols)]
IdentityType == [node : Nat \ {0}, size : Nat, stamp : Nat]
EntryType ==
  [path : {opts.paths[f] : f \in DOMAIN opts.paths}, size : Nat, offset : Nat, hash : Seq(Symbols)]

OptionsTyped ==
  /\ opts \in WriterOpts /\ pc \in Phases
  /\ Len(opts.paths) \in Nat \ {0} /\ DOMAIN opts.paths = 1 .. Len(opts.paths)
  /\ at \in DOMAIN opts.paths

InputsTyped ==
  /\ nodes \in Seq(NodeType) /\ name \in [DOMAIN opts.paths -> 0 .. Len(nodes)]
  /\ events \in Nat

ReadsTyped ==
  /\ ids \in Seq(IdentityType) /\ entries \in Seq(EntryType)
  /\ handle \in 0 .. Len(nodes) /\ got \in Seq(Symbols) /\ buf \in Seq(Symbols)
  /\ Surveyed => instant \in [DOMAIN opts.paths -> Seq(Symbols)]

WritesTyped == blockSeq \in Nat /\ torn \in BOOLEAN /\ damaged \in BOOLEAN

SolidTypeOK == OptionsTyped /\ InputsTyped /\ ReadsTyped /\ WritesTyped

\* The entries follow each other in the stream.
EntriesTrue ==
  /\ Len(ids) = IF Surveyed THEN Len(opts.paths) ELSE at - 1
  /\ Len(entries) = Len(ids)
  /\ \A f \in DOMAIN entries :
       /\ entries[f].path = opts.paths[f] /\ entries[f].size = ids[f].size
       /\ entries[f].offset = IF f = 1 THEN 0 ELSE entries[f - 1].offset + entries[f - 1].size

\* An input that is still the node it was, with the stamp it had, has the content
\* it had when the first pass ended.
InputsNoted ==
  \A f \in DOMAIN ids :
    /\ ids[f].node \in DOMAIN nodes
    /\ ids[f].stamp <= nodes[ids[f].node].stamp
    /\ Surveyed /\ name[f] = ids[f].node /\ ids[f].stamp = nodes[ids[f].node].stamp
         => nodes[ids[f].node].content = instant[f]

\* What is read of a node is that content, while it has the stamp it had.
ReadSoFar ==
  pc \in {"read", "recheck"} =>
    /\ handle = ids[at].node /\ Len(got) <= ids[at].size
    /\ Len(instant[at]) = ids[at].size
    /\ pc = "recheck" => Len(got) = ids[at].size
    /\ ids[at].stamp = nodes[handle].stamp =>
         /\ nodes[handle].content = instant[at]
         /\ \A i \in DOMAIN got : got[i] = instant[at][i]

\* The content of an input is in the stream at its place.
InStream(f) ==
  /\ Len(instant[f]) = entries[f].size
  /\ entries[f].offset + entries[f].size <= Len(buf)
  /\ \A i \in 1 .. entries[f].size : buf[entries[f].offset + i] = instant[f][i]

StreamTrue ==
  /\ pc \in {"start", "stat"} => buf = <<>>
  /\ pc \in {"reopen", "read", "recheck"} =>
       Len(buf) = entries[at].offset /\ \A f \in 1 .. at - 1 : InStream(f)
  /\ Gathered =>
       /\ Len(buf) = entries[Len(entries)].offset + entries[Len(entries)].size
       /\ \A f \in DOMAIN entries : InStream(f)
  /\ Hashed => \A f \in DOMAIN entries : entries[f].hash = instant[f]

\* How much of the stream the blocks hold.
BlocksTrue ==
  /\ ~Hashed => blockSeq = 0 /\ ~torn
  /\ Hashed => blockSeq = 0 \/ (blockSeq - 1) * BlockUnits < Len(buf)
  /\ Hashed /\ pc # "encode" => Len(buf) <= blockSeq * BlockUnits

Chunk(i) ==
  SubSeq(buf, (i - 1) * BlockUnits + 1, Min({Len(buf), i * BlockUnits}))

Enveloped == IF opts.encrypt THEN 1 ELSE 0
Commented == opts.comment # <<>> /\ pc \in {"index", "close", "published"}
Indexed == pc \in {"close", "published"}
CommentAt == IF Commented THEN Enveloped + blockSeq + 1 ELSE 0
IndexAt == Enveloped + blockSeq + (IF Commented THEN 1 ELSE 0) + 1

RingTrue ==
  ring = IF pc = "start" THEN [key |-> NoKey, preface |-> FALSE]
         ELSE [key |-> IF opts.encrypt THEN SealedKey(opts, "salt") ELSE NoKey,
               preface |-> opts.encrypt]

\* The archive so far: envelope, blocks, comment, index.
FramesTrue ==
  /\ archive = [header |-> archive.header, frames |-> archive.frames,
                footer |-> archive.footer, ait |-> <<>>]
  /\ archive.header =
       [magic |-> TRUE, encAt |-> Enveloped, commentAt |-> CommentAt,
        flags |-> {"solid"} \cup IF opts.encrypt THEN {"encrypted", "aadSeq", "preface"} ELSE {}]
  /\ archive.footer =
       IF Indexed THEN [magic |-> TRUE, indexAt |-> IndexAt,
                        total |-> blockSeq + (IF Commented THEN 1 ELSE 0) + 1]
       ELSE Nothing.footer
  /\ Len(archive.frames) = IndexAt - (IF Indexed THEN 0 ELSE 1)
  /\ archive.frames = [i \in 1 .. Len(archive.frames) |-> archive.frames[i]]
  /\ opts.encrypt =>
       archive.frames[1] = Frame("enc", <<EnvelopeOf(ring.key)>>, [key |-> NoKey, preface |-> FALSE], 0)
  /\ \A i \in 1 .. blockSeq :
       archive.frames[Enveloped + i] = Frame("data", Chunk(i), ring, SolidSeq(i - 1))
  /\ Commented => archive.frames[CommentAt] = Frame("comment", opts.comment, ring, CommentSeq)
  /\ Indexed => archive.frames[IndexAt] = Frame("index", entries, ring, IndexSeq)

\* What no accident changes: an encrypted archive stays one, or contradicts
\* itself; a frame that is called envelope, comment or, where the index should
\* be, index is what the writer called so; every seal is the writer's.
FrameTrue(frame, isIndex) ==
  /\ frame.type = "enc" => frame.body = <<EnvelopeOf(ring.key)>>
  /\ frame.type = "comment" => frame.body = opts.comment
  /\ isIndex /\ frame.type = "index" => frame.body = entries
  /\ frame.seal # <<>> => frame.seal[1].key = ring.key

StoredTrue ==
  LET file == stored[1]
  IN  pc = "published" =>
        /\ ~damaged => stored = <<[archive EXCEPT !.ait =
                                     Trailer(archive.header, archive.footer, ring.key)]>>
        /\ file.header.encAt = Enveloped
        /\ file.header.flags \subseteq archive.header.flags
        /\ opts.encrypt => {"encrypted", "preface"} \cap file.header.flags # {}
        /\ DOMAIN file.frames = 1 .. Len(file.frames)
        /\ \A j \in DOMAIN file.frames : FrameTrue(file.frames[j], j = file.footer.indexAt)

SolidIInv ==
  pc # "failed" =>
    /\ SolidTypeOK /\ EntriesTrue /\ InputsNoted /\ ReadSoFar /\ StreamTrue /\ BlocksTrue
    /\ RingTrue /\ (pc # "start" => torn \/ FramesTrue)
    /\ (pc = "published" => ~torn) /\ StoredTrue
=============================================================================
