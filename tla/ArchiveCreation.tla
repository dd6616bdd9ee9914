-------------------------- MODULE ArchiveCreation ---------------------------
(***************************************************************************)
(* What zupt_compress_files promises: it either publishes one archive from *)
(* which a reader gets back every input file, or reports a failure and     *)
(* publishes nothing.  How a reader gets a block back is translated from   *)
(* zupt_extract: from the frame's place, the flags of the archive and the  *)
(* authentication of each frame, never from what the writer knew.          *)
(***************************************************************************)
EXTENDS Integers, Sequences

CONSTANTS
  NFiles,    \* number of input files
  Inputs,    \* the inputs considered: per file, the contents of its blocks
  Modes,     \* the option sets considered
  SeqStride  \* 2^32: the AAD sequence distance between two files

VARIABLES
  input,     \* the input files; they do not change
  mode,      \* [dedup, encrypt]; it does not change
  frames,    \* the frames in the output
  index,     \* per file, its first frame and the number of its frames
  result     \* what zupt_compress_files has reported

specVars == <<input, mode, frames, index, result>>

Files == 1 .. NFiles

\* archive_data_aad_seq, for the flags zupt_compress_files gives an archive.
ReaderSeq(f, b) ==
  IF mode.dedup /\ ~mode.encrypt THEN 0 ELSE f * SeqStride + (b - 1)

\* decompress_block: an encrypted frame opens only under its own sequence.
Opens(frame, seq) == mode.encrypt => frame.seq = seq

\* What block b of file f reads back as, by the serial loop of zupt_extract.
ReadsBack(f, b, c) ==
  LET k == index[f].first + b - 1
      here == frames[k]
  IN  /\ k \in 1 .. Len(frames)
      /\ Opens(here, ReaderSeq(f, b))
      /\ \/ here.kind = "data" /\ here.content = c
         \/ /\ here.kind = "ref"
            /\ here.target \in 1 .. k - 1
            /\ frames[here.target].kind = "data"
            /\ Opens(frames[here.target], here.source)
            /\ frames[here.target].content = c

Restores ==
  \A f \in Files :
    /\ index[f].count = Len(input[f])
    /\ \A b \in 1 .. Len(input[f]) : ReadsBack(f, b, input[f][b])

SpecInit ==
  /\ input \in Inputs
  /\ mode \in Modes
  /\ result = "pending"

\* Until the result is known the output is a private temporary file.
Prepare ==
  /\ result = "pending" /\ result' = result
  /\ UNCHANGED <<input, mode>>

Publish ==
  /\ result = "pending"
  /\ Restores'
  /\ result' = "published"
  /\ UNCHANGED <<input, mode>>

Abandon ==
  /\ result = "pending"
  /\ result' = "failed"
  /\ UNCHANGED <<input, mode>>

SpecNext == Prepare \/ Publish \/ Abandon

SafeCreation == SpecInit /\ [][SpecNext]_specVars
=============================================================================
