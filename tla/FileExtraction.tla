--------------------------- MODULE FileExtraction ---------------------------
(***************************************************************************)
(* What zupt_extract promises its caller, whatever threads it uses: the    *)
(* files of the archive are settled one after the other; each is either    *)
(* published with exactly its own blocks in their order, which takes that  *)
(* every one of them can be recovered, or reported as failed and left out. *)
(***************************************************************************)
EXTENDS Integers, Sequences

CONSTANTS
  NFiles,    \* number of index entries
  Archives   \* the archives considered: per file, the kinds of its frames

VARIABLES
  archive,   \* the archive being extracted; it does not change
  fi,        \* the index entry being extracted
  outcome,   \* what became of each file
  content    \* what each published file holds: the numbers of its blocks

specVars == <<archive, fi, outcome, content>>

Files == 1 .. NFiles

\* "data" and "ref" frames give back their block; a "bad" frame is a DATA
\* frame that does not decode, a "badref" a reference that does not resolve,
\* "other" a frame that cannot be read or has no place there.
Frames == {"data", "bad", "ref", "badref", "other"}

Whole(f) == [b \in 1 .. Len(archive[f]) |-> b]

Recoverable(f) == \A b \in 1 .. Len(archive[f]) : archive[f][b] \in {"data", "ref"}

SpecInit ==
  /\ archive \in Archives
  /\ fi = 1
  /\ outcome = [f \in Files |-> "pending"]
  /\ content = [f \in Files |-> <<>>]

PublishWhole ==
  /\ fi \in Files
  /\ Recoverable(fi)
  /\ outcome' = [outcome EXCEPT ![fi] = "published"]
  /\ content' = [content EXCEPT ![fi] = Whole(fi)]
  /\ fi' = fi + 1
  /\ UNCHANGED archive

ReportFailed ==
  /\ fi \in Files
  /\ outcome' = [outcome EXCEPT ![fi] = "failed"]
  /\ fi' = fi + 1
  /\ UNCHANGED <<archive, content>>

SpecNext == PublishWhole \/ ReportFailed

SafeExtraction == SpecInit /\ [][SpecNext]_specVars
=============================================================================
