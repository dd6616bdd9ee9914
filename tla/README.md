# zupt-web: specifications, model checking and proofs

This directory holds TLA+ specifications of zupt-web, a Flask service
(`src/app.py`) around the bundled `zupt` archiver (`src/zupt-5.2.10/`, C), the
TLC configurations that check them and the TLAPS proofs about them. Paths below
are relative to `src/`; C file names without a path are in `zupt-5.2.10/src/`.

## 1. Inventory of the system

| part | state it keeps | operations | what is hard about it |
|---|---|---|---|
| worker pool, `zupt_parallel.c` | slots (EMPTY, READY, DONE) with input, output and error; `error_flag`, `shutdown`, `threads_running` | `zpar_create`, `zpar_submit_compress/decompress`, `zpar_wait_slot`, `zpar_release_slot`, `zpar_destroy`; the worker loop | threads, two condition variables, work outside the mutex, cancellation by an unlocked flag, some threads not starting |
| archive extraction, `zupt_extract` | per file: the batch (`pending_slots`), `decomp_seq`, `berr`, what is written, the size and content hash | open output, read a frame, submit, flush, resolve a reference, collect, close and publish | order of results, references between submitted blocks, errors half way through a batch, the pool reused by the next file |
| archive creation, `zupt_compress_files` | the batch, `write_err`, the frames written, index entries, the dedup index | open input, read, submit, collect, write a frame, write a reference, check the input, write index and trailer, publish | AAD sequences that writer and reader compute independently, short writes seen only by the stream, inputs that change, errors half way |
| atomic output, `zupt_safe_fopen_*`, `zupt_finish_output`, `zupt_atomic_output_*` | temporary file, final name, pinned parent directory | open, write, finish (publish or discard, replace or not) | crashes between the steps, concurrent writers of one name |
| deduplication index, `zupt_dedup.c` | open-addressed table of (hash, digest, offset, size, sequence) | insert, lookup, write and read a reference frame | a full table, probe limits, entries for frames that were not written |
| solid mode, `zupt_compress_solid` and the solid branches of `zupt_extract`, `zupt_test` | one concatenated stream of all files, identities of the inputs | two passes over the inputs, blocks, comment, index, trailer, publication | inputs that change between the passes, files spread over block boundaries, a test that is not the extraction |
| archive opening, `open_archive`, `zupt_test`, `zupt_list` | header, footer, trailer, index, comment | locate, verify, parse | the order of the checks, what is believed before it is authenticated, legacy layouts |
| names of entries, `zupt_path_is_safe`, `zupt_validate_archive_destinations` | none | normalise, sort, compare neighbours | names that differ and come out in one place |
| disk images, `zupt_disk.c` | backup: blocks read, content hash, dedup index, `write_err`; restore: private snapshot, descriptor of the target, blocks written | `zupt_disk_backup`, `zupt_disk_restore` | a source in use, an archive and a target that others change meanwhile, devices that cannot be rolled back |
| key files and envelopes, `zupt_crypto*.c`, `zupt keygen` | key files on disk; the header of an encrypted archive | generate, export, create, write; seal, open | commands that die half way or share names; which credential opens which envelope |
| primitives (ML-KEM, X25519, AES, SHA, Keccak) | none beyond a call | pure functions on bytes | numerical, not a matter of state |
| codecs, `zupt_lz.c`, `zupt_lzh.c`, `zupt_predict.c`, `vv_*.c` | tables and bit readers within a call | encode, decode | codes at their limits, refills at the end of a stream, fallbacks, splits of long runs |
| streaming decoder, `vv_dstream` in `vv_decoder.c` | a buffer with a read position, the state of the frame | append, decode what is complete, reset | chunks that end anywhere |
| web service, `app.py` under gunicorn (two processes) | one directory per job below `WORKDIR`, shared by the processes; rate windows per process | one handler per route, `cleanup_old_jobs` before every request but `/healthz`, deletion when a response closes | processes racing on one directory tree, workers killed at a timeout, age taken from a directory's mtime |
| command line, SDK, GUI | options, handles | argument checks around the archive functions | thread limits that differ from the pool's |
| build, packaging, vendoring, tests, templates | none at run time | | |

How they interact: a request handler of `app.py` makes a job directory and runs
one `zupt` process in it; `zupt` calls `zupt_compress_files` or `zupt_extract`;
these call the pool (shared memory, one mutex), the dedup index (plain calls)
and atomic output (the file system). The SDK calls the same two functions.

What makes each part correct:

* pool: a slot has one owner at a time; a result belongs to the block the slot
  was filled with; every worker ends after `zpar_destroy`;
* extraction: a published file is exactly its blocks in order; a file with a
  frame that cannot be recovered is never published; which files are published
  does not depend on the schedule; it ends;
* creation: a published archive reads back as its inputs; the layout does not
  depend on the number of threads; a sequence is never used twice; it ends;
* atomic output: the final name is only ever a whole file; without `replace`
  nothing that exists is replaced; nothing temporary stays behind;
* dedup index: an entry is true of the archive; a reference leads back to the
  content it stands for; nothing that was learnt is forgotten, however keys
  collide;
* solid archives: what is published is all inputs at one instant; whoever has the
  key gets that or an error from any damaged copy, nobody else gets anything;
  test and extraction agree;
* key files: a key is never replaced; what was reported is there; an archive is
  only encrypted to a key pair whose private half was on disk, and opens with it;
* codecs and the streaming decoder: every decoder undoes its encoder, whatever
  the data, the level and the way the input is cut into chunks;
* disk images: a published archive reads back as what was read; a restore writes
  nothing that was not tested first, and to nothing but its target; what it
  reports as restored is an image that was backed up;
* web service: a job that is running or being sent keeps its directory, a job
  that is over loses it, a key is not served after its time; the rate limit is
  kept, and nobody is refused for less.

## 2. The worker pool and the two drivers

* `ZPar` is the pool. Its variables are the fields of `zpar_ctx_t`: `slots`,
  `errorFlag`, `shutdown`, `started` (`threads_running`); `worker[w]` is the
  place of worker thread `w` in `worker_entry`, `mainAsleep` says that the main
  thread is in the wait set of `work_done`. A critical section that does not
  wait is one step; everything the code does outside the mutex (the check of
  `error_flag`, processing, raising the flag) is a step of its own, so a worker
  passes through `lock`, `check`, `process`, (`raise`,) `mark` with any step of
  another thread in between. A condition wait is the state `asleep`, a
  broadcast moves all sleepers to `lock`; `WorkerSpurious` and `MainSpurious`
  are the wake-ups POSIX allows without a signal. The module has no `Next`; it
  is composed by EXTENDS into the two drivers.
* `ExtractMT` is `zupt_extract` for archives that are not solid. An archive is,
  per file, a sequence of kinds of frames: `data`, `bad` (a DATA frame that
  does not decode), `ref`, `badref`, `other` (unreadable or out of place).
  `seqMode` is the branch `archive_data_aad_seq` takes. Each action is a piece
  of the loop between two calls into the pool; `mpc` names the piece. A file of
  one block, and every file when there is no pool, takes the serial path.
* `FileExtraction` is what extraction promises: file after file, either
  published with exactly its own blocks, which takes that all of them can be
  recovered, or reported as failed. `ExtractMT` implements it
  (`ImplementsExtraction`); the mapping is the identity on `archive`, `fi`,
  `outcome` and `content` and hides the pool and the batch.
* `CompressMT` is `zupt_compress_files`. An input file is the sequence of its
  blocks' contents. A frame records what the reader can tell: its kind, its
  content or target, the sequence it is authenticated under. A write that is
  torn is noticed at once (`writeErr`) or only by the stream (`streamErr`),
  because only the payload's `fwrite` is checked in place. `table` is the dedup
  index as a map; that its insertion may silently fail (a full probe window) is
  the `UNCHANGED table` alternative of `SerialData`. `DedupTable` is the table
  itself (section 7).
* `ArchiveCreation` is what creation promises: one archive from which every
  input is read back, or a failure and nothing published. `ReadsBack` is
  translated from the reader, not from the writer, so the refinement
  (`ImplementsCreation`) compares the two ends of the format: the reader's
  `ReaderSeq` must open what the writer's `SeqOf` sealed.
* `MCExtractMT`, `MCCompressMT` give values to the constants for TLC.
* `ZParProofs`, `ExtractMTProofs`, `CompressMTProofs` hold the proofs.

Constants:

* `Threads`: what the caller asks for and its batch size; `MaxThreads`:
  `ZUPT_MAX_THREADS`, 64 in the code.
* `SeqStride`: 2^32, the distance of the sequences of two files. TLC's 16 has
  the same residue as 2^32 modulo 2 and modulo 3 (0 and 1), and slots are taken
  modulo the number of threads, so the files of an instance begin at the same
  slots as real ones. The proofs keep it arbitrary.
* `StartedChoices`: how many worker threads start. `zpar_create` stops at the
  first thread that cannot be started.
* `Faults` switches on failing allocation, reading, writing and output
  creation, and inputs that change, each possible wherever the code tests for it.

No counter is cut off: every bound is the size of the input.

## 3. Atomic output

`AtomicOutput` is `zupt_safe_fopen_output` (an extracted file, which must not
replace anything), `zupt_safe_fopen_archive` (an archive, which replaces) and
`zupt_finish_output`, one action per system call: `Flush`, `Sync`, `Close`,
`Rename` or `Link` or `PublishFails`, `Unlink`, `SyncDir`. Several writers aim at
one name. `Kill` stops a writer between any two calls. `PowerFailure` ends
everything and leaves, of each file, only what fsync made durable, and under the
final name any of the files the name has stood for since the directory was last
synced (`onDisk`); a temporary name may survive it or not. `replace` and
`dirSync` (whether the file system syncs directories; the code ignores `EINVAL`
and the like) are chosen at the start. Deadlock is not checked: writers stop.
The Windows branch of the code is not modelled, and the walk along the path that
opens the parent directory is part of the step `Open`.

The properties: a reader, or the machine after a power failure, finds under the
final name an old file or all of a new one (`FinalIsWhole`); an extracted file
takes nobody's place (`NothingOverwritten`); 0 is returned only for what was
done (`SuccessIsTrue`) and lasts where directories can be synced
(`SuccessIsDurable`); temporary files stay behind after kills and failed calls
only (`LitterHasCause`).

## 4. Job directories of the web service

`WebJobs` is `app.py` seen from its job directories. The gunicorn processes
share nothing but `WORKDIR`, so every step of one may come between two steps of
another. A request is a record: where it is (`pc`), when it came (`began`, which
is also the `now` of its cleanup), what the cleanup has still to look at
(`todo`), its job, and, while `shutil.rmtree` runs, the directory it removes and
the entries it has listed.

* `Arrive`, `Look`, `Stat`, `ScanDone` are `cleanup_old_jobs`, with the calls of
  `is_dir` and `stat` as separate steps; `List`, `Unlink`, `Rmdir` are
  `shutil.rmtree`, entry by entry.
* `StartJob` is `new_job_id` and `job_dir`; `Save`, `SaveFails` the uploads (of
  several parts, as one step); `RunFails`, `RunRaises`, `RunSucceeds` what
  follows `run_zupt`; `ShowLinks` the page of a key pair; `Pack` the choice
  between one file and a tar file; `CloseResponse` the deletion when the
  response closes; `AskKey`, `KeyStat`, `KeyOpen`, `Served` are `download_key`.
* `ChildEnds` is the zupt process, which works while its handler waits and goes
  on when its worker was killed; `Kill` is the end of a worker, by the gunicorn
  timeout or otherwise; `Tick` is time, which does not pass the timeout of any
  request in progress.

Time is counted in ticks. `TTL` is `ZUPT_KEY_TTL_SEC`, `Timeout` gunicorn's
`--timeout` (Dockerfile:89). `TimeAssumption` asks `Timeout <= TTL`: app.py does
not check it, the deployment has 660 and 14400 seconds. Job ids are random and
used once. That rmtree meets no error but a missing entry, and that nobody else
writes into `WORKDIR`, is assumed.

The properties: the directory of a job in progress is whole and nobody removes
it (`JobUndisturbed`); a key is served within its time (`ServedInTime`); what
had expired when a request came is gone when its handler starts
(`ExpiredAreGone`); a directory that stays belongs to a key pair whose links were
shown, or to a request that was killed or raised (`LitterHasCause`). Two
conditions in them describe what the code does and a reader may not expect:

* the first unlink of `shutil.rmtree` renews the mtime that expiry goes by, so
  while one worker removes an expired key pair, or after it was killed in the
  middle, another may serve what is left (`req[w].job \in removing`);
* `stat` of a directory that another worker has just removed raises `OSError`,
  which ends the whole cleanup and leaves later directories to the next request
  (`cut`).

Others were seen while modelling and are no more than remarks: output of zupt
that is not UTF-8 makes `run_zupt` raise past every clean-up, and so does a `mkdir` of a
directory for uploads, keys or output that fails (`RunRaises`), the
directory then stays for its TTL; after a kill the directory and its child stay.

`RateLimit` is the decorator `rate_limit` (app.py:114-135) in several workers:
`Request` is one call of the wrapper, with the pruning of old times, the refusal,
the counting and the eviction of a quarter of the table; `ReplaceWorker` is
gunicorn's `--max-requests`. The list of a client's times is the set of them, as
they come in order and no two requests share a time. `LimitIsExact` says that a
worker keeps to the limit in every period since it last forgot the client, and
refuses only for requests it let through (being refused does not put off the
next one); `TableIsBounded` that the table keeps its size and never forgets the
client it has just served. The count begins anew when a client is forgotten, and
the property says so: the eviction drops who was served longest ago, which may
well be less than a period ago, so a client can exceed the limit of a period by
being forgotten within it.
The limit is one per worker and ends with the worker: two workers let through
twice as much, and a client that uses many addresses can have one evicted; the
comment at `app.py:109` says "in-process", so this is what the code intends.

## 5. Disk images

`DiskArchive` holds the format: an archive is its header flags, one frame per
block and the tail (index, footer and trailer), and `TestedAs(a, i)` says that
`zupt_test_archive_stream` accepts `a` and reads it as the image `i`. The state
machines are

* `DiskBackup`, `zupt_disk_backup`: one thread, one action per block and outcome
  (`RefBlock`, `RefFails`, `DataBlock`, `DataTorn`, `ReadShort`), then
  `BackupPublishes` or `BackupDiscards`. The source may be edited or resized
  between any two steps (`SourceEdited`). A torn write is seen by the stream
  (`streamErr`), or at once if it tears the payload (`writeErr`), and the loop
  goes on and may refer to the torn frame.
* `DiskRestore`, `zupt_disk_restore`: `CopyPiece` copies the archive to a private
  snapshot, piece by piece; `OpenSnapshot` and `Preflight` test that;
  `OpenTarget` opens the target once and goes by what it has opened; then
  `BuildMap` (archives of 5.2.1) and one action per block. Meanwhile others
  overwrite the archive piece by piece with another one, damage or truncate it
  (`Overwrite`, `Damage`, `Truncate`), and exchange what the name of the target
  refers to (`Exchange`). `RestoreReads` is translated from the loop of the
  restore and `TestReads` from that of the test: the two are separate code.
* `DiskImage` composes them: the archive that was published, or one that 5.2.1
  made (`LegacyArchive`), is the one that is restored.

Publication is one step, as `AtomicOutput` has its own steps; a failure to sync
the directory after it is in `BackupPublishes` and `FinishFile`. A kill is not an
action: nothing is asked of a process that is gone, and the invariants hold in
every state it could be killed in. Two images with one content hash count as the
same image, and so do two blocks with one digest.

The properties: what is published passes the test and holds what was read, which
is the source if that did not change (`ArchiveReadsBack`); once the test has
passed, a restore fails for want of I/O only (`PreflightDecides`); of what was
there, only the device that was opened is written to, with an image found whole
(`OnlyDeviceWritten`); a file gets the name of the target only with a whole image
(`NameIsWhole`); a restore that succeeds yields the image of one of the two
archives and no mixture (`RestoredIsBackedUp`; archives of 5.2.1 have no content
hash, and the code warns of that).

## 6. Solid archives and their readers

* `ArchiveReader` is what `zupt_format.c` makes of a file it is given. Nothing in
  it changes state, so it is a module of operators: `OpenArchive` is
  `open_archive` check by check (header, footer, trailer, envelope, index,
  comment), `List`, `Test` and `Recovered` are listing, testing and solid
  extraction. An archive is a header, frames, a footer and perhaps the
  authenticating trailer; places are frame numbers. The checksum of a content is
  the content, a seal is the key and the sequence a frame was sealed under, so
  checksums do not collide and seals are not forged.
* `SolidArchive` is `zupt_compress_solid`, pass by pass: `Start`, `StatInput` (the
  first pass: identity and size of every input), `Reopen`, `ReadUnit`, `ReadEnd`,
  `Recheck` (the second pass reads and insists on the identities), `HashFiles`,
  `EncodeBlock`, `WriteComment`, `WriteIndex`, `Publish`. A write may be lost
  without the caller noticing, where the code looks at the stream only at the
  end. Meanwhile other programs change an input in place (`Edit`), rename
  something over it (`Replace`) or remove it (`Unlink`); the output may be one of
  the inputs. The identity of a file is its node, its size and its time stamp,
  and every change gives a new stamp.
* `SolidIInv`, at the end of `SolidArchive`, is what holds at every moment of such
  a run; the proofs rest on it (section 12).
* After publication `DamageFrames` and `DamageFields` do to the archive what
  storage may do: a frame damaged, dropped, repeated or exchanged, a field of
  the header or footer changed, the trailer cut off with it or not.
* `ArchivePaths` holds `zupt_path_is_safe`, `zupt_normalize_archive_path` and
  `zupt_validate_archive_destinations`, on character codes, as the order in which
  names sort decides which are compared.

The properties, for a set of readers with every kind of credential, right and
wrong, some accepting archives without trailer: what is published is the state
of all inputs at one instant (`SolidSnapshot`), and whoever has the key gets it
back, unless it is larger than readers take (section 11); from a damaged archive comes an
original file, an error, and nothing else (`SolidNothingWrong`); without the key
there is no content, no list and no good verdict (`SolidNeedsTheKey`); `zupt
test`, which is code of its own and does not hash files of size 0, fails exactly when
extraction does (`SolidTestTellsTheTruth`); a file of size 0 is among the inputs.

## 7. The deduplication table

`BlockIndex` is what the writers of archives expect of an index: a map that may
refuse to learn and never forgets or changes its answer. `DedupTable` is
`zupt_dedup.c`: open addressing with linear probing, a limit on probes, a limit on
the load, no deletion. A key is a block's XXH64 with its SHA-256 prefix; `Home`
is where its chain begins, so keys with equal `Home` collide. `Hit`, `Learn` and
`Refuse` are a lookup with the insertion that follows it. That the index never
forgets needs that every entry stays within reach of its lookup: the slots
before it on its chain stay taken (`Reachable`). `ImplementsIndex` is the
refinement. `CompressMT` (section 2) and `DiskBackup` (section 5) use the map.

## 8. Key files and envelopes

* `Envelope` says which encryption header a writer makes of its options
  (`write_enc_header`) and which credentials open it (`read_enc_header`): a
  password, a native hybrid or ML-KEM-only key file, a box of the optional
  libraries (`Built`). A key is a record of what it was derived from.
* `KeyFiles` is `zupt keygen` in its native and box modes, and encryption to the
  resulting files, by several processes at once. `Generate` and `Export` begin a
  command (`Export` reads a private file, the others make a pair), `Create` is
  `open` with `O_EXCL`, `Write` the bytes, `Sync` the fsync and the close, `Die` the
  end of a process between two calls. When `Write` fails the incomplete file stays,
  which does not load; when `Sync` fails, or the process dies before it, a complete
  file stays that loads, can be exported and encrypted to, and was never reported
  (what the code calls durability-uncertain, `zupt_crypto.c:582-587`). `UserRemoves` is a
  user who deletes a file and may start again. `PowerFails` ends all processes, empties
  or cuts any files that were not synced, and takes any names, as no directory
  of a key file is synced. A file carries the process and
  turn that created it, so that a writer whose file was removed is told from one
  whose file is there.

`KeysCanBeReliedOn`: what keygen reported is there, whole, after a power failure too,
unless its name is gone; an archive is only encrypted to a pair whose private half had
been written to the end, and synced if keygen itself made the public half (box); and
that private half, where it loads, opens it. More does not hold of exported
public keys: `Export` takes a private file that was never synced, so a power failure may
leave the public half of a key without its private half. `KeyFilesStay`: until it is
removed or lost, a name leads to the same key, and a file that was complete stays so,
one that was not synced as long as the power stays on.

## 9. Codecs and the streaming decoder

Codecs are functions, and their modules hold the encoder, the decoder and the
statement that the second undoes the first:

| module | code | left out |
|---|---|---|
| `MatchFinder`, `LZ`, `LZH` | hash chains; `zupt_lz.c`; `zupt_lzh.c` with its lazy parse, zero runs, limited tree and coded lengths | byte order, sizes of header fields |
| `PrefixCode`, `BitStream`, `VVHuffman` | Huffman depths and canonical codes; refills of the accumulator; `vv_huffman.c` in one and four streams, table and long codes | |
| `ANS`, `SequenceCode` | `vv_ans.c`: scaling, spreading, one and four streams, contexts; token codes, splits of runs, repeated offsets, the 16- and 8-byte copies of literals and matches that write ahead, with their guards | the choice of the shorter result: every result is looked at |
| `VVBlock` | `emit_block` and the block decoders, format choice, `vvz_compress`; the copies of `vv_simd.c` and the two fast phases of AVX2 builds, with their margins | the parsers: any list of tokens is a parse; how the numbers of a token become bytes |
| `Transforms` | `vv_bcj.c`, `zupt_predict.c`, the varints of `zupt_format.c` | |
| `DStream` | `vv_decompress_flags` and `vv_dstream` | what a block decodes to |

`MCCodecs` lets TLC build the data one unit at a time, from the empty string or a
seed, up to a length, and checks after each unit that what comes out is what
went in: `LZRoundTrips`, `EntropyCodersAgree`, `BlocksRoundTrip`,
`AcceptedRoundTrips`, `TransformsAreUndone`, `PathsFitTogether`, each over the
codecs of one family. The tables are small (codes of four bits, bytes of two
bits, windows of 15) so that limits are met by short data; where the size of a
table matters (`LZHTablesCover`, `SequenceTablesReach`) it is the program's own.

The copies. A decoder's memory is a `Buffer` of `Window`: its units, set or not, and how
many of them are produced. `Transfer` is one load and one store of several units, of
which some may lie ahead of what is produced; outside the buffer it is an overrun,
which is a result of its own beside refusal. `MatchSteps` is how the copy routines
cut a match into such steps by its offset; `WildMatch` and `WildLiterals` are
the copies of the sequence decoder, `HotMatch` and the literals of `DecodeTokens`
those of an AVX2 build, which also read ahead of the literals in their input. Widths and margins
are constants (`Short`, `Wide`, `Widest`, `InputMargin`, `OutputMargin`: 8, 16, 32, 48, 72 in the
program, 5, 7, 9, 7, 10 in the instance, whose offsets and lengths fall on every side of
them). `BlocksRoundTrip` asks three things of them: a sound block decodes to its
content in a buffer of exactly its size, in every build; a sound sequence block is refused in
a smaller one; and with lengths, offsets, counts, states or sizes damaged nothing
overruns, and the token decoder hands over nothing that was never written. It leaves out
literal blocks whose literals two bytes cannot count (finding 4).

`DStream` takes a sequence of elements (headers, blocks, footers) in chunks and
keeps what it cannot use in a buffer with a read position, which is compacted and
grown as in the code. `Call` is one call of `vv_dstream_decompress_chunk`, `Reset` starts over.
`ChunksDoNotMatter` compares it with the decoder that has all bytes at once;
`FramesStandAlone` says that a frame decodes the same wherever it stands. Both decoders go
element by element, `ReadElement` of the one and `Turn` of the other, and the
two properties are proved (section 12).

## 10. Runs

| run | checks | instance | shows |
|---|---|---|---|
| `ExtractMixed` | `IInv`, `OutcomeDecided`, `SlotUndisturbed` | every first file of at most three frames of the five kinds, a sound second file, all three sequence conventions, 0 to 2 of 2 workers started | the inductive invariant, also in the executions that end up waiting for ever; no slot changes under its worker; the published files are a function of the archive although `error_flag` is read outside the mutex |
| `ExtractLong` | `SubmitFindsSlotFree`, `ImplementsExtraction`, `Termination` | 3 workers or none, files of up to five frames, so a full batch and a part of one; faults everywhere | slots are reused over batches cut short by references; published files are whole and in order; extraction ends and joins its workers |
| `Compress` | `IInv`, `FilesTile`, `Termination` | 3 workers or none, a file of five blocks before one of two, empty files, all modes, faults | the layout of a published archive does not depend on the threads; creation ends and joins its workers |
| `CompressModes` | `SequencesDiffer`, `ImplementsCreation` | all pairs of files of at most three and two blocks of two contents, with and without `--dedup` and encryption, batch 3 over a pool of 2, 0 to 2 workers started | no sequence is used twice, what is published restores, also where creation may hang |
| `AtomicOutput` | `IInv`, `FinalIsWhole`, `SuccessIsTrue`, `LitterHasCause` | two writers, faults at every call, kills, power failures | crash safety of every output |
| `WebJobs` | `IInv`, `JobUndisturbed`, `ServedInTime` | 2 processes, 2 jobs, TTL and timeout 1 tick, clock to 2 | removals race with handlers, downloads, other removals |
| `DiskImage` | `ArchiveReadsBack`, `PreflightDecides`, `OnlyDeviceWritten`, `RestoredIsBackedUp` | every image of three blocks of two contents, flags of both versions, one edit of the source, one other archive or damage, one exchange of the target, faults everywhere | what is restored is what was read, whatever changes meanwhile |
| `Program` | the properties of sections 6 to 9, and `LimitIsExact`, `TableIsBounded` | see below | |
| `ExtractPlainDedup` | `Termination` | expected to fail: finding 1 | |
| `ExtractStickyError` | `SoundFilesPublished` | expected to fail: finding 2 | |
| `DiskZeroBlocks` | `ZeroRegionsShort` | expected to fail: finding 3 | |
| `CodecFallback` | `FallbackRoundTrips` | expected to fail: finding 4 | |

`IInv` stands for its conjuncts: `OneOwner`, `CancelHasCause`, `PoolDrained`,
`TableTrue`, `NothingOverwritten`, `SuccessIsDurable`, `ExpiredAreGone` and others
that earlier runs listed are implied by it, and each has its theorem (section 12).

`Program` (`MCProgram`) is the sum of the parts that share no state: solid
archives, key files, the table, the streaming decoder, the rate limiter, the
codecs. `part` says which one is on; the others stay in an initial state, so a
behaviour is a behaviour of one part, and `ProgramNext` lists the actions of all
of them. It has 497 274 distinct states. Its bounds:

* solid: two inputs of at most three units, blocks of two units, so a file
  straddles two blocks and shares one; two changes by other programs
  (`MaxEvents`), so an input can change and change back; nine sets of options,
  eight readers, who take streams of four units (`MaxSolid`), so that some archives
  are too large for them. Storage damages an archive once, and only where no input changed
  while it was made (`DamageBound`): changes alter contents, not the layout;
* keys: two processes, two names, three commands (`MaxRuns`: a pair, its public
  half and an archive, or a second pair racing the first), one removal
  (`MaxRemovals`), one power failure (`MaxOutages`): a key that fails to sync is exported
  or encrypted to, and then lost;
* table: five keys with chains that start at four places of five slots and wrap
  around, two probes, seven blocks: a full chain, a full load and a repeated key;
* stream: ten streams (whole, without checksums, damaged at each place the
  decoder looks at), chunks of 0 to 9 units, buffers that must grow;
* rate: one worker (what a worker does concerns no other, and the proof has any
  number), four clients, tables of three, a limit of two in a period of five,
  times up to eight (`MaxTime`): eviction within a period, expiry and replacement;
* codecs: all data up to the lengths in `Stops`, and longer data from seeds in
  which a reader refills, four streams are used and runs are split.

Why the bounds of the others are enough. The pool's interesting cases are two
blocks in flight, a batch cut short, a slot used a second time, and an error
reaching into the next file; two workers, three blocks and two files have all of
these but reuse within a file, which the runs with three workers and five blocks
add. Two writers have every race for one name, as each step concerns at most
one other writer's file. Two web processes and two jobs let one process clean up
while the other works, downloads or removes, and let one directory expire while
the other is new; a clock of two ticks with TTL 1 makes a directory exactly as
old as it may be, and one tick older. Three blocks of two contents repeat next
to each other and apart, so that a reference skips a frame, and a mixture of
two archives can lie before, within and after the frames; the source is edited
once, so that it shrinks and grows back is left to the proof, which has any
number of edits. Of other archives and of exchanges of the target the model
itself has one each: the archive is read once, into the snapshot, and the
target is opened once. The proofs remove the bounds of these runs for every
safety property, and those of solid archives, key files, the table, the rate
limiter and the streaming decoder in `Program` as well.

Fairness. `FairSpec` of both drivers asks weak fairness of the main thread and of
every worker: the operating system runs each thread that can run, and a critical
section is finite, so a thread that stays able to take its step takes it.
Nothing is assumed of spurious wake-ups, of faults, or of which of several
enabled outcomes happens. A sleeping thread is not enabled, so a missing
broadcast is not repaired by fairness; it shows as a violation of `Termination`
(the mutants `WorkerMarkSilent` and `SignalShutdownSilent`). All other modules
state safety only: a process may stop at any time. Deadlock is not checked
where a system may really stop, or ends at the bound of a counter.

## 11. Findings

Four runs are expected to fail: the code disagrees with what its own text says.
The first two and the last were also seen on a build of the source.

1. `ExtractPlainDedup`: `zupt compress --dedup` without encryption, extracted
   with `-t 2` or more, hangs. `archive_data_aad_seq` (`zupt_format.c:4262`)
   yields 0 for every DATA frame, the slot is the sequence modulo the number of
   slots (`zupt_parallel.c:512`), so the second block of a batch waits for
   slot 0 (`:515`), which the same thread would have to release.
2. `ExtractStickyError`: `error_flag` (`zupt_parallel.c:356`) is never
   cleared, so after one damaged block every later file of more than one block
   is cancelled. One thread extracts them. `OutcomeDecided` states exactly
   which files are lost.
3. `DiskZeroBlocks`: the manual says "Zero regions are represented without
   storing their full contents" (`doc/zupt.1:150`). `zupt_disk_backup` gives a
   block of zeros the codec STORE and its whole length as payload
   (`zupt_disk.c:777`, `:835`); only `--dedup` keeps its repetitions short.
4. `CodecFallback`: the sequence coder leaves a run of literals it cannot say to
   the caller's "lossless fallback block formats" (`vv_ans.c:1643`), and the
   fallback with coded literals stores their number in two bytes
   (`vv_encoder.c:1948`) though a block may hold more than 65535. Archives are
   not affected: `vvz_compress` decodes what it made and refuses it
   (`AcceptedRoundTrips`); a direct caller of `vv_compress` gets a frame that
   does not decode (seen with the extreme mode and a forced window).

Two more ways to wait for ever are in the safety runs, where nothing goes wrong
but that the program does not end: `zpar_create` clamps to 64 slots
(`zupt_parallel.c:380`) and the batch loops do not (`zupt_format.c:4509`,
`:4559`), while the SDK accepts 256 threads (`sdk/include/zuptsdk.h:282-283`); and a
pool keeps all its slots when only some threads could be started
(`zupt_parallel.c:425`), as its callers fall back only when none could
(`zupt_format.c:4514`, `:2345`). `SubmitFindsSlotFree` holds, and is proved,
for consecutive sequences and `Threads <= MaxThreads`; `Termination` is checked
with all workers started or none.

Remarks, no more than that:

* `zupt_disk.c`: the backup notices a source that changed its size but not one
  that changed its contents, so an image of a device in use may be one it never
  had; the header comment promises a parallel pipeline (`:14`) and the loop is
  serial; "the previous archive was preserved" (`:1047`) is also printed when the
  new one has its name and only the sync of its directory failed.
* `zupt_compress_solid` takes streams of any size (`zupt_format.c:3032`), extraction
  and test refuse more than 4 GiB (`:4349`, `:4825`), so `zupt` publishes a larger
  solid archive, says it succeeded, and nothing of it can be had with `zupt` again.
  `SolidSnapshot` has this as its second case; nothing in the documentation
  says otherwise.
* `zupt_validate_archive_destinations` sorts the names and compares neighbours
  (`zupt_format.c:2087`). A hyphen sorts before the slash, so `a`, `a-b`, `a/b` are
  accepted although `a` cannot be file and directory; the extraction then reports
  the failure at `a/b`. Nothing wrong comes out, so no property is about it.
* The SDK: when an extraction fails after some file came out,
  `zuptsdk_extract_buffer` leaves its temporary directory with that file, as `rmdir`
  (`zuptsdk.c:850`) removes empty directories only; the limit on decompressed size (`zuptsdk.h:320-326`) is not
  enforced; callbacks are stored and not called, so `CANCELLED` is not reachable.

## 12. Proofs

All theorems hold for every value of the constants that satisfies the named
assumptions `PoolAssumption`, `ExtractAssumption`, `CompressAssumption`,
`OutputAssumption`, `TimeAssumption`, `ImageAssumption`, `BackupAssumption`,
`RestoreAssumption`, `DedupAssumption`, `RateAssumption`, `KeyFilesAssumption`,
`SolidAssumption`, `DStreamAssumption`: at least one thread,
any clamp, any number of files, any set of archives or inputs, faults or not, any
number of started workers; any number of writers; any number of processes and
jobs and any times; images of any size and contents; any table with any
collisions; any limit, period, clients and workers; any names, commands and
processes making keys; any inputs, contents, options, readers and block size of
solid archives; any frames in a row, chunks, room for output, first buffer and
number of resets. `CompressAssumption`
also asks that a file has at most `SeqStride` (2^32) blocks, which the 32-bit
`block_seq` of the code needs as well, `SolidAssumption` that there is an input, as
the command line insists on, and that a sealed key is not the absence of one, and
`DStreamAssumption` that elements fall into frames (a header, blocks up to one
marked the last, a footer if the header asks for it), as what follows a last block
is not looked at. This leaves out no input: a header or a footer may be none, a block
may be damaged or of no known type, and a stream may be cut at any unit. The
assumptions of the codecs state the ranges of constants and are evaluated by TLC only.

The pool and its drivers (`ZParProofs`, `ExtractMTProofs`, `CompressMTProofs`).
The argument has the same shape for both drivers. `TypeOK` and the properties
are not inductive: that a submission finds its slot free, say, needs to know
which slots are in use. `IInv` adds

* `Control`: what the batch variables can be at each place of the main thread
  (nothing pending outside the batch loops, `ci` within the batch, the main
  thread asleep only where the code waits, no shutdown before `zpar_destroy`);
* `Window`: the slots in use are exactly those of `pend[ci .. np]`, each holds
  its own block, and `pend[j]` is the slot the block's sequence selects;
* `Results` (in `ZPar`): a worker is at work only on a READY slot, and a slot
  that is finished without error holds the result of its own block;
* `Progress` (extraction): what is written is every block read and collected;
* `Fate` (extraction, when nothing but the archive is at fault): no frame that ends a
  file has been passed, and a file goes through the pool or past it as its size
  says (`Path`); `error_flag` is raised by bad blocks only and before a result is
  DONE, and once an earlier file has raised it nothing is decoded any more
  (`Flagged`); a file that has failed so far was bound to (`Judged`), and the files
  that are over ended as their frames decide (`Settled`);
* `Growing`, `TableTrue`, `Layout` (creation): sequences grow along the
  archive, the dedup index is true of it, and the index entries describe
  exactly the frames written so far.

Each conjunct is a lemma `...Step` with one step per action or group of actions
(`StepCases`); the pool's part is proved once, in `ZParProofs`, and used by both
drivers. `CloseSequencesDiffer` is the arithmetic heart: sequences less than
`NSlots` apart select different slots.

Proved: both refinements (`ExtractionIsSafe`, `CreationIsSafe`), order
(`OrderIsKept`, `PublishedFilesTile`), that the archive alone and not the schedule
decides which files are extracted (`FateIsDecided`), unique sequences (`SequencesAreUnique`),
the dedup index (`DedupTableIsTrue`), slot ownership (`SlotsHaveOneOwner`,
`BusySlotsAreUndisturbed`) and the absence of self-deadlock (`SubmitNeverWaits`).

Atomic output (`PartsProofs`). `IInv` adds to the properties `Underway`
(each stage of `zupt_finish_output` hands on what the next one needs: error-free
means flushed, then durable), `Publications` (whoever has taken the name has
durable content, and what may be on disk is old or published) and `Temporaries`.
Each of the five properties is a theorem.

Job directories (`WebJobsProofs`). `IInv` adds `InTime` (no request outlives the
timeout), `Owned` (a job has one request, which touched the directory itself
since it began and left in it what its stage says), `Removals` (what is being
removed belongs to no request, and has no entry that was not listed unless an
orphan is still writing), `Links`, `Downloads`, `Unused` and `ScanComplete`
(what the cleanup has not looked at is still on its list). The heart is the
step that decides to remove: `began > mtime + TTL` cannot be true of the
directory of a request in progress, whose mtime is at least its own `began`,
which is at most `Timeout` ago. The first part of the module turns record
updates into facts about fields (`...Effect`), `Footprint` says that a step of a
worker changes one directory, and every conjunct then has a lemma for the worker
that moves (`...Own`) and one for the others (`...Apart`, `...Kept`). All four
properties are theorems.

Disk images (`DiskImageProofs`). `BackupInv` says that, as long as the stream has
no error, every frame holds its block or refers to an earlier frame that does
(`FramesTrue`), and that the dedup index is true (`TableTrue`). `RestoreInv` says
that the snapshot is whole and tested before anything is opened (`Copied`,
`TestedFirst`, `OpenedIsFound`), that the blocks written are what the snapshot
holds (`BlocksInOrder`), and what each outcome means (`OutcomeTrue`). The
argument rests on two lemmas about the format: both readers find the same in a
block (`ReadersAgree`), and there is one thing at most to find (`ReadOnce`). That
`Encoded` is an archive needs a least block with a given content, hence the
well-foundedness of the naturals. All five properties are theorems.

Deduplication table (`PartsProofs`). `DedupIInv` says that no key is in two
slots, that every entry is within reach of its lookup with the slots before it
on its chain taken, and that `count` is the number of slots in use. Taken slots
stay taken, so `Reachable` is kept; a key is inserted only after its own chain
was searched up to the first empty slot, so it stays the only one. The
refinement (`TableImplementsIndex`) maps a lookup that ends at an empty slot to
"not known", which is `Reachable` read the other way.

Rate limiter (`PartsProofs`). The properties speak of what was let through, the
code decides by its table. `RateIInv` ties the two together: what the table notes
of a client was let through since the client was last forgotten, at most as often
as allowed, and what it does not note any more is older than the period
(`TableIsTrue`); a client that is not in the table was forgotten after its last
request. `TheLimitIsExact` is then counting. For `TheTableIsBounded` the eviction has
to drop something from every table over its limit (`SomethingIsEvicted`: the client
served longest ago has nobody before it) and must not drop the latest
(`LatestStays`: everybody else comes before it, which is more than a quarter).

Key files (`EnvelopeProofs`). What the properties say is not inductive: that an
envelope has an owner depends on the order in which a command makes its files.
`KeysIInv` adds `OneKindPerPair` (a pair is hybrid, ML-KEM-only or a box, in all
its files), `PrivateFirst` (a public half is begun only after its private half was
complete, and in the box mode synced), `FilesTrue` (a whole file belongs to a pair
whose private half was whole, reported or not, and a node says what is in the file),
`WritersFindTheirs` (unless its name is gone, a command finds what it has written,
whole and synced, and the file it is at, whole once it is to be synced) and
`ReportedAreThere` (the same of what was reported). `PowerFails` is the step for which the last
two speak of synced files: of those it takes names only (`OutageKeepsInv`).
`OwnersCanOpen` then follows from `OneKindPerPair` by cases on the
envelope.

Solid archives (`EnvelopeProofs`). The properties are about a published archive,
so `SolidIInv` has to carry the inputs all the way to it:

* `InputsNoted` and `ReadSoFar`: a node that still has the stamp it had when it was
  first looked at has the content it had when the first pass ended. This is what
  makes the second look (`Recheck`) worth anything: had the stream been written to
  since, its stamp would differ, so what was read is what was there at that instant;
* `EntriesTrue` and `StreamTrue`: entries follow each other without gaps, and the
  content of every file stands in the stream at its offset; later its hash is that
  content;
* `BlocksTrue` and `FramesTrue`: the blocks tile the stream, and the frames are
  envelope, blocks, comment and index, each under its own sequence, with header
  and footer pointing to them, unless a write was lost and is remembered (`torn`);
* `StoredTrue`: what no accident in storage changes. An encrypted archive keeps one
  of the flags that say so (and if the other is gone, the flags contradict each
  other), a frame that is called envelope, comment or, where the footer points,
  index has the writer's content, and every seal is one of the writer's.

`SolidNothingWrong` and `SolidNeedsTheKey` follow from `StoredTrue` and from what the
reader checks in which order (`WhatIsRead`), for any archive that satisfies it.
`SolidTestTellsTheTruth` is about the two readers only. `SolidSnapshot` needs the
whole layout: the loop of the reader finds block after block
(`OneTurn`, `StreamFound`), so that the stream is the writer's buffer and every
file in it hashes to its entry. The recursive functions in that argument (the sum
of the sizes, the turns of the loop) are handled without an induction theorem: a
function that satisfies the recursion is exhibited, and the least number at which
the recursion could differ from it does not exist (`LeastNumber`).

Streaming decoder (`DStreamProofs`). `ChunksDoNotMatter` compares results only, and
as long as the stream asks for more there is none to compare. `StreamInv` says where
the stream is: `Within` the first frame it has taken some elements, with the same
output, header and place as the decoder that has all at once has after the same elements
(`Passed`, whatever number of units follow them), and the units after them are those
in the buffer (`Stands`). A turn takes the next element as that decoder does
(`TurnRight`), or it waits where that decoder finds the input truncated, or it
ends with an answer that agrees (`HeaderTurnRight`, `BlockTurnRight`,
`FooterTurnRight`); a chunk takes turns until one of them ends (`TurnsRight`), and
what is appended to the buffer, moved and grown as it may be, comes behind what was
unread (`GivenInput`). The answer given is then kept: what is handed over after the
end of the frame changes nothing. That no turn is missing needs that each uses up an
element. `FramesStandAlone` is about the decoder that has all at once: it reads the
frames after the first side by side with and without the first (`Alike`), at the same
place, the outputs apart by the first frame's (`Shift`); the filter of a later frame
begins where that output ends (`UndoLater`), and a footer is compared with the
frame's own output (`OwnOutput`, `FrameDataLater`). The recursive functions (wire
positions, elements read, turns, output) are unfolded as in solid archives.

Only model-checked: `Termination`, as liveness is beyond the prover, and the
properties of paths and the codecs. These are about definitions that
recurse over data (folds, parsers, trees), and what such a definition computes for
every input needs induction with a predicate as parameter, which the provers
cannot instantiate; their modules declare RECURSIVE operators besides, which
takes the SMT solver away.

## 13. Mutants

Every property of every passing run has a mutant, an operator next to the one it
replaces, marked `Mutant:`. Each is a slip one could make in the C code: a
`while` that became an `if` (`WaitReturnsEarly`), a missing broadcast, a batch
one too long, a sequence that restarts with each file (`SeqOfBlock`), a key
file whose fsync is not looked at (`SyncAnyway`), a wide copy without the check for
room (`WildMatchAnywhere`), a refill that takes one
byte too many (`RefillTooMuch`), a test that skips a check of the extraction
(`TestAnyway`), the insertion into any free slot instead of the first of the
chain (`FreeAnywhere`).

## 14. Plan

Done, in this order: the pool, extraction, creation, their specifications and
proofs; atomic output; the job directories of the web service; disk images; the
reader, solid archives with proofs, and paths; envelopes and key files with proofs;
the deduplication table, its specification and proofs; the streaming decoder with
proofs; the rate limiter with proofs; the codecs.

Left, in order of what can go wrong:

1. The SDK: handles, the temporary files around `zuptsdk_*_buffer` and key pairs,
   and what each failure leaves behind. The archive functions beneath are modelled.
2. `zupt_test` over archives that are not solid, as a specification of its own
   beside the serial path of `ExtractMT`, so that test and extraction can be
   compared there as they are for solid archives.
3. The composition of `CompressMT` with `DedupTable` in place of the map, which
   the refinement allows to leave out.
4. The legacy AAD map of encrypted disk images; the graphical interface's queue.

## 15. Not modelled, and why

* the primitives (`zupt_aes256.c`, `zupt_mlkem.c`, `zupt_x25519.c`, SHA, Keccak, XXH64
  and the Jasmin assembly): pure computations on bytes. Their part in the
  protocol is modelled: a frame opens only under the key and sequence it was
  sealed with, checksums of different contents differ.
* of the codecs: SIMD instructions, except for how far each load and store of the
  copies reaches, which is modelled; the threaded and the streaming encoder of VaptVupt, which no caller
  in the program uses, and the parsers' search, of which any result is allowed.
* bytes of headers, indices and comments, apart from the varints: a field is there,
  changed or missing.
* the Windows branches, build and packaging scripts, the graphical interface (a
  window that runs the command line as a child process), templates and logging;
  of the web service the CSRF check, which keeps no state; of the command line
  the parsing of options.
* tests, assets and vendored documentation.

Limits of what is modelled:

* the 4 GiB a reader takes of a solid stream (`MaxSolid`) are four units in the
  instance and any number in the proofs; the block count and sizes of a disk image
  (`zupt_disk.c:622`) are assumed to fit the format;
* the identity of an input is as good as the file system's time stamps; in the
  model every change has a stamp of its own;
* key files of the box library have a magic, a role and an exact size but no
  checksum: a cut one does not load, in the model as in the code, and one with
  flipped bits does not occur in the model;
* `vv_dstream` counts a whole chunk as consumed, also what lies behind the end of
  its frame, and the model does the same; frames in a row are the business of
  `vv_decompress_flags`;
* a wall clock that is set back is outside `WebJobs` and `RateLimit`.
