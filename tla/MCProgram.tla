----------------------------- MODULE MCProgram ------------------------------
(***************************************************************************)
(* The parts of the program that share no state, in one run: solid         *)
(* archives, key files, the deduplication table, the streaming decoder,    *)
(* the rate limiter of the web service, and the codecs (MCCodecs).  part   *)
(* says which of them is on; the others stay as they were first.           *)
(***************************************************************************)
EXTENDS MCCodecs, SolidArchive, KeyFiles, DedupTable, DStream, RateLimit

CONSTANT MaxTime   \* bound on the web service's clock

VARIABLE part

Parts == {"solid", "keys", "dedup", "stream", "rate", "codecs"}

programVars == <<part, codecVars, solidVars, keyVars, dedupVars, vars, rateVars>>

-----------------------------------------------------------------------------
(* Solid archives. *)

KeyFileOf(kind, private, id) == [kind |-> kind, private |-> private, id |-> id, whole |-> TRUE]

NoCredentials ==
  [pq |-> FALSE, box |-> FALSE, sdk |-> FALSE, pqonly |-> FALSE, pbkdf2 |-> FALSE,
   keyfile |-> NoKey, password |-> NoKey, legacy |-> FALSE]
Password(word) == [NoCredentials EXCEPT !.password = word]
PublicKey(kind, id) ==
  [NoCredentials EXCEPT !.pq = TRUE, !.box = kind = "BOX", !.keyfile = KeyFileOf(kind, FALSE, id)]
PrivateKey(kind, id) ==
  [NoCredentials EXCEPT !.pq = TRUE, !.keyfile = KeyFileOf(kind, TRUE, id)]
Legacy(reader) == [reader EXCEPT !.legacy = TRUE]

\* The paths a, b and a/b.
OnePath == <<97>>
Apart == <<OnePath, <<98>>>>
Below == <<OnePath, <<97, 47, 98>>>>

Writer(credentials, comment, paths) ==
  credentials @@ [encrypt |-> credentials # NoCredentials, comment |-> comment,
                  paths |-> paths, overInput |-> FALSE]

MCWriterOpts ==
  {Writer(NoCredentials, <<>>, Apart), Writer(NoCredentials, <<"c">>, Apart),
   Writer(NoCredentials, <<>>, Below),
   [Writer(NoCredentials, <<>>, Apart) EXCEPT !.overInput = TRUE],
   Writer(Password("pw"), <<"c">>, Apart),
   Writer([Password("pw") EXCEPT !.pbkdf2 = TRUE], <<>>, Apart),
   Writer(PublicKey("ZKEY", "p1"), <<>>, Apart), Writer(PublicKey("ZPQK", "p1"), <<>>, Apart),
   Writer(PublicKey("BOX", "p1"), <<>>, Apart)}

MCReaders ==
  {NoCredentials, Legacy(NoCredentials), Legacy(Password("pw")), Password("pw"),
   Legacy(Password("no")), PrivateKey("ZKEY", "p1"), Legacy(PrivateKey("ZKEY", "p2")),
   Legacy(PrivateKey("BOX", "p1"))}

MCInputContents == {<<<<"a">>, <<"b", "a">>>>, <<<<>>, <<"a", "a", "b">>>>}
MCNewContents == {<<"b">>, <<"a", "b">>}

-----------------------------------------------------------------------------
(* Key files. *)

Cmd(op, flags, out, key) == [op |-> op, flags |-> flags, out |-> out, key |-> key]

MCCommands ==
  {Cmd("keygen", {}, "a", "a"), Cmd("keygen", {"box"}, "a", "a"),
   Cmd("keygen", {"pqonly"}, "a", "a"), Cmd("keygen", {"pub"}, "b", "a"),
   Cmd("keygen", {"pub", "pqonly"}, "b", "a"), Cmd("keygen", {"pub"}, "a", "a"),
   Cmd("encrypt", {}, "a", "b"), Cmd("encrypt", {"box"}, "a", "b"),
   Cmd("encrypt", {"pqonly"}, "a", "b"), Cmd("encrypt", {}, "a", "a")}
MCPubOf == [p \in {"a", "b"} |-> "b"]

-----------------------------------------------------------------------------
(* The deduplication table: two blocks with one fingerprint, and chains that *)
(* go around the end of the table.                                           *)

MCHome == [k \in Keys |-> CASE k \in {"a", "b"} -> 3 [] k = "c" -> 0 [] k = "d" -> 2 [] OTHER -> 1]

-----------------------------------------------------------------------------
(* Streams: concatenated frames with and without checksums and filters, and   *)
(* ones that are damaged at every place the decoder looks at.                 *)

FrameHead(fault, sum, filter) == [kind |-> "header", fault |-> fault, sum |-> sum, filter |-> filter]
FrameBlock(type, size, coded, last, good) ==
  [kind |-> "block", type |-> type, size |-> size, coded |-> coded, last |-> last, good |-> good]
FrameFoot(magic, right) == [kind |-> "footer", magic |-> magic, right |-> right]
TwoBlocks == <<FrameBlock("raw", 2, 0, FALSE, TRUE), FrameBlock("coded", 3, 2, TRUE, TRUE)>>

MCStreams ==
  {<<FrameHead("none", TRUE, TRUE)>> \o TwoBlocks
     \o <<FrameFoot(TRUE, TRUE), FrameHead("none", TRUE, FALSE), FrameBlock("rle", 2, 0, TRUE, TRUE), FrameFoot(TRUE, TRUE)>>,
   <<FrameHead("none", FALSE, TRUE)>> \o TwoBlocks
     \o <<FrameHead("none", FALSE, TRUE), FrameBlock("raw", 1, 0, TRUE, TRUE)>>,
   <<FrameHead("none", TRUE, FALSE)>> \o TwoBlocks \o <<FrameFoot(TRUE, FALSE)>>,
   <<FrameHead("none", TRUE, FALSE)>> \o TwoBlocks \o <<FrameFoot(FALSE, TRUE)>>,
   <<FrameHead("none", FALSE, FALSE), FrameBlock("raw", 0, 0, TRUE, TRUE)>>,
   <<FrameHead("none", FALSE, FALSE), FrameBlock("raw", 1, 0, FALSE, TRUE), FrameBlock("coded", 3, 4, TRUE, FALSE)>>,
   <<FrameHead("none", FALSE, FALSE), FrameBlock("raw", 1, 0, FALSE, TRUE), FrameBlock("unknown", 1, 0, TRUE, TRUE)>>,
   <<FrameHead("none", FALSE, FALSE), FrameBlock("raw", 6, 0, TRUE, TRUE)>>,
   <<FrameHead("magic", FALSE, FALSE)>> \o TwoBlocks,
   <<FrameHead("other", FALSE, FALSE)>> \o TwoBlocks}

-----------------------------------------------------------------------------

\* Bound: archives are damaged in storage only where no input changed while they
\* were made; after changes their contents differ, their layout does not.
DamageBound == events = 0

\* The parts that are off are in one of their initial states.
ProgramInit ==
  /\ part \in Parts
  /\ IF part = "codecs" THEN CodecInit ELSE codec = "lz" /\ data = <<>>
  /\ SolidInit /\ (part # "solid" => opts = Writer(NoCredentials, <<>>, Apart)
                                       /\ nodes[1].content = <<"a">>)
  /\ KeysInit
  /\ DedupInit
  /\ Init /\ (part # "stream" => elements = <<FrameHead("magic", FALSE, FALSE)>> \o TwoBlocks /\ room = 4)
  /\ RateInit

\* A step of one part.
In(p) ==
  /\ part = p /\ UNCHANGED part
  /\ p # "solid"  => UNCHANGED solidVars
  /\ p # "keys"   => UNCHANGED keyVars
  /\ p # "dedup"  => UNCHANGED dedupVars
  /\ p # "stream" => UNCHANGED vars
  /\ p # "rate"   => UNCHANGED rateVars
  /\ p # "codecs" => UNCHANGED codecVars

\* The steps of SolidNext, KeysNext, DedupNext, Next, RateNext and CodecNext, one
\* by one, so that TLC tells how often each was taken.
ProgramNext ==
  \/ \E f \in Inputs, c \in NewContents : In("solid") /\ Edit(f, c)
  \/ \E f \in Inputs, c \in NewContents : In("solid") /\ Replace(f, c)
  \/ \E f \in Inputs : In("solid") /\ Unlink(f)
  \/ In("solid") /\ Start("salt")
  \/ In("solid") /\ StatInput
  \/ In("solid") /\ Reopen
  \/ In("solid") /\ ReadUnit
  \/ In("solid") /\ ReadEnd
  \/ In("solid") /\ Recheck
  \/ In("solid") /\ HashFiles
  \/ \E lost \in BOOLEAN : In("solid") /\ EncodeBlock(lost)
  \/ \E lost \in BOOLEAN : In("solid") /\ WriteComment(lost)
  \/ \E lost \in BOOLEAN : In("solid") /\ WriteIndex(lost)
  \/ In("solid") /\ Publish
  \/ In("solid") /\ DamageBound /\ DamageFrames
  \/ In("solid") /\ DamageBound /\ DamageFields
  \/ \E q \in Procs, c \in Commands : In("keys") /\ Generate(q, c)
  \/ \E q \in Procs, c \in Commands : In("keys") /\ Export(q, c)
  \/ \E q \in Procs, c \in Commands : In("keys") /\ Encrypt(q, c)
  \/ \E q \in Procs : In("keys") /\ Create(q)
  \/ \E q \in Procs, ok \in BOOLEAN : In("keys") /\ Write(q, ok)
  \/ \E q \in Procs, ok \in BOOLEAN : In("keys") /\ Sync(q, ok)
  \/ \E q \in Procs : In("keys") /\ Die(q)
  \/ \E p \in Paths : In("keys") /\ UserRemoves(p)
  \/ \E names, contents \in SUBSET Paths : In("keys") /\ PowerFails(names, contents)
  \/ \E k \in Keys, i \in 0 .. Probes - 1 : In("dedup") /\ seen < MaxBlocks /\ Hit(k, i)
  \/ \E k \in Keys, i \in 0 .. Probes - 1 : In("dedup") /\ seen < MaxBlocks /\ Learn(k, i)
  \/ \E k \in Keys : In("dedup") /\ seen < MaxBlocks /\ Refuse(k)
  \/ \E n \in Chunks : In("stream") /\ Call(n)
  \/ In("stream") /\ Reset
  \/ \E w \in Workers : In("rate") /\ now < MaxTime /\ ReplaceWorker(w)
  \/ \E w \in Workers, k \in Clients : In("rate") /\ now < MaxTime /\ Request(w, k)
  \/ In("codecs") /\ CodecNext

ProgramSpec == ProgramInit /\ [][ProgramNext]_programVars
=============================================================================
