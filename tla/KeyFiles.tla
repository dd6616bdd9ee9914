------------------------------ MODULE KeyFiles ------------------------------
(***************************************************************************)
(* Key files on disk: zupt keygen in its native and pq-box modes (hybrid,  *)
(* pq-only, box, --pub), run by several processes at once, any of which    *)
(* may die between two system calls, the encryption of archives to the     *)
(* keys, and power failures (zupt_crypto.c, zupt_crypto_pqbox.c,           *)
(* zupt_main.c).                                                           *)
(*                                                                         *)
(* A file is a key record of Envelope, with the process and the turn that  *)
(* created it (its node): a writer whose file was removed goes on writing  *)
(* to a file that has no name any more.  It is whole when all its bytes    *)
(* are written, so that it loads, and synced when an fsync and the close   *)
(* have succeeded: a whole file need not be synced, nor reported by anyone.*)
(***************************************************************************)
EXTENDS Envelope, Integers, Sequences

CONSTANTS
  Paths,       \* names key files may be given
  Procs,       \* processes
  Commands,    \* what they may be asked to do
  PubOf,       \* the name of the public file the box mode derives
  MaxRuns,     \* bound: commands
  MaxRemovals, \* bound: files the user removes
  MaxOutages   \* bound: power failures

\* What may be under a name.
KeyFileRecords ==
  [kind : KeyKinds, private : BOOLEAN, id : Nat, whole : BOOLEAN, synced : BOOLEAN,
   node : Procs \X Nat \X BOOLEAN]

ASSUME KeyFilesAssumption ==
  /\ Commands \subseteq [op : {"keygen", "encrypt"}, flags : SUBSET {"box", "pqonly", "pub"},
                         out : Paths, key : Paths]
  /\ PubOf \in [Paths -> Paths]
  /\ NoKey \notin KeyFileRecords

VARIABLES
  file,       \* what is under each name
  proc,       \* what each process is doing
  runs,       \* how many commands were given; also the source of new key pairs
  removals, outages,
  gone,       \* history: names whose file the user removed or a power failure took
  made,       \* history: key pairs whose private file was written to the end
  durable,    \* history: key pairs whose private file was synced as well
  reported,   \* history: what commands that succeeded said they wrote
  envelopes   \* what archives were encrypted to

\* What only observes the commands.
history == <<gone, made, durable, reported>>

keyVars == <<file, proc, runs, removals, outages, history, envelopes>>

Idle == [pc |-> "idle"]

\* A command is [op, flags, out, key]: keygen with flags, or encrypt to key.
KeyfileOpts(flags, kf) ==
  [pq |-> TRUE, box |-> "box" \in flags, sdk |-> FALSE, pqonly |-> "pqonly" \in flags,
   pbkdf2 |-> FALSE, keyfile |-> kf, password |-> NoKey, legacy |-> FALSE]

\* What keygen generates: the flags are looked at in this order.
KindOf(flags) ==
  IF "pqonly" \in flags THEN "ZPQK" ELSE IF "box" \in flags THEN "BOX" ELSE "ZKEY"

\* --pub knows the native kinds only.
ExportKind(flags) == IF "pqonly" \in flags THEN "ZPQK" ELSE "ZKEY"

KeysInit ==
  /\ file = [p \in Paths |-> NoKey]
  /\ proc = [q \in Procs |-> Idle]
  /\ runs = 0 /\ removals = 0 /\ outages = 0
  /\ gone = {} /\ made = {} /\ durable = {} /\ reported = {} /\ envelopes = {}

\* The file a process is about to make: kind, role, key pair and name.
Target(kind, private, id, path) ==
  [kind |-> kind, private |-> private, id |-> id, path |-> path]

-----------------------------------------------------------------------------
\* keygen without --pub: a fresh pair, of which the native modes write one
\* file, the box mode a private and then a public one.
Generate(q, c) ==
  /\ proc[q] = Idle /\ runs < MaxRuns /\ c.op = "keygen" /\ "pub" \notin c.flags
  /\ LET kind == KindOf(c.flags)
         private == Target(kind, TRUE, runs, c.out)
     IN  /\ kind = "BOX" => "pqbox" \in Built
         /\ proc' = [proc EXCEPT ![q] =
              [pc |-> "open", written |-> {},
               todo |-> IF kind = "BOX"
                        THEN <<private, Target(kind, FALSE, runs, PubOf[c.out])>>
                        ELSE <<private>>]]
  /\ runs' = runs + 1
  /\ UNCHANGED <<file, removals, outages, history, envelopes>>

\* keygen --pub: the public half of a private file that loads.
Export(q, c) ==
  /\ proc[q] = Idle /\ runs < MaxRuns /\ c.op = "keygen" /\ "pub" \in c.flags
  /\ LoadsNative(file[c.key], ExportKind(c.flags), TRUE)
  /\ proc' = [proc EXCEPT ![q] =
       [pc |-> "open", written |-> {},
        todo |-> <<Target(ExportKind(c.flags), FALSE, file[c.key].id, c.out)>>]]
  /\ runs' = runs + 1
  /\ UNCHANGED <<file, removals, outages, history, envelopes>>

\* Mutant: open truncates what is there.
CreateOver(q) ==
  /\ proc[q].pc = "open"
  /\ LET t == proc[q].todo[1]
     IN  /\ file' = [file EXCEPT ![t.path] =
                       [kind |-> t.kind, private |-> t.private, id |-> t.id,
                        whole |-> FALSE, synced |-> FALSE, node |-> <<q, t.id, t.private>>]]
         /\ proc' = [proc EXCEPT ![q].pc = "write"]
  /\ UNCHANGED <<runs, removals, outages, history, envelopes>>

\* zupt_keyfile_write_new: O_CREAT | O_EXCL, whatever has the name already.
Create(q) ==
  /\ proc[q].pc = "open"
  /\ LET t == proc[q].todo[1]
     IN  IF file[t.path] # NoKey
         THEN proc' = [proc EXCEPT ![q] = Idle] /\ UNCHANGED file
         ELSE /\ file' = [file EXCEPT ![t.path] =
                            [kind |-> t.kind, private |-> t.private, id |-> t.id,
                             whole |-> FALSE, synced |-> FALSE, node |-> <<q, t.id, t.private>>]]
              /\ proc' = [proc EXCEPT ![q].pc = "write"]
  /\ UNCHANGED <<runs, removals, outages, history, envelopes>>

\* The file a process is at still has the name it was created under.
Mine(q) ==
  LET t == proc[q].todo[1]
  IN  file[t.path] # NoKey /\ file[t.path].node = <<q, t.id, t.private>>

\* fchmod and the loop of writes.  With the last byte the file loads; when a
\* call fails the incomplete file stays, and nothing further is written.
Write(q, ok) ==
  /\ proc[q].pc = "write"
  /\ LET t == proc[q].todo[1]
     IN  IF ok
         THEN /\ file' = IF Mine(q) THEN [file EXCEPT ![t.path].whole = TRUE] ELSE file
              /\ made' = IF t.private THEN made \cup {t.id} ELSE made
              /\ proc' = [proc EXCEPT ![q].pc = "sync"]
         ELSE proc' = [proc EXCEPT ![q] = Idle] /\ UNCHANGED <<file, made>>
  /\ UNCHANGED <<runs, removals, outages, gone, durable, reported, envelopes>>

\* What a command does once its file is written: the next one, or it says so.
GoesOn(q) ==
  LET done == proc[q].written \cup {proc[q].todo[1]}
  IN  IF Len(proc[q].todo) > 1
      THEN /\ proc' = [proc EXCEPT ![q] = [pc |-> "open", written |-> done,
                                           todo |-> Tail(proc[q].todo)]]
           /\ UNCHANGED reported
      ELSE proc' = [proc EXCEPT ![q] = Idle] /\ reported' = reported \cup done

\* Mutant: the result of fsync and close is not looked at.
SyncAnyway(q, ok) ==
  /\ proc[q].pc = "sync"
  /\ LET t == proc[q].todo[1]
     IN  /\ IF ok
            THEN /\ file' = IF Mine(q) THEN [file EXCEPT ![t.path].synced = TRUE] ELSE file
                 /\ durable' = IF t.private THEN durable \cup {t.id} ELSE durable
            ELSE UNCHANGED <<file, durable>>
         /\ GoesOn(q)
  /\ UNCHANGED <<runs, removals, outages, gone, made, envelopes>>

\* fsync and close.  When one of them fails the command fails, and leaves a file
\* that loads and that nobody was told of.
Sync(q, ok) ==
  /\ proc[q].pc = "sync"
  /\ LET t == proc[q].todo[1]
     IN  IF ok
         THEN /\ file' = IF Mine(q) THEN [file EXCEPT ![t.path].synced = TRUE] ELSE file
              /\ durable' = IF t.private THEN durable \cup {t.id} ELSE durable
              /\ GoesOn(q)
         ELSE proc' = [proc EXCEPT ![q] = Idle] /\ UNCHANGED <<file, durable, reported>>
  /\ UNCHANGED <<runs, removals, outages, gone, made, envelopes>>

\* The process dies; what it wrote so far stays.
Die(q) ==
  /\ proc[q] # Idle
  /\ proc' = [proc EXCEPT ![q] = Idle]
  /\ UNCHANGED <<file, runs, removals, outages, history, envelopes>>

\* The user removes a file, as keygen asks them to do with incomplete ones.
UserRemoves(p) ==
  /\ file[p] # NoKey /\ removals < MaxRemovals
  /\ file' = [file EXCEPT ![p] = NoKey]
  /\ removals' = removals + 1
  /\ gone' = gone \cup {p}
  /\ UNCHANGED <<proc, runs, outages, made, durable, reported, envelopes>>

\* A power failure ends every process.  What was not synced may be lost, and any
\* name: no key file's directory is synced.  What is left is on the disk.
PowerFails(names, contents) ==
  /\ outages < MaxOutages
  /\ \A p \in names \cup contents : file[p] # NoKey
  /\ \A p \in contents : ~file[p].synced
  /\ file' = [p \in Paths |->
       IF file[p] = NoKey \/ p \in names THEN NoKey
       ELSE [file[p] EXCEPT !.whole = @ /\ p \notin contents, !.synced = TRUE]]
  /\ proc' = [q \in Procs |-> Idle]
  /\ outages' = outages + 1
  /\ gone' = gone \cup names
  /\ UNCHANGED <<runs, removals, made, durable, reported, envelopes>>

\* write_enc_header for an archive encrypted to a key file.
Encrypt(q, c) ==
  /\ proc[q] = Idle /\ runs < MaxRuns /\ c.op = "encrypt"
  /\ LET opts == KeyfileOpts(c.flags, file[c.key])
     IN  /\ CanSeal(EnvelopeType(opts), opts)
         /\ envelopes' = envelopes \cup {EnvelopeOf(SealedKey(opts, runs))}
  /\ runs' = runs + 1
  /\ UNCHANGED <<file, proc, removals, outages, history>>

KeysNext ==
  \/ \E q \in Procs, c \in Commands : Generate(q, c) \/ Export(q, c) \/ Encrypt(q, c)
  \/ \E q \in Procs : Create(q) \/ Die(q)
  \/ \E q \in Procs, ok \in BOOLEAN : Write(q, ok) \/ Sync(q, ok)
  \/ \E p \in Paths : UserRemoves(p)
  \/ \E names, contents \in SUBSET Paths : PowerFails(names, contents)

KeysSpec == KeysInit /\ [][KeysNext]_keyVars

-----------------------------------------------------------------------------
\* No key is lost to another command: a name leads to the same key until its
\* file is gone, and what is whole stays so if it was synced or the power stays on.
KeysAreNeverReplaced ==
  \A p \in Paths :
    (file[p] # NoKey /\ file'[p] # NoKey) =>
      /\ file'[p].id = file[p].id /\ file'[p].private = file[p].private
      /\ file'[p].kind = file[p].kind
      /\ file[p].whole /\ (file[p].synced \/ outages' = outages) => file'[p].whole

\* PROPERTY: a file that was there is never written to by another command, and the
\* contents of a key file never change once they are written, but that a power
\* failure takes what was not synced (zupt_crypto.c:593-808).
KeyFilesStay == [][KeysAreNeverReplaced]_keyVars

\* Whoever encrypts to a key can rely on its private half having been on
\* disk, complete, before, whether or not the command that made it succeeded; and
\* on its having been synced where keygen itself makes the public half.
EnvelopesHaveOwners ==
  \A env \in envelopes :
    env.to \in made /\ (env.type = "box" => env.to \in durable)

\* Every private file that loads and belongs to the recipient opens the
\* envelope, with the key the writer used.
OwnersCanOpen ==
  \A env \in envelopes, p \in Paths :
    LET flags == CASE env.type = "box" -> {"box"} [] env.type = "pqonly" -> {"pqonly"}
                   [] OTHER -> {}
    IN  file[p] # NoKey /\ file[p].private /\ file[p].whole /\ file[p].id = env.to =>
          OpenEnvelope(env, KeyfileOpts(flags, file[p])) = KeyOf(env.type, env.to, env.salt)

\* What keygen said it wrote is there and complete, even after a power failure,
\* unless the name is gone.
ReportedKeysAreThere ==
  \A t \in reported : t.path \notin gone =>
    /\ file[t.path] # NoKey /\ file[t.path].whole
    /\ file[t.path].id = t.id /\ file[t.path].private = t.private

\* PROPERTY: a key that was reported is there, and an archive that was encrypted
\* to a key can be opened by its owner, whatever failed, died or lost its power
\* in between, a complete file that was never reported included
\* (zupt_crypto.c:582-808, zupt_crypto_pqbox.c:48-92).
KeysCanBeReliedOn == EnvelopesHaveOwners /\ OwnersCanOpen /\ ReportedKeysAreThere

-----------------------------------------------------------------------------
(* The inductive invariant. *)

Targets == [kind : KeyKinds, private : BOOLEAN, id : Nat, path : Paths]

Busy == [pc : {"open", "write", "sync"}, written : SUBSET Targets, todo : Seq(Targets)]

SealTypes == {"box", "pqonly", "hybrid"}

KeysTypeOK ==
  /\ file \in [Paths -> KeyFileRecords \cup {NoKey}]
  /\ proc \in [Procs -> Busy \cup {Idle}]
  /\ runs \in Nat /\ removals \in Nat /\ outages \in Nat
  /\ gone \subseteq Paths /\ made \subseteq Nat /\ durable \subseteq Nat
  /\ reported \subseteq Targets
  /\ envelopes \subseteq [type : SealTypes, to : Nat, salt : Nat]
  /\ \A env \in envelopes : env.type = "box" => "pqbox" \in Built

\* The kind of key pair an envelope is made for.
SealKind(type) ==
  CASE type = "box" -> "BOX" [] type = "pqonly" -> "ZPQK" [] OTHER -> "ZKEY"

\* Every key pair there is a trace of, with its kind.
KeyPairs ==
  {<<file[p].id, file[p].kind>> : p \in {p \in Paths : file[p] # NoKey}}
  \cup {<<proc[q].todo[1].id, proc[q].todo[1].kind>> : q \in {q \in Procs : proc[q] # Idle}}
  \cup {<<env.to, SealKind(env.type)>> : env \in envelopes}

\* A key pair has one kind, and a new one will differ from all there are.
OneKindPerPair ==
  /\ \A x, y \in KeyPairs : x[1] = y[1] => x[2] = y[2]
  /\ \A x \in KeyPairs : x[1] < runs

\* A public file is written after the private one was, by the same command, which
\* has synced it, or an earlier one.
PrivateFirst ==
  \A q \in Procs : proc[q] # Idle =>
    LET todo == proc[q].todo
    IN  /\ Len(todo) \in 1 .. 2
        /\ ~todo[1].private \/ proc[q].pc = "sync" => todo[1].id \in made
        /\ ~todo[1].private /\ todo[1].kind = "BOX" => todo[1].id \in durable
        /\ Len(todo) = 2 => /\ todo[1].private /\ ~todo[2].private
                            /\ todo[2].id = todo[1].id /\ todo[2].kind = todo[1].kind

\* What is whole belongs to a pair whose private half was whole, and synced if
\* this is the public half of the box mode; a node says what is in it.
FilesTrue ==
  \A p \in Paths : file[p] # NoKey =>
    /\ file[p].whole => file[p].id \in made
    /\ file[p].whole /\ ~file[p].private /\ file[p].kind = "BOX" => file[p].id \in durable
    /\ file[p].node[2] = file[p].id /\ file[p].node[3] = file[p].private

\* What a command wrote is there for good.
There(t) ==
  /\ file[t.path] # NoKey /\ file[t.path].whole /\ file[t.path].synced
  /\ file[t.path].id = t.id /\ file[t.path].private = t.private

\* A command finds what it wrote, and what it is writing, unless the name is gone.
WritersFindTheirs ==
  \A q \in Procs : proc[q] # Idle =>
    /\ \A t \in proc[q].written : t.path \notin gone => There(t)
    /\ proc[q].pc # "open" =>
         LET t == proc[q].todo[1]
         IN  t.path \notin gone =>
               /\ file[t.path] # NoKey /\ file[t.path].node = <<q, t.id, t.private>>
               /\ proc[q].pc = "sync" => file[t.path].whole

\* So it is with what commands reported.
ReportedAreThere == \A t \in reported : t.path \notin gone => There(t)

KeysIInv ==
  /\ KeysTypeOK
  /\ OneKindPerPair
  /\ PrivateFirst
  /\ FilesTrue
  /\ WritersFindTheirs
  /\ ReportedAreThere
  /\ EnvelopesHaveOwners
=============================================================================
