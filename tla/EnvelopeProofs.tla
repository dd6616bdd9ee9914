--------------------------- MODULE EnvelopeProofs ----------------------------
(***************************************************************************)
(* Proofs about KeyFiles and SolidArchive, which have Envelope in common.  *)
(*                                                                         *)
(* KeyFiles, for any number of processes, names, commands, removals and    *)
(* power failures: a name keeps its key, a key that was reported is there, *)
(* and archives are encrypted to keys whose owner can open them.           *)
(*                                                                         *)
(* SolidArchive, for any inputs, contents, options, readers, block size    *)
(* and number of disturbances: an archive holds its inputs as they were at *)
(* one instant, gives out nothing else whatever happens to it in storage,  *)
(* and nothing at all without the key it was made for.                     *)
(***************************************************************************)
EXTENDS KeyFiles, SolidArchive, SequenceTheorems, WellFoundedInduction, TLAPS

-----------------------------------------------------------------------------
(* Key files.                                                              *)

(* What is not a process at work, or not a file. *)

LEMMA IdleIsNotBusy == Idle \notin Busy
BY DEF Idle, Busy

\* Nothing under a name is not a key file.
LEMMA NoKeyIsNoFile == NoKey \notin KeyFileRecords
BY KeyFilesAssumption

\* What a process at work is, and what it does next.
LEMMA AtWork ==
  ASSUME KeysTypeOK, PrivateFirst, NEW q \in Procs, proc[q] # Idle
  PROVE  /\ proc[q] \in Busy
         /\ proc[q].todo \in Seq(Targets) /\ Len(proc[q].todo) \in 1 .. 2
         /\ proc[q].todo[1] \in Targets
         /\ proc[q].written \subseteq Targets
<1>1. proc[q] \in Busy BY DEF KeysTypeOK
<1>2. proc[q].todo \in Seq(Targets) /\ proc[q].written \subseteq Targets BY <1>1 DEF Busy
<1>3. Len(proc[q].todo) \in 1 .. 2 BY DEF PrivateFirst
<1>4. proc[q].todo[1] \in Targets BY <1>2, <1>3
<1> QED BY <1>1, <1>2, <1>3, <1>4

\* A process whose place is known is at work.
LEMMA PlaceIsWork ==
  ASSUME KeysTypeOK, NEW q \in Procs, proc[q].pc \in {"open", "write", "sync"}
  PROVE  proc[q] # Idle
BY DEF Idle

\* What is left of a pair.
LEMMA TailOfTwo ==
  ASSUME NEW S, NEW td \in Seq(S), Len(td) \in 1 .. 2, Len(td) > 1
  PROVE  /\ Len(td) = 2 /\ td[2] \in S
         /\ Tail(td) \in Seq(S) /\ Len(Tail(td)) = 1 /\ Tail(td)[1] = td[2]
<1>1. Len(td) = 2 OBVIOUS
<1>2. td # <<>> BY <1>1
<1>3. /\ Tail(td) \in Seq(S) /\ Len(Tail(td)) = Len(td) - 1
      /\ \A i \in 1 .. Len(Tail(td)) : Tail(td)[i] = td[i + 1]
  BY <1>2, HeadTailProperties
<1>4. Len(Tail(td)) = 1 /\ 1 \in 1 .. 1 BY <1>1, <1>3
<1>5. Tail(td)[1] = td[2] BY <1>3, <1>4
<1>6. td[2] \in S BY <1>1, ElementOfSeq
<1> QED BY <1>1, <1>3, <1>4, <1>5, <1>6

\* The public file of a pair is made behind the private one, with its identity.
LEMMA PublicOfPrivate ==
  ASSUME KeysTypeOK, PrivateFirst, NEW q \in Procs, proc[q] # Idle, Len(proc[q].todo) > 1
  PROVE  LET rest == Tail(proc[q].todo)
         IN  /\ rest \in Seq(Targets) /\ Len(rest) = 1
             /\ rest[1] = proc[q].todo[2] /\ rest[1] \in Targets
             /\ ~rest[1].private /\ proc[q].todo[1].private
             /\ rest[1].id = proc[q].todo[1].id /\ rest[1].kind = proc[q].todo[1].kind
<1>1. PICK td : td = proc[q].todo OBVIOUS
<1>2. td \in Seq(Targets) /\ Len(td) \in 1 .. 2 /\ Len(td) > 1 BY <1>1, AtWork
<1>3. /\ Len(td) = 2 /\ td[2] \in Targets
      /\ Tail(td) \in Seq(Targets) /\ Len(Tail(td)) = 1 /\ Tail(td)[1] = td[2]
  BY <1>2, TailOfTwo
<1>5. td[1].private /\ ~td[2].private /\ td[2].id = td[1].id /\ td[2].kind = td[1].kind
  BY <1>1, <1>3 DEF PrivateFirst
<1> QED BY <1>1, <1>3, <1>5

-----------------------------------------------------------------------------
(* Types. *)

LEMMA CommandTyped ==
  ASSUME NEW c \in Commands
  PROVE  /\ c.out \in Paths /\ c.key \in Paths /\ PubOf[c.out] \in Paths
         /\ KindOf(c.flags) \in KeyKinds /\ ExportKind(c.flags) \in KeyKinds
BY KeyFilesAssumption DEF KindOf, ExportKind, KeyKinds

\* At first there are no files and no pairs.
LEMMA KeysInitHolds == KeysInit => KeysIInv
<1> SUFFICES ASSUME KeysInit PROVE KeysIInv OBVIOUS
<1>1. KeysTypeOK BY DEF KeysInit, KeysTypeOK
<1>2. KeyPairs = {} BY DEF KeysInit, KeyPairs
<1>3. OneKindPerPair BY <1>2 DEF OneKindPerPair
<1> QED BY <1>1, <1>3 DEF KeysInit, KeysIInv, PrivateFirst, FilesTrue, WritersFindTheirs,
          ReportedAreThere, EnvelopesHaveOwners

-----------------------------------------------------------------------------
(* One process gets something to do, the rest stays as it is. *)

\* A command that begins, with what it is going to write: fresh files, or the
\* public half of a file that is whole.
Begins(q, todo) ==
  /\ proc[q] = Idle
  /\ proc' = [proc EXCEPT ![q] = [pc |-> "open", written |-> {}, todo |-> todo]]
  /\ runs' = runs + 1
  /\ UNCHANGED <<file, removals, outages, history, envelopes>>

\* A keygen sets out to write the pair it has just made, private half first.
LEMMA GenerateBegins ==
  ASSUME KeysTypeOK, NEW q \in Procs, NEW c \in Commands, Generate(q, c)
  PROVE  \E todo \in Seq(Targets) :
           /\ Begins(q, todo) /\ Len(todo) \in 1 .. 2
           /\ todo[1].private /\ todo[1].id = runs
           /\ Len(todo) = 2 => /\ ~todo[2].private
                               /\ todo[2].id = todo[1].id /\ todo[2].kind = todo[1].kind
<1> DEFINE kind == KindOf(c.flags)
           private == Target(kind, TRUE, runs, c.out)
           public == Target(kind, FALSE, runs, PubOf[c.out])
           todo == IF kind = "BOX" THEN <<private, public>> ELSE <<private>>
<1>0. kind \in KeyKinds /\ c.out \in Paths /\ PubOf[c.out] \in Paths /\ runs \in Nat
  BY CommandTyped DEF KeysTypeOK
<1>a. TRUE \in BOOLEAN /\ FALSE \in BOOLEAN OBVIOUS
<1> HIDE DEF kind
<1>1. private \in Targets /\ private.private /\ private.id = runs /\ private.kind = kind
  BY <1>0, <1>a DEF Target, Targets
<1>2. public \in Targets /\ ~public.private /\ public.id = runs /\ public.kind = kind
  BY <1>0, <1>a DEF Target, Targets
<1> USE DEF kind
<1>3. proc[q] = Idle /\ proc' = [proc EXCEPT ![q] = [pc |-> "open", written |-> {}, todo |-> todo]]
  BY DEF Generate
<1>4. Begins(q, todo) BY <1>3 DEF Generate, Begins
<1> HIDE DEF kind, private, public
<1>5. todo \in Seq(Targets) /\ Len(todo) \in 1 .. 2 /\ todo[1] = private
      /\ (Len(todo) = 2 => todo[2] = public)
  BY <1>1, <1>2
<1> HIDE DEF todo
<1> QED BY <1>1, <1>2, <1>4, <1>5

\* An export sets out to write the public half of a private file that is whole.
LEMMA ExportBegins ==
  ASSUME KeysTypeOK, FilesTrue, NEW q \in Procs, NEW c \in Commands, Export(q, c)
  PROVE  \E todo \in Seq(Targets), p \in Paths :
           /\ Begins(q, todo) /\ Len(todo) = 1
           /\ file[p] # NoKey /\ todo[1].id = file[p].id /\ todo[1].kind = file[p].kind
           /\ ~todo[1].private /\ todo[1].id \in made /\ todo[1].kind # "BOX"
<1> DEFINE kind == ExportKind(c.flags)
           kf == file[c.key]
           public == Target(kind, FALSE, kf.id, c.out)
<1>1. c.key \in Paths BY CommandTyped
<1>2. kf # NoKey /\ kf.kind = kind /\ kf.whole BY DEF Export, LoadsNative
<1>3. kf \in KeyFileRecords BY <1>1, <1>2 DEF KeysTypeOK
<1>4. kf.id \in Nat BY <1>3 DEF KeyFileRecords
<1>5. kf.id \in made BY <1>1, <1>2 DEF FilesTrue
<1>a. kind \in KeyKinds /\ c.out \in Paths BY CommandTyped
<1>b. kind # "BOX" BY DEF ExportKind
<1>6. public \in Targets /\ ~public.private /\ public.id = kf.id /\ public.kind = kind
  <2> HIDE DEF kind, kf
  <2> QED BY <1>4, <1>a DEF Target, Targets
<1>7. Begins(q, <<public>>) BY DEF Export, Begins
<1> HIDE DEF kind, kf, public
<1>8. <<public>> \in Seq(Targets) /\ Len(<<public>>) = 1 /\ <<public>>[1] = public BY <1>6
<1>9. file[c.key] = kf BY DEF kf
<1> QED BY <1>1, <1>2, <1>5, <1>6, <1>7, <1>8, <1>9, <1>b

\* What the invariant needs of a command that begins.
LEMMA BeginsKeepsInv ==
  ASSUME KeysIInv, NEW q \in Procs, NEW todo \in Seq(Targets), Begins(q, todo),
         Len(todo) \in 1 .. 2,
         Len(todo) = 2 => /\ todo[1].private /\ ~todo[2].private
                          /\ todo[2].id = todo[1].id /\ todo[2].kind = todo[1].kind,
         ~todo[1].private => todo[1].id \in made /\ todo[1].kind # "BOX",
         todo[1].id = runs \/ <<todo[1].id, todo[1].kind>> \in KeyPairs
  PROVE  KeysIInv'
<1> DEFINE new == [pc |-> "open", written |-> {}, todo |-> todo]
           pair == <<todo[1].id, todo[1].kind>>
<1>1. proc' = [proc EXCEPT ![q] = new] /\ runs' = runs + 1 /\ runs \in Nat
      /\ UNCHANGED <<file, removals, outages, gone, made, durable, reported, envelopes>>
      /\ proc \in [Procs -> Busy \cup {Idle}]
  BY DEF Begins, history, KeysIInv, KeysTypeOK
<1>2. new \in Busy /\ new # Idle BY IdleIsNotBusy DEF Busy
<1>3. proc'[q] = new /\ \A r \in Procs : r # q => proc'[r] = proc[r] BY <1>1
<1>4. new.todo = todo /\ new.written = {} /\ new.pc = "open" OBVIOUS
<1> HIDE DEF new
<1>5. KeysTypeOK' BY <1>1, <1>2 DEF KeysIInv, KeysTypeOK
<1>6. KeyPairs' \subseteq KeyPairs \cup {pair}
  BY <1>1, <1>3, <1>4 DEF KeyPairs
<1>7. OneKindPerPair'
  <2>1. \A x \in KeyPairs : x[1] < runs BY DEF KeysIInv, OneKindPerPair
  <2>2. \A x, y \in KeyPairs : x[1] = y[1] => x[2] = y[2] BY DEF KeysIInv, OneKindPerPair
  <2>3. \A x \in KeyPairs : x[1] \in Nat
    BY IdleIsNotBusy, AtWork DEF KeysIInv, KeysTypeOK, KeyPairs, KeyFileRecords, Targets
  <2>4. pair[1] = runs \/ pair \in KeyPairs OBVIOUS
  <2>5. \A x \in KeyPairs' : x[1] < runs'
    BY <1>1, <1>6, <2>1, <2>3, <2>4
  <2>6. \A x, y \in KeyPairs' : x[1] = y[1] => x[2] = y[2]
    BY <1>1, <1>6, <2>1, <2>2, <2>3, <2>4
  <2> QED BY <2>5, <2>6 DEF OneKindPerPair
<1>8. PrivateFirst' BY <1>1, <1>3, <1>4 DEF KeysIInv, PrivateFirst
<1>9. FilesTrue' BY <1>1 DEF KeysIInv, FilesTrue
<1>10. WritersFindTheirs'
  BY <1>1, <1>3, <1>4 DEF KeysIInv, WritersFindTheirs, There
<1>11. ReportedAreThere' BY <1>1 DEF KeysIInv, ReportedAreThere, There
<1>12. EnvelopesHaveOwners' BY <1>1 DEF KeysIInv, EnvelopesHaveOwners
<1> QED BY <1>5, <1>7, <1>8, <1>9, <1>10, <1>11, <1>12 DEF KeysIInv
\* keygen begins (generate_keys).
LEMMA GenerateKeepsInv ==
  ASSUME KeysIInv, NEW q \in Procs, NEW c \in Commands, Generate(q, c)
  PROVE  KeysIInv'
<1>1. PICK todo \in Seq(Targets) :
        /\ Begins(q, todo) /\ Len(todo) \in 1 .. 2
        /\ todo[1].private /\ todo[1].id = runs
        /\ Len(todo) = 2 => /\ ~todo[2].private
                            /\ todo[2].id = todo[1].id /\ todo[2].kind = todo[1].kind
  BY GenerateBegins DEF KeysIInv
<1> QED BY <1>1, BeginsKeepsInv

\* --pub begins.
LEMMA ExportKeepsInv ==
  ASSUME KeysIInv, NEW q \in Procs, NEW c \in Commands, Export(q, c)
  PROVE  KeysIInv'
<1>1. PICK todo \in Seq(Targets), p \in Paths :
        /\ Begins(q, todo) /\ Len(todo) = 1
        /\ file[p] # NoKey /\ todo[1].id = file[p].id /\ todo[1].kind = file[p].kind
        /\ ~todo[1].private /\ todo[1].id \in made /\ todo[1].kind # "BOX"
  BY ExportBegins DEF KeysIInv
<1>2. <<todo[1].id, todo[1].kind>> \in KeyPairs BY <1>1 DEF KeyPairs
<1>3. Len(todo) \in 1 .. 2 /\ Len(todo) # 2 BY <1>1
<1> QED BY <1>1, <1>2, <1>3, BeginsKeepsInv

-----------------------------------------------------------------------------
(* Steps that leave no new trace of a key pair. *)

LEMMA PairsKeep ==
  ASSUME OneKindPerPair, runs' = runs, KeyPairs' \subseteq KeyPairs
  PROVE  OneKindPerPair'
BY DEF OneKindPerPair

\* The process stops where it is, whatever was written.
LEMMA StopKeepsInv ==
  ASSUME KeysIInv, NEW q \in Procs,
         proc' = [proc EXCEPT ![q] = Idle],
         UNCHANGED <<file, runs, removals, outages, history, envelopes>>
  PROVE  KeysIInv'
<1>0. UNCHANGED <<gone, made, durable, reported>> BY DEF history
<1>1. proc \in [Procs -> Busy \cup {Idle}] BY DEF KeysIInv, KeysTypeOK
<1>2. proc'[q] = Idle /\ \A r \in Procs : r # q => proc'[r] = proc[r] BY <1>1
<1>3. KeysTypeOK' BY <1>0, <1>1 DEF KeysIInv, KeysTypeOK
<1>4. KeyPairs' \subseteq KeyPairs BY <1>2 DEF KeyPairs
<1>5. OneKindPerPair' BY <1>4, PairsKeep DEF KeysIInv
<1>6. PrivateFirst' BY <1>0, <1>2 DEF KeysIInv, PrivateFirst
<1>7. FilesTrue' BY <1>0 DEF KeysIInv, FilesTrue
<1>8. WritersFindTheirs'
  <2> SUFFICES ASSUME NEW r \in Procs, r # q, proc[r] # Idle, proc'[r] = proc[r]
               PROVE  /\ \A x \in proc'[r].written : x.path \notin gone' => There(x)'
                      /\ proc'[r].pc # "open" =>
                           LET u == proc'[r].todo[1]
                           IN  u.path \notin gone' =>
                                 /\ file'[u.path] # NoKey
                                 /\ file'[u.path].node = <<r, u.id, u.private>>
                                 /\ proc'[r].pc = "sync" => file'[u.path].whole
    BY <1>2 DEF WritersFindTheirs
  <2>1. WritersFindTheirs BY DEF KeysIInv
  <2>2. ASSUME NEW x \in proc[r].written, x.path \notin gone PROVE There(x)'
    <3>1. There(x) BY <2>1, <2>2 DEF WritersFindTheirs
    <3>2. file' = file OBVIOUS
    <3> QED BY <3>1, <3>2 DEF There
  <2>3. proc[r].pc # "open" =>
          LET u == proc[r].todo[1]
          IN  u.path \notin gone =>
                /\ file[u.path] # NoKey /\ file[u.path].node = <<r, u.id, u.private>>
                /\ proc[r].pc = "sync" => file[u.path].whole
    BY <2>1 DEF WritersFindTheirs
  <2> QED BY <1>0, <2>2, <2>3
<1>9. ReportedAreThere' BY <1>0 DEF KeysIInv, ReportedAreThere, There
<1>10. EnvelopesHaveOwners' BY <1>0 DEF KeysIInv, EnvelopesHaveOwners
<1> QED BY <1>3, <1>5, <1>6, <1>7, <1>8, <1>9, <1>10 DEF KeysIInv

\* A process dies: what it had begun stays as it is.
LEMMA DieKeepsInv ==
  ASSUME KeysIInv, NEW q \in Procs, Die(q)
  PROVE  KeysIInv'
BY StopKeepsInv DEF Die

\* A file that was not there: what else there is stays.
LEMMA CreateKeepsInv ==
  ASSUME KeysIInv, NEW q \in Procs, Create(q)
  PROVE  KeysIInv'
<1> DEFINE t == proc[q].todo[1]
           node == <<q, t.id, t.private>>
           new == [kind |-> t.kind, private |-> t.private, id |-> t.id,
                   whole |-> FALSE, synced |-> FALSE, node |-> node]
<1>1. KeysTypeOK /\ OneKindPerPair /\ PrivateFirst /\ FilesTrue /\ WritersFindTheirs
      /\ ReportedAreThere /\ EnvelopesHaveOwners
  BY DEF KeysIInv
<1>2. proc[q].pc = "open" BY DEF Create
<1>3. proc[q] # Idle BY <1>1, <1>2, PlaceIsWork
<1>4. proc[q] \in Busy /\ t \in Targets BY <1>1, <1>3, AtWork
<1>5. t.path \in Paths /\ t.kind \in KeyKinds /\ t.private \in BOOLEAN /\ t.id \in Nat
  BY <1>4 DEF Targets
<1>6. CASE file[t.path] # NoKey
  BY <1>6, StopKeepsInv DEF Create
<1>7. CASE file[t.path] = NoKey
  <2>1. /\ file' = [file EXCEPT ![t.path] = new]
        /\ proc' = [proc EXCEPT ![q].pc = "write"]
        /\ UNCHANGED <<runs, removals, outages, gone, made, durable, reported, envelopes>>
    BY <1>7 DEF Create, history
  <2>2. new \in KeyFileRecords BY <1>5 DEF KeyFileRecords
  <2>3. new # NoKey /\ new.kind = t.kind /\ new.id = t.id /\ new.private = t.private /\ ~new.whole
        /\ new.node = node /\ node[2] = t.id /\ node[3] = t.private
    BY <2>2, NoKeyIsNoFile
  <2>a. file \in [Paths -> KeyFileRecords \cup {NoKey}] /\ proc \in [Procs -> Busy \cup {Idle}]
    BY <1>1 DEF KeysTypeOK
  <2> HIDE DEF new, node
  <2>4. file'[t.path] = new /\ \A p \in Paths : p # t.path => file'[p] = file[p]
    BY <1>5, <2>1, <2>a
  <2> DEFINE job == [proc[q] EXCEPT !.pc = "write"]
  <2>5. /\ job \in Busy /\ job # Idle /\ job.pc = "write"
        /\ job.todo = proc[q].todo /\ job.written = proc[q].written
    BY <1>4, IdleIsNotBusy DEF Busy
  <2>6. proc' = [proc EXCEPT ![q] = job] BY <2>1
  <2> HIDE DEF job
  <2>7. proc'[q] = job /\ \A r \in Procs : r # q => proc'[r] = proc[r]
    BY <2>6, <2>a
  <2> HIDE DEF t
  <2>b. t = proc[q].todo[1] BY DEF t
  <2>8. KeysTypeOK' BY <1>1, <1>5, <2>1, <2>2, <2>5, <2>6 DEF KeysTypeOK
  <2>9. KeyPairs' \subseteq KeyPairs
    BY <1>3, <1>5, <2>b, <2>1, <2>3, <2>4, <2>5, <2>7 DEF KeyPairs
  <2>10. OneKindPerPair' BY <1>1, <2>1, <2>9, PairsKeep
  <2>11. PrivateFirst' BY <1>1, <1>3, <2>1, <2>5, <2>7 DEF PrivateFirst
  <2>12. FilesTrue' BY <1>1, <2>1, <2>3, <2>4 DEF FilesTrue
  <2>13. ASSUME NEW x \in Targets, There(x) PROVE There(x)'
    BY <1>7, <2>4, <2>13 DEF There, Targets
  <2>14. WritersFindTheirs'
    <3> SUFFICES ASSUME NEW r \in Procs, proc'[r] # Idle
                 PROVE  /\ \A x \in proc'[r].written : x.path \notin gone => There(x)'
                        /\ proc'[r].pc # "open" =>
                             LET u == proc'[r].todo[1]
                             IN  u.path \notin gone =>
                                   /\ file'[u.path] # NoKey
                                   /\ file'[u.path].node = <<r, u.id, u.private>>
                                   /\ proc'[r].pc = "sync" => file'[u.path].whole
      BY <2>1 DEF WritersFindTheirs
    <3>1. proc[r] # Idle /\ proc'[r].written = proc[r].written /\ proc'[r].todo = proc[r].todo
      BY <1>3, <2>5, <2>7
    <3>2. proc[r].written \subseteq Targets /\ proc[r].todo[1] \in Targets BY <1>1, <3>1, AtWork
    <3>3. \A x \in proc'[r].written : x.path \notin gone => There(x)'
      BY <1>1, <3>1, <3>2, <2>13 DEF WritersFindTheirs
    <3>4. CASE r = q BY <3>4, <3>1, <3>3, <2>b, <2>3, <2>4, <2>5, <2>7 DEF node
    <3>5. CASE r # q
      <4>1. proc'[r] = proc[r] BY <3>5, <2>7
      <4>2. proc[r].todo[1].path \in Paths BY <3>2 DEF Targets
      <4> QED BY <1>1, <1>7, <3>1, <3>3, <4>1, <4>2, <2>4 DEF WritersFindTheirs
    <3> QED BY <3>4, <3>5
  <2>15. ReportedAreThere'
    BY <1>1, <2>1, <2>13 DEF ReportedAreThere, KeysTypeOK
  <2>16. EnvelopesHaveOwners' BY <1>1, <2>1 DEF EnvelopesHaveOwners
  <2> QED BY <2>8, <2>10, <2>11, <2>12, <2>14, <2>15, <2>16 DEF KeysIInv
<1> QED BY <1>6, <1>7

\* What was there under another name stays there when one file is removed.
LEMMA RemovalKeepsInv ==
  ASSUME KeysIInv, NEW p \in Paths, UserRemoves(p)
  PROVE  KeysIInv'
<1>1. KeysTypeOK /\ OneKindPerPair /\ PrivateFirst /\ FilesTrue /\ WritersFindTheirs
      /\ ReportedAreThere /\ EnvelopesHaveOwners
  BY DEF KeysIInv
<1>2. /\ file' = [file EXCEPT ![p] = NoKey] /\ removals' = removals + 1 /\ removals \in Nat
      /\ gone' = gone \cup {p}
      /\ UNCHANGED <<proc, runs, outages, made, durable, reported, envelopes>>
      /\ file \in [Paths -> KeyFileRecords \cup {NoKey}]
  BY <1>1 DEF UserRemoves, KeysTypeOK
<1>3. file'[p] = NoKey /\ \A r \in Paths : r # p => file'[r] = file[r] BY <1>2
<1>4. ASSUME NEW t \in Targets, t.path \notin gone', t.path \notin gone => There(t)
      PROVE  There(t)'
  BY <1>2, <1>3, <1>4 DEF There, Targets
<1>5. KeysTypeOK' BY <1>1, <1>2 DEF KeysTypeOK
<1>6. KeyPairs' \subseteq KeyPairs BY <1>2, <1>3 DEF KeyPairs
<1>7. OneKindPerPair' BY <1>1, <1>2, <1>6, PairsKeep
<1>8. PrivateFirst' BY <1>1, <1>2 DEF PrivateFirst
<1>9. FilesTrue' BY <1>1, <1>2, <1>3 DEF FilesTrue
<1>10. WritersFindTheirs'
  <2> SUFFICES ASSUME NEW q \in Procs, proc[q] # Idle
               PROVE  /\ \A x \in proc[q].written : x.path \notin gone' => There(x)'
                      /\ proc[q].pc # "open" =>
                           LET u == proc[q].todo[1]
                           IN  u.path \notin gone' =>
                                 /\ file'[u.path] # NoKey
                                 /\ file'[u.path].node = <<q, u.id, u.private>>
                                 /\ proc[q].pc = "sync" => file'[u.path].whole
    BY <1>2 DEF WritersFindTheirs
  <2>1. proc[q].written \subseteq Targets /\ proc[q].todo[1] \in Targets BY <1>1, AtWork
  <2>2. \A x \in proc[q].written : x.path \notin gone' => There(x)'
    BY <1>1, <1>4, <2>1 DEF WritersFindTheirs
  <2>3. proc[q].todo[1].path \in Paths BY <2>1 DEF Targets
  <2> QED BY <1>1, <1>2, <1>3, <2>2, <2>3 DEF WritersFindTheirs
<1>11. ReportedAreThere' BY <1>1, <1>2, <1>4 DEF ReportedAreThere, KeysTypeOK
<1>12. EnvelopesHaveOwners' BY <1>1, <1>2 DEF EnvelopesHaveOwners
<1> QED BY <1>5, <1>7, <1>8, <1>9, <1>10, <1>11, <1>12 DEF KeysIInv

\* A power failure leaves nothing but what was there, and all of what was synced.
LEMMA OutageLeaves ==
  ASSUME KeysTypeOK, NEW names \in SUBSET Paths, NEW contents \in SUBSET Paths,
         PowerFails(names, contents)
  PROVE  /\ file' \in [Paths -> KeyFileRecords \cup {NoKey}]
         /\ \A p \in Paths :
              /\ file'[p] # NoKey => file[p] # NoKey
              /\ file[p] # NoKey /\ p \notin names => file'[p] # NoKey
              /\ file'[p] # NoKey =>
                   /\ file'[p].kind = file[p].kind /\ file'[p].private = file[p].private
                   /\ file'[p].id = file[p].id /\ file'[p].node = file[p].node
                   /\ file'[p].whole => file[p].whole
                   /\ file'[p].synced
                   /\ file[p].whole /\ file[p].synced => file'[p].whole
<1> DEFINE left(p) == [file[p] EXCEPT !.whole = @ /\ p \notin contents, !.synced = TRUE]
           new(p) == IF file[p] = NoKey \/ p \in names THEN NoKey ELSE left(p)
<1>1. file \in [Paths -> KeyFileRecords \cup {NoKey}] BY DEF KeysTypeOK
<1>2. \A p \in contents : ~file[p].synced BY DEF PowerFails
<1>3. ASSUME NEW p \in Paths, file[p] # NoKey
      PROVE  /\ left(p) \in KeyFileRecords
             /\ left(p).kind = file[p].kind /\ left(p).private = file[p].private
             /\ left(p).id = file[p].id /\ left(p).node = file[p].node
             /\ left(p).whole = (file[p].whole /\ p \notin contents)
             /\ left(p).synced = TRUE
  BY <1>1, <1>3 DEF KeyFileRecords
<1>4. file' = [p \in Paths |-> new(p)] BY DEF PowerFails
<1> HIDE DEF left
<1>5. \A p \in Paths : file'[p] = new(p) BY <1>4
<1>6. \A p \in Paths : new(p) \in KeyFileRecords \cup {NoKey} BY <1>3
<1>7. ASSUME NEW p \in Paths, file[p] # NoKey, p \notin names
      PROVE  file'[p] = left(p) /\ file'[p] # NoKey
  BY <1>3, <1>5, <1>7, NoKeyIsNoFile
<1>8. ASSUME NEW p \in Paths, file[p] = NoKey \/ p \in names PROVE file'[p] = NoKey
  BY <1>5, <1>8
<1> HIDE DEF new
<1>9. file' \in [Paths -> KeyFileRecords \cup {NoKey}] BY <1>4, <1>6
<1> QED BY <1>2, <1>3, <1>7, <1>8, <1>9

\* The power fails: every process ends, and what they were sure of is still there.
LEMMA OutageKeepsInv ==
  ASSUME KeysIInv, NEW names \in SUBSET Paths, NEW contents \in SUBSET Paths,
         PowerFails(names, contents)
  PROVE  KeysIInv'
<1>1. KeysTypeOK /\ OneKindPerPair /\ PrivateFirst /\ FilesTrue /\ WritersFindTheirs
      /\ ReportedAreThere /\ EnvelopesHaveOwners
  BY DEF KeysIInv
<1>2. /\ outages' = outages + 1 /\ gone' = gone \cup names
      /\ proc' = [q \in Procs |-> Idle]
      /\ UNCHANGED <<runs, removals, made, durable, reported, envelopes>>
  BY DEF PowerFails
<1>3. file' \in [Paths -> KeyFileRecords \cup {NoKey}]
  BY <1>1, OutageLeaves
<1>4. \A q \in Procs : proc'[q] = Idle BY <1>2
<1>5. KeysTypeOK' BY <1>1, <1>2, <1>3 DEF KeysTypeOK
<1>6. KeyPairs' \subseteq KeyPairs
  <2>1. \A p \in Paths : file'[p] # NoKey =>
          file[p] # NoKey /\ file'[p].id = file[p].id /\ file'[p].kind = file[p].kind
    BY <1>1, OutageLeaves
  <2> QED BY <1>2, <1>4, <2>1 DEF KeyPairs
<1>7. OneKindPerPair' BY <1>1, <1>2, <1>6, PairsKeep
<1>8. PrivateFirst' BY <1>4 DEF PrivateFirst
<1>9. FilesTrue' BY <1>1, <1>2, OutageLeaves DEF FilesTrue
<1>10. WritersFindTheirs' BY <1>4 DEF WritersFindTheirs
<1>11. ReportedAreThere'
  <2>1. ASSUME NEW t \in Targets, t.path \notin names, There(t) PROVE There(t)'
    BY <1>1, <2>1, OutageLeaves DEF There, Targets
  <2> QED BY <1>1, <1>2, <2>1 DEF ReportedAreThere, KeysTypeOK
<1>12. EnvelopesHaveOwners' BY <1>1, <1>2 DEF EnvelopesHaveOwners
<1> QED BY <1>5, <1>7, <1>8, <1>9, <1>10, <1>11, <1>12 DEF KeysIInv

\* An archive is sealed to a file that loads, so to a pair whose private half
\* has been whole.
LEMMA SealedToWhole ==
  ASSUME KeysIInv, NEW q \in Procs, NEW c \in Commands, Encrypt(q, c)
  PROVE  LET chosen == KeyfileOpts(c.flags, file[c.key])
             env == EnvelopeOf(SealedKey(chosen, runs))
         IN  /\ env \in [type : SealTypes, to : Nat, salt : Nat]
             /\ env.type = "box" => "pqbox" \in Built
             /\ env.to \in made /\ (env.type = "box" => env.to \in durable)
             /\ <<env.to, SealKind(env.type)>> \in KeyPairs
             /\ envelopes' = envelopes \cup {env}
<1> DEFINE kf == file[c.key]
           chosen == KeyfileOpts(c.flags, kf)
           type == EnvelopeType(chosen)
           env == EnvelopeOf(SealedKey(chosen, runs))
<1>1. c.key \in Paths BY CommandTyped
<1>2. CanSeal(type, chosen) /\ envelopes' = envelopes \cup {env} BY DEF Encrypt
<1>3. type \in SealTypes
  BY DEF EnvelopeType, KeyfileOpts, SealTypes
<1>4. chosen.keyfile = kf BY DEF KeyfileOpts
<1>5. /\ kf # NoKey /\ kf.whole /\ kf.kind = SealKind(type)
      /\ type = "box" => "pqbox" \in Built /\ kf.kind = "BOX" /\ ~kf.private
  <2> HIDE DEF kf, chosen, type
  <2> QED BY <1>2, <1>3, <1>4 DEF CanSeal, LoadsBox, LoadsNative, SealTypes, SealKind
<1>6. kf \in KeyFileRecords BY <1>1, <1>5 DEF KeysIInv, KeysTypeOK
<1>7. kf.id \in made /\ (type = "box" => kf.id \in durable)
  <2> HIDE DEF chosen, type
  <2> QED BY <1>1, <1>5 DEF KeysIInv, FilesTrue
<1>8. kf.id \in Nat /\ runs \in Nat BY <1>6 DEF KeyFileRecords, KeysIInv, KeysTypeOK
<1>9. env = [type |-> type, to |-> kf.id, salt |-> runs]
  <2> HIDE DEF kf, chosen
  <2> QED BY <1>3, <1>4 DEF EnvelopeOf, SealedKey, KeyOf, Secret, SealTypes
<1>10. <<kf.id, kf.kind>> \in KeyPairs BY <1>1, <1>5 DEF KeyPairs
<1> HIDE DEF kf, chosen, type, env
<1>11. env \in [type : SealTypes, to : Nat, salt : Nat] /\ env.type = type /\ env.to = kf.id
  BY <1>3, <1>8, <1>9
<1> QED BY <1>2, <1>5, <1>7, <1>10, <1>11 DEF env, chosen, kf

\* An archive is sealed to a key file.
LEMMA EncryptKeepsInv ==
  ASSUME KeysIInv, NEW q \in Procs, NEW c \in Commands, Encrypt(q, c)
  PROVE  KeysIInv'
<1>1. PICK env \in [type : SealTypes, to : Nat, salt : Nat] :
        /\ env.type = "box" => "pqbox" \in Built
        /\ env.to \in made /\ (env.type = "box" => env.to \in durable)
        /\ <<env.to, SealKind(env.type)>> \in KeyPairs
        /\ envelopes' = envelopes \cup {env}
  BY SealedToWhole
<1>2. /\ runs' = runs + 1 /\ runs \in Nat
      /\ UNCHANGED <<file, proc, removals, outages, gone, made, durable, reported>>
  BY DEF Encrypt, history, KeysIInv, KeysTypeOK
<1>3. KeysTypeOK' BY <1>1, <1>2 DEF KeysIInv, KeysTypeOK
<1>4. KeyPairs' \subseteq KeyPairs BY <1>1, <1>2 DEF KeyPairs
<1>5. \A x \in KeyPairs : x[1] \in Nat
  BY IdleIsNotBusy, AtWork DEF KeysIInv, KeysTypeOK, KeyPairs, KeyFileRecords, Targets
<1>6. OneKindPerPair' BY <1>2, <1>4, <1>5 DEF KeysIInv, OneKindPerPair
<1>7. PrivateFirst' BY <1>2 DEF KeysIInv, PrivateFirst
<1>8. FilesTrue' BY <1>2 DEF KeysIInv, FilesTrue
<1>9. WritersFindTheirs' BY <1>2 DEF KeysIInv, WritersFindTheirs, There
<1>10. ReportedAreThere' BY <1>2 DEF KeysIInv, ReportedAreThere, There
<1>11. EnvelopesHaveOwners' BY <1>1, <1>2 DEF KeysIInv, EnvelopesHaveOwners
<1> QED BY <1>3, <1>6, <1>7, <1>8, <1>9, <1>10, <1>11 DEF KeysIInv

-----------------------------------------------------------------------------
(* A file is written to its end and synced. *)

\* What happens to the files when a process gets on with its own: they become
\* whole or synced, never the contrary, and only its own file becomes whole.
Advances(q) ==
  LET t == proc[q].todo[1]
  IN  /\ file' \in [Paths -> KeyFileRecords \cup {NoKey}]
      /\ \A p \in Paths : file'[p] # NoKey <=> file[p] # NoKey
      /\ \A p \in Paths : file[p] # NoKey =>
           /\ file'[p].kind = file[p].kind /\ file'[p].private = file[p].private
           /\ file'[p].id = file[p].id /\ file'[p].node = file[p].node
           /\ file[p].whole => file'[p].whole
           /\ file[p].synced => file'[p].synced
           /\ file'[p].whole /\ ~file[p].whole => file[p].node = <<q, t.id, t.private>>

\* A file that is touched at one place stays the file it was.
LEMMA OneFileAdvances ==
  ASSUME KeysTypeOK, PrivateFirst, NEW q \in Procs, proc[q] # Idle, Mine(q),
         NEW whole \in BOOLEAN, NEW synced \in BOOLEAN,
         file[proc[q].todo[1].path].whole => whole,
         file[proc[q].todo[1].path].synced => synced,
         file' = [file EXCEPT ![proc[q].todo[1].path] = [@ EXCEPT !.whole = whole, !.synced = synced]]
  PROVE  /\ Advances(q)
         /\ file'[proc[q].todo[1].path].whole = whole
         /\ file'[proc[q].todo[1].path].synced = synced
<1> DEFINE t == proc[q].todo[1]
           node == <<q, t.id, t.private>>
           old == file[t.path]
           new == [old EXCEPT !.whole = whole, !.synced = synced]
<1>1. t.path \in Paths BY AtWork DEF Targets
<1>2. file \in [Paths -> KeyFileRecords \cup {NoKey}] BY DEF KeysTypeOK
<1>3. old # NoKey /\ old.node = node BY DEF Mine
<1>4. old \in KeyFileRecords BY <1>1, <1>2, <1>3
<1>5. new \in KeyFileRecords /\ new.kind = old.kind /\ new.private = old.private
      /\ new.id = old.id /\ new.node = old.node /\ new.whole = whole /\ new.synced = synced
  BY <1>4 DEF KeyFileRecords
<1>6. (old.whole => whole) /\ (old.synced => synced) OBVIOUS
<1>7. file' = [file EXCEPT ![t.path] = new] OBVIOUS
<1> HIDE DEF new
<1>8. file'[t.path] = new /\ \A p \in Paths : p # t.path => file'[p] = file[p]
  BY <1>1, <1>2, <1>7
<1>9. file' \in [Paths -> KeyFileRecords \cup {NoKey}] BY <1>2, <1>5, <1>7
<1>10. new # NoKey BY <1>5, NoKeyIsNoFile
<1>11. \A p \in Paths : p = t.path \/ file'[p] = file[p] BY <1>8
<1>12. old = file[t.path] OBVIOUS
<1>13. Advances(q)
  <2> HIDE DEF old, t, node
  <2>1. \A p \in Paths : file'[p] # NoKey <=> file[p] # NoKey BY <1>3, <1>8, <1>10, <1>11, <1>12
  <2>2. ASSUME NEW p \in Paths, file[p] # NoKey
        PROVE  /\ file'[p].kind = file[p].kind /\ file'[p].private = file[p].private
               /\ file'[p].id = file[p].id /\ file'[p].node = file[p].node
               /\ file[p].whole => file'[p].whole
               /\ file[p].synced => file'[p].synced
               /\ file'[p].whole /\ ~file[p].whole => file[p].node = node
    BY <1>3, <1>5, <1>6, <1>8, <1>11, <1>12
  <2> QED BY <1>9, <2>1, <2>2 DEF Advances, node, t
<1> QED BY <1>5, <1>8, <1>13

\* No file is touched.
LEMMA NothingAdvances ==
  ASSUME KeysTypeOK, NEW q \in Procs, file' = file
  PROVE  Advances(q)
BY DEF Advances, KeysTypeOK

\* What the last write does to the files.
LEMMA WriteAdvances ==
  ASSUME KeysTypeOK, PrivateFirst, NEW q \in Procs, Write(q, TRUE)
  PROVE  /\ Advances(q)
         /\ Mine(q) => file'[proc[q].todo[1].path].whole
<1> DEFINE path == proc[q].todo[1].path
<1>1. proc[q] # Idle /\ file' = IF Mine(q) THEN [file EXCEPT ![path].whole = TRUE] ELSE file
  BY PlaceIsWork DEF Write
<1>2. CASE ~Mine(q) BY <1>1, <1>2, NothingAdvances
<1>3. CASE Mine(q)
  <2>1. path \in Paths /\ file[path] \in KeyFileRecords
    BY <1>1, <1>3, AtWork DEF Targets, KeysTypeOK, Mine
  <2>2. PICK s \in BOOLEAN : s = file[path].synced BY <2>1 DEF KeyFileRecords
  <2>3. [file[path] EXCEPT !.whole = TRUE] = [file[path] EXCEPT !.whole = TRUE, !.synced = s]
    BY <2>1, <2>2 DEF KeyFileRecords
  <2>4. file' = [file EXCEPT ![path] = [@ EXCEPT !.whole = TRUE, !.synced = s]]
    BY <1>1, <1>3, <2>3
  <2> QED BY <1>1, <1>3, <2>2, <2>4, OneFileAdvances
<1> QED BY <1>2, <1>3

\* What fsync does to the files: none becomes whole.
LEMMA SyncAdvances ==
  ASSUME KeysTypeOK, PrivateFirst, NEW q \in Procs, Sync(q, TRUE)
  PROVE  /\ Advances(q)
         /\ Mine(q) => file'[proc[q].todo[1].path].synced
<1> DEFINE path == proc[q].todo[1].path
<1>1. proc[q] # Idle /\ file' = IF Mine(q) THEN [file EXCEPT ![path].synced = TRUE] ELSE file
  BY PlaceIsWork DEF Sync
<1>2. CASE ~Mine(q) BY <1>1, <1>2, NothingAdvances
<1>3. CASE Mine(q)
  <2>1. path \in Paths /\ file[path] \in KeyFileRecords
    BY <1>1, <1>3, AtWork DEF Targets, KeysTypeOK, Mine
  <2>2. PICK w \in BOOLEAN : w = file[path].whole BY <2>1 DEF KeyFileRecords
  <2>3. [file[path] EXCEPT !.synced = TRUE] = [file[path] EXCEPT !.whole = w, !.synced = TRUE]
    BY <2>1, <2>2 DEF KeyFileRecords
  <2>4. file' = [file EXCEPT ![path] = [@ EXCEPT !.whole = w, !.synced = TRUE]]
    BY <1>1, <1>3, <2>3
  <2> QED BY <1>1, <1>3, <2>2, <2>4, OneFileAdvances
<1> QED BY <1>2, <1>3

\* What a process was sure of is not disturbed when one gets on, and the files
\* stay true when its pair is made.
LEMMA AdvanceKeeps ==
  ASSUME KeysIInv, NEW q \in Procs, proc[q] # Idle, Advances(q),
         made \subseteq made', durable \subseteq durable',
         proc[q].todo[1].id \in made', UNCHANGED <<gone, runs>>
  PROVE  /\ FilesTrue'
         /\ \A x \in Targets : There(x) => There(x)'
         /\ \A r \in Procs : r # q /\ proc[r] # Idle /\ proc'[r] = proc[r] =>
              /\ \A x \in proc'[r].written : x.path \notin gone' => There(x)'
              /\ proc'[r].pc # "open" =>
                   LET u == proc'[r].todo[1]
                   IN  u.path \notin gone' =>
                         /\ file'[u.path] # NoKey /\ file'[u.path].node = <<r, u.id, u.private>>
                         /\ proc'[r].pc = "sync" => file'[u.path].whole
<1>1. KeysTypeOK /\ OneKindPerPair /\ PrivateFirst /\ FilesTrue /\ WritersFindTheirs
  BY DEF KeysIInv
<1>2. PICK t \in Targets : t = proc[q].todo[1] BY <1>1, AtWork
<1>3. t.id \in made' /\ (~t.private /\ t.kind = "BOX" => t.id \in durable)
  BY <1>1, <1>2 DEF PrivateFirst
<1>4. <<t.id, t.kind>> \in KeyPairs BY <1>2 DEF KeyPairs
<1>5. \A p \in Paths : file[p] # NoKey /\ file[p].id = t.id => file[p].kind = t.kind
  <2>1. ASSUME NEW p \in Paths, file[p] # NoKey PROVE <<file[p].id, file[p].kind>> \in KeyPairs
    BY <2>1 DEF KeyPairs
  <2> QED BY <1>1, <1>4, <2>1 DEF OneKindPerPair
<1>6. FilesTrue'
  <2> SUFFICES ASSUME NEW p \in Paths, file'[p] # NoKey
               PROVE  /\ file'[p].whole => file'[p].id \in made'
                      /\ file'[p].whole /\ ~file'[p].private /\ file'[p].kind = "BOX"
                           => file'[p].id \in durable'
                      /\ file'[p].node[2] = file'[p].id /\ file'[p].node[3] = file'[p].private
    BY DEF FilesTrue
  <2>1. /\ file[p] # NoKey
        /\ file'[p].kind = file[p].kind /\ file'[p].private = file[p].private
        /\ file'[p].id = file[p].id /\ file'[p].node = file[p].node
        /\ file'[p].whole /\ ~file[p].whole => file[p].node = <<q, t.id, t.private>>
    BY <1>2 DEF Advances
  <2>2. file[p].node[2] = file[p].id /\ file[p].node[3] = file[p].private
    BY <1>1, <2>1 DEF FilesTrue
  <2>3. CASE file[p].whole BY <1>1, <2>1, <2>2, <2>3 DEF FilesTrue
  <2>4. CASE ~file[p].whole /\ file'[p].whole
    <3>1. file[p].id = t.id /\ file[p].private = t.private BY <2>1, <2>2, <2>4
    <3>2. file[p].kind = t.kind BY <1>5, <2>1, <3>1
    <3> QED BY <1>3, <2>1, <2>2, <3>1, <3>2
  <2>5. CASE ~file'[p].whole BY <2>1, <2>2, <2>5
  <2> QED BY <2>3, <2>4, <2>5
<1>7. \A x \in Targets : There(x) => There(x)' BY DEF Advances, There, Targets
<1>8. ASSUME NEW r \in Procs, r # q, proc[r] # Idle, proc'[r] = proc[r]
      PROVE  /\ \A x \in proc'[r].written : x.path \notin gone' => There(x)'
             /\ proc'[r].pc # "open" =>
                  LET u == proc'[r].todo[1]
                  IN  u.path \notin gone' =>
                        /\ file'[u.path] # NoKey /\ file'[u.path].node = <<r, u.id, u.private>>
                        /\ proc'[r].pc = "sync" => file'[u.path].whole
  <2>1. proc[r].written \subseteq Targets /\ proc[r].todo[1] \in Targets BY <1>1, <1>8, AtWork
  <2>2. \A x \in proc[r].written : x.path \notin gone => There(x)'
    BY <1>1, <1>7, <1>8, <2>1 DEF WritersFindTheirs
  <2>3. proc[r].todo[1].path \in Paths BY <2>1 DEF Targets
  <2> QED BY <1>1, <1>8, <2>2, <2>3 DEF WritersFindTheirs, Advances
<1> QED BY <1>6, <1>7, <1>8

\* The last byte is written, or the writing fails.
LEMMA WriteKeepsInv ==
  ASSUME KeysIInv, NEW q \in Procs, NEW ok \in BOOLEAN, Write(q, ok)
  PROVE  KeysIInv'
<1>1. KeysTypeOK /\ OneKindPerPair /\ PrivateFirst /\ FilesTrue /\ WritersFindTheirs
      /\ ReportedAreThere /\ EnvelopesHaveOwners
  BY DEF KeysIInv
<1>2. CASE ~ok BY <1>2, StopKeepsInv DEF Write, history
<1>3. CASE ok
  <2>1. Write(q, TRUE) BY <1>3 DEF Write
  <2>2. proc[q] # Idle /\ proc[q].pc = "write" BY <1>1, <2>1, PlaceIsWork DEF Write
  <2>3. PICK t \in Targets : t = proc[q].todo[1] BY <1>1, <2>2, AtWork
  <2>4. Advances(q) /\ (Mine(q) => file'[t.path].whole) BY <1>1, <2>1, <2>3, WriteAdvances
  <2>5. t.path \in Paths /\ t.private \in BOOLEAN /\ t.id \in Nat BY DEF Targets
  <2>6. /\ made' = IF t.private THEN made \cup {t.id} ELSE made
        /\ proc' = [proc EXCEPT ![q].pc = "sync"]
        /\ UNCHANGED <<runs, removals, outages, gone, durable, reported, envelopes>>
    BY <1>3, <2>3 DEF Write
  <2>7. made \subseteq made' /\ t.id \in made' BY <1>1, <2>2, <2>3, <2>6 DEF PrivateFirst
  <2>8. proc \in [Procs -> Busy \cup {Idle}] /\ proc[q] \in Busy BY <1>1, <2>2, AtWork DEF KeysTypeOK
  <2> DEFINE job == [proc[q] EXCEPT !.pc = "sync"]
  <2>9. /\ job \in Busy /\ job # Idle /\ job.pc = "sync"
        /\ job.todo = proc[q].todo /\ job.written = proc[q].written
    BY <2>8, IdleIsNotBusy DEF Busy
  <2>10. proc' = [proc EXCEPT ![q] = job] BY <2>6
  <2> HIDE DEF job
  <2>11. proc'[q] = job /\ \A r \in Procs : r # q => proc'[r] = proc[r] BY <2>8, <2>10
  <2>12. /\ FilesTrue'
         /\ \A x \in Targets : There(x) => There(x)'
    BY <2>2, <2>3, <2>4, <2>6, <2>7, AdvanceKeeps
  <2>13. KeysTypeOK' BY <1>1, <2>4, <2>5, <2>6, <2>9, <2>10 DEF KeysTypeOK, Advances
  <2>14. KeyPairs' \subseteq KeyPairs
    BY <2>2, <2>4, <2>6, <2>9, <2>11 DEF KeyPairs, Advances
  <2>15. OneKindPerPair' BY <1>1, <2>6, <2>14, PairsKeep
  <2>16. PrivateFirst'
    BY <1>1, <2>2, <2>3, <2>6, <2>7, <2>9, <2>11 DEF PrivateFirst
  <2>17. WritersFindTheirs'
    <3> SUFFICES ASSUME NEW r \in Procs, proc'[r] # Idle
                 PROVE  /\ \A x \in proc'[r].written : x.path \notin gone' => There(x)'
                        /\ proc'[r].pc # "open" =>
                             LET u == proc'[r].todo[1]
                             IN  u.path \notin gone' =>
                                   /\ file'[u.path] # NoKey
                                   /\ file'[u.path].node = <<r, u.id, u.private>>
                                   /\ proc'[r].pc = "sync" => file'[u.path].whole
      BY DEF WritersFindTheirs
    <3>1. CASE r = q
      <4>1. \A x \in job.written : x \in Targets /\ (x.path \notin gone => There(x))
        BY <1>1, <2>2, <2>9, AtWork DEF WritersFindTheirs
      <4>2. t.path \notin gone => Mine(q)
        BY <1>1, <2>2, <2>3 DEF WritersFindTheirs, Mine
      <4>3. t.path \notin gone =>
              /\ file'[t.path] # NoKey /\ file'[t.path].node = <<q, t.id, t.private>>
              /\ file'[t.path].whole
        BY <2>3, <2>4, <2>5, <4>2 DEF Mine, Advances
      <4> QED BY <3>1, <2>3, <2>6, <2>9, <2>11, <2>12, <4>1, <4>3
    <3>2. CASE r # q
      <4>1. proc'[r] = proc[r] /\ proc[r] # Idle BY <3>2, <2>11
      <4> QED BY <3>2, <4>1, <2>2, <2>3, <2>4, <2>6, <2>7, AdvanceKeeps
    <3> QED BY <3>1, <3>2
  <2>18. ReportedAreThere' BY <1>1, <2>6, <2>12 DEF ReportedAreThere, KeysTypeOK
  <2>19. EnvelopesHaveOwners' BY <1>1, <2>6, <2>7 DEF EnvelopesHaveOwners
  <2> QED BY <2>12, <2>13, <2>15, <2>16, <2>17, <2>18, <2>19 DEF KeysIInv
<1> QED BY <1>2, <1>3

\* A file is synced, and its command goes on; or it fails and leaves what loads.
LEMMA SyncKeepsInv ==
  ASSUME KeysIInv, NEW q \in Procs, NEW ok \in BOOLEAN, Sync(q, ok)
  PROVE  KeysIInv'
<1>1. KeysTypeOK /\ OneKindPerPair /\ PrivateFirst /\ FilesTrue /\ WritersFindTheirs
      /\ ReportedAreThere /\ EnvelopesHaveOwners
  BY DEF KeysIInv
<1>2. CASE ~ok BY <1>2, StopKeepsInv DEF Sync, history
<1>3. CASE ok
  <2>1. Sync(q, TRUE) BY <1>3 DEF Sync
  <2>2. proc[q] # Idle /\ proc[q].pc = "sync" BY <1>1, <2>1, PlaceIsWork DEF Sync
  <2>3. PICK t \in Targets : t = proc[q].todo[1] BY <1>1, <2>2, AtWork
  <2>4. PICK done \in SUBSET Targets : done = proc[q].written \cup {t}
    BY <1>1, <2>2, AtWork
  <2>5. Advances(q) /\ (Mine(q) => file'[t.path].synced) BY <1>1, <2>1, <2>3, SyncAdvances
  <2>6. t.path \in Paths /\ t.private \in BOOLEAN /\ t.id \in Nat BY DEF Targets
  <2>7. /\ durable' = IF t.private THEN durable \cup {t.id} ELSE durable
        /\ UNCHANGED <<runs, removals, outages, gone, made, envelopes>>
    BY <1>3, <2>3 DEF Sync
  <2>8. durable \subseteq durable' /\ t.id \in made /\ made \subseteq made' /\ t.id \in made'
    BY <1>1, <2>2, <2>3, <2>7 DEF PrivateFirst
  <2>9. proc \in [Procs -> Busy \cup {Idle}] BY <1>1 DEF KeysTypeOK
  <2>10. /\ FilesTrue'
         /\ \A x \in Targets : There(x) => There(x)'
    BY <2>2, <2>3, <2>5, <2>7, <2>8, AdvanceKeeps
  \* The file that was being written is there for good.
  <2>11. t.path \notin gone => There(t)'
    <3> SUFFICES ASSUME t.path \notin gone PROVE There(t)' OBVIOUS
    <3>1. Mine(q) /\ file[t.path].whole
      BY <1>1, <2>2, <2>3 DEF WritersFindTheirs, Mine
    <3>2. file[t.path] # NoKey /\ file[t.path].node = <<q, t.id, t.private>>
      BY <2>3, <3>1 DEF Mine
    <3>3. file[t.path].id = t.id /\ file[t.path].private = t.private
      BY <1>1, <2>6, <3>2 DEF FilesTrue
    <3> QED BY <2>5, <2>6, <3>1, <3>2, <3>3 DEF Advances, There
  <2>12. \A x \in done : x.path \notin gone => There(x)'
    <3>1. \A x \in proc[q].written : x \in Targets /\ (x.path \notin gone => There(x))
      BY <1>1, <2>2, AtWork DEF WritersFindTheirs
    <3> QED BY <2>4, <2>10, <2>11, <3>1
  <2>13. EnvelopesHaveOwners' BY <1>1, <2>7, <2>8 DEF EnvelopesHaveOwners
  <2>14. CASE Len(proc[q].todo) > 1
    <3> DEFINE rest == Tail(proc[q].todo)
               new == [pc |-> "open", written |-> done, todo |-> rest]
    <3>1. /\ rest \in Seq(Targets) /\ Len(rest) = 1
          /\ ~rest[1].private /\ t.private /\ rest[1].id = t.id /\ rest[1].kind = t.kind
      BY <1>1, <2>2, <2>3, <2>14, PublicOfPrivate
    <3>2. proc' = [proc EXCEPT ![q] = new] /\ reported' = reported
      BY <1>3, <2>3, <2>4, <2>14 DEF Sync, GoesOn
    <3>3. new \in Busy /\ new # Idle /\ new.written = done /\ new.todo = rest /\ new.pc = "open"
      BY <2>4, <3>1, IdleIsNotBusy DEF Busy
    <3> HIDE DEF new, rest
    <3>4. proc'[q] = new /\ \A r \in Procs : r # q => proc'[r] = proc[r] BY <2>9, <3>2
    <3>5. KeysTypeOK' BY <1>1, <2>5, <2>6, <2>7, <3>2, <3>3 DEF KeysTypeOK, Advances
    <3>6. KeyPairs' \subseteq KeyPairs
      <4>1. \A p \in Paths : file'[p] # NoKey =>
              file[p] # NoKey /\ file'[p].id = file[p].id /\ file'[p].kind = file[p].kind
        BY <2>5 DEF Advances
      <4>2. proc'[q].todo[1].id = proc[q].todo[1].id /\ proc'[q].todo[1].kind = proc[q].todo[1].kind
        BY <2>3, <3>1, <3>3, <3>4
      <4>3. \A r \in Procs : proc'[r] # Idle =>
              /\ proc[r] # Idle
              /\ proc'[r].todo[1].id = proc[r].todo[1].id
              /\ proc'[r].todo[1].kind = proc[r].todo[1].kind
        BY <2>2, <3>4, <4>2
      <4> QED BY <2>7, <4>1, <4>3 DEF KeyPairs
    <3>7. OneKindPerPair' BY <1>1, <2>7, <3>6, PairsKeep
    <3>8. t.id \in durable' BY <2>7, <3>1
    <3>9. PrivateFirst' BY <1>1, <2>7, <2>8, <3>1, <3>3, <3>4, <3>8 DEF PrivateFirst
    <3>10. WritersFindTheirs'
      <4> SUFFICES ASSUME NEW r \in Procs, proc'[r] # Idle
                   PROVE  /\ \A x \in proc'[r].written : x.path \notin gone' => There(x)'
                          /\ proc'[r].pc # "open" =>
                               LET u == proc'[r].todo[1]
                               IN  u.path \notin gone' =>
                                     /\ file'[u.path] # NoKey
                                     /\ file'[u.path].node = <<r, u.id, u.private>>
                                     /\ proc'[r].pc = "sync" => file'[u.path].whole
        BY DEF WritersFindTheirs
      <4>1. CASE r = q BY <4>1, <2>7, <2>12, <3>3, <3>4
      <4>2. CASE r # q
        <5>1. proc'[r] = proc[r] /\ proc[r] # Idle BY <4>2, <3>4
        <5> QED BY <4>2, <5>1, <2>2, <2>3, <2>5, <2>7, <2>8, AdvanceKeeps
      <4> QED BY <4>1, <4>2
    <3>11. ReportedAreThere' BY <1>1, <2>7, <2>10, <3>2 DEF ReportedAreThere, KeysTypeOK
    <3> QED BY <2>10, <2>13, <3>5, <3>7, <3>9, <3>10, <3>11 DEF KeysIInv
  <2>15. CASE ~(Len(proc[q].todo) > 1)
    <3>1. proc' = [proc EXCEPT ![q] = Idle] /\ reported' = reported \cup done
      BY <1>3, <2>3, <2>4, <2>15 DEF Sync, GoesOn
    <3>2. proc'[q] = Idle /\ \A r \in Procs : r # q => proc'[r] = proc[r] BY <2>9, <3>1
    <3>3. KeysTypeOK' BY <1>1, <2>5, <2>6, <2>7, <2>9, <3>1 DEF KeysTypeOK, Advances
    <3>4. KeyPairs' \subseteq KeyPairs
      BY <2>2, <2>5, <2>7, <3>2 DEF KeyPairs, Advances
    <3>5. OneKindPerPair' BY <1>1, <2>7, <3>4, PairsKeep
    <3>6. PrivateFirst' BY <1>1, <2>7, <2>8, <3>2 DEF PrivateFirst
    <3>7. WritersFindTheirs'
      <4> SUFFICES ASSUME NEW r \in Procs, r # q, proc[r] # Idle, proc'[r] = proc[r]
                   PROVE  /\ \A x \in proc'[r].written : x.path \notin gone' => There(x)'
                          /\ proc'[r].pc # "open" =>
                               LET u == proc'[r].todo[1]
                               IN  u.path \notin gone' =>
                                     /\ file'[u.path] # NoKey
                                     /\ file'[u.path].node = <<r, u.id, u.private>>
                                     /\ proc'[r].pc = "sync" => file'[u.path].whole
        BY <3>2 DEF WritersFindTheirs
      <4> QED BY <2>2, <2>3, <2>5, <2>7, <2>8, AdvanceKeeps
    <3>8. ReportedAreThere'
      BY <1>1, <2>7, <2>10, <2>12, <3>1 DEF ReportedAreThere, KeysTypeOK
    <3> QED BY <2>10, <2>13, <3>3, <3>5, <3>6, <3>7, <3>8 DEF KeysIInv
  <2> QED BY <2>14, <2>15
<1> QED BY <1>2, <1>3

-----------------------------------------------------------------------------
(* The theorems. *)

LEMMA KeysStep == KeysIInv /\ [KeysNext]_keyVars => KeysIInv'
<1> SUFFICES ASSUME KeysIInv, [KeysNext]_keyVars PROVE KeysIInv' OBVIOUS
<1>1. ASSUME NEW q \in Procs, NEW c \in Commands, Generate(q, c) PROVE KeysIInv'
  BY <1>1, GenerateKeepsInv
<1>2. ASSUME NEW q \in Procs, NEW c \in Commands, Export(q, c) PROVE KeysIInv'
  BY <1>2, ExportKeepsInv
<1>3. ASSUME NEW q \in Procs, NEW c \in Commands, Encrypt(q, c) PROVE KeysIInv'
  BY <1>3, EncryptKeepsInv
<1>4. ASSUME NEW q \in Procs, Create(q) PROVE KeysIInv' BY <1>4, CreateKeepsInv
<1>5. ASSUME NEW q \in Procs, Die(q) PROVE KeysIInv' BY <1>5, DieKeepsInv
<1>6. ASSUME NEW q \in Procs, NEW ok \in BOOLEAN, Write(q, ok) PROVE KeysIInv'
  BY <1>6, WriteKeepsInv
<1>7. ASSUME NEW q \in Procs, NEW ok \in BOOLEAN, Sync(q, ok) PROVE KeysIInv'
  BY <1>7, SyncKeepsInv
<1>8. ASSUME NEW p \in Paths, UserRemoves(p) PROVE KeysIInv' BY <1>8, RemovalKeepsInv
<1>9. ASSUME NEW names \in SUBSET Paths, NEW contents \in SUBSET Paths,
             PowerFails(names, contents)
      PROVE  KeysIInv'
  BY <1>9, OutageKeepsInv
<1>10. CASE UNCHANGED keyVars
  BY <1>10 DEF keyVars, history, KeysIInv, KeysTypeOK, OneKindPerPair, KeyPairs, PrivateFirst,
               FilesTrue, WritersFindTheirs, There, ReportedAreThere, EnvelopesHaveOwners
<1> QED BY <1>1, <1>2, <1>3, <1>4, <1>5, <1>6, <1>7, <1>8, <1>9, <1>10 DEF KeysNext

\* The inductive invariant, for any number of processes that may die anywhere, also
\* between the last write and the fsync, or lose their power (zupt_crypto.c:582-859).
THEOREM KeysInvariance == KeysSpec => []KeysIInv
BY KeysInitHolds, KeysStep, PTL DEF KeysSpec

\* The owner of the key pair an archive was encrypted to opens it: a pair has
\* one kind, so the private file loads where the envelope asks for it.
LEMMA InvOpens == KeysIInv => OwnersCanOpen
<1> SUFFICES ASSUME KeysIInv, NEW env \in envelopes, NEW p \in Paths,
                    file[p] # NoKey, file[p].private, file[p].whole, file[p].id = env.to
             PROVE  LET flags == CASE env.type = "box" -> {"box"} [] env.type = "pqonly" -> {"pqonly"}
                                   [] OTHER -> {}
                    IN  OpenEnvelope(env, KeyfileOpts(flags, file[p])) = KeyOf(env.type, env.to, env.salt)
  BY DEF OwnersCanOpen
<1> DEFINE kf == file[p]
<1>1. env.type \in SealTypes /\ (env.type = "box" => "pqbox" \in Built)
  BY DEF KeysIInv, KeysTypeOK
<1>2. <<kf.id, kf.kind>> \in KeyPairs /\ <<env.to, SealKind(env.type)>> \in KeyPairs
  BY DEF KeyPairs
<1>3. kf.kind = SealKind(env.type) BY <1>2 DEF KeysIInv, OneKindPerPair
<1>4. kf \in KeyFileRecords /\ kf.private = TRUE
  BY DEF KeysIInv, KeysTypeOK, KeyFileRecords
<1> HIDE DEF kf
<1>5. kf # NoKey /\ kf.private /\ kf.whole /\ kf.id = env.to BY DEF kf
<1> QED BY <1>1, <1>3, <1>4, <1>5 DEF OpenEnvelope, CanUnseal, CanDecapsulate, LoadsBox, LoadsNative,
          KeyfileOpts, SealKind, SealTypes, kf

\* What keygen reported is there, even after a power failure, unless its name is
\* gone; no archive is encrypted to a key pair whose private half was never whole,
\* whether or not the command that wrote it succeeded; and its owner can open it
\* (zupt_crypto.c:582-859, zupt_crypto_pqbox.c:48-92).
THEOREM KeysAreReliable == KeysSpec => []KeysCanBeReliedOn
<1>1. ReportedAreThere => ReportedKeysAreThere BY DEF ReportedAreThere, ReportedKeysAreThere, There
<1>2. KeysIInv => KeysCanBeReliedOn BY <1>1, InvOpens DEF KeysIInv, KeysCanBeReliedOn
<1> QED BY <1>2, KeysInvariance, PTL

\* No step replaces a key under its name.
LEMMA StepReplacesNothing == KeysIInv /\ [KeysNext]_keyVars => [KeysAreNeverReplaced]_keyVars
<1> SUFFICES ASSUME KeysIInv, KeysNext PROVE KeysAreNeverReplaced BY DEF keyVars
<1> SUFFICES ASSUME NEW p \in Paths, file[p] # NoKey, file'[p] # NoKey
             PROVE  /\ file'[p].id = file[p].id /\ file'[p].private = file[p].private
                    /\ file'[p].kind = file[p].kind
                    /\ file[p].whole /\ (file[p].synced \/ outages' = outages) => file'[p].whole
  BY DEF KeysAreNeverReplaced
<1>0. KeysTypeOK /\ PrivateFirst BY DEF KeysIInv
<1>1. CASE file'[p] = file[p] BY <1>1
<1>2. ASSUME NEW q \in Procs, Create(q) PROVE file'[p] = file[p]
  BY <1>2, <1>0 DEF Create, KeysTypeOK
<1>3. ASSUME NEW q \in Procs, NEW ok \in BOOLEAN, Write(q, ok)
      PROVE  file'[p] = file[p] \/ Advances(q)
  BY <1>3, <1>0, WriteAdvances DEF Write
<1>4. ASSUME NEW q \in Procs, NEW ok \in BOOLEAN, Sync(q, ok)
      PROVE  file'[p] = file[p] \/ Advances(q)
  BY <1>4, <1>0, SyncAdvances DEF Sync
<1>5. ASSUME NEW r \in Paths, UserRemoves(r) PROVE file'[p] = file[p]
  BY <1>5, <1>0 DEF UserRemoves, KeysTypeOK
<1>6. CASE \E q \in Procs : Advances(q) BY <1>6 DEF Advances
<1>7. ASSUME NEW names \in SUBSET Paths, NEW contents \in SUBSET Paths,
             PowerFails(names, contents)
      PROVE  /\ file'[p].id = file[p].id /\ file'[p].private = file[p].private
             /\ file'[p].kind = file[p].kind /\ outages' # outages
             /\ file[p].whole /\ file[p].synced => file'[p].whole
  <2>1. outages' = outages + 1 /\ outages \in Nat BY <1>0, <1>7 DEF PowerFails, KeysTypeOK
  <2>2. KeysTypeOK BY <1>0
  <2> QED BY <1>7, <2>1, <2>2, OutageLeaves
<1>8. \/ file'[p] = file[p] \/ \E q \in Procs : Advances(q)
      \/ \E names, contents \in SUBSET Paths : PowerFails(names, contents)
  BY <1>2, <1>3, <1>4, <1>5 DEF KeysNext, Generate, Export, Encrypt, Die
<1> QED BY <1>1, <1>6, <1>7, <1>8

\* A name leads to the same key until its file is gone, and what was synced stays
\* whole, whatever commands run at once (zupt_crypto.c:582-808).
THEOREM KeysStay == KeysSpec => KeyFilesStay
BY KeysInvariance, StepReplacesNothing, PTL DEF KeysSpec, KeyFilesStay

-----------------------------------------------------------------------------
(* Sums of sizes.                                                          *)

\* A set of numbers has a least one.
LEMMA LeastNumber ==
  ASSUME NEW S \in SUBSET Nat, S # {}
  PROVE  \E n \in S : \A m \in S : n <= m
<1>1. PICK n \in S : \A m \in S : ~(<<m, n>> \in OpToRel(<, Nat))
  BY NatLessThanWellFounded, WFMin, Zenon
<1>2. \A m \in S : ~(m < n)
  BY <1>1 DEF OpToRel
<1> QED BY <1>2

\* The recursive definition of Sizes has a solution, so it is one.
LEMMA SizesUnfold ==
  ASSUME NEW es, NEW f,
         f = [i \in 0 .. Len(es) |-> IF i = 0 THEN 0 ELSE f[i - 1] + es[i].size]
  PROVE  Sizes(es) = [i \in 0 .. Len(es) |-> IF i = 0 THEN 0 ELSE Sizes(es)[i - 1] + es[i].size]
<1> DEFINE Sum(g) == g = [i \in 0 .. Len(es) |-> IF i = 0 THEN 0 ELSE g[i - 1] + es[i].size]
<1>1. Sizes(es) = CHOOSE g : Sum(g) BY DEF Sizes
<1>2. Sum(f) OBVIOUS
<1>3. Sum(CHOOSE g : Sum(g)) BY <1>2
<1> QED BY <1>1, <1>3

\* Where files follow each other without gaps, the stream ends with the last.
LEMMA TotalOfChain ==
  ASSUME NEW es, Len(es) \in Nat,
         \A i \in 1 .. Len(es) :
           es[i].offset = IF i = 1 THEN 0 ELSE es[i - 1].offset + es[i - 1].size
  PROVE  TotalSize(es) = IF Len(es) = 0 THEN 0 ELSE es[Len(es)].offset + es[Len(es)].size
<1> DEFINE n == Len(es)
           end(i) == IF i = 0 THEN 0 ELSE es[i].offset + es[i].size
           f == [i \in 0 .. n |-> end(i)]
           s == Sizes(es)
<1>1. \A i \in 1 .. n : es[i].offset = end(i - 1)
  <2> SUFFICES ASSUME NEW i \in 1 .. n PROVE es[i].offset = end(i - 1) OBVIOUS
  <2>1. i - 1 = 0 <=> i = 1 OBVIOUS
  <2> QED BY <2>1
<1>2. \A i \in 0 .. n : f[i] = IF i = 0 THEN 0 ELSE f[i - 1] + es[i].size
  <2> SUFFICES ASSUME NEW i \in 0 .. n PROVE f[i] = IF i = 0 THEN 0 ELSE f[i - 1] + es[i].size OBVIOUS
  <2>1. CASE i = 0 BY <2>1
  <2>2. CASE i # 0
    <3>1. i - 1 \in 0 .. n /\ i \in 1 .. n BY <2>2
    <3>2. f[i - 1] = end(i - 1) /\ es[i].offset = end(i - 1) BY <1>1, <3>1
    <3>3. f[i] = es[i].offset + es[i].size BY <2>2
    <3> HIDE DEF f, end
    <3> QED BY <2>2, <3>2, <3>3
  <2> QED BY <2>1, <2>2
<1>3. f = [i \in 0 .. n |-> IF i = 0 THEN 0 ELSE f[i - 1] + es[i].size]
  <2>1. DOMAIN f = 0 .. n OBVIOUS
  <2>2. f = [i \in 0 .. n |-> f[i]] OBVIOUS
  <2> HIDE DEF f
  <2> QED BY <1>2, <2>2
<1>4. \A i \in 0 .. n : s[i] = IF i = 0 THEN 0 ELSE s[i - 1] + es[i].size
  <2> HIDE DEF f
  <2>1. s = [i \in 0 .. n |-> IF i = 0 THEN 0 ELSE s[i - 1] + es[i].size] BY <1>3, SizesUnfold
  <2> HIDE DEF s
  <2> QED BY <2>1
<1>5. \A i \in 0 .. n : s[i] = f[i]
  <2> DEFINE Bad == {i \in 0 .. n : s[i] # f[i]}
  <2> SUFFICES ASSUME Bad # {} PROVE FALSE OBVIOUS
  <2>1. PICK i \in Bad : \A m \in Bad : i <= m
    <3>1. Bad \in SUBSET Nat OBVIOUS
    <3> HIDE DEF Bad
    <3> QED BY <3>1, LeastNumber
  <2> HIDE DEF s, f
  <2>2. i \in 0 .. n /\ s[i] # f[i] OBVIOUS
  <2>3. i # 0 BY <1>2, <1>4, <2>2
  <2>4. i - 1 \in 0 .. n /\ ~(i <= i - 1) BY <2>2, <2>3
  <2>5. s[i - 1] = f[i - 1] BY <2>1, <2>4
  <2> QED BY <1>2, <1>4, <2>2, <2>3, <2>5
<1>6. TotalSize(es) = s[n] BY DEF TotalSize
<1>7. n \in 0 .. n OBVIOUS
<1> HIDE DEF s
<1>8. s[n] = end(n) BY <1>5, <1>7
<1> QED BY <1>6, <1>8

-----------------------------------------------------------------------------
(* The inductive invariant.                                                *)

LEMMA SolidInitHolds == SolidInit => SolidIInv
<1> SUFFICES ASSUME SolidInit PROVE SolidIInv OBVIOUS
<1>1. PICK contents \in InputContents :
        /\ nodes = [i \in DOMAIN contents |-> [stamp |-> 0, content |-> contents[i]]]
        /\ name = [i \in DOMAIN contents |-> i]
  BY DEF SolidInit
<1>2. /\ contents \in Seq(Seq(Symbols)) /\ contents # <<>>
      /\ DOMAIN opts.paths = DOMAIN contents /\ Len(opts.paths) = Len(contents)
  BY SolidAssumption DEF SolidInit
<1>3. Len(contents) \in Nat \ {0} /\ DOMAIN contents = 1 .. Len(contents) BY <1>2
<1>4. nodes \in Seq(NodeType) /\ Len(nodes) = Len(contents) BY <1>1, <1>2, <1>3 DEF NodeType
<1>5. name \in [DOMAIN opts.paths -> 0 .. Len(nodes)] BY <1>1, <1>2, <1>3, <1>4
<1>6. SolidTypeOK
  <2>1. OptionsTyped BY <1>2, <1>3 DEF SolidInit, OptionsTyped, Phases
  <2>2. InputsTyped BY <1>4, <1>5 DEF SolidInit, InputsTyped
  <2>3. ReadsTyped BY <1>4 DEF SolidInit, ReadsTyped, Surveyed
  <2> QED BY <2>1, <2>2, <2>3 DEF SolidInit, SolidTypeOK, WritesTyped
<1>7. EntriesTrue /\ InputsNoted /\ ReadSoFar
  BY DEF SolidInit, EntriesTrue, InputsNoted, ReadSoFar, Surveyed
<1>8. StreamTrue /\ BlocksTrue /\ RingTrue /\ StoredTrue
  BY DEF SolidInit, StreamTrue, BlocksTrue, RingTrue, StoredTrue, Gathered, Hashed
<1> QED BY <1>6, <1>7, <1>8 DEF SolidIInv, SolidInit

\* Of what the invariant says only types, notes and the reading speak of the
\* input file system.
LEMMA InputsAside ==
  ASSUME SolidIInv, pc # "failed", UNCHANGED <<opts, pc, readVars, writeVars, storeVars>>,
         InputsTyped', handle' \in 0 .. Len(nodes'), InputsNoted', ReadSoFar'
  PROVE  SolidIInv'
<1> USE DEF readVars, writeVars, storeVars
<1>1. EntriesTrue' BY DEF SolidIInv, EntriesTrue, Surveyed
<1>2. StreamTrue' BY DEF SolidIInv, StreamTrue, Gathered, Hashed, InStream
<1>3. BlocksTrue' /\ RingTrue' BY DEF SolidIInv, BlocksTrue, RingTrue, Hashed
<1>4. (pc # "start" => torn \/ FramesTrue)'
  BY DEF SolidIInv, FramesTrue, IndexAt, CommentAt, Commented, Indexed, Enveloped, Chunk
<1>5. StoredTrue' BY DEF SolidIInv, StoredTrue, FrameTrue, Enveloped
<1>6. OptionsTyped' /\ WritesTyped' BY DEF SolidIInv, SolidTypeOK, OptionsTyped, WritesTyped
<1>7. ReadsTyped' BY DEF SolidIInv, SolidTypeOK, ReadsTyped, EntryType, Surveyed
<1> QED BY <1>1, <1>2, <1>3, <1>4, <1>5, <1>6, <1>7 DEF SolidIInv, SolidTypeOK

\* What the elements of the typed sequences are.
LEMMA Elements ==
  ASSUME InputsTyped, ReadsTyped
  PROVE  /\ \A n \in DOMAIN nodes : nodes[n].stamp \in Nat /\ nodes[n].content \in Seq(Symbols)
         /\ \A f \in DOMAIN ids : ids[f].node \in Nat /\ ids[f].size \in Nat /\ ids[f].stamp \in Nat
         /\ \A f \in DOMAIN entries : /\ entries[f].size \in Nat /\ entries[f].offset \in Nat
                                      /\ entries[f].hash \in Seq(Symbols)
         /\ DOMAIN nodes = 1 .. Len(nodes) /\ Len(nodes) \in Nat
         /\ DOMAIN ids = 1 .. Len(ids) /\ Len(ids) \in Nat
         /\ DOMAIN entries = 1 .. Len(entries) /\ Len(entries) \in Nat
<1>1. \A n \in DOMAIN nodes : nodes[n] \in NodeType BY DEF InputsTyped
<1>2. \A f \in DOMAIN ids : ids[f] \in IdentityType BY DEF ReadsTyped
<1>3. \A f \in DOMAIN entries : entries[f] \in EntryType BY DEF ReadsTyped
<1>4. \A n \in DOMAIN nodes : nodes[n].stamp \in Nat /\ nodes[n].content \in Seq(Symbols)
  BY <1>1 DEF NodeType
<1>5. \A f \in DOMAIN ids : ids[f].node \in Nat /\ ids[f].size \in Nat /\ ids[f].stamp \in Nat
  BY <1>2 DEF IdentityType
<1>6. \A f \in DOMAIN entries : /\ entries[f].size \in Nat /\ entries[f].offset \in Nat
                                /\ entries[f].hash \in Seq(Symbols)
  BY <1>3 DEF EntryType
<1>7. /\ DOMAIN nodes = 1 .. Len(nodes) /\ Len(nodes) \in Nat BY DEF InputsTyped
<1>8. /\ DOMAIN ids = 1 .. Len(ids) /\ Len(ids) \in Nat BY DEF ReadsTyped
<1>9. /\ DOMAIN entries = 1 .. Len(entries) /\ Len(entries) \in Nat BY DEF ReadsTyped
<1> QED BY <1>4, <1>5, <1>6, <1>7, <1>8, <1>9

\* While the inputs are read, at is one of them and was noted.
LEMMA Reading ==
  ASSUME SolidIInv, pc \in {"reopen", "read", "recheck"}
  PROVE  /\ Surveyed /\ Len(ids) = Len(opts.paths) /\ Len(entries) = Len(opts.paths)
         /\ at \in 1 .. Len(opts.paths) /\ at \in DOMAIN ids /\ at \in DOMAIN entries
         /\ at \in DOMAIN name /\ ids[at].node \in DOMAIN nodes
         /\ instant[at] \in Seq(Symbols)
<1>1. /\ Surveyed /\ OptionsTyped /\ InputsTyped /\ ReadsTyped /\ EntriesTrue /\ InputsNoted
  BY DEF SolidIInv, SolidTypeOK, Surveyed
<1>2. at \in 1 .. Len(opts.paths) /\ at \in DOMAIN opts.paths BY <1>1 DEF OptionsTyped
<1>3. Len(ids) = Len(opts.paths) /\ Len(entries) = Len(opts.paths) BY <1>1 DEF EntriesTrue
<1>4. at \in DOMAIN ids /\ at \in DOMAIN entries BY <1>1, <1>2, <1>3, Elements
<1>5. at \in DOMAIN name BY <1>1, <1>2 DEF InputsTyped
<1>6. instant[at] \in Seq(Symbols) BY <1>1, <1>2 DEF ReadsTyped
<1>7. ids[at].node \in DOMAIN nodes BY <1>1, <1>4 DEF InputsNoted
<1> QED BY <1>1, <1>2, <1>3, <1>4, <1>5, <1>6, <1>7

\* An input written in place gets a new stamp.
LEMMA EditKeeps ==
  ASSUME SolidIInv, NEW f \in Inputs, NEW c \in NewContents, Edit(f, c)
  PROVE  SolidIInv'
<1>1. /\ pc # "failed" /\ pc' = pc
      /\ InputsTyped /\ ReadsTyped /\ InputsNoted /\ ReadSoFar
      /\ UNCHANGED <<name, opts, pc, readVars, writeVars, storeVars>>
  BY DEF SolidIInv, SolidTypeOK, Edit, Disturb, Running
<1>2. PICK n : n = name[f] OBVIOUS
<1>3. n \in DOMAIN nodes /\ n \in 1 .. Len(nodes) /\ c \in Seq(Symbols)
  BY <1>1, <1>2, SolidAssumption DEF InputsTyped, Edit, Inputs
<1>4. nodes[n] \in NodeType BY <1>1, <1>3 DEF InputsTyped
<1>5. PICK new : new = [stamp |-> nodes[n].stamp + 1, content |-> c] OBVIOUS
<1>6. new \in NodeType /\ new.stamp = nodes[n].stamp + 1 /\ nodes[n].stamp \in Nat
  BY <1>3, <1>4, <1>5 DEF NodeType
<1>7. nodes' = [nodes EXCEPT ![n] = new] BY <1>2, <1>5 DEF Edit
<1>8. /\ nodes' \in Seq(NodeType) /\ Len(nodes') = Len(nodes) /\ DOMAIN nodes' = DOMAIN nodes
      /\ \A m \in DOMAIN nodes : nodes'[m] = IF m = n THEN new ELSE nodes[m]
  BY <1>1, <1>3, <1>6, <1>7, ExceptSeq DEF InputsTyped
<1>9. \A m \in DOMAIN nodes : nodes[m] \in NodeType BY <1>1 DEF InputsTyped
<1>10. \A m \in DOMAIN nodes : /\ nodes[m].stamp \in Nat /\ nodes'[m].stamp \in Nat
                               /\ nodes[m].stamp <= nodes'[m].stamp
                               /\ nodes[m].stamp = nodes'[m].stamp => nodes'[m] = nodes[m]
  <2> SUFFICES ASSUME NEW m \in DOMAIN nodes
               PROVE  /\ nodes[m].stamp \in Nat /\ nodes'[m].stamp \in Nat
                      /\ nodes[m].stamp <= nodes'[m].stamp
                      /\ nodes[m].stamp = nodes'[m].stamp => nodes'[m] = nodes[m]
    OBVIOUS
  <2>1. nodes[m].stamp \in Nat BY <1>9 DEF NodeType
  <2>2. CASE m = n
    <3>1. nodes'[m] = new BY <1>8, <2>2
    <3>2. nodes'[m].stamp = nodes[m].stamp + 1 BY <1>6, <2>2, <3>1
    <3> QED BY <2>1, <3>2
  <2>3. CASE m # n BY <1>8, <2>1, <2>3
  <2> QED BY <2>2, <2>3
<1>11. InputsTyped' BY <1>1, <1>8 DEF InputsTyped, Edit, Disturb
<1>12. InputsNoted'
  <2>1. \A m \in DOMAIN ids : ids[m].stamp \in Nat BY <1>1, Elements
  <2> QED BY <1>1, <1>8, <1>10, <2>1 DEF InputsNoted, readVars, Surveyed
<1>13. ReadSoFar'
  <2>1. CASE pc \in {"read", "recheck"}
    <3>1. at \in DOMAIN ids /\ handle = ids[at].node /\ handle \in DOMAIN nodes
      BY <1>1, <2>1, Reading DEF ReadSoFar
    <3>2. ids[at].stamp \in Nat /\ ids[at].stamp <= nodes[handle].stamp
      BY <1>1, <3>1, Elements DEF InputsNoted
    <3>3. ids[at].stamp = nodes'[handle].stamp => nodes'[handle] = nodes[handle]
      BY <1>10, <3>1, <3>2
    <3> QED BY <1>1, <2>1, <3>1, <3>3 DEF ReadSoFar, readVars
  <2>2. CASE pc \notin {"read", "recheck"} BY <1>1, <2>2 DEF ReadSoFar
  <2> QED BY <2>1, <2>2
<1>14. handle' \in 0 .. Len(nodes') BY <1>1, <1>8 DEF ReadsTyped, readVars
<1> QED BY <1>1, <1>11, <1>12, <1>13, <1>14, InputsAside

\* A file renamed over an input is another node.
LEMMA ReplaceKeeps ==
  ASSUME SolidIInv, NEW f \in Inputs, NEW c \in NewContents, Replace(f, c)
  PROVE  SolidIInv'
<1>1. /\ pc # "failed" /\ pc' = pc
      /\ OptionsTyped /\ InputsTyped /\ ReadsTyped /\ EntriesTrue /\ InputsNoted /\ ReadSoFar
      /\ UNCHANGED <<opts, pc, readVars, writeVars, storeVars>>
  BY DEF SolidIInv, SolidTypeOK, Replace, Disturb, Running
<1>2. PICK new : new = [stamp |-> nodes[name[f]].stamp, content |-> c] OBVIOUS
<1>3. /\ name[f] \in DOMAIN nodes /\ c \in Seq(Symbols) /\ f \in DOMAIN opts.paths
      /\ Len(nodes) \in Nat /\ DOMAIN nodes = 1 .. Len(nodes)
  BY <1>1, SolidAssumption DEF InputsTyped, Replace, Inputs
<1>4. nodes[name[f]].stamp \in Nat BY <1>1, <1>3, Elements
<1>5. new \in NodeType BY <1>2, <1>3, <1>4 DEF NodeType
<1>6. nodes' = Append(nodes, new) /\ name' = [name EXCEPT ![f] = Len(nodes) + 1]
  BY <1>2 DEF Replace
<1>7. /\ nodes' \in Seq(NodeType) /\ Len(nodes') = Len(nodes) + 1
      /\ \A m \in DOMAIN nodes : m \in DOMAIN nodes' /\ nodes'[m] = nodes[m]
  <2> HIDE DEF NodeType
  <2> QED BY <1>1, <1>3, <1>5, <1>6 DEF InputsTyped
<1>8. name' \in [DOMAIN opts.paths -> 0 .. Len(nodes')]
  BY <1>1, <1>3, <1>6, <1>7 DEF InputsTyped
<1>9. InputsTyped' BY <1>1, <1>7, <1>8 DEF InputsTyped, Replace, Disturb
<1>10. InputsNoted'
  <2> SUFFICES ASSUME NEW m \in DOMAIN ids
      PROVE  /\ ids[m].node \in DOMAIN nodes'
             /\ ids[m].stamp <= nodes'[ids[m].node].stamp
             /\ Surveyed /\ name'[m] = ids[m].node /\ ids[m].stamp = nodes'[ids[m].node].stamp
                  => nodes'[ids[m].node].content = instant[m]
    BY <1>1 DEF InputsNoted, Surveyed, readVars
  <2>1. /\ ids[m].node \in DOMAIN nodes /\ nodes'[ids[m].node] = nodes[ids[m].node]
        /\ ids[m].node \in DOMAIN nodes' /\ ids[m].node # Len(nodes) + 1
    BY <1>1, <1>3, <1>7 DEF InputsNoted
  <2>2. name'[m] = ids[m].node => name[m] = ids[m].node
    <3>1. m \in DOMAIN opts.paths
      BY <1>1, Elements DEF EntriesTrue, OptionsTyped, Surveyed
    <3> QED BY <1>1, <1>3, <1>6, <2>1, <3>1 DEF InputsTyped
  <2> QED BY <1>1, <2>1, <2>2 DEF InputsNoted
<1>11. ReadSoFar'
  <2>1. CASE pc \in {"read", "recheck"}
    <3>1. handle = ids[at].node /\ handle \in DOMAIN nodes
      BY <1>1, <2>1, Reading DEF ReadSoFar
    <3>2. nodes'[handle] = nodes[handle] BY <1>7, <3>1
    <3> QED BY <1>1, <2>1, <3>1, <3>2 DEF ReadSoFar, readVars
  <2>2. CASE pc \notin {"read", "recheck"} BY <1>1, <2>2 DEF ReadSoFar
  <2> QED BY <2>1, <2>2
<1>12. handle' \in 0 .. Len(nodes') BY <1>1, <1>3, <1>7 DEF ReadsTyped, readVars
<1> QED BY <1>1, <1>9, <1>10, <1>11, <1>12, InputsAside

\* An input that is gone is no node.
LEMMA UnlinkKeeps ==
  ASSUME SolidIInv, NEW f \in Inputs, Unlink(f)
  PROVE  SolidIInv'
<1>1. /\ pc # "failed" /\ pc' = pc /\ nodes' = nodes
      /\ OptionsTyped /\ InputsTyped /\ ReadsTyped /\ EntriesTrue /\ InputsNoted /\ ReadSoFar
      /\ UNCHANGED <<opts, pc, readVars, writeVars, storeVars>>
  BY DEF SolidIInv, SolidTypeOK, Unlink, Disturb, Running
<1>2. /\ Len(nodes) \in Nat /\ DOMAIN nodes = 1 .. Len(nodes) BY <1>1 DEF InputsTyped
<1>3. name' \in [DOMAIN opts.paths -> 0 .. Len(nodes)] /\ name' = [name EXCEPT ![f] = 0]
  <2>1. name' = [name EXCEPT ![f] = 0] BY DEF Unlink
  <2>2. name \in [DOMAIN opts.paths -> 0 .. Len(nodes)] BY <1>1 DEF InputsTyped
  <2>3. 0 \in 0 .. Len(nodes) BY <1>2
  <2> QED BY <2>1, <2>2, <2>3
<1>4. InputsTyped' BY <1>1, <1>3 DEF InputsTyped, Unlink, Disturb
<1>5. InputsNoted'
  <2> SUFFICES ASSUME NEW m \in DOMAIN ids, name'[m] = ids[m].node, ids[m].node \in DOMAIN nodes
               PROVE  name[m] = ids[m].node
    BY <1>1 DEF InputsNoted, Surveyed, readVars
  <2>1. m \in DOMAIN opts.paths
    BY <1>1, Elements DEF EntriesTrue, OptionsTyped, Surveyed
  <2> QED BY <1>1, <1>2, <1>3, <2>1 DEF InputsTyped
<1>6. ReadSoFar' BY <1>1 DEF ReadSoFar, readVars
<1>7. handle' \in 0 .. Len(nodes') BY <1>1 DEF ReadsTyped, readVars
<1> QED BY <1>1, <1>4, <1>5, <1>6, <1>7, InputsAside

\* Until the blocks are written the writing side stands still.
LEMMA WritingAside ==
  ASSUME SolidIInv, pc \in {"stat", "reopen", "read", "recheck", "hash"},
         pc' \in {"stat", "reopen", "read", "recheck", "hash", "encode"},
         UNCHANGED <<opts, writeVars, storeVars>>
  PROVE  (WritesTyped /\ BlocksTrue /\ RingTrue /\ (torn \/ FramesTrue) /\ StoredTrue)'
<1>1. /\ WritesTyped /\ RingTrue /\ FramesTrue /\ blockSeq = 0 /\ ~torn
      /\ UNCHANGED <<blockSeq, ring, archive, torn, stored, damaged, opts>>
  BY DEF SolidIInv, SolidTypeOK, BlocksTrue, Hashed, writeVars, storeVars
<1>2. WritesTyped' /\ RingTrue' BY <1>1 DEF WritesTyped, RingTrue
<1>3. BlocksTrue' BY <1>1 DEF BlocksTrue, Hashed
<1>4. FramesTrue'
  <2>1. ~Commented /\ ~Commented' /\ ~Indexed /\ ~Indexed' BY DEF Commented, Indexed
  <2>2. /\ CommentAt' = CommentAt /\ IndexAt' = IndexAt /\ Enveloped' = Enveloped
    BY <1>1, <2>1 DEF CommentAt, IndexAt, Enveloped
  <2>3. \A i \in 1 .. blockSeq' : FALSE BY <1>1
  <2> QED BY <1>1, <2>1, <2>2, <2>3 DEF FramesTrue
<1>5. StoredTrue' BY DEF StoredTrue
<1> QED BY <1>2, <1>3, <1>4, <1>5

\* Of a run that failed nothing is claimed.
LEMMA FailKeeps ==
  ASSUME Fail PROVE SolidIInv'
BY DEF Fail, SolidIInv

\* A step of the reading side keeps the invariant if it keeps its own part.
LEMMA ReadingKeeps ==
  ASSUME SolidIInv, pc \in {"stat", "reopen", "read", "recheck", "hash"},
         pc' \in {"stat", "reopen", "read", "recheck", "hash", "encode"},
         UNCHANGED <<inputVars, opts, writeVars, storeVars>>,
         at' \in DOMAIN opts.paths, ReadsTyped', EntriesTrue', InputsNoted', ReadSoFar', StreamTrue'
  PROVE  SolidIInv'
<1>1. (WritesTyped /\ BlocksTrue /\ RingTrue /\ (torn \/ FramesTrue) /\ StoredTrue)' BY WritingAside
<1>2. OptionsTyped' BY DEF SolidIInv, SolidTypeOK, OptionsTyped, Phases
<1>3. InputsTyped' BY DEF SolidIInv, SolidTypeOK, InputsTyped, inputVars
<1> QED BY <1>1, <1>2, <1>3 DEF SolidIInv, SolidTypeOK

\* The second pass opens an input: the same node, with the stamp it had.
LEMMA ReopenKeeps ==
  ASSUME SolidIInv, Reopen PROVE SolidIInv'
<1>1. CASE Fail BY <1>1, FailKeeps
<1>2. CASE ~Fail
  <2>1. /\ pc = "reopen" /\ pc' = "read" /\ name[at] # 0 /\ Identity(name[at]) = ids[at]
        /\ handle' = name[at] /\ got' = <<>>
        /\ UNCHANGED <<inputVars, opts, at, ids, entries, buf, instant, writeVars, storeVars>>
        /\ UNCHANGED <<nodes, name>>
    BY <1>2 DEF Reopen, inputVars
  <2>2. /\ OptionsTyped /\ InputsTyped /\ ReadsTyped /\ EntriesTrue /\ InputsNoted /\ StreamTrue
        /\ Surveyed /\ Surveyed'
    BY <2>1 DEF SolidIInv, SolidTypeOK, Surveyed
  <2>3. name[at] \in DOMAIN nodes BY <2>1, <2>2, Reading DEF InputsTyped
  <2>4. ReadsTyped' BY <2>1, <2>2, <2>3 DEF ReadsTyped, InputsTyped, EntryType
  <2>5. EntriesTrue' BY <2>1, <2>2 DEF EntriesTrue
  <2>6. InputsNoted' BY <2>1, <2>2 DEF InputsNoted
  <2>7. ReadSoFar'
    <3>1. /\ ids[at].node = name[at] /\ ids[at].size = Len(nodes[name[at]].content)
          /\ ids[at].stamp = nodes[name[at]].stamp
      BY <2>1 DEF Identity
    <3>2. nodes[name[at]].content = instant[at]
      BY <2>1, <2>2, <3>1, Reading DEF InputsNoted
    <3>3. Len(instant[at]) \in Nat BY <2>1, Reading
    <3> QED BY <2>1, <3>1, <3>2, <3>3 DEF ReadSoFar
  <2>8. StreamTrue' BY <2>1, <2>2 DEF StreamTrue, Gathered, Hashed, InStream
  <2>9. at' \in DOMAIN opts.paths BY <2>1, <2>2 DEF OptionsTyped
  <2> QED BY <2>1, <2>4, <2>5, <2>6, <2>7, <2>8, <2>9, ReadingKeeps
<1> QED BY <1>1, <1>2

\* What is read of an input is what it was, while the stamp lasts.
LEMMA ReadUnitKeeps ==
  ASSUME SolidIInv, ReadUnit PROVE SolidIInv'
<1>1. CASE Fail BY <1>1, FailKeeps
<1>2. CASE ~Fail
  <2>1. /\ pc = "read" /\ pc' = pc /\ Len(got) < entries[at].size
        /\ ~(Len(got) >= Len(nodes[handle].content))
        /\ got' = Append(got, nodes[handle].content[Len(got) + 1])
        /\ UNCHANGED <<inputVars, opts, at, ids, entries, handle, buf, instant, writeVars, storeVars>>
        /\ UNCHANGED <<nodes, name>>
    BY <1>2 DEF ReadUnit, inputVars
  <2>2. /\ OptionsTyped /\ InputsTyped /\ ReadsTyped /\ EntriesTrue /\ InputsNoted /\ StreamTrue
        /\ ReadSoFar /\ Surveyed /\ Surveyed'
    BY <2>1 DEF SolidIInv, SolidTypeOK, Surveyed
  <2>3. /\ handle \in DOMAIN nodes /\ nodes[handle].content \in Seq(Symbols)
        /\ got \in Seq(Symbols) /\ entries[at].size = ids[at].size /\ ids[at].size \in Nat
        /\ at \in DOMAIN ids
    BY <2>1, <2>2, Reading, Elements DEF ReadSoFar, EntriesTrue, ReadsTyped
  <2>4. nodes[handle].content[Len(got) + 1] \in Symbols BY <2>1, <2>3
  <2>5. /\ got' \in Seq(Symbols) /\ Len(got') = Len(got) + 1 /\ Len(got) \in Nat
        /\ DOMAIN got' = 1 .. Len(got) + 1 /\ DOMAIN got = 1 .. Len(got)
        /\ \A i \in 1 .. Len(got) + 1 :
             got'[i] = IF i = Len(got) + 1 THEN nodes[handle].content[Len(got) + 1] ELSE got[i]
    BY <2>1, <2>3, <2>4
  <2>6. ReadsTyped' BY <2>1, <2>2, <2>5 DEF ReadsTyped, EntryType
  <2>7. EntriesTrue' /\ InputsNoted' BY <2>1, <2>2 DEF EntriesTrue, InputsNoted
  <2>8. ReadSoFar'
    <3>1. Len(got') <= ids'[at'].size BY <2>1, <2>3, <2>5
    <3>2. /\ handle' = ids'[at'].node /\ Len(instant'[at']) = ids'[at'].size
      BY <2>1, <2>2 DEF ReadSoFar
    <3>3. ASSUME ids[at].stamp = nodes[handle].stamp
          PROVE  /\ nodes[handle].content = instant[at]
                 /\ \A i \in DOMAIN got' : got'[i] = instant[at][i]
      <4>1. /\ nodes[handle].content = instant[at] /\ \A i \in DOMAIN got : got[i] = instant[at][i]
        BY <2>1, <2>2, <3>3 DEF ReadSoFar
      <4>2. \A i \in 1 .. Len(got) + 1 : got'[i] = instant[at][i]
        <5> SUFFICES ASSUME NEW i \in 1 .. Len(got) + 1 PROVE got'[i] = instant[at][i] OBVIOUS
        <5>1. CASE i = Len(got) + 1 BY <2>5, <4>1, <5>1
        <5>2. CASE i # Len(got) + 1
          <6>1. i \in DOMAIN got BY <2>5, <5>2
          <6> QED BY <2>5, <4>1, <5>2, <6>1
        <5> QED BY <5>1, <5>2
      <4> QED BY <2>5, <4>1, <4>2
    <3> QED BY <2>1, <3>1, <3>2, <3>3 DEF ReadSoFar
  <2>9. StreamTrue' BY <2>1, <2>2 DEF StreamTrue, Gathered, Hashed, InStream
  <2>10. at' \in DOMAIN opts.paths BY <2>1, <2>2 DEF OptionsTyped
  <2> QED BY <2>1, <2>6, <2>7, <2>8, <2>9, <2>10, ReadingKeeps
<1> QED BY <1>1, <1>2

\* The input ends where the first pass said.
LEMMA ReadEndKeeps ==
  ASSUME SolidIInv, ReadEnd PROVE SolidIInv'
<1>1. CASE Fail BY <1>1, FailKeeps
<1>2. CASE ~Fail
  <2>1. /\ pc = "read" /\ pc' = "recheck" /\ Len(got) = entries[at].size
        /\ UNCHANGED <<inputVars, opts, readVars, writeVars, storeVars>>
        /\ UNCHANGED <<nodes, name, at, ids, entries, handle, got, buf, instant>>
    BY <1>2 DEF ReadEnd, inputVars, readVars
  <2>2. /\ OptionsTyped /\ InputsTyped /\ ReadsTyped /\ EntriesTrue /\ InputsNoted /\ StreamTrue
        /\ ReadSoFar /\ Surveyed /\ Surveyed'
    BY <2>1 DEF SolidIInv, SolidTypeOK, Surveyed
  <2>3. entries[at].size = ids[at].size BY <2>1, <2>2, Reading DEF EntriesTrue
  <2>4. ReadsTyped' BY <2>1, <2>2 DEF ReadsTyped, EntryType
  <2>5. EntriesTrue' /\ InputsNoted' BY <2>1, <2>2 DEF EntriesTrue, InputsNoted
  <2>6. ReadSoFar' BY <2>1, <2>2, <2>3 DEF ReadSoFar
  <2>7. StreamTrue' BY <2>1, <2>2 DEF StreamTrue, Gathered, Hashed, InStream
  <2>8. at' \in DOMAIN opts.paths BY <2>1, <2>2 DEF OptionsTyped
  <2> QED BY <2>1, <2>4, <2>5, <2>6, <2>7, <2>8, ReadingKeeps
<1> QED BY <1>1, <1>2

\* The identity is the same still, so all that was read goes to the stream.
LEMMA RecheckKeeps ==
  ASSUME SolidIInv, Recheck PROVE SolidIInv'
<1>1. CASE Fail BY <1>1, FailKeeps
<1>2. CASE ~Fail
  <2>1. /\ pc = "recheck" /\ Identity(handle) = ids[at] /\ buf' = buf \o got
        /\ pc' = (IF at = Len(opts.paths) THEN "hash" ELSE "reopen")
        /\ at' = (IF at = Len(opts.paths) THEN 1 ELSE at + 1)
        /\ UNCHANGED <<inputVars, opts, ids, entries, handle, got, instant, writeVars, storeVars>>
        /\ UNCHANGED <<nodes, name>>
    BY <1>2 DEF Recheck, inputVars
  <2>2. /\ OptionsTyped /\ InputsTyped /\ ReadsTyped /\ EntriesTrue /\ InputsNoted /\ StreamTrue
        /\ ReadSoFar /\ Surveyed /\ Surveyed'
    BY <2>1 DEF SolidIInv, SolidTypeOK, Surveyed
  <2>3. /\ buf \in Seq(Symbols) /\ got \in Seq(Symbols) /\ Len(got) = entries[at].size
        /\ entries[at].size \in Nat /\ Len(buf) = entries[at].offset
        /\ Len(instant[at]) = entries[at].size
        /\ \A i \in DOMAIN got : got[i] = instant[at][i]
    <3>1. ids[at].stamp = nodes[handle].stamp BY <2>1 DEF Identity
    <3>2. entries[at].size = ids[at].size /\ entries[at].size \in Nat
      BY <2>1, <2>2, Reading, Elements DEF EntriesTrue
    <3> QED BY <2>1, <2>2, <3>1, <3>2 DEF ReadSoFar, StreamTrue, ReadsTyped
  <2>4. /\ buf' \in Seq(Symbols) /\ Len(buf') = Len(buf) + Len(got)
        /\ Len(buf) \in Nat /\ Len(got) \in Nat
        /\ \A i \in 1 .. Len(buf) : buf'[i] = buf[i]
        /\ \A i \in 1 .. Len(got) : buf'[Len(buf) + i] = got[i]
    <3>1. /\ buf \o got \in Seq(Symbols) /\ Len(buf \o got) = Len(buf) + Len(got)
          /\ \A i \in 1 .. Len(buf) + Len(got) :
               (buf \o got)[i] = IF i <= Len(buf) THEN buf[i] ELSE got[i - Len(buf)]
      BY <2>3, ConcatProperties
    <3>2. Len(buf) \in Nat /\ Len(got) \in Nat BY <2>3
    <3>3. \A i \in 1 .. Len(buf) : (buf \o got)[i] = buf[i] BY <3>1, <3>2
    <3>4. \A i \in 1 .. Len(got) : (buf \o got)[Len(buf) + i] = got[i]
      <4> SUFFICES ASSUME NEW i \in 1 .. Len(got) PROVE (buf \o got)[Len(buf) + i] = got[i] OBVIOUS
      <4>1. /\ Len(buf) + i \in 1 .. Len(buf) + Len(got) /\ ~(Len(buf) + i <= Len(buf))
            /\ (Len(buf) + i) - Len(buf) = i
        BY <3>2
      <4> QED BY <3>1, <4>1
    <3> QED BY <2>1, <3>1, <3>2, <3>3, <3>4
  <2>5. at \in 1 .. Len(opts.paths) /\ Len(opts.paths) \in Nat \ {0} /\ Len(entries) = Len(opts.paths)
        /\ DOMAIN entries = 1 .. Len(entries)
    BY <2>1, <2>2, Reading, Elements DEF OptionsTyped
  <2>6. ReadsTyped' BY <2>1, <2>2, <2>4 DEF ReadsTyped, EntryType
  <2>7. EntriesTrue' /\ InputsNoted' BY <2>1, <2>2 DEF EntriesTrue, InputsNoted
  <2>8. ReadSoFar' BY <2>1 DEF ReadSoFar
  <2>9. StreamTrue'
    <3>1. ASSUME NEW f \in 1 .. at PROVE InStream(f)'
      <4>1. CASE f = at
        <5>1. \A i \in 1 .. entries[f].size : buf'[entries[f].offset + i] = instant[f][i]
          <6> SUFFICES ASSUME NEW i \in 1 .. entries[f].size
                       PROVE  buf'[entries[f].offset + i] = instant[f][i]
            OBVIOUS
          <6>1. i \in 1 .. Len(got) /\ i \in DOMAIN got BY <2>3, <4>1
          <6>2. buf'[Len(buf) + i] = got[i] BY <2>4, <6>1
          <6>3. got[i] = instant[f][i] BY <2>3, <4>1, <6>1
          <6> QED BY <2>3, <4>1, <6>2, <6>3
        <5>2. entries[f].offset + entries[f].size <= Len(buf') BY <2>3, <2>4, <4>1
        <5>3. Len(instant[f]) = entries[f].size BY <2>3, <4>1
        <5> QED BY <2>1, <5>1, <5>2, <5>3 DEF InStream
      <4>2. CASE f # at
        <5>1. InStream(f) BY <2>1, <2>2, <2>5, <4>2 DEF StreamTrue
        <5>2. entries[f].offset \in Nat /\ entries[f].size \in Nat
          BY <2>2, <2>5, Elements
        <5>3. \A i \in 1 .. entries[f].size : buf'[entries[f].offset + i] = instant[f][i]
          <6> SUFFICES ASSUME NEW i \in 1 .. entries[f].size
                       PROVE  buf'[entries[f].offset + i] = instant[f][i]
            OBVIOUS
          <6>1. entries[f].offset + i \in 1 .. Len(buf) BY <2>4, <5>1, <5>2 DEF InStream
          <6>2. buf'[entries[f].offset + i] = buf[entries[f].offset + i] BY <2>4, <6>1
          <6> QED BY <5>1, <6>2 DEF InStream
        <5>4. entries[f].offset + entries[f].size <= Len(buf') BY <2>4, <5>1, <5>2 DEF InStream
        <5> QED BY <2>1, <5>1, <5>3, <5>4 DEF InStream
      <4> QED BY <4>1, <4>2
    <3>2. CASE at = Len(opts.paths)
      <4>1. pc' = "hash" /\ entries' = entries BY <2>1, <3>2
      <4>2. Len(buf') = entries[Len(entries)].offset + entries[Len(entries)].size
        BY <2>3, <2>4, <2>5, <3>2
      <4>3. \A f \in DOMAIN entries : InStream(f)' BY <2>5, <3>1, <3>2
      <4> QED BY <4>1, <4>2, <4>3 DEF StreamTrue, Gathered, Hashed
    <3>3. CASE at # Len(opts.paths)
      <4>1. pc' = "reopen" /\ at' = at + 1 /\ entries' = entries BY <2>1, <3>3
      <4>2. at + 1 \in DOMAIN entries /\ at + 1 # 1 /\ (at + 1) - 1 = at BY <2>5, <3>3
      <4>3. Len(buf') = entries[at + 1].offset
        BY <2>2, <2>3, <2>4, <4>2 DEF EntriesTrue
      <4>4. \A f \in 1 .. at' - 1 : InStream(f)' BY <2>5, <3>1, <4>1
      <4> QED BY <4>1, <4>3, <4>4 DEF StreamTrue, Gathered, Hashed
    <3> QED BY <3>2, <3>3
  <2>10. at' \in DOMAIN opts.paths BY <2>1, <2>2, <2>5 DEF OptionsTyped
  <2> QED BY <2>1, <2>6, <2>7, <2>8, <2>9, <2>10, ReadingKeeps
<1> QED BY <1>1, <1>2

\* The span of a file in the stream is its content.
LEMMA StretchIs ==
  ASSUME NEW s \in Seq(Symbols), NEW t \in Seq(Symbols), NEW o \in Nat, NEW n \in Nat,
         Len(t) = n, o + n <= Len(s), \A i \in 1 .. n : s[o + i] = t[i]
  PROVE  SubSeq(s, o + 1, o + n) = t
<1>1. Len(s) \in Nat OBVIOUS
<1>2. \A i \in o + 1 .. o + n : s[i] \in Symbols BY <1>1
<1>3. PICK u : u = SubSeq(s, o + 1, o + n) OBVIOUS
<1>4. /\ u \in Seq(Symbols) /\ Len(u) = (IF o + 1 <= o + n THEN o + n - (o + 1) + 1 ELSE 0)
      /\ \A i \in 1 .. o + n - (o + 1) + 1 : u[i] = s[o + 1 + i - 1]
  BY <1>2, <1>3, SubSeqProperties, o + 1 \in Int, o + n \in Int
<1>5. Len(u) = n BY <1>4
<1>6. \A i \in 1 .. n : u[i] = s[o + i]
  <2> SUFFICES ASSUME NEW i \in 1 .. n PROVE u[i] = s[o + i] OBVIOUS
  <2>1. i \in 1 .. o + n - (o + 1) + 1 /\ o + 1 + i - 1 = o + i OBVIOUS
  <2> QED BY <1>4, <2>1
<1> QED BY <1>3, <1>4, <1>5, <1>6, SeqEqual

\* The hash of a file is over its span of the stream, which is its content.
LEMMA HashFilesKeeps ==
  ASSUME SolidIInv, HashFiles PROVE SolidIInv'
<1>1. /\ pc = "hash" /\ pc' = "encode"
      /\ entries' = [i \in DOMAIN entries |-> [entries[i] EXCEPT !.hash = Stretch(buf, entries[i])]]
      /\ UNCHANGED <<inputVars, opts, at, ids, handle, got, buf, instant, writeVars, storeVars>>
      /\ UNCHANGED <<nodes, name>>
  BY DEF HashFiles, inputVars
<1>2. /\ OptionsTyped /\ InputsTyped /\ ReadsTyped /\ EntriesTrue /\ InputsNoted /\ StreamTrue
      /\ Surveyed /\ Surveyed'
  BY <1>1 DEF SolidIInv, SolidTypeOK, Surveyed
<1>3. DOMAIN entries = 1 .. Len(entries) /\ Len(entries) \in Nat /\ buf \in Seq(Symbols)
      /\ Len(entries) = Len(opts.paths) /\ DOMAIN entries = DOMAIN opts.paths
  BY <1>2, Elements DEF EntriesTrue, ReadsTyped, OptionsTyped
<1>4. \A f \in DOMAIN entries : Stretch(buf, entries[f]) = instant[f] /\ instant[f] \in Seq(Symbols)
  <2> SUFFICES ASSUME NEW f \in DOMAIN entries
               PROVE  Stretch(buf, entries[f]) = instant[f] /\ instant[f] \in Seq(Symbols)
    OBVIOUS
  <2>1. InStream(f) BY <1>1, <1>2 DEF StreamTrue, Gathered
  <2>2. instant[f] \in Seq(Symbols) BY <1>2, <1>3 DEF ReadsTyped
  <2>3. entries[f].offset \in Nat /\ entries[f].size \in Nat BY <1>2, Elements
  <2> QED BY <1>3, <2>1, <2>2, <2>3, StretchIs DEF InStream, Stretch
<1>5. \A f \in DOMAIN entries :
        /\ entries'[f] \in EntryType /\ entries'[f].hash = instant[f]
        /\ entries'[f].path = entries[f].path /\ entries'[f].size = entries[f].size
        /\ entries'[f].offset = entries[f].offset
  <2> SUFFICES ASSUME NEW f \in DOMAIN entries
               PROVE  /\ entries'[f] \in EntryType /\ entries'[f].hash = instant[f]
                      /\ entries'[f].path = entries[f].path /\ entries'[f].size = entries[f].size
                      /\ entries'[f].offset = entries[f].offset
    OBVIOUS
  <2>1. entries[f] \in EntryType BY <1>2 DEF ReadsTyped
  <2>2. entries'[f] = [entries[f] EXCEPT !.hash = instant[f]] BY <1>1, <1>4
  <2>3. instant[f] \in Seq(Symbols) BY <1>4
  <2> QED BY <2>1, <2>2, <2>3 DEF EntryType
<1>6. entries' \in Seq(EntryType) /\ DOMAIN entries' = DOMAIN entries /\ Len(entries') = Len(entries)
  <2>1. DOMAIN entries' = 1 .. Len(entries) BY <1>1, <1>3
  <2>2. entries' = [i \in 1 .. Len(entries) |-> entries'[i]] BY <1>1, <1>3
  <2>3. \A i \in 1 .. Len(entries) : entries'[i] \in EntryType BY <1>3, <1>5
  <2> HIDE DEF EntryType
  <2>4. entries' \in Seq(EntryType) BY <1>3, <2>2, <2>3, IsASeq
  <2> QED BY <1>3, <2>1, <2>4
<1>7. ReadsTyped'
  <2>1. EntryType' = EntryType BY <1>1 DEF EntryType
  <2> QED BY <1>1, <1>2, <1>6, <2>1 DEF ReadsTyped
<1>8. EntriesTrue'
  <2>1. Len(ids') = (IF Surveyed' THEN Len(opts'.paths) ELSE at' - 1) BY <1>1, <1>2 DEF EntriesTrue
  <2>2. Len(entries') = Len(ids') BY <1>1, <1>2, <1>6 DEF EntriesTrue
  <2>3. ASSUME NEW f \in DOMAIN entries'
        PROVE  /\ entries'[f].path = opts'.paths[f] /\ entries'[f].size = ids'[f].size
               /\ entries'[f].offset = IF f = 1 THEN 0 ELSE entries'[f - 1].offset + entries'[f - 1].size
    <3>1. f \in DOMAIN entries BY <1>6
    <3>2. f # 1 => f - 1 \in DOMAIN entries BY <1>3, <3>1
    <3> QED BY <1>1, <1>2, <1>5, <3>1, <3>2 DEF EntriesTrue
  <2> QED BY <2>1, <2>2, <2>3 DEF EntriesTrue
<1>9. InputsNoted' BY <1>1, <1>2 DEF InputsNoted
<1>10. ReadSoFar' BY <1>1 DEF ReadSoFar
<1>11. StreamTrue'
  <2>1. \A f \in DOMAIN entries : InStream(f)' /\ entries'[f].hash = instant'[f]
    BY <1>1, <1>2, <1>5 DEF StreamTrue, Gathered, InStream
  <2>2. Len(entries) \in DOMAIN entries BY <1>2, <1>3 DEF OptionsTyped
  <2>3. Len(buf') = entries'[Len(entries')].offset + entries'[Len(entries')].size
    BY <1>1, <1>2, <1>5, <1>6, <2>2 DEF StreamTrue, Gathered
  <2> QED BY <1>1, <1>6, <2>1, <2>3 DEF StreamTrue, Gathered, Hashed
<1>12. at' \in DOMAIN opts.paths BY <1>1, <1>2 DEF OptionsTyped
<1> QED BY <1>1, <1>7, <1>8, <1>9, <1>10, <1>11, <1>12, ReadingKeeps

\* The first pass notes one input.
LEMMA StatInputKeeps ==
  ASSUME SolidIInv, StatInput PROVE SolidIInv'
<1>1. CASE Fail BY <1>1, FailKeeps
<1>2. CASE ~Fail
  <2> DEFINE last == at = Len(opts.paths)
             id == Identity(name[at])
             e == [path |-> opts.paths[at], size |-> Len(ContentOf(at)),
                   offset |-> TotalSize(entries), hash |-> <<>>]
  <2>1. /\ pc = "stat" /\ name[at] # 0 /\ ids' = Append(ids, id) /\ entries' = Append(entries, e)
        /\ pc' = (IF last THEN "reopen" ELSE "stat") /\ at' = (IF last THEN 1 ELSE at + 1)
        /\ instant' = IF last THEN [f \in Inputs |-> ContentOf(f)] ELSE instant
        /\ UNCHANGED <<inputVars, opts, handle, got, buf, writeVars, storeVars>>
        /\ UNCHANGED <<nodes, name>>
    BY <1>2 DEF StatInput, inputVars
  <2>2. /\ OptionsTyped /\ InputsTyped /\ ReadsTyped /\ EntriesTrue /\ InputsNoted /\ StreamTrue
        /\ ~Surveyed
    BY <2>1 DEF SolidIInv, SolidTypeOK, Surveyed
  <2>3. /\ Len(opts.paths) \in Nat \ {0} /\ DOMAIN opts.paths = 1 .. Len(opts.paths)
        /\ at \in 1 .. Len(opts.paths) /\ Len(ids) = at - 1 /\ Len(entries) = at - 1
        /\ Inputs = DOMAIN opts.paths
    BY <2>2 DEF OptionsTyped, EntriesTrue, InputsTyped, Inputs
  <2>4. /\ name[at] \in DOMAIN nodes /\ ContentOf(at) = nodes[name[at]].content
        /\ ContentOf(at) \in Seq(Symbols) /\ nodes[name[at]].stamp \in Nat /\ name[at] \in Nat \ {0}
    BY <2>1, <2>2, <2>3, Elements DEF InputsTyped, ContentOf
  <2>5. /\ id.node = name[at] /\ id.size = Len(ContentOf(at)) /\ id.stamp = nodes[name[at]].stamp
        /\ id \in IdentityType
    BY <2>4 DEF Identity, IdentityType
  <2>6. TotalSize(entries) = IF at = 1 THEN 0 ELSE entries[at - 1].offset + entries[at - 1].size
    <3>1. DOMAIN entries = 1 .. Len(entries) /\ Len(entries) \in Nat BY <2>2, Elements
    <3>2. TotalSize(entries) = IF Len(entries) = 0 THEN 0
                               ELSE entries[Len(entries)].offset + entries[Len(entries)].size
      BY <2>2, <3>1, TotalOfChain DEF EntriesTrue
    <3> QED BY <2>3, <3>2
  <2>7. TotalSize(entries) \in Nat
    <3>1. CASE at = 1 BY <2>6, <3>1
    <3>2. CASE at # 1
      <4>1. at - 1 \in DOMAIN entries BY <2>2, <2>3, <3>2, Elements
      <4>2. entries[at - 1].offset \in Nat /\ entries[at - 1].size \in Nat BY <2>2, <4>1, Elements
      <4> QED BY <2>6, <3>2, <4>2
    <3> QED BY <3>1, <3>2
  <2>8. /\ e.path = opts.paths[at] /\ e.size = Len(ContentOf(at)) /\ e.offset = TotalSize(entries)
        /\ e \in EntryType
    <3>1. Len(ContentOf(at)) \in Nat BY <2>4
    <3>2. opts.paths[at] \in {opts.paths[f] : f \in DOMAIN opts.paths} BY <2>3
    <3> QED BY <2>7, <3>1, <3>2 DEF EntryType
  <2> HIDE DEF id, e
  <2>9. /\ ids' \in Seq(IdentityType) /\ Len(ids') = at /\ ids'[at] = id
        /\ \A f \in 1 .. at - 1 : f \in DOMAIN ids /\ ids'[f] = ids[f]
        /\ DOMAIN ids' = 1 .. at
    <3>1. ids \in Seq(IdentityType) BY <2>2 DEF ReadsTyped
    <3> QED BY <2>1, <2>3, <2>5, <3>1, AppendProperties
  <2>10. /\ entries' \in Seq(EntryType) /\ Len(entries') = at /\ entries'[at] = e
         /\ \A f \in 1 .. at - 1 : f \in DOMAIN entries /\ entries'[f] = entries[f]
         /\ DOMAIN entries' = 1 .. at
    <3>1. entries \in Seq(EntryType) BY <2>2 DEF ReadsTyped
    <3> QED BY <2>1, <2>3, <2>8, <3>1, AppendProperties
  <2>11. instant' = [f \in Inputs |-> ContentOf(f)] \/ ~last BY <2>1
  <2>12. ReadsTyped'
    <3>1. EntryType' = EntryType BY <2>1 DEF EntryType
    <3>2. Surveyed' <=> last BY <2>1 DEF Surveyed
    <3>3. \A f \in Inputs : ContentOf(f) \in Seq(Symbols)
      <4> SUFFICES ASSUME NEW f \in Inputs PROVE ContentOf(f) \in Seq(Symbols) OBVIOUS
      <4>1. name[f] # 0 => name[f] \in DOMAIN nodes BY <2>2, <2>3, Elements DEF InputsTyped
      <4> QED BY <2>2, <4>1, Elements DEF ContentOf
    <3>4. last => instant' \in [DOMAIN opts.paths -> Seq(Symbols)] BY <2>3, <2>11, <3>3
    <3> QED BY <2>1, <2>2, <2>9, <2>10, <3>1, <3>2, <3>4 DEF ReadsTyped
  <2>13. EntriesTrue'
    <3>1. Surveyed' <=> last BY <2>1 DEF Surveyed
    <3>2. Len(ids') = IF Surveyed' THEN Len(opts'.paths) ELSE at' - 1
      BY <2>1, <2>3, <2>9, <3>1
    <3>3. ASSUME NEW f \in DOMAIN entries'
          PROVE  /\ entries'[f].path = opts'.paths[f] /\ entries'[f].size = ids'[f].size
                 /\ entries'[f].offset = IF f = 1 THEN 0 ELSE entries'[f - 1].offset + entries'[f - 1].size
      <4>1. f \in 1 .. at BY <2>10
      <4>2. CASE f = at
        <5>1. f # 1 => f - 1 \in 1 .. at - 1 BY <2>3, <4>2
        <5> QED BY <2>1, <2>5, <2>6, <2>8, <2>9, <2>10, <4>2, <5>1
      <4>3. CASE f # at
        <5>1. f \in 1 .. at - 1 /\ (f # 1 => f - 1 \in 1 .. at - 1) BY <2>3, <4>1, <4>3
        <5> QED BY <2>1, <2>2, <2>9, <2>10, <5>1 DEF EntriesTrue
      <4> QED BY <4>2, <4>3
    <3> QED BY <2>9, <2>10, <3>2, <3>3 DEF EntriesTrue
  <2>14. InputsNoted'
    <3> SUFFICES ASSUME NEW f \in 1 .. at
        PROVE  /\ ids'[f].node \in DOMAIN nodes /\ ids'[f].stamp <= nodes[ids'[f].node].stamp
               /\ last /\ name[f] = ids'[f].node => nodes[ids'[f].node].content = instant'[f]
      <4>1. Surveyed' <=> last BY <2>1 DEF Surveyed
      <4> QED BY <2>1, <2>9, <4>1 DEF InputsNoted
    <3>1. ids'[f].node \in DOMAIN nodes /\ ids'[f].stamp <= nodes[ids'[f].node].stamp
      <4>1. CASE f = at BY <2>4, <2>5, <2>9, <4>1
      <4>2. CASE f # at
        <5>1. f \in 1 .. at - 1 BY <2>3, <4>2
        <5> QED BY <2>2, <2>9, <5>1 DEF InputsNoted
      <4> QED BY <4>1, <4>2
    <3>2. ASSUME last, name[f] = ids'[f].node PROVE nodes[ids'[f].node].content = instant'[f]
      <4>1. f \in Inputs /\ instant' = [g \in Inputs |-> ContentOf(g)] BY <2>1, <2>3, <3>2
      <4>2. ids'[f].node # 0 BY <2>2, <3>1, Elements
      <4> QED BY <3>2, <4>1, <4>2 DEF ContentOf
    <3> QED BY <3>1, <3>2
  <2>15. ReadSoFar' BY <2>1 DEF ReadSoFar
  <2>16. StreamTrue'
    <3>1. buf' = <<>> BY <2>1, <2>2 DEF StreamTrue
    <3>2. last => Len(buf') = entries'[at'].offset /\ at' - 1 = 0
      <4> SUFFICES ASSUME last PROVE Len(buf') = entries'[at'].offset /\ at' - 1 = 0 OBVIOUS
      <4>1. at' = 1 BY <2>1
      <4>2. 1 \in DOMAIN entries' BY <2>3, <2>10
      <4>3. entries'[1].offset = 0 BY <2>13, <4>2 DEF EntriesTrue
      <4> QED BY <3>1, <4>1, <4>3
    <3> QED BY <2>1, <3>1, <3>2 DEF StreamTrue, Gathered, Hashed
  <2>17. at' \in DOMAIN opts.paths BY <2>1, <2>3
  <2> QED BY <2>1, <2>12, <2>13, <2>14, <2>15, <2>16, <2>17, ReadingKeeps
<1> QED BY <1>1, <1>2

-----------------------------------------------------------------------------
(* The invariant while the archive is written.                             *)

\* While the archive is written the reading side stands still.
LEMMA ReadingAside ==
  ASSUME SolidIInv, UNCHANGED <<inputVars, opts, readVars>>,
         \/ pc = "start" /\ pc' = "stat"
         \/ Hashed /\ Hashed'
  PROVE  (/\ OptionsTyped /\ InputsTyped /\ ReadsTyped /\ EntriesTrue /\ InputsNoted /\ ReadSoFar
          /\ StreamTrue)'
<1>1. /\ OptionsTyped /\ InputsTyped /\ ReadsTyped /\ EntriesTrue /\ InputsNoted /\ StreamTrue
      /\ UNCHANGED <<nodes, name, events, opts, at, ids, entries, handle, got, buf, instant>>
  BY DEF SolidIInv, SolidTypeOK, inputVars, readVars, Hashed
<1>2. (Surveyed' <=> Surveyed) /\ (Gathered' <=> Gathered) /\ (Hashed' <=> Hashed)
      /\ pc' \notin {"reopen", "read", "recheck", "failed"} /\ pc' \in Phases
      /\ (pc' \in {"start", "stat"} <=> pc \in {"start", "stat"})
  BY DEF Surveyed, Gathered, Hashed, Phases
<1>3. OptionsTyped' /\ InputsTyped' BY <1>1, <1>2 DEF OptionsTyped, InputsTyped
<1>4. ReadsTyped'
  <2>1. EntryType' = EntryType BY <1>1 DEF EntryType
  <2> QED BY <1>1, <1>2, <2>1 DEF ReadsTyped
<1>5. EntriesTrue' BY <1>1, <1>2 DEF EntriesTrue
<1>6. InputsNoted' BY <1>1, <1>2 DEF InputsNoted
<1>7. ReadSoFar' BY <1>2 DEF ReadSoFar
<1>8. StreamTrue' BY <1>1, <1>2 DEF StreamTrue, InStream
<1> QED BY <1>3, <1>4, <1>5, <1>6, <1>7, <1>8

\* What the writers put into a frame.
LEMMA FrameIs ==
  ASSUME NEW type, NEW body, NEW r, NEW seq
  PROVE  /\ Frame(type, body, r, seq).type = type
         /\ Frame(type, body, r, seq).body = body /\ Frame(type, body, r, seq).size = Len(body)
         /\ Frame(type, body, r, seq).seal # <<>> =>
              r.key # NoKey /\ Frame(type, body, r, seq).seal[1].key = r.key
         /\ {"type", "body", "seal"} \subseteq DOMAIN Frame(type, body, r, seq)
<1> DEFINE bare == [type |-> type, sealed |-> r.key # NoKey, size |-> Len(body),
                    sum |-> body, body |-> body, whole |-> TRUE, seal |-> <<>>]
<1>1. CASE r.key = NoKey
  <2>1. Frame(type, body, r, seq) = bare BY <1>1 DEF Frame
  <2> QED BY <2>1
<1>2. CASE r.key # NoKey
  <2>1. PICK sl : sl = Seal(r, seq, Preface(bare)) OBVIOUS
  <2>2. Frame(type, body, r, seq) = [bare EXCEPT !.seal = <<sl>>] BY <1>2, <2>1 DEF Frame
  <2>3. sl.key = r.key BY <2>1 DEF Seal
  <2> HIDE <2>1
  <2>4. /\ Frame(type, body, r, seq).type = type /\ Frame(type, body, r, seq).body = body
        /\ Frame(type, body, r, seq).size = Len(body)
        /\ Frame(type, body, r, seq).seal = <<sl>>
        /\ {"type", "body", "seal"} \subseteq DOMAIN Frame(type, body, r, seq)
    BY <2>2
  <2> QED BY <1>2, <2>3, <2>4
<1> QED BY <1>1, <1>2

\* One frame more.
LEMMA OneMore ==
  ASSUME NEW fs, Len(fs) \in Nat, fs = [i \in 1 .. Len(fs) |-> fs[i]], NEW e
  PROVE  /\ Len(Append(fs, e)) = Len(fs) + 1
         /\ Append(fs, e) = [i \in 1 .. Len(fs) + 1 |-> Append(fs, e)[i]]
         /\ \A i \in 1 .. Len(fs) : Append(fs, e)[i] = fs[i]
         /\ Append(fs, e)[Len(fs) + 1] = e
<1> DEFINE S == {fs[i] : i \in 1 .. Len(fs)} \cup {e}
<1>1. \A i \in 1 .. Len(fs) : fs[i] \in S OBVIOUS
<1>2. e \in S OBVIOUS
<1> HIDE DEF S
<1>3. fs \in Seq(S) BY <1>1
<1>4. /\ Append(fs, e) \in Seq(S) /\ Len(Append(fs, e)) = Len(fs) + 1
      /\ \A i \in 1 .. Len(fs) : Append(fs, e)[i] = fs[i]
      /\ Append(fs, e)[Len(fs) + 1] = e
  BY <1>2, <1>3, AppendProperties
<1>5. Append(fs, e) = [i \in 1 .. Len(fs) + 1 |-> Append(fs, e)[i]]
  <2>1. PICK g : g = Append(fs, e) OBVIOUS
  <2>2. g \in [1 .. Len(fs) + 1 -> S] BY <1>4, <2>1, LenProperties
  <2> QED BY <2>1, <2>2
<1> QED BY <1>4, <1>5

\* Records with one field changed.
LEMMA KeyTaken ==
  ASSUME NEW b
  PROVE  [[key |-> NoKey, preface |-> b] EXCEPT !.key = NoKey] = [key |-> NoKey, preface |-> b]
OBVIOUS

\* An archive whose frames are replaced keeps the rest.
LEMMA FramesChanged ==
  ASSUME NEW a, NEW head, NEW fs, NEW foot, NEW ait, NEW gs,
         a = [header |-> head, frames |-> fs, footer |-> foot, ait |-> ait]
  PROVE  [a EXCEPT !.frames = gs] = [header |-> head, frames |-> gs, footer |-> foot, ait |-> ait]
OBVIOUS

\* An archive that gets a comment keeps the rest.
LEMMA CommentChanged ==
  ASSUME NEW head, NEW magic, NEW encAt, NEW flags, NEW was, NEW is,
         head = [magic |-> magic, encAt |-> encAt, commentAt |-> was, flags |-> flags]
  PROVE  [head EXCEPT !.commentAt = is] =
           [magic |-> magic, encAt |-> encAt, commentAt |-> is, flags |-> flags]
OBVIOUS

\* The header and, in an encrypted archive, the envelope.
LEMMA StartKeeps ==
  ASSUME SolidIInv, Start("salt") PROVE SolidIInv'
<1>1. CASE Fail BY <1>1, FailKeeps
<1>2. CASE ~Fail
  <2> DEFINE key == IF opts.encrypt THEN SealedKey(opts, "salt") ELSE NoKey
             flags == {"solid"} \cup IF opts.encrypt THEN {"encrypted", "aadSeq", "preface"} ELSE {}
             head == [magic |-> TRUE, encAt |-> IF opts.encrypt THEN 1 ELSE 0, commentAt |-> 0,
                      flags |-> flags]
             env == Frame("enc", <<EnvelopeOf(key)>>, [ring EXCEPT !.key = NoKey], 0)
             fs == IF opts.encrypt THEN <<env>> ELSE <<>>
  <2>1. /\ pc = "start" /\ pc' = "stat" /\ ring' = [key |-> key, preface |-> opts.encrypt]
        /\ archive' = [Nothing EXCEPT !.header = head, !.frames = fs]
        /\ UNCHANGED <<inputVars, opts, readVars, blockSeq, torn, storeVars>>
    BY <1>2 DEF Start
  <2> HIDE DEF key, flags
  <2>2. /\ (OptionsTyped /\ InputsTyped /\ ReadsTyped /\ EntriesTrue /\ InputsNoted /\ ReadSoFar
            /\ StreamTrue)'
    BY <2>1, ReadingAside
  <2>3. WritesTyped' BY <2>1 DEF SolidIInv, SolidTypeOK, WritesTyped, storeVars
  <2>4. blockSeq' = 0 /\ ~torn' /\ opts' = opts
    BY <2>1 DEF SolidIInv, BlocksTrue, Hashed
  <2>5. BlocksTrue' BY <2>1, <2>4 DEF BlocksTrue, Hashed
  <2>6. RingTrue' BY <2>1 DEF RingTrue, key
  <2>7. FramesTrue'
    <3>1. ~Commented' /\ ~Indexed' BY <2>1 DEF Commented, Indexed
    <3>2. CommentAt' = 0 /\ IndexAt' = Enveloped' + 1 /\ Enveloped' = IF opts.encrypt THEN 1 ELSE 0
      BY <2>4, <3>1 DEF CommentAt, IndexAt, Enveloped
    <3>3. /\ archive' = [header |-> head, frames |-> fs, footer |-> Nothing.footer, ait |-> <<>>]
      BY <2>1 DEF Nothing
    <3>4. /\ archive'.header = head /\ archive'.frames = fs /\ archive'.footer = Nothing.footer
          /\ archive' = [header |-> archive'.header, frames |-> archive'.frames,
                         footer |-> archive'.footer, ait |-> <<>>]
      BY <3>3
    <3>5. Len(fs) = Enveloped' /\ fs = [i \in 1 .. Len(fs) |-> fs[i]]
      <4> HIDE DEF env
      <4>1. CASE opts.encrypt BY <3>2, <4>1
      <4>2. CASE ~opts.encrypt BY <3>2, <4>2
      <4> QED BY <4>1, <4>2
    <3>6. opts.encrypt => fs[1] = Frame("enc", <<EnvelopeOf(ring'.key)>>, [key |-> NoKey, preface |-> FALSE], 0)
      <4> SUFFICES ASSUME opts.encrypt
                   PROVE  fs[1] = Frame("enc", <<EnvelopeOf(ring'.key)>>, [key |-> NoKey, preface |-> FALSE], 0)
        OBVIOUS
      <4>1. RingTrue BY <2>1 DEF SolidIInv
      <4>2. ring = [key |-> NoKey, preface |-> FALSE] BY <2>1, <4>1 DEF RingTrue
      <4>3. [ring EXCEPT !.key = NoKey] = [key |-> NoKey, preface |-> FALSE]
        BY <4>2, KeyTaken, Zenon
      <4>4. ring'.key = key BY <2>1
      <4>5. fs[1] = env OBVIOUS
      <4> QED BY <4>3, <4>4, <4>5
    <3>7. \A i \in 1 .. blockSeq' : FALSE BY <2>4
    <3> HIDE DEF fs, head
    <3> QED BY <2>4, <3>1, <3>2, <3>4, <3>5, <3>6, <3>7 DEF FramesTrue, head, flags
  <2>8. StoredTrue' BY <2>1 DEF StoredTrue
  <2> QED BY <2>1, <2>2, <2>3, <2>4, <2>5, <2>6, <2>7, <2>8 DEF SolidIInv, SolidTypeOK
<1> QED BY <1>1, <1>2

\* What a step of the writing side has to keep.
LEMMA WritingKeeps ==
  ASSUME SolidIInv, Hashed, Hashed', pc' # "published", UNCHANGED <<inputVars, opts, readVars, ring, storeVars>>,
         blockSeq' \in Nat, torn' \in BOOLEAN, BlocksTrue', torn' \/ FramesTrue'
  PROVE  SolidIInv'
<1>1. (OptionsTyped /\ InputsTyped /\ ReadsTyped /\ EntriesTrue /\ InputsNoted /\ ReadSoFar /\ StreamTrue)'
  BY ReadingAside
<1>2. pc # "failed" /\ pc # "start" /\ pc' # "failed" /\ pc' # "start" BY DEF Hashed
<1>3. WritesTyped' BY <1>2 DEF SolidIInv, SolidTypeOK, WritesTyped, storeVars
<1>4. RingTrue' BY <1>2 DEF SolidIInv, RingTrue
<1>5. StoredTrue' BY DEF StoredTrue
<1> QED BY <1>1, <1>2, <1>3, <1>4, <1>5 DEF SolidIInv, SolidTypeOK

\* One block more, or a write that came to nothing and is remembered.
LEMMA EncodeBlockKeeps ==
  ASSUME SolidIInv, NEW lost \in BOOLEAN, EncodeBlock(lost) PROVE SolidIInv'
<1> DEFINE chunk == SubSeq(buf, blockSeq * BlockUnits + 1, Min({Len(buf), (blockSeq + 1) * BlockUnits}))
           f == Frame("data", chunk, ring, SolidSeq(blockSeq))
<1>1. /\ pc = "encode" /\ pc' = pc /\ Len(buf) > blockSeq * BlockUnits
      /\ archive' = Put(f, lost) /\ blockSeq' = blockSeq + 1 /\ torn' = (torn \/ lost)
      /\ UNCHANGED <<inputVars, opts, readVars, ring, storeVars>>
      /\ UNCHANGED buf
  BY DEF EncodeBlock, readVars
<1>2. WritesTyped /\ blockSeq \in Nat /\ torn \in BOOLEAN /\ (torn \/ FramesTrue) /\ BlocksTrue
  BY <1>1 DEF SolidIInv, SolidTypeOK, WritesTyped
<1>3. Hashed /\ Hashed' BY <1>1 DEF Hashed
<1>4. BlocksTrue'
  <2>1. blockSeq' - 1 = blockSeq BY <1>1, <1>2
  <2>2. (blockSeq' - 1) * BlockUnits < Len(buf')
    <3>1. (blockSeq' - 1) * BlockUnits = blockSeq * BlockUnits BY <2>1
    <3>2. blockSeq * BlockUnits \in Nat /\ Len(buf) \in Nat
      BY <1>1, <1>2, SolidAssumption DEF SolidIInv, SolidTypeOK, ReadsTyped
    <3> QED BY <1>1, <3>1, <3>2
  <2> QED BY <1>1, <1>3, <2>2 DEF BlocksTrue
<1>5. CASE torn' BY <1>1, <1>2, <1>3, <1>4, <1>5, WritingKeeps
<1>6. CASE ~torn'
  <2>1. ~lost /\ ~torn /\ FramesTrue BY <1>1, <1>2, <1>6
  <2>2. archive' = [archive EXCEPT !.frames = Append(archive.frames, f)] BY <1>1, <2>1 DEF Put
  <2>3. ~Commented /\ ~Commented' /\ ~Indexed /\ ~Indexed' BY <1>1 DEF Commented, Indexed
  <2>4. Enveloped' = Enveloped /\ Enveloped \in {0, 1} BY <1>1 DEF Enveloped
  <2>5. /\ CommentAt = 0 /\ CommentAt' = 0 /\ IndexAt = Enveloped + blockSeq + 1
        /\ IndexAt' = Enveloped + blockSeq' + 1
    BY <1>1, <1>2, <2>3, <2>4 DEF CommentAt, IndexAt
  <2>6. Len(archive.frames) = Enveloped + blockSeq
    <3>1. Len(archive.frames) = IndexAt - (IF Indexed THEN 0 ELSE 1) BY <2>1 DEF FramesTrue
    <3> QED BY <1>2, <2>3, <2>4, <2>5, <3>1
  <2>7. /\ Len(archive.frames) \in Nat /\ archive.frames = [i \in 1 .. Len(archive.frames) |-> archive.frames[i]]
    BY <1>2, <2>1, <2>4, <2>6 DEF FramesTrue
  <2>8. archive = [header |-> archive.header, frames |-> archive.frames, footer |-> archive.footer, ait |-> <<>>]
    BY <2>1 DEF FramesTrue
  <2> HIDE DEF f
  <2>9. PICK fs : fs = Append(archive.frames, f) OBVIOUS
  <2>10. /\ Len(fs) = Enveloped + blockSeq + 1 /\ fs = [i \in 1 .. Len(fs) |-> fs[i]]
         /\ \A i \in 1 .. Enveloped + blockSeq : fs[i] = archive.frames[i]
         /\ fs[Enveloped + blockSeq + 1] = f
    BY <2>6, <2>7, <2>9, OneMore
  <2>11. /\ archive'.header = archive.header /\ archive'.frames = fs /\ archive'.footer = archive.footer
         /\ archive' = [header |-> archive.header, frames |-> fs, footer |-> archive.footer, ait |-> <<>>]
    <3>1. archive' = [header |-> archive.header, frames |-> fs, footer |-> archive.footer, ait |-> <<>>]
      <4>1. [archive EXCEPT !.frames = fs] =
              [header |-> archive.header, frames |-> fs, footer |-> archive.footer, ait |-> <<>>]
        BY <2>8, FramesChanged
      <4>2. archive' = [archive EXCEPT !.frames = fs] BY <2>2, <2>9
      <4> QED BY <4>1, <4>2, Zenon
    <3> QED BY <3>1
  <2>12. f = Frame("data", Chunk(blockSeq + 1), ring, SolidSeq((blockSeq + 1) - 1))
    <3>1. (blockSeq + 1) - 1 = blockSeq BY <1>2
    <3>2. \A k : k = blockSeq =>
            f = Frame("data", SubSeq(buf, k * BlockUnits + 1, Min({Len(buf), (blockSeq + 1) * BlockUnits})),
                      ring, SolidSeq(k))
      BY DEF f
    <3>3. f = Frame("data", SubSeq(buf, ((blockSeq + 1) - 1) * BlockUnits + 1,
                                   Min({Len(buf), (blockSeq + 1) * BlockUnits})),
                    ring, SolidSeq((blockSeq + 1) - 1))
      BY <3>1, <3>2, Zenon
    <3>4. Chunk(blockSeq + 1) = SubSeq(buf, ((blockSeq + 1) - 1) * BlockUnits + 1,
                                       Min({Len(buf), (blockSeq + 1) * BlockUnits}))
      BY DEF Chunk
    <3> HIDE DEF Chunk
    <3> QED BY <3>3, <3>4
  <2>13. \A i \in 1 .. blockSeq' : archive'.frames[Enveloped' + i] = Frame("data", Chunk(i)', ring', SolidSeq(i - 1))
    <3> SUFFICES ASSUME NEW i \in 1 .. blockSeq + 1
                 PROVE  fs[Enveloped + i] = Frame("data", Chunk(i), ring, SolidSeq(i - 1))
      BY <1>1, <2>4, <2>11 DEF Chunk
    <3>1. CASE i = blockSeq + 1 BY <1>2, <2>4, <2>10, <2>12, <3>1
    <3>2. CASE i # blockSeq + 1
      <4>1. i \in 1 .. blockSeq /\ Enveloped + i \in 1 .. Enveloped + blockSeq BY <1>2, <2>4, <3>2
      <4> QED BY <2>1, <2>10, <4>1 DEF FramesTrue
    <3> QED BY <3>1, <3>2
  <2>14. opts.encrypt => fs[1] = archive.frames[1]
    <3>1. opts.encrypt => 1 \in 1 .. Enveloped + blockSeq BY <1>2 DEF Enveloped
    <3> QED BY <2>10, <3>1
  <2>15. FramesTrue'
    <3>1. /\ archive' = [header |-> archive'.header, frames |-> archive'.frames,
                          footer |-> archive'.footer, ait |-> <<>>]
          /\ archive'.frames = [i \in 1 .. Len(archive'.frames) |-> archive'.frames[i]]
      BY <2>10, <2>11
    <3>2. Len(archive'.frames) = IndexAt' - 1 BY <1>1, <1>2, <2>4, <2>5, <2>10, <2>11
    <3> QED BY <1>1, <2>1, <2>3, <2>4, <2>5, <2>11, <2>13, <2>14, <3>1, <3>2 DEF FramesTrue
  <2> QED BY <1>1, <1>2, <1>3, <1>4, <2>15, WritingKeeps
<1> QED BY <1>5, <1>6

\* The archive with one frame more, whatever became of header and footer.
LEMMA FrameAdded ==
  ASSUME FramesTrue, ~Indexed, blockSeq \in Nat, NEW f, NEW fs, fs = Append(archive.frames, f)
  PROVE  /\ Len(archive.frames) = IndexAt - 1 /\ IndexAt \in Nat \ {0}
         /\ Len(fs) = IndexAt /\ fs = [i \in 1 .. Len(fs) |-> fs[i]] /\ fs[IndexAt] = f
         /\ \A i \in 1 .. IndexAt - 1 : fs[i] = archive.frames[i]
<1>1. IndexAt \in Nat \ {0} BY DEF IndexAt, Enveloped
<1>2. /\ Len(archive.frames) = IndexAt - 1 /\ Len(archive.frames) \in Nat
      /\ archive.frames = [i \in 1 .. Len(archive.frames) |-> archive.frames[i]]
  BY <1>1 DEF FramesTrue
<1>3. Len(archive.frames) + 1 = IndexAt BY <1>1, <1>2
<1>4. /\ Len(fs) = Len(archive.frames) + 1
      /\ fs = [i \in 1 .. Len(archive.frames) + 1 |-> fs[i]]
      /\ \A i \in 1 .. Len(archive.frames) : fs[i] = archive.frames[i]
      /\ fs[Len(archive.frames) + 1] = f
  BY <1>2, OneMore
<1> QED BY <1>1, <1>2, <1>3, <1>4

\* The comment is the frame behind the blocks.
LEMMA WriteCommentKeeps ==
  ASSUME SolidIInv, NEW lost \in BOOLEAN, WriteComment(lost) PROVE SolidIInv'
<1>1. CASE Fail BY <1>1, FailKeeps
<1>2. CASE ~Fail
  <2> DEFINE f == Frame("comment", opts.comment, ring, CommentSeq)
  <2>1. /\ pc = "encode" /\ pc' = "index" /\ Len(buf) <= blockSeq * BlockUnits
        /\ UNCHANGED <<inputVars, opts, readVars, blockSeq, ring, torn, storeVars>> /\ UNCHANGED buf
        /\ \/ opts.comment = <<>> /\ UNCHANGED archive
           \/ /\ opts.comment # <<>>
              /\ archive' = [Put(f, FALSE) EXCEPT !.header.commentAt = Len(archive.frames) + 1]
    BY <1>2 DEF WriteComment, readVars, writeVars
  <2>2. WritesTyped /\ blockSeq \in Nat /\ torn \in BOOLEAN /\ (torn \/ FramesTrue) /\ BlocksTrue
    BY <2>1 DEF SolidIInv, SolidTypeOK, WritesTyped
  <2>3. Hashed /\ Hashed' BY <2>1 DEF Hashed
  <2>4. BlocksTrue' BY <2>1, <2>2, <2>3 DEF BlocksTrue
  <2>5. CASE torn' BY <2>1, <2>2, <2>3, <2>4, <2>5, WritingKeeps
  <2>6. CASE ~torn'
    <3>1. ~torn /\ FramesTrue BY <2>1, <2>2, <2>6
    <3>2. /\ ~Commented /\ (Commented' <=> opts.comment # <<>>) /\ ~Indexed /\ ~Indexed'
          /\ Enveloped' = Enveloped /\ Enveloped \in {0, 1}
      BY <2>1 DEF Commented, Indexed, Enveloped
    <3>3. /\ CommentAt = 0 /\ IndexAt = Enveloped + blockSeq + 1
          /\ CommentAt' = (IF opts.comment = <<>> THEN 0 ELSE IndexAt)
          /\ IndexAt' = (IF opts.comment = <<>> THEN IndexAt ELSE IndexAt + 1)
      BY <2>1, <2>2, <3>2 DEF CommentAt, IndexAt
    <3>4. \A i : Chunk(i)' = Chunk(i) BY <2>1 DEF Chunk
    <3>5. CASE opts.comment = <<>>
      <4>1. UNCHANGED archive BY <2>1, <3>5
      <4>2. FramesTrue' BY <2>1, <3>1, <3>2, <3>3, <3>4, <3>5, <4>1 DEF FramesTrue
      <4> QED BY <2>1, <2>2, <2>3, <2>4, <4>2, WritingKeeps
    <3>6. CASE opts.comment # <<>>
      <4> HIDE DEF f
      <4>1. archive' = [Put(f, FALSE) EXCEPT !.header.commentAt = Len(archive.frames) + 1]
        BY <2>1, <3>6
      <4>2. PICK fs : fs = Append(archive.frames, f) OBVIOUS
      <4>3. /\ Len(archive.frames) = IndexAt - 1 /\ IndexAt \in Nat \ {0}
            /\ Len(fs) = IndexAt /\ fs = [i \in 1 .. Len(fs) |-> fs[i]] /\ fs[IndexAt] = f
            /\ \A i \in 1 .. IndexAt - 1 : fs[i] = archive.frames[i]
        BY <2>2, <3>1, <3>2, <4>2, FrameAdded
      <4>4. Len(archive.frames) + 1 = IndexAt BY <4>3
      <4>5. archive' = [header |-> [archive.header EXCEPT !.commentAt = IndexAt], frames |-> fs,
                        footer |-> archive.footer, ait |-> <<>>]
        <5>1. archive = [header |-> archive.header, frames |-> archive.frames,
                         footer |-> archive.footer, ait |-> <<>>]
          BY <3>1 DEF FramesTrue
        <5>2. Put(f, FALSE) = [archive EXCEPT !.frames = fs] BY <4>2 DEF Put
        <5>3. [archive EXCEPT !.frames = fs] =
                [header |-> archive.header, frames |-> fs, footer |-> archive.footer, ait |-> <<>>]
          BY <5>1, FramesChanged
        <5>4. PICK a : a = Put(f, FALSE) OBVIOUS
        <5>5. a = [header |-> archive.header, frames |-> fs, footer |-> archive.footer, ait |-> <<>>]
          BY <5>2, <5>3, <5>4, Zenon
        <5>6. archive' = [a EXCEPT !.header.commentAt = IndexAt] BY <4>1, <4>4, <5>4
        <5> QED BY <5>5, <5>6
      <4>6. archive.header = [magic |-> TRUE, encAt |-> Enveloped, commentAt |-> CommentAt,
                              flags |-> archive.header.flags]
        BY <3>1 DEF FramesTrue
      <4>7. [archive.header EXCEPT !.commentAt = IndexAt] =
              [magic |-> TRUE, encAt |-> Enveloped, commentAt |-> IndexAt, flags |-> archive.header.flags]
        <5>1. PICK head : head = archive.header OBVIOUS
        <5>2. PICK flags, magic : flags = archive.header.flags /\ magic = TRUE OBVIOUS
        <5>3. head = [magic |-> magic, encAt |-> Enveloped, commentAt |-> CommentAt, flags |-> flags]
          BY <4>6, <5>1, <5>2, Zenon
        <5>4. [head EXCEPT !.commentAt = IndexAt] =
                [magic |-> magic, encAt |-> Enveloped, commentAt |-> IndexAt, flags |-> flags]
          BY <5>3, CommentChanged
        <5> QED BY <5>1, <5>2, <5>4, Zenon
      <4>8. /\ archive'.header = [magic |-> TRUE, encAt |-> Enveloped, commentAt |-> IndexAt,
                                  flags |-> archive.header.flags]
            /\ archive'.frames = fs /\ archive'.footer = archive.footer
            /\ archive' = [header |-> archive'.header, frames |-> archive'.frames,
                           footer |-> archive'.footer, ait |-> <<>>]
        BY <4>5, <4>7
      <4>9. archive.header.flags = {"solid"} \cup IF opts.encrypt THEN {"encrypted", "aadSeq", "preface"} ELSE {}
        BY <3>1 DEF FramesTrue
      <4>10. opts.encrypt => fs[1] = archive.frames[1]
        <5>1. opts.encrypt => 1 \in 1 .. IndexAt - 1 BY <2>2, <3>3 DEF Enveloped
        <5> QED BY <4>3, <5>1
      <4>11. \A i \in 1 .. blockSeq : fs[Enveloped + i] = archive.frames[Enveloped + i]
        <5> SUFFICES ASSUME NEW i \in 1 .. blockSeq PROVE Enveloped + i \in 1 .. IndexAt - 1
          BY <4>3
        <5> QED BY <2>2, <3>2, <3>3
      <4>12. Len(fs) = IndexAt' - 1 BY <3>3, <3>6, <4>3
      <4>13. CommentAt' = IndexAt BY <3>3, <3>6
      <4>14. fs[IndexAt] = Frame("comment", opts.comment, ring, CommentSeq) BY <4>3 DEF f
      <4>15. FramesTrue'
        <5>1. /\ archive' = [header |-> archive'.header, frames |-> archive'.frames,
                             footer |-> archive'.footer, ait |-> <<>>]
              /\ archive'.header =
                   [magic |-> TRUE, encAt |-> Enveloped', commentAt |-> CommentAt',
                    flags |-> {"solid"} \cup IF opts'.encrypt THEN {"encrypted", "aadSeq", "preface"} ELSE {}]
          BY <2>1, <3>2, <4>8, <4>9, <4>13
        <5>2. archive'.footer = Nothing.footer BY <3>1, <3>2, <4>8 DEF FramesTrue
        <5>3. archive'.frames = [i \in 1 .. Len(archive'.frames) |-> archive'.frames[i]] BY <4>3, <4>8
        <5>4. Len(archive'.frames) = IndexAt' - 1 BY <4>8, <4>12
        <5>5. opts'.encrypt => archive'.frames[1] =
                Frame("enc", <<EnvelopeOf(ring'.key)>>, [key |-> NoKey, preface |-> FALSE], 0)
          BY <2>1, <3>1, <4>8, <4>10 DEF FramesTrue
        <5>6. \A i \in 1 .. blockSeq' :
                archive'.frames[Enveloped' + i] = Frame("data", Chunk(i)', ring', SolidSeq(i - 1))
          BY <2>1, <3>1, <3>2, <3>4, <4>8, <4>11 DEF FramesTrue
        <5>7. archive'.frames[CommentAt'] = Frame("comment", opts'.comment, ring', CommentSeq)
          BY <2>1, <4>8, <4>13, <4>14
        <5> QED BY <3>2, <5>1, <5>2, <5>3, <5>4, <5>5, <5>6, <5>7 DEF FramesTrue
      <4> QED BY <2>1, <2>2, <2>3, <2>4, <4>15, WritingKeeps
    <3> QED BY <3>5, <3>6
  <2> QED BY <2>5, <2>6
<1> QED BY <1>1, <1>2

\* The index is the last frame, and the footer points to it.
LEMMA WriteIndexKeeps ==
  ASSUME SolidIInv, NEW lost \in BOOLEAN, WriteIndex(lost) PROVE SolidIInv'
<1> DEFINE f == Frame("index", entries, ring, IndexSeq)
           foot == [magic |-> TRUE, indexAt |-> Len(archive.frames) + 1,
                    total |-> blockSeq + (IF opts.comment = <<>> THEN 0 ELSE 1) + 1]
<1>1. /\ pc = "index" /\ pc' = "close" /\ torn' = (torn \/ lost)
      /\ archive' = [Put(f, lost) EXCEPT !.footer = foot]
      /\ UNCHANGED <<inputVars, opts, readVars, blockSeq, ring, storeVars>> /\ UNCHANGED <<buf, entries>>
  BY DEF WriteIndex, readVars
<1>2. WritesTyped /\ blockSeq \in Nat /\ torn \in BOOLEAN /\ (torn \/ FramesTrue) /\ BlocksTrue
  BY <1>1 DEF SolidIInv, SolidTypeOK, WritesTyped
<1>3. Hashed /\ Hashed' BY <1>1 DEF Hashed
<1>4. BlocksTrue' BY <1>1, <1>2, <1>3 DEF BlocksTrue
<1>5. CASE torn' BY <1>1, <1>2, <1>3, <1>4, <1>5, WritingKeeps
<1>6. CASE ~torn'
  <2>1. ~lost /\ ~torn /\ FramesTrue BY <1>1, <1>2, <1>6
  <2>2. /\ (Commented' <=> Commented) /\ (Commented <=> opts.comment # <<>>) /\ ~Indexed /\ Indexed'
        /\ Enveloped' = Enveloped /\ Enveloped \in {0, 1}
    BY <1>1 DEF Commented, Indexed, Enveloped
  <2>3. CommentAt' = CommentAt /\ IndexAt' = IndexAt BY <1>1, <2>2 DEF CommentAt, IndexAt
  <2>4. \A i : Chunk(i)' = Chunk(i) BY <1>1 DEF Chunk
  <2> HIDE DEF f
  <2>5. PICK fs : fs = Append(archive.frames, f) OBVIOUS
  <2>6. /\ Len(archive.frames) = IndexAt - 1 /\ IndexAt \in Nat \ {0}
        /\ Len(fs) = IndexAt /\ fs = [i \in 1 .. Len(fs) |-> fs[i]] /\ fs[IndexAt] = f
        /\ \A i \in 1 .. IndexAt - 1 : fs[i] = archive.frames[i]
    BY <1>2, <2>1, <2>2, <2>5, FrameAdded
  <2>7. foot = [magic |-> TRUE, indexAt |-> IndexAt, total |-> blockSeq + (IF Commented THEN 1 ELSE 0) + 1]
    <3>1. Len(archive.frames) + 1 = IndexAt BY <2>6
    <3>2. (IF opts.comment = <<>> THEN 0 ELSE 1) = (IF Commented THEN 1 ELSE 0) BY <2>2
    <3> QED BY <3>1, <3>2, Zenon
  <2> HIDE DEF foot
  <2>8. archive' = [header |-> archive.header, frames |-> fs, footer |-> foot, ait |-> <<>>]
    <3>1. archive = [header |-> archive.header, frames |-> archive.frames,
                     footer |-> archive.footer, ait |-> <<>>]
      BY <2>1 DEF FramesTrue
    <3>2. Put(f, lost) = [archive EXCEPT !.frames = fs] BY <2>1, <2>5 DEF Put
    <3>3. [archive EXCEPT !.frames = fs] =
            [header |-> archive.header, frames |-> fs, footer |-> archive.footer, ait |-> <<>>]
      BY <3>1, FramesChanged
    <3>4. PICK a : a = Put(f, lost) OBVIOUS
    <3>5. a = [header |-> archive.header, frames |-> fs, footer |-> archive.footer, ait |-> <<>>]
      BY <3>2, <3>3, <3>4, Zenon
    <3>6. archive' = [a EXCEPT !.footer = foot] BY <1>1, <3>4
    <3> QED BY <3>5, <3>6
  <2>9. /\ archive'.header = archive.header /\ archive'.frames = fs /\ archive'.footer = foot
        /\ archive' = [header |-> archive'.header, frames |-> archive'.frames,
                       footer |-> archive'.footer, ait |-> <<>>]
    BY <2>8
  <2>10. opts.encrypt => fs[1] = archive.frames[1]
    <3>1. opts.encrypt => 1 \in 1 .. IndexAt - 1 BY <1>2 DEF Enveloped, IndexAt
    <3> QED BY <2>6, <3>1
  <2>11. \A i \in 1 .. blockSeq : fs[Enveloped + i] = archive.frames[Enveloped + i]
    <3> SUFFICES ASSUME NEW i \in 1 .. blockSeq PROVE Enveloped + i \in 1 .. IndexAt - 1
      BY <2>6
    <3> QED BY <1>2, <2>2 DEF IndexAt
  <2>12. Commented => fs[CommentAt] = archive.frames[CommentAt]
    <3>1. Commented => CommentAt \in 1 .. IndexAt - 1 BY <1>2, <2>2 DEF CommentAt, IndexAt
    <3> QED BY <2>6, <3>1
  <2>13. fs[IndexAt] = Frame("index", entries, ring, IndexSeq) BY <2>6 DEF f
  <2>14. FramesTrue'
    <3>1. archive'.header =
            [magic |-> TRUE, encAt |-> Enveloped', commentAt |-> CommentAt',
             flags |-> {"solid"} \cup IF opts'.encrypt THEN {"encrypted", "aadSeq", "preface"} ELSE {}]
      BY <1>1, <2>1, <2>2, <2>3, <2>9 DEF FramesTrue
    <3>2. archive'.footer = [magic |-> TRUE, indexAt |-> IndexAt',
                             total |-> blockSeq' + (IF Commented' THEN 1 ELSE 0) + 1]
      BY <1>1, <2>2, <2>3, <2>7, <2>9
    <3>3. archive'.frames = [i \in 1 .. Len(archive'.frames) |-> archive'.frames[i]] BY <2>6, <2>9
    <3>4. Len(archive'.frames) = IndexAt' - 0 BY <2>3, <2>6, <2>9
    <3>5. opts'.encrypt => archive'.frames[1] =
            Frame("enc", <<EnvelopeOf(ring'.key)>>, [key |-> NoKey, preface |-> FALSE], 0)
      BY <1>1, <2>1, <2>9, <2>10 DEF FramesTrue
    <3>6. \A i \in 1 .. blockSeq' :
            archive'.frames[Enveloped' + i] = Frame("data", Chunk(i)', ring', SolidSeq(i - 1))
      BY <1>1, <2>1, <2>2, <2>4, <2>9, <2>11 DEF FramesTrue
    <3>7. Commented' => archive'.frames[CommentAt'] = Frame("comment", opts'.comment, ring', CommentSeq)
      BY <1>1, <2>1, <2>2, <2>3, <2>9, <2>12 DEF FramesTrue
    <3>8. archive'.frames[IndexAt'] = Frame("index", entries', ring', IndexSeq)
      BY <1>1, <2>3, <2>9, <2>13
    <3> QED BY <2>2, <2>9, <3>1, <3>2, <3>3, <3>4, <3>5, <3>6, <3>7, <3>8 DEF FramesTrue
  <2> QED BY <1>1, <1>2, <1>3, <1>4, <2>14, WritingKeeps
<1> QED BY <1>5, <1>6

-----------------------------------------------------------------------------
(* The invariant once the archive is there.                                *)

\* The frames of a whole archive are what their types say.
LEMMA WholeFrames ==
  ASSUME FramesTrue, Indexed, blockSeq \in Nat, NEW j \in 1 .. IndexAt
  PROVE  /\ FrameTrue(archive.frames[j], TRUE)
         /\ {"type", "body", "seal"} \subseteq DOMAIN archive.frames[j]
<1>1. Enveloped \in {0, 1} /\ (Enveloped = 1 <=> opts.encrypt) BY DEF Enveloped
<1>2. IndexAt = IF Commented THEN CommentAt + 1 ELSE Enveloped + blockSeq + 1
  BY <1>1 DEF IndexAt, CommentAt
<1>3. Commented => CommentAt = Enveloped + blockSeq + 1 BY DEF CommentAt
<1>4. \/ opts.encrypt /\ j = 1
      \/ \E i \in 1 .. blockSeq : j = Enveloped + i
      \/ Commented /\ j = CommentAt
      \/ j = IndexAt
  <2>1. CASE j <= Enveloped BY <1>1, <2>1
  <2>2. CASE Enveloped < j /\ j <= Enveloped + blockSeq
    <3>1. j - Enveloped \in 1 .. blockSeq /\ j = Enveloped + (j - Enveloped) BY <1>1, <2>2
    <3> QED BY <3>1
  <2>3. CASE j > Enveloped + blockSeq BY <1>1, <1>2, <1>3, <2>3
  <2> QED BY <1>1, <2>1, <2>2, <2>3
<1>5. CASE opts.encrypt /\ j = 1
  <2>1. archive.frames[j] = Frame("enc", <<EnvelopeOf(ring.key)>>, [key |-> NoKey, preface |-> FALSE], 0)
    BY <1>5 DEF FramesTrue
  <2>2. /\ archive.frames[j].type = "enc" /\ archive.frames[j].body = <<EnvelopeOf(ring.key)>>
        /\ archive.frames[j].seal = <<>> /\ {"type", "body", "seal"} \subseteq DOMAIN archive.frames[j]
    BY <2>1, FrameIs
  <2> QED BY <2>2 DEF FrameTrue
<1>6. ASSUME NEW i \in 1 .. blockSeq, j = Enveloped + i
      PROVE  /\ FrameTrue(archive.frames[j], TRUE)
             /\ {"type", "body", "seal"} \subseteq DOMAIN archive.frames[j]
  <2>1. archive.frames[j] = Frame("data", Chunk(i), ring, SolidSeq(i - 1)) BY <1>6 DEF FramesTrue
  <2>2. /\ archive.frames[j].type = "data"
        /\ archive.frames[j].seal # <<>> => archive.frames[j].seal[1].key = ring.key
        /\ {"type", "body", "seal"} \subseteq DOMAIN archive.frames[j]
    BY <2>1, FrameIs
  <2> QED BY <2>2 DEF FrameTrue
<1>7. CASE Commented /\ j = CommentAt
  <2>1. archive.frames[j] = Frame("comment", opts.comment, ring, CommentSeq) BY <1>7 DEF FramesTrue
  <2>2. /\ archive.frames[j].type = "comment" /\ archive.frames[j].body = opts.comment
        /\ archive.frames[j].seal # <<>> => archive.frames[j].seal[1].key = ring.key
        /\ {"type", "body", "seal"} \subseteq DOMAIN archive.frames[j]
    BY <2>1, FrameIs
  <2> QED BY <2>2 DEF FrameTrue
<1>8. CASE j = IndexAt
  <2>1. archive.frames[j] = Frame("index", entries, ring, IndexSeq) BY <1>8 DEF FramesTrue
  <2>2. /\ archive.frames[j].type = "index" /\ archive.frames[j].body = entries
        /\ archive.frames[j].seal # <<>> => archive.frames[j].seal[1].key = ring.key
        /\ {"type", "body", "seal"} \subseteq DOMAIN archive.frames[j]
    BY <2>1, FrameIs
  <2> QED BY <2>2 DEF FrameTrue
<1> QED BY <1>4, <1>5, <1>6, <1>7, <1>8

\* An archive that gets its trailer keeps the rest.
LEMMA TrailerAdded ==
  ASSUME NEW a, NEW head, NEW fs, NEW foot, NEW was, NEW ait,
         a = [header |-> head, frames |-> fs, footer |-> foot, ait |-> was]
  PROVE  [a EXCEPT !.ait = ait] = [header |-> head, frames |-> fs, footer |-> foot, ait |-> ait]
OBVIOUS

\* What is published is the archive with its trailer, unless a write was lost.
LEMMA PublishKeeps ==
  ASSUME SolidIInv, Publish PROVE SolidIInv'
<1>1. CASE Fail BY <1>1, FailKeeps
<1>2. CASE ~Fail
  <2> DEFINE trailer == Trailer(archive.header, archive.footer, ring.key)
  <2>1. /\ pc = "close" /\ pc' = "published" /\ ~torn
        /\ stored' = <<[archive EXCEPT !.ait = trailer]>>
        /\ UNCHANGED <<inputVars, opts, readVars, writeVars, damaged>>
        /\ UNCHANGED <<blockSeq, ring, archive, torn, buf, entries>>
    BY <1>2 DEF Publish, writeVars, readVars
  <2>2. Hashed /\ Hashed' /\ Indexed /\ Indexed' BY <2>1 DEF Hashed, Indexed
  <2>3. WritesTyped /\ RingTrue /\ BlocksTrue /\ FramesTrue /\ blockSeq \in Nat
    BY <2>1 DEF SolidIInv, SolidTypeOK, WritesTyped
  <2>4. (OptionsTyped /\ InputsTyped /\ ReadsTyped /\ EntriesTrue /\ InputsNoted /\ ReadSoFar /\ StreamTrue)'
    BY <2>1, <2>2, ReadingAside
  <2>5. WritesTyped' BY <2>1, <2>3 DEF WritesTyped
  <2>6. BlocksTrue' BY <2>1, <2>2, <2>3 DEF BlocksTrue
  <2>7. RingTrue' BY <2>1, <2>3 DEF RingTrue
  <2>8. FramesTrue'
    <3>1. \A i : Chunk(i)' = Chunk(i) BY <2>1 DEF Chunk
    <3>2. CommentAt' = CommentAt /\ IndexAt' = IndexAt /\ Enveloped' = Enveloped /\ (Commented' <=> Commented)
      BY <2>1 DEF Commented, CommentAt, IndexAt, Enveloped
    <3> QED BY <2>1, <2>2, <2>3, <3>1, <3>2 DEF FramesTrue
  <2>9. StoredTrue'
    <3> HIDE DEF trailer
    <3>1. PICK g : g = [archive EXCEPT !.ait = trailer] OBVIOUS
    <3>2. archive = [header |-> archive.header, frames |-> archive.frames,
                     footer |-> archive.footer, ait |-> <<>>]
      BY <2>3 DEF FramesTrue
    <3>3. g = [header |-> archive.header, frames |-> archive.frames, footer |-> archive.footer, ait |-> trailer]
      BY <3>1, <3>2, TrailerAdded
    <3>4. g.header = archive.header /\ g.frames = archive.frames /\ g.footer = archive.footer BY <3>3
    <3>5. stored' = <<g>> BY <2>1, <3>1
    <3>6. stored'[1] = g BY <3>5
    <3>7. /\ archive.header.encAt = Enveloped
          /\ archive.header.flags = {"solid"} \cup IF opts.encrypt THEN {"encrypted", "aadSeq", "preface"} ELSE {}
      BY <2>3 DEF FramesTrue
    <3>8. Enveloped' = Enveloped BY <2>1 DEF Enveloped
    <3>9. DOMAIN archive.frames = 1 .. IndexAt
      <4>1. IndexAt \in Nat BY <2>3 DEF IndexAt, Enveloped
      <4>2. Len(archive.frames) = IndexAt - 0 BY <2>2, <2>3 DEF FramesTrue
      <4>3. DOMAIN archive.frames = 1 .. Len(archive.frames) BY <2>3 DEF FramesTrue
      <4> QED BY <4>1, <4>2, <4>3
    <3>10. \A j \in DOMAIN g.frames : FrameTrue(g.frames[j], j = g.footer.indexAt)
      <4> SUFFICES ASSUME NEW j \in DOMAIN archive.frames, NEW b
                   PROVE  FrameTrue(archive.frames[j], b)
        BY <3>4
      <4>1. FrameTrue(archive.frames[j], TRUE) BY <2>2, <2>3, <3>9, WholeFrames
      <4> QED BY <4>1 DEF FrameTrue
    <3>11. \A j \in DOMAIN g.frames : FrameTrue(g.frames[j], j = g.footer.indexAt)'
      BY <2>1, <3>10 DEF FrameTrue
    <3>12. trailer = Trailer(archive'.header, archive'.footer, ring'.key) BY <2>1 DEF trailer
    <3>13. stored' = <<[archive' EXCEPT !.ait = Trailer(archive'.header, archive'.footer, ring'.key)]>>
      BY <2>1, <3>12
    <3>14. /\ g.header.encAt = Enveloped' /\ g.header.flags \subseteq archive'.header.flags
           /\ opts'.encrypt => {"encrypted", "preface"} \cap g.header.flags # {}
      BY <2>1, <3>4, <3>7, <3>8
    <3>15. DOMAIN g.frames = 1 .. Len(g.frames) BY <2>3, <3>4 DEF FramesTrue
    <3> QED BY <3>6, <3>11, <3>13, <3>14, <3>15 DEF StoredTrue
  <2> QED BY <2>1, <2>4, <2>5, <2>6, <2>7, <2>8, <2>9 DEF SolidIInv, SolidTypeOK
<1> QED BY <1>1, <1>2

\* A damaged archive that the accident left what StoredTrue says.
LEMMA FoundKeeps ==
  ASSUME SolidIInv, NEW head, NEW fs, NEW foot, NEW ait, NEW g,
         g = [header |-> head, frames |-> fs, footer |-> foot, ait |-> ait], FoundAs(g),
         head.encAt = Enveloped, head.flags \subseteq archive.header.flags,
         opts.encrypt => {"encrypted", "preface"} \cap head.flags # {},
         DOMAIN fs = 1 .. Len(fs), \A j \in DOMAIN fs : FrameTrue(fs[j], j = foot.indexAt)
  PROVE  SolidIInv'
<1>1. /\ pc = "published" /\ pc' = pc /\ damaged' = TRUE
      /\ stored' \in {<<g>>, <<[g EXCEPT !.ait = <<>>]>>}
      /\ UNCHANGED <<inputVars, opts, readVars, writeVars>>
      /\ UNCHANGED <<blockSeq, ring, archive, torn, buf, entries>>
  BY DEF FoundAs, writeVars, readVars
<1>2. Hashed /\ Hashed' BY <1>1 DEF Hashed
<1>3. WritesTyped /\ RingTrue /\ BlocksTrue /\ FramesTrue /\ ~torn BY <1>1 DEF SolidIInv, SolidTypeOK
<1>4. (OptionsTyped /\ InputsTyped /\ ReadsTyped /\ EntriesTrue /\ InputsNoted /\ ReadSoFar /\ StreamTrue)'
  BY <1>1, <1>2, ReadingAside
<1>5. WritesTyped' BY <1>1, <1>3 DEF WritesTyped
<1>6. BlocksTrue' BY <1>1, <1>3 DEF BlocksTrue, Hashed
<1>7. RingTrue' BY <1>1, <1>3 DEF RingTrue
<1>8. FramesTrue'
  <2>1. \A i : Chunk(i)' = Chunk(i) BY <1>1 DEF Chunk
  <2>2. /\ CommentAt' = CommentAt /\ IndexAt' = IndexAt /\ Enveloped' = Enveloped
        /\ (Commented' <=> Commented) /\ (Indexed' <=> Indexed)
    BY <1>1 DEF Commented, CommentAt, IndexAt, Enveloped, Indexed
  <2> QED BY <1>1, <1>3, <2>1, <2>2 DEF FramesTrue
<1>9. StoredTrue'
  <2>1. PICK h : stored' = <<h>> /\ h \in {g, [g EXCEPT !.ait = <<>>]} BY <1>1
  <2>2. [g EXCEPT !.ait = <<>>] = [header |-> head, frames |-> fs, footer |-> foot, ait |-> <<>>]
    BY TrailerAdded
  <2>3. h.header = head /\ h.frames = fs /\ h.footer = foot
    <3>1. CASE h = g BY <3>1
    <3>2. CASE h = [g EXCEPT !.ait = <<>>]
      <4>1. h = [header |-> head, frames |-> fs, footer |-> foot, ait |-> <<>>] BY <2>2, <3>2
      <4> QED BY <4>1
    <3> QED BY <2>1, <3>1, <3>2
  <2>4. stored'[1] = h BY <2>1
  <2>5. \A j \in DOMAIN fs : FrameTrue(fs[j], j = foot.indexAt)' BY <1>1 DEF FrameTrue
  <2>6. Enveloped' = Enveloped BY <1>1 DEF Enveloped
  <2> QED BY <1>1, <2>3, <2>4, <2>5, <2>6 DEF StoredTrue
<1> QED BY <1>1, <1>3, <1>4, <1>5, <1>6, <1>7, <1>8, <1>9 DEF SolidIInv, SolidTypeOK

\* The archive before the accident.
LEMMA Untouched ==
  ASSUME SolidIInv, pc = "published", ~damaged
  PROVE  /\ stored[1] = [header |-> archive.header, frames |-> archive.frames, footer |-> archive.footer,
                         ait |-> Trailer(archive.header, archive.footer, ring.key)]
         /\ archive.header = [magic |-> TRUE, encAt |-> Enveloped, commentAt |-> CommentAt,
                              flags |-> archive.header.flags]
         /\ archive.header.flags =
              {"solid"} \cup IF opts.encrypt THEN {"encrypted", "aadSeq", "preface"} ELSE {}
         /\ archive.footer = [magic |-> TRUE, indexAt |-> IndexAt,
                              total |-> blockSeq + (IF Commented THEN 1 ELSE 0) + 1]
         /\ Len(archive.frames) = IndexAt /\ IndexAt \in Nat /\ DOMAIN archive.frames = 1 .. IndexAt
         /\ archive.frames = [i \in 1 .. IndexAt |-> archive.frames[i]]
         /\ \A j \in DOMAIN archive.frames : \A b : FrameTrue(archive.frames[j], b)
         /\ \A j \in DOMAIN archive.frames : {"type", "body", "seal"} \subseteq DOMAIN archive.frames[j]
         /\ archive.frames[IndexAt] = Frame("index", entries, ring, IndexSeq)
<1>1. FramesTrue /\ StoredTrue /\ Indexed /\ blockSeq \in Nat
  BY DEF SolidIInv, SolidTypeOK, WritesTyped, Indexed
<1>2. archive = [header |-> archive.header, frames |-> archive.frames, footer |-> archive.footer, ait |-> <<>>]
  BY <1>1 DEF FramesTrue
<1>3. stored[1] = [archive EXCEPT !.ait = Trailer(archive.header, archive.footer, ring.key)]
  <2>1. stored = <<[archive EXCEPT !.ait = Trailer(archive.header, archive.footer, ring.key)]>>
    BY <1>1 DEF StoredTrue
  <2> QED BY <2>1
<1>4. stored[1] = [header |-> archive.header, frames |-> archive.frames, footer |-> archive.footer,
                   ait |-> Trailer(archive.header, archive.footer, ring.key)]
  <2>1. PICK t : t = Trailer(archive.header, archive.footer, ring.key) OBVIOUS
  <2>2. [archive EXCEPT !.ait = t] =
          [header |-> archive.header, frames |-> archive.frames, footer |-> archive.footer, ait |-> t]
    BY <1>2, TrailerAdded
  <2> QED BY <1>3, <2>1, <2>2, Zenon
<1>5. /\ archive.header = [magic |-> TRUE, encAt |-> Enveloped, commentAt |-> CommentAt,
                           flags |-> archive.header.flags]
      /\ archive.header.flags =
           {"solid"} \cup IF opts.encrypt THEN {"encrypted", "aadSeq", "preface"} ELSE {}
      /\ archive.footer = [magic |-> TRUE, indexAt |-> IndexAt,
                           total |-> blockSeq + (IF Commented THEN 1 ELSE 0) + 1]
  BY <1>1 DEF FramesTrue
<1>6. IndexAt \in Nat BY <1>1 DEF IndexAt, Enveloped
<1>7. Len(archive.frames) = IndexAt
  <2>1. Len(archive.frames) = IndexAt - 0 BY <1>1 DEF FramesTrue
  <2> QED BY <1>6, <2>1
<1>8. archive.frames = [i \in 1 .. IndexAt |-> archive.frames[i]] BY <1>1, <1>7 DEF FramesTrue
<1>9. DOMAIN archive.frames = 1 .. IndexAt BY <1>8
<1>10. \A j \in DOMAIN archive.frames : \A b : FrameTrue(archive.frames[j], b)
  <2> SUFFICES ASSUME NEW j \in DOMAIN archive.frames, NEW b PROVE FrameTrue(archive.frames[j], b)
    OBVIOUS
  <2>1. FrameTrue(archive.frames[j], TRUE) BY <1>1, <1>9, WholeFrames
  <2> QED BY <2>1 DEF FrameTrue
<1>11. \A j \in DOMAIN archive.frames : {"type", "body", "seal"} \subseteq DOMAIN archive.frames[j]
  BY <1>1, <1>9, WholeFrames
<1>12. archive.frames[IndexAt] = Frame("index", entries, ring, IndexSeq) BY <1>1 DEF FramesTrue
<1> QED BY <1>4, <1>5, <1>6, <1>7, <1>8, <1>9, <1>10, <1>11, <1>12

\* One field of a header or a footer changed, or the frames.
LEMMA HeaderHit ==
  ASSUME NEW a, NEW m, NEW e, NEW c, NEW fl, NEW fs, NEW foot, NEW ait, NEW v,
         a = [header |-> [magic |-> m, encAt |-> e, commentAt |-> c, flags |-> fl],
              frames |-> fs, footer |-> foot, ait |-> ait]
  PROVE  /\ [a EXCEPT !.header.flags = v] =
              [header |-> [magic |-> m, encAt |-> e, commentAt |-> c, flags |-> v],
               frames |-> fs, footer |-> foot, ait |-> ait]
         /\ [a EXCEPT !.header.commentAt = v] =
              [header |-> [magic |-> m, encAt |-> e, commentAt |-> v, flags |-> fl],
               frames |-> fs, footer |-> foot, ait |-> ait]
         /\ [a EXCEPT !.header.magic = v] =
              [header |-> [magic |-> v, encAt |-> e, commentAt |-> c, flags |-> fl],
               frames |-> fs, footer |-> foot, ait |-> ait]
OBVIOUS

\* Likewise for the footer.
LEMMA FooterHit ==
  ASSUME NEW a, NEW head, NEW fs, NEW m, NEW i, NEW t, NEW ait, NEW v,
         a = [header |-> head, frames |-> fs, footer |-> [magic |-> m, indexAt |-> i, total |-> t], ait |-> ait]
  PROVE  /\ [a EXCEPT !.footer.indexAt = v] =
              [header |-> head, frames |-> fs, footer |-> [magic |-> m, indexAt |-> v, total |-> t], ait |-> ait]
         /\ [a EXCEPT !.footer.total = @ + 1] =
              [header |-> head, frames |-> fs, footer |-> [magic |-> m, indexAt |-> i, total |-> t + 1], ait |-> ait]
OBVIOUS

\* A field of header or footer is hit.
LEMMA DamageFieldsKeeps ==
  ASSUME SolidIInv, DamageFields PROVE SolidIInv'
<1>1. pc = "published" /\ ~damaged BY DEF DamageFields
<1>2. PICK a : a = stored[1] OBVIOUS
<1>3. PICK m, e, c, fl, fs, i, t, ait, no :
        /\ m = TRUE /\ e = Enveloped /\ c = CommentAt /\ fl = archive.header.flags /\ fs = archive.frames
        /\ i = IndexAt /\ t = blockSeq + (IF Commented THEN 1 ELSE 0) + 1
        /\ ait = Trailer(archive.header, archive.footer, ring.key) /\ no = FALSE
  OBVIOUS
<1>4. PICK head : head = [magic |-> m, encAt |-> e, commentAt |-> c, flags |-> fl] OBVIOUS
<1>5. PICK foot : foot = [magic |-> m, indexAt |-> i, total |-> t] OBVIOUS
<1>6. archive.header = head /\ archive.footer = foot
  BY <1>1, <1>3, <1>4, <1>5, Untouched, Zenon
<1>7. a = [header |-> head, frames |-> fs, footer |-> foot, ait |-> ait]
  BY <1>1, <1>2, <1>3, <1>6, Untouched, Zenon
<1>8. /\ fl = {"solid"} \cup IF opts.encrypt THEN {"encrypted", "aadSeq", "preface"} ELSE {}
      /\ DOMAIN fs = 1 .. Len(fs)
      /\ \A j \in DOMAIN fs : \A b : FrameTrue(fs[j], b)
  BY <1>1, <1>3, Untouched
<1>9. a.header.flags = fl BY <1>4, <1>7
<1>10. \/ \E g \in fl : FoundAs([a EXCEPT !.header.flags = @ \ {g}])
       \/ \E j : FoundAs([a EXCEPT !.header.commentAt = j])
       \/ \E j : FoundAs([a EXCEPT !.footer.indexAt = j])
       \/ FoundAs([a EXCEPT !.footer.total = @ + 1])
       \/ FoundAs([a EXCEPT !.header.magic = FALSE])
  BY <1>2, <1>9, Zenon DEF DamageFields
<1>11. ASSUME NEW h, NEW f, FoundAs([header |-> h, frames |-> fs, footer |-> f, ait |-> ait]),
              h.encAt = Enveloped, h.flags \subseteq fl,
              opts.encrypt => {"encrypted", "preface"} \cap h.flags # {}
       PROVE  SolidIInv'
  BY <1>3, <1>8, <1>11, FoundKeeps
<1>12. ASSUME NEW g \in fl, FoundAs([a EXCEPT !.header.flags = @ \ {g}]) PROVE SolidIInv'
  <2>1. PICK left, h : left = fl \ {g} /\ h = [magic |-> m, encAt |-> e, commentAt |-> c, flags |-> left]
    OBVIOUS
  <2>2. [a EXCEPT !.header.flags = @ \ {g}] = [header |-> h, frames |-> fs, footer |-> foot, ait |-> ait]
    <3>1. [a EXCEPT !.header.flags = left] = [header |-> h, frames |-> fs, footer |-> foot, ait |-> ait]
      BY <1>4, <1>7, <2>1, HeaderHit
    <3> QED BY <1>9, <2>1, <3>1, Zenon
  <2>3. h.encAt = Enveloped /\ h.flags = fl \ {g} BY <1>3, <2>1
  <2>4. opts.encrypt => {"encrypted", "preface"} \cap h.flags # {} BY <1>8, <2>3
  <2>5. FoundAs([header |-> h, frames |-> fs, footer |-> foot, ait |-> ait]) BY <1>12, <2>2, Zenon
  <2> QED BY <1>11, <2>3, <2>4, <2>5
<1>13. opts.encrypt => {"encrypted", "preface"} \cap fl # {} BY <1>8
<1>14. ASSUME NEW j, FoundAs([a EXCEPT !.header.commentAt = j]) PROVE SolidIInv'
  <2>1. PICK h : h = [magic |-> m, encAt |-> e, commentAt |-> j, flags |-> fl] OBVIOUS
  <2>2. [a EXCEPT !.header.commentAt = j] = [header |-> h, frames |-> fs, footer |-> foot, ait |-> ait]
    BY <1>4, <1>7, <2>1, HeaderHit
  <2>3. h.encAt = Enveloped /\ h.flags = fl BY <1>3, <2>1
  <2>4. FoundAs([header |-> h, frames |-> fs, footer |-> foot, ait |-> ait]) BY <1>14, <2>2, Zenon
  <2> QED BY <1>11, <1>13, <2>3, <2>4
<1>15. ASSUME FoundAs([a EXCEPT !.header.magic = FALSE]) PROVE SolidIInv'
  <2>1. PICK h : h = [magic |-> no, encAt |-> e, commentAt |-> c, flags |-> fl] OBVIOUS
  <2>2. [a EXCEPT !.header.magic = no] = [header |-> h, frames |-> fs, footer |-> foot, ait |-> ait]
    BY <1>4, <1>7, <2>1, HeaderHit
  <2>3. h.encAt = Enveloped /\ h.flags = fl BY <1>3, <2>1
  <2>4. FoundAs([header |-> h, frames |-> fs, footer |-> foot, ait |-> ait]) BY <1>3, <1>15, <2>2, Zenon
  <2> QED BY <1>11, <1>13, <2>3, <2>4
<1>16. head.encAt = Enveloped /\ head.flags = fl BY <1>3, <1>4
<1>17. ASSUME NEW j, FoundAs([a EXCEPT !.footer.indexAt = j]) PROVE SolidIInv'
  <2>1. PICK f : f = [magic |-> m, indexAt |-> j, total |-> t] OBVIOUS
  <2>2. [a EXCEPT !.footer.indexAt = j] = [header |-> head, frames |-> fs, footer |-> f, ait |-> ait]
    BY <1>5, <1>7, <2>1, FooterHit
  <2>3. FoundAs([header |-> head, frames |-> fs, footer |-> f, ait |-> ait]) BY <1>17, <2>2, Zenon
  <2> QED BY <1>11, <1>13, <1>16, <2>3
<1>18. ASSUME FoundAs([a EXCEPT !.footer.total = @ + 1]) PROVE SolidIInv'
  <2>1. PICK f : f = [magic |-> m, indexAt |-> i, total |-> t + 1] OBVIOUS
  <2>2. [a EXCEPT !.footer.total = @ + 1] = [header |-> head, frames |-> fs, footer |-> f, ait |-> ait]
    BY <1>5, <1>7, <2>1, FooterHit
  <2>3. FoundAs([header |-> head, frames |-> fs, footer |-> f, ait |-> ait]) BY <1>18, <2>2, Zenon
  <2> QED BY <1>11, <1>13, <1>16, <2>3
<1> QED BY <1>10, <1>12, <1>14, <1>15, <1>17, <1>18

\* A frame that is hit keeps what it holds and what it was sealed with.
LEMMA HitFrames ==
  ASSUME NEW f, {"type", "body", "seal"} \subseteq DOMAIN f, NEW d \in DamagedFrames(f)
  PROVE  /\ d.body = f.body /\ d.seal = f.seal
         /\ d.type \in {f.type, "data", "index"}
<1>1. CASE d \in {[f EXCEPT !.whole = FALSE], [f EXCEPT !.sealed = ~@],
                 [f EXCEPT !.size = @ + 1], [f EXCEPT !.size = 0], [f EXCEPT !.sum = <<>>]}
  BY <1>1
<1>2. CASE d \in {[f EXCEPT !.type = t] : t \in {"data", "index"}} BY <1>2
<1> QED BY <1>1, <1>2 DEF DamagedFrames

\* Frames lost or doubled are the frames that were there.
LEMMA FramesMoved ==
  ASSUME NEW fs, Len(fs) \in Nat, fs = [i \in 1 .. Len(fs) |-> fs[i]], NEW i \in 1 .. Len(fs), NEW gs,
         gs \in {RemoveAt(fs, i), InsertAt(fs, i, fs[i])}
  PROVE  /\ DOMAIN gs = 1 .. Len(gs)
         /\ \A j \in DOMAIN gs : \E k \in DOMAIN fs : gs[j] = fs[k]
<1> DEFINE S == {fs[k] : k \in 1 .. Len(fs)}
<1>1. DOMAIN fs = 1 .. Len(fs) OBVIOUS
<1>2. \A k \in 1 .. Len(fs) : fs[k] \in S OBVIOUS
<1>3. \A e \in S : \E k \in DOMAIN fs : e = fs[k] BY <1>1
<1> HIDE DEF S
<1>4. /\ SubSeq(fs, 1, i - 1) \in Seq(S) /\ SubSeq(fs, i + 1, Len(fs)) \in Seq(S)
      /\ SubSeq(fs, i, Len(fs)) \in Seq(S)
  <2>1. \A m \in 1 .. Len(fs) + 1, n \in 0 .. Len(fs) : SubSeq(fs, m, n) \in Seq(S)
    <3> SUFFICES ASSUME NEW m \in 1 .. Len(fs) + 1, NEW n \in 0 .. Len(fs) PROVE SubSeq(fs, m, n) \in Seq(S)
      OBVIOUS
    <3>1. \A k \in m .. n : fs[k] \in S BY <1>2
    <3> QED BY <3>1, SubSeqProperties
  <2> QED BY <2>1
<1>5. <<fs[i]>> \in Seq(S) BY <1>2
<1>6. RemoveAt(fs, i) \in Seq(S) BY <1>4, ConcatProperties DEF RemoveAt
<1>7. InsertAt(fs, i, fs[i]) \in Seq(S)
  <2>1. SubSeq(fs, 1, i - 1) \o <<fs[i]>> \in Seq(S) BY <1>4, <1>5, ConcatProperties
  <2>2. (SubSeq(fs, 1, i - 1) \o <<fs[i]>>) \o SubSeq(fs, i, Len(fs)) \in Seq(S)
    BY <1>4, <2>1, ConcatProperties
  <2> QED BY <2>2, Zenon DEF InsertAt
<1>8. gs \in Seq(S) BY <1>6, <1>7
<1> QED BY <1>3, <1>8

\* A frame is hit, lost, doubled or out of order.
LEMMA DamageFramesKeeps ==
  ASSUME SolidIInv, DamageFrames PROVE SolidIInv'
<1>1. pc = "published" /\ ~damaged BY DEF DamageFrames
<1>2. PICK a, head, fs, foot, ait :
        /\ a = stored[1] /\ head = archive.header /\ fs = archive.frames /\ foot = archive.footer
        /\ ait = Trailer(archive.header, archive.footer, ring.key)
  OBVIOUS
<1>3. a = [header |-> head, frames |-> fs, footer |-> foot, ait |-> ait]
  BY <1>1, <1>2, Untouched, Zenon
<1>4. a.frames = fs BY <1>3
<1>5. \E i \in DOMAIN fs :
        \/ \E d \in DamagedFrames(fs[i]) : FoundAs([a EXCEPT !.frames = [fs EXCEPT ![i] = d]])
        \/ FoundAs([a EXCEPT !.frames = RemoveAt(fs, i)])
        \/ FoundAs([a EXCEPT !.frames = InsertAt(fs, i, fs[i])])
        \/ \E j \in DOMAIN fs : FoundAs([a EXCEPT !.frames = [fs EXCEPT ![i] = fs[j], ![j] = fs[i]]])
  BY <1>2, <1>4, Zenon DEF DamageFrames
<1>6. PICK i \in DOMAIN fs :
        \/ \E d \in DamagedFrames(fs[i]) : FoundAs([a EXCEPT !.frames = [fs EXCEPT ![i] = d]])
        \/ FoundAs([a EXCEPT !.frames = RemoveAt(fs, i)])
        \/ FoundAs([a EXCEPT !.frames = InsertAt(fs, i, fs[i])])
        \/ \E j \in DOMAIN fs : FoundAs([a EXCEPT !.frames = [fs EXCEPT ![i] = fs[j], ![j] = fs[i]]])
  BY <1>5
<1>7. /\ \A j \in DOMAIN fs : \A b : FrameTrue(fs[j], b)
      /\ \A j \in DOMAIN fs : {"type", "body", "seal"} \subseteq DOMAIN fs[j]
      /\ Len(fs) \in Nat /\ fs = [j \in 1 .. Len(fs) |-> fs[j]] /\ DOMAIN fs = 1 .. Len(fs)
      /\ foot.indexAt = IndexAt
  <2>1. foot = [magic |-> TRUE, indexAt |-> IndexAt, total |-> blockSeq + (IF Commented THEN 1 ELSE 0) + 1]
    BY <1>1, <1>2, Untouched
  <2> QED BY <1>1, <1>2, <2>1, Untouched
<1>8. head.encAt = Enveloped /\ head.flags = archive.header.flags
      /\ (opts.encrypt => {"encrypted", "preface"} \cap head.flags # {})
  <2>1. head = [magic |-> TRUE, encAt |-> Enveloped, commentAt |-> CommentAt, flags |-> archive.header.flags]
    BY <1>1, <1>2, Untouched
  <2>2. archive.header.flags =
          {"solid"} \cup IF opts.encrypt THEN {"encrypted", "aadSeq", "preface"} ELSE {}
    BY <1>1, Untouched
  <2> QED BY <2>1, <2>2
<1>9. ASSUME NEW gs, FoundAs([header |-> head, frames |-> gs, footer |-> foot, ait |-> ait]),
             DOMAIN gs = 1 .. Len(gs), \A j \in DOMAIN gs : FrameTrue(gs[j], j = foot.indexAt)
      PROVE  SolidIInv'
  BY <1>8, <1>9, FoundKeeps
<1>10. ASSUME NEW d \in DamagedFrames(fs[i]), FoundAs([a EXCEPT !.frames = [fs EXCEPT ![i] = d]]) PROVE SolidIInv'
  <2>1. PICK gs : gs = [fs EXCEPT ![i] = d] OBVIOUS
  <2>2. [a EXCEPT !.frames = [fs EXCEPT ![i] = d]] = [header |-> head, frames |-> gs, footer |-> foot, ait |-> ait]
    BY <1>3, <2>1, FramesChanged
  <2>3. FoundAs([header |-> head, frames |-> gs, footer |-> foot, ait |-> ait]) BY <1>10, <2>2, Zenon
  <2>4. d.body = fs[i].body /\ d.seal = fs[i].seal /\ d.type \in {fs[i].type, "data", "index"}
    BY <1>7, HitFrames
  <2>5. i = foot.indexAt => fs[i].body = entries
    <3>1. i = foot.indexAt => fs[i] = Frame("index", entries, ring, IndexSeq) BY <1>1, <1>2, <1>7, Untouched
    <3> QED BY <3>1, FrameIs
  <2>6. FrameTrue(fs[i], i = foot.indexAt) BY <1>7
  <2>7. FrameTrue(d, i = foot.indexAt) BY <2>4, <2>5, <2>6 DEF FrameTrue
  <2>8. \A j \in DOMAIN gs : FrameTrue(gs[j], j = foot.indexAt)
    <3> SUFFICES ASSUME NEW j \in DOMAIN gs PROVE FrameTrue(gs[j], j = foot.indexAt) OBVIOUS
    <3>1. j \in DOMAIN fs /\ gs[j] = IF j = i THEN d ELSE fs[j] BY <2>1
    <3>2. CASE j = i BY <2>7, <3>1, <3>2
    <3>3. CASE j # i BY <1>7, <3>1, <3>3
    <3> QED BY <3>2, <3>3
  <2>9. DOMAIN gs = 1 .. Len(gs) BY <1>7, <2>1
  <2> QED BY <1>9, <2>3, <2>8, <2>9
<1>11. ASSUME NEW gs, \A j \in DOMAIN gs : \E k \in DOMAIN fs : gs[j] = fs[k]
       PROVE  \A j \in DOMAIN gs : FrameTrue(gs[j], j = foot.indexAt)
  BY <1>7, <1>11
<1>12. ASSUME NEW gs, gs \in {RemoveAt(fs, i), InsertAt(fs, i, fs[i])}, FoundAs([a EXCEPT !.frames = gs])
       PROVE  SolidIInv'
  <2>1. FoundAs([header |-> head, frames |-> gs, footer |-> foot, ait |-> ait])
    <3>1. [a EXCEPT !.frames = gs] = [header |-> head, frames |-> gs, footer |-> foot, ait |-> ait]
      BY <1>3, FramesChanged
    <3> QED BY <1>12, <3>1, Zenon
  <2>2. DOMAIN gs = 1 .. Len(gs) /\ \A j \in DOMAIN gs : \E k \in DOMAIN fs : gs[j] = fs[k]
    <3>1. i \in 1 .. Len(fs) /\ Len(fs) \in Nat BY <1>7
    <3>2. fs = [j \in 1 .. Len(fs) |-> fs[j]] BY <1>7
    <3>3. gs \in {RemoveAt(fs, i), InsertAt(fs, i, fs[i])} BY <1>12
    <3> QED BY <3>1, <3>2, <3>3, FramesMoved
  <2> QED BY <1>9, <1>11, <2>1, <2>2
<1>13. ASSUME NEW j \in DOMAIN fs, FoundAs([a EXCEPT !.frames = [fs EXCEPT ![i] = fs[j], ![j] = fs[i]]])
       PROVE  SolidIInv'
  <2>1. PICK gs : gs = [fs EXCEPT ![i] = fs[j], ![j] = fs[i]] OBVIOUS
  <2>2. [a EXCEPT !.frames = [fs EXCEPT ![i] = fs[j], ![j] = fs[i]]] =
          [header |-> head, frames |-> gs, footer |-> foot, ait |-> ait]
    BY <1>3, <2>1, FramesChanged
  <2>3. FoundAs([header |-> head, frames |-> gs, footer |-> foot, ait |-> ait]) BY <1>13, <2>2, Zenon
  <2>4. \A k \in DOMAIN gs : \E l \in DOMAIN fs : gs[k] = fs[l] BY <2>1
  <2>5. DOMAIN gs = 1 .. Len(gs) BY <1>7, <2>1
  <2> QED BY <1>9, <1>11, <2>3, <2>4, <2>5
<1> QED BY <1>6, <1>10, <1>12, <1>13

-----------------------------------------------------------------------------
(* Every step keeps the invariant.                                         *)

LEMMA SolidStep == SolidIInv /\ [SolidNext]_solidVars => SolidIInv'
<1> SUFFICES ASSUME SolidIInv, [SolidNext]_solidVars PROVE SolidIInv' OBVIOUS
<1>1. ASSUME NEW f \in Inputs, NEW c \in NewContents, Edit(f, c) \/ Replace(f, c) PROVE SolidIInv'
  BY <1>1, EditKeeps, ReplaceKeeps
<1>2. ASSUME NEW f \in Inputs, Unlink(f) PROVE SolidIInv' BY <1>2, UnlinkKeeps
<1>3. CASE Start("salt") BY <1>3, StartKeeps
<1>4. CASE StatInput BY <1>4, StatInputKeeps
<1>5. CASE Reopen BY <1>5, ReopenKeeps
<1>6. CASE ReadUnit BY <1>6, ReadUnitKeeps
<1>7. CASE ReadEnd BY <1>7, ReadEndKeeps
<1>8. CASE Recheck BY <1>8, RecheckKeeps
<1>9. CASE HashFiles BY <1>9, HashFilesKeeps
<1>10. ASSUME NEW lost \in BOOLEAN, EncodeBlock(lost) \/ WriteComment(lost) \/ WriteIndex(lost)
       PROVE  SolidIInv'
  BY <1>10, EncodeBlockKeeps, WriteCommentKeeps, WriteIndexKeeps
<1>11. CASE Publish BY <1>11, PublishKeeps
<1>12. CASE DamageFrames BY <1>12, DamageFramesKeeps
<1>13. CASE DamageFields BY <1>13, DamageFieldsKeeps
<1>14. CASE UNCHANGED solidVars
  <2>1. CASE pc = "failed" BY <1>14, <2>1 DEF solidVars, SolidIInv
  <2>2. CASE pc # "failed"
    <3>1. UNCHANGED <<opts, pc, readVars, writeVars, storeVars>> /\ UNCHANGED inputVars
      BY <1>14 DEF solidVars
    <3>2. InputsTyped' /\ InputsNoted' /\ ReadSoFar' /\ handle' \in 0 .. Len(nodes')
      BY <2>2, <3>1
      DEF SolidIInv, SolidTypeOK, InputsTyped, InputsNoted, ReadSoFar, ReadsTyped, Surveyed, inputVars, readVars
    <3> QED BY <2>2, <3>1, <3>2, InputsAside
  <2> QED BY <2>1, <2>2
<1> QED BY <1>1, <1>2, <1>3, <1>4, <1>5, <1>6, <1>7, <1>8, <1>9, <1>10, <1>11, <1>12, <1>13, <1>14
        DEF SolidNext

\* What is in the stream, in the frames and in storage is what the inputs were
\* when the first pass ended (zupt_format.c:2910-3352).
THEOREM SolidInvariance == SolidSpec => []SolidIInv
<1>1. SolidInit => SolidIInv BY SolidInitHolds
<1>2. SolidIInv /\ [SolidNext]_solidVars => SolidIInv' BY SolidStep
<1> QED BY <1>1, <1>2, PTL DEF SolidSpec

-----------------------------------------------------------------------------
(* What readers make of it.                                                *)

\* A frame gives its body or nothing, and with a key only if it was sealed
\* under that key.
LEMMA Decoded ==
  ASSUME NEW f, NEW r, NEW seq
  PROVE  /\ Decode(f, r, seq).out \in {<<>>, f.body}
         /\ Decode(f, r, seq).err = "OK" /\ r.key # NoKey => f.seal # <<>> /\ f.seal[1].key = r.key
<1>1. Decode(f, r, seq).out \in {<<>>, f.body} BY DEF Decode, Ok, Fails
<1>2. ASSUME Decode(f, r, seq).err = "OK", r.key # NoKey PROVE f.seal # <<>> /\ f.seal[1].key = r.key
  <2>1. SealHolds(f, r, seq) BY <1>2 DEF Decode, Ok, Fails
  <2>2. PICK sl : sl = Seal(r, seq, Preface(f)) /\ f.seal = <<sl>> BY <2>1 DEF SealHolds
  <2>3. sl.key = r.key BY <2>2 DEF Seal
  <2> QED BY <2>2, <2>3
<1> QED BY <1>1, <1>2

\* What open_archive gives out it read.
LEMMA Opened ==
  ASSUME NEW g, NEW r
  PROVE  LET a == OpenArchive(g, r)
             ring0 == RingOf(g, r)
         IN  /\ a.err = "OK" =>
                  /\ LayoutError(g, r) = "OK" /\ EnvelopeError(g, r) = "OK"
                  /\ CommentOf(g, ring0).err = "OK" /\ IndexOf(g, ring0).err = "OK"
                  /\ a.entries = IndexOf(g, ring0).out /\ a.comment = CommentOf(g, ring0).out
                  /\ a.ring = ring0
             /\ a.err # "OK" => a.entries = <<>> /\ a.comment = <<>>
BY DEF OpenArchive

\* What StoredTrue says, for the readers.
LEMMA StoredFacts ==
  ASSUME SolidIInv, pc = "published"
  PROVE  /\ stored[1].header.encAt = Enveloped
         /\ stored[1].header.flags \subseteq
              {"solid"} \cup IF opts.encrypt THEN {"encrypted", "aadSeq", "preface"} ELSE {}
         /\ opts.encrypt => {"encrypted", "preface"} \cap stored[1].header.flags # {}
         /\ \A j \in 1 .. Len(stored[1].frames) : FrameTrue(stored[1].frames[j], j = stored[1].footer.indexAt)
<1>1. StoredTrue /\ FramesTrue BY DEF SolidIInv
<1>2. archive.header.flags =
        {"solid"} \cup IF opts.encrypt THEN {"encrypted", "aadSeq", "preface"} ELSE {}
  BY <1>1 DEF FramesTrue
<1> QED BY <1>1, <1>2 DEF StoredTrue

\* The index that is read is the writer's, or empty; so is the comment; and an
\* encrypted archive is read with its key or not at all.
LEMMA WhatIsRead ==
  ASSUME SolidIInv, pc = "published", NEW r, OpenArchive(stored[1], r).err = "OK"
  PROVE  /\ OpenArchive(stored[1], r).entries \in {<<>>, entries}
         /\ OpenArchive(stored[1], r).comment \in {<<>>, opts.comment}
         /\ RightKey(r)
<1> DEFINE g == stored[1]
           ring0 == RingOf(g, r)
<1>1. PICK a : a = OpenArchive(g, r) OBVIOUS
<1>2. /\ LayoutError(g, r) = "OK" /\ EnvelopeError(g, r) = "OK"
      /\ CommentOf(g, ring0).err = "OK" /\ IndexOf(g, ring0).err = "OK"
      /\ a.entries = IndexOf(g, ring0).out /\ a.comment = CommentOf(g, ring0).out
  BY <1>1, Opened
<1>3. PICK at0 : at0 = g.footer.indexAt OBVIOUS
<1>4. /\ g.header.encAt = Enveloped
      /\ g.header.flags \subseteq {"solid"} \cup IF opts.encrypt THEN {"encrypted", "aadSeq", "preface"} ELSE {}
      /\ opts.encrypt => {"encrypted", "preface"} \cap g.header.flags # {}
      /\ \A j \in 1 .. Len(g.frames) : FrameTrue(g.frames[j], j = at0)
  BY <1>3, StoredFacts
<1> HIDE DEF g, ring0
<1>5. /\ at0 \in 1 .. Len(g.frames) /\ g.frames[at0].type = "index"
      /\ IndexOf(g, ring0) = Decode(g.frames[at0], ring0, IndexSeq)
  <2>1. "disk" \notin g.header.flags BY <1>4
  <2> QED BY <1>2, <1>3, <2>1 DEF IndexOf, Readable, Fails
<1>6. FrameTrue(g.frames[at0], TRUE)
  <2>1. FrameTrue(g.frames[at0], at0 = at0) BY <1>4, <1>5
  <2>2. (at0 = at0) = TRUE OBVIOUS
  <2> QED BY <2>1 DEF FrameTrue
<1>7. a.entries \in {<<>>, entries}
  <2>1. a.entries \in {<<>>, g.frames[at0].body} BY <1>2, <1>5, Decoded
  <2> QED BY <1>5, <1>6, <2>1 DEF FrameTrue
<1>8. a.comment \in {<<>>, opts.comment}
  <2>1. CASE g.header.commentAt = 0 BY <1>2, <2>1 DEF CommentOf, Ok
  <2>2. CASE g.header.commentAt # 0
    <3>1. PICK c0 : c0 = g.header.commentAt OBVIOUS
    <3>2. /\ c0 \in 1 .. Len(g.frames) /\ g.frames[c0].type = "comment"
          /\ CommentOf(g, ring0) = Decode(g.frames[c0], ring0, CommentSeq)
      BY <1>2, <2>2, <3>1 DEF CommentOf, Readable, Fails
    <3>3. a.comment \in {<<>>, g.frames[c0].body} BY <1>2, <3>2, Decoded
    <3>4. FrameTrue(g.frames[c0], c0 = at0) BY <1>4, <3>2
    <3> QED BY <3>2, <3>3, <3>4 DEF FrameTrue
  <2> QED BY <2>1, <2>2
<1>9. RightKey(r)
  <2> SUFFICES ASSUME opts.encrypt PROVE OpenEnvelope(EnvelopeOf(ring.key), r) = ring.key BY DEF RightKey
  <2>1. FlagsConsistent(g.header.flags) BY <1>2 DEF LayoutError
  <2>2. "encrypted" \in g.header.flags BY <1>4, <2>1 DEF FlagsConsistent
  <2>3. PICK en : en = EnvelopeFrame(g) OBVIOUS
  <2>4. en.err = "OK" /\ OpenEnvelope(en.out[1], r) # NoKey
    BY <1>2, <2>2, <2>3 DEF EnvelopeError
  <2>5. en.out = <<EnvelopeOf(ring.key)>>
    <3>1. g.header.encAt = 1 BY <1>4 DEF Enveloped
    <3>2. /\ 1 \in 1 .. Len(g.frames) /\ g.frames[1].type = "enc" /\ en.out = g.frames[1].body
      BY <2>3, <2>4, <3>1 DEF EnvelopeFrame, Readable, Ok, Fails
    <3>3. FrameTrue(g.frames[1], 1 = at0) BY <1>4, <3>2
    <3> QED BY <3>2, <3>3 DEF FrameTrue
  <2>6. PICK k : k = OpenEnvelope(EnvelopeOf(ring.key), r) OBVIOUS
  <2>7. ring0.key = k /\ k # NoKey
    <3>1. en.out[1] = EnvelopeOf(ring.key) BY <2>5
    <3>2. ring0.key = OpenEnvelope(en.out[1], r) BY <2>2, <2>3 DEF ring0, RingOf
    <3> QED BY <2>4, <2>6, <3>1, <3>2
  <2>8. g.frames[at0].seal # <<>> /\ g.frames[at0].seal[1].key = ring0.key
    BY <1>2, <1>5, <2>7, Decoded
  <2>9. g.frames[at0].seal[1].key = ring.key BY <1>6, <2>8 DEF FrameTrue
  <2> QED BY <2>6, <2>7, <2>8, <2>9
<1> QED BY <1>1, <1>7, <1>8, <1>9 DEF g

\* The test does not look at the hash of an empty file, the extraction does; but no
\* index that is read says anything else than the truth of one.
LEMMA EmptySpans ==
  ASSUME SolidIInv, pc = "published", NEW r, OpenArchive(stored[1], r).err = "OK", NEW stream,
         NEW i \in DOMAIN OpenArchive(stored[1], r).entries
  PROVE  LET e == OpenArchive(stored[1], r).entries[i]
         IN  PassesTest(stream, e) <=> Sound(stream, e)
<1>1. PICK e : e = OpenArchive(stored[1], r).entries[i] OBVIOUS
<1>2. OpenArchive(stored[1], r).entries \in {<<>>, entries} BY WhatIsRead
<1>3. i \in DOMAIN entries /\ e = entries[i] BY <1>1, <1>2
<1>4. /\ OptionsTyped /\ ReadsTyped /\ EntriesTrue /\ StreamTrue /\ Surveyed /\ Gathered /\ Hashed
  BY DEF SolidIInv, SolidTypeOK, Surveyed, Gathered, Hashed
<1>5. DOMAIN entries = DOMAIN opts.paths BY <1>4, Elements DEF EntriesTrue, ReadsTyped, OptionsTyped
<1>6. InStream(i) /\ e.hash = instant[i] /\ e \in EntryType /\ instant[i] \in Seq(Symbols)
  BY <1>3, <1>4, <1>5, Elements DEF StreamTrue, ReadsTyped
<1>7. e.size \in Nat /\ e.offset \in Nat /\ Len(instant[i]) = e.size
  BY <1>3, <1>6 DEF InStream, EntryType
<1>8. CASE e.size > 0 BY <1>1, <1>8 DEF PassesTest, Sound
<1>9. CASE e.size = 0
  <2>1. e.hash = <<>> BY <1>6, <1>7, <1>9
  <2>2. Stretch(stream, e) = <<>> BY <1>7, <1>9 DEF Stretch
  <2> QED BY <1>1, <2>1, <2>2 DEF PassesTest, Sound
<1> QED BY <1>7, <1>8, <1>9

\* The test and the extraction ask the same questions of a solid archive.
LEMMA TestTells == SolidIInv => SolidTestTellsTheTruth
<1> SUFFICES ASSUME SolidIInv, pc = "published", "solid" \in stored[1].header.flags, NEW r \in Readers
             PROVE  (Test(stored[1], r) = "OK") = (Recovered(stored[1], r).err = "OK")
  BY DEF SolidTestTellsTheTruth
<1> DEFINE g == stored[1]
           good(a, stream) == {i \in DOMAIN a.entries : Sound(stream.out, a.entries[i])}
<1>1. PICK a : a = OpenArchive(g, r) OBVIOUS
<1>2. PICK stream : stream = Stream(g, a.ring, a.entries) OBVIOUS
<1>3. Test(g, r) = IF a.err # "OK" THEN a.err
                   ELSE IF stream.err # "OK" THEN stream.err
                   ELSE IF \A i \in DOMAIN a.entries : PassesTest(stream.out, a.entries[i]) THEN "OK"
                   ELSE "BAD_CHECKSUM"
  BY <1>1, <1>2, Zenon DEF Test
<1>4. Recovered(g, r).err = IF a.err # "OK" THEN a.err
                            ELSE IF stream.err # "OK" THEN stream.err
                            ELSE IF good(a, stream) = DOMAIN a.entries THEN "OK" ELSE "CORRUPT"
  BY <1>1, <1>2 DEF Recovered
<1> HIDE DEF g
<1>5. good(a, stream) = DOMAIN a.entries <=> \A i \in DOMAIN a.entries : Sound(stream.out, a.entries[i])
  OBVIOUS
<1> HIDE DEF good
<1>6. ASSUME a.err = "OK", NEW i \in DOMAIN a.entries
      PROVE  PassesTest(stream.out, a.entries[i]) <=> Sound(stream.out, a.entries[i])
  BY <1>1, <1>6, EmptySpans DEF g
<1>7. CASE a.err # "OK" BY <1>3, <1>4, <1>7 DEF g
<1>8. CASE a.err = "OK"
  <2>1. (\A i \in DOMAIN a.entries : PassesTest(stream.out, a.entries[i]))
          <=> (\A i \in DOMAIN a.entries : Sound(stream.out, a.entries[i]))
    BY <1>6, <1>8
  <2> QED BY <1>3, <1>4, <1>5, <2>1 DEF g
<1> QED BY <1>7, <1>8

\* A good verdict of the test is what an extraction would come to.
THEOREM SolidTestIsTrue == SolidSpec => []SolidTestTellsTheTruth
BY SolidInvariance, TestTells, PTL

\* Without the key the archive does not open, so nothing is read of it.
LEMMA KeyIsNeeded == SolidIInv => SolidNeedsTheKey
<1> SUFFICES ASSUME SolidIInv, pc = "published", NEW r \in Readers, ~RightKey(r)
             PROVE  /\ Recovered(stored[1], r).files = {}
                    /\ List(stored[1], r).err # "OK"
                    /\ Test(stored[1], r) # "OK"
  BY DEF SolidNeedsTheKey
<1>1. OpenArchive(stored[1], r).err # "OK" BY WhatIsRead
<1>2. Recovered(stored[1], r).files = {} BY <1>1 DEF Recovered
<1>3. List(stored[1], r).err # "OK" BY <1>1 DEF List
<1>4. Test(stored[1], r) # "OK" BY <1>1 DEF Test
<1> QED BY <1>2, <1>3, <1>4

\* Without the right credential an encrypted archive gives nothing, damaged or not.
THEOREM SolidKeyIsNeeded == SolidSpec => []SolidNeedsTheKey
BY SolidInvariance, KeyIsNeeded, PTL

\* A file that is given out hashes to what the writer's index says.
LEMMA NothingIsWrong == SolidIInv => SolidNothingWrong
<1> SUFFICES ASSUME SolidIInv, pc = "published", NEW r \in Readers
             PROVE  /\ Recovered(stored[1], r).files \subseteq Original
                    /\ OpenArchive(stored[1], r).comment \in {<<>>, opts.comment}
  BY DEF SolidNothingWrong
<1>1. PICK g, a : g = stored[1] /\ a = OpenArchive(g, r) OBVIOUS
<1>2. a.comment \in {<<>>, opts.comment}
  <2>1. CASE a.err = "OK" BY <1>1, <2>1, WhatIsRead
  <2>2. CASE a.err # "OK" BY <1>1, <2>2, Opened
  <2> QED BY <2>1, <2>2
<1>3. Recovered(g, r).files \subseteq Original
  <2>1. CASE a.err # "OK" BY <1>1, <2>1 DEF Recovered
  <2>2. CASE a.err = "OK"
    <3>1. PICK stream : stream = Stream(g, a.ring, a.entries) OBVIOUS
    <3>2. PICK solid \in BOOLEAN : solid <=> ("solid" \in g.header.flags) OBVIOUS
    <3>3. a.entries \in {<<>>, entries} BY <1>1, <2>2, WhatIsRead
    <3>4. ASSUME NEW x \in Recovered(g, r).files
          PROVE  \E i \in DOMAIN a.entries :
                   IF solid THEN /\ Sound(stream.out, a.entries[i])
                                 /\ x = [path |-> a.entries[i].path, content |-> Stretch(stream.out, a.entries[i])]
                   ELSE /\ a.entries[i].hash = <<>>
                        /\ x = [path |-> a.entries[i].path, content |-> <<>>]
      BY <1>1, <2>2, <3>1, <3>2 DEF Recovered
    <3>5. ASSUME NEW i \in DOMAIN a.entries
          PROVE  /\ i \in Inputs /\ a.entries[i].path = opts.paths[i]
                 /\ a.entries[i].hash = instant[i]
      <4>1. /\ OptionsTyped /\ InputsTyped /\ ReadsTyped /\ EntriesTrue /\ StreamTrue /\ Surveyed /\ Hashed
        BY DEF SolidIInv, SolidTypeOK, Surveyed, Hashed
      <4>2. a.entries = entries BY <3>3
      <4>3. DOMAIN entries = 1 .. Len(opts.paths) BY <4>1, Elements DEF EntriesTrue
      <4>4. i \in Inputs BY <4>1, <4>2, <4>3 DEF OptionsTyped, InputsTyped, Inputs
      <4> QED BY <4>1, <4>2, <4>4 DEF EntriesTrue, StreamTrue
    <3>6. ASSUME NEW x \in Recovered(g, r).files PROVE x \in Original
      <4>1. PICK i \in DOMAIN a.entries :
              IF solid THEN /\ Sound(stream.out, a.entries[i])
                            /\ x = [path |-> a.entries[i].path, content |-> Stretch(stream.out, a.entries[i])]
              ELSE /\ a.entries[i].hash = <<>>
                   /\ x = [path |-> a.entries[i].path, content |-> <<>>]
        BY <3>4
      <4>2. x = [path |-> a.entries[i].path, content |-> a.entries[i].hash] BY <4>1 DEF Sound
      <4>3. x = [path |-> opts.paths[i], content |-> instant[i]] BY <3>5, <4>2
      <4> QED BY <3>5, <4>3 DEF Original
    <3> QED BY <3>6
  <2> QED BY <2>1, <2>2
<1> QED BY <1>1, <1>2, <1>3

\* Whatever happens to the archive in storage, what is given out was there.
THEOREM SolidGivesNothingWrong == SolidSpec => []SolidNothingWrong
BY SolidInvariance, NothingIsWrong, PTL

-----------------------------------------------------------------------------
(* An archive that nothing happened to.                                    *)

\* What is written is read.
LEMMA ReadBack ==
  ASSUME NEW S, NEW body \in Seq(S), NEW type, NEW r, NEW seq
  PROVE  Decode(Frame(type, body, r, seq), r, seq) = Ok(body)
<1> DEFINE bare == [type |-> type, sealed |-> r.key # NoKey, size |-> Len(body),
                    sum |-> body, body |-> body, whole |-> TRUE, seal |-> <<>>]
<1>1. Len(body) = 0 => body = <<>> BY EmptySeq
<1>2. CASE r.key = NoKey
  <2>1. Frame(type, body, r, seq) = bare BY <1>2 DEF Frame
  <2>2. bare.sealed = FALSE /\ bare.size = Len(body) /\ bare.sum = body /\ bare.body = body
        /\ bare.whole /\ bare.seal = <<>>
    BY <1>2
  <2> HIDE DEF bare
  <2> QED BY <1>1, <1>2, <2>1, <2>2 DEF Decode
<1>3. CASE r.key # NoKey
  <2>1. PICK sl : sl = Seal(r, seq, Preface(bare)) OBVIOUS
  <2>2. PICK f : f = [bare EXCEPT !.seal = <<sl>>] OBVIOUS
  <2>3. Frame(type, body, r, seq) = f BY <1>3, <2>1, <2>2 DEF Frame
  <2>4. /\ f.sealed = TRUE /\ f.size = Len(body) /\ f.sum = body /\ f.body = body
        /\ f.whole /\ f.seal = <<sl>> /\ f.type = type
    BY <1>3, <2>2
  <2>5. Preface(f) = Preface(bare)
    <3>1. bare.type = type /\ bare.sealed = TRUE /\ bare.size = Len(body) /\ bare.sum = body
      BY <1>3
    <3> HIDE DEF bare
    <3> QED BY <2>4, <3>1 DEF Preface
  <2>6. SealHolds(f, r, seq) BY <2>1, <2>4, <2>5 DEF SealHolds
  <2> HIDE DEF bare
  <2> QED BY <1>1, <1>3, <2>3, <2>4, <2>6 DEF Decode
<1> QED BY <1>2, <1>3

\* The smaller of two numbers.
LEMMA SmallerOfTwo ==
  ASSUME NEW x \in Nat, NEW y \in Nat
  PROVE  Min({x, y}) = IF x <= y THEN x ELSE y
BY DEF Min

\* The recursive definition of the reading loop has a solution, so it is one.
LEMMA StreamUnfold ==
  ASSUME NEW g, NEW r, NEW total, NEW first, first = StreamFrom(g.header), NEW n, n = StreamEnd(g) - first,
         NEW f, f = [i \in 0 .. n |-> IF i = 0 THEN Ok(<<>>)
                                     ELSE StreamStep(g, r, total, f[i - 1], first + i - 1)]
  PROVE  StreamUpTo(g, r, total) =
           [i \in 0 .. n |-> IF i = 0 THEN Ok(<<>>)
                            ELSE StreamStep(g, r, total, StreamUpTo(g, r, total)[i - 1], first + i - 1)]
<1> DEFINE Turns(h) == h = [i \in 0 .. n |-> IF i = 0 THEN Ok(<<>>)
                                            ELSE StreamStep(g, r, total, h[i - 1], first + i - 1)]
<1>1. StreamUpTo(g, r, total) = CHOOSE h : Turns(h) BY Zenon DEF StreamUpTo
<1>2. Turns(f) OBVIOUS
<1>3. Turns(CHOOSE h : Turns(h)) BY <1>2
<1> QED BY <1>1, <1>3

\* The blocks after i turns, put together.
LEMMA ChunkJoins ==
  ASSUME SolidIInv, Hashed, NEW i \in 1 .. blockSeq
  PROVE  /\ Chunk(i) \in Seq(Symbols)
         /\ (i - 1) * BlockUnits \in 0 .. Len(buf)
         /\ Min({Len(buf), i * BlockUnits}) \in (i - 1) * BlockUnits .. Len(buf)
         /\ Len(Chunk(i)) = Min({Len(buf), i * BlockUnits}) - (i - 1) * BlockUnits
         /\ SubSeq(buf, 1, (i - 1) * BlockUnits) \o Chunk(i) = SubSeq(buf, 1, Min({Len(buf), i * BlockUnits}))
         /\ Min({Len(buf), (i - 1) * BlockUnits}) = (i - 1) * BlockUnits
<1>1. /\ buf \in Seq(Symbols) /\ blockSeq \in Nat /\ BlockUnits \in Nat \ {0} /\ Len(buf) \in Nat
      /\ (blockSeq - 1) * BlockUnits < Len(buf)
  <2>1. pc # "failed" BY DEF Hashed
  <2>2. ReadsTyped /\ WritesTyped /\ BlocksTrue BY <2>1 DEF SolidIInv, SolidTypeOK
  <2> QED BY <2>2, SolidAssumption DEF ReadsTyped, WritesTyped, BlocksTrue
<1>2. PICK lo, hi, m : lo = (i - 1) * BlockUnits /\ hi = i * BlockUnits /\ m = Min({Len(buf), hi}) OBVIOUS
<1>3. lo \in Nat /\ hi \in Nat /\ hi = lo + BlockUnits BY <1>1, <1>2
<1>4. lo < Len(buf)
  <2>1. PICK d \in Nat : blockSeq - 1 = (i - 1) + d
    <3>1. blockSeq - i \in Nat /\ blockSeq - 1 = (i - 1) + (blockSeq - i) BY <1>1
    <3> QED BY <3>1
  <2>2. (blockSeq - 1) * BlockUnits = lo + d * BlockUnits BY <1>1, <1>2, <2>1
  <2>3. d * BlockUnits \in Nat BY <1>1, <2>1
  <2> QED BY <1>1, <1>3, <2>2, <2>3
<1>5. m = IF Len(buf) <= hi THEN Len(buf) ELSE hi BY <1>1, <1>2, <1>3, SmallerOfTwo
<1>6. m \in Nat /\ lo < m /\ m <= Len(buf) BY <1>1, <1>3, <1>4, <1>5
<1>7. Min({Len(buf), lo}) = lo BY <1>1, <1>3, <1>4, SmallerOfTwo
<1>8. PICK c : c = SubSeq(buf, lo + 1, m) OBVIOUS
<1>9. Chunk(i) = c BY <1>2, <1>8 DEF Chunk
<1>10. c \in Seq(Symbols) /\ Len(c) = m - lo
  <2>1. \A k \in lo + 1 .. m : buf[k] \in Symbols BY <1>1, <1>3, <1>6
  <2>2. lo + 1 \in Int /\ m \in Int BY <1>3, <1>6
  <2>3. c \in Seq(Symbols) /\ Len(c) = IF lo + 1 <= m THEN m - (lo + 1) + 1 ELSE 0
    BY <1>8, <2>1, <2>2, SubSeqProperties
  <2> QED BY <1>3, <1>6, <2>3
<1>11. SubSeq(buf, 1, lo) \o c = SubSeq(buf, 1, m)
  <2>1. 1 \in 1 .. Len(buf) + 1 /\ lo \in 1 - 1 .. Len(buf) /\ m \in lo .. Len(buf) BY <1>1, <1>3, <1>6
  <2> QED BY <1>1, <1>8, <2>1, ConcatAdjacentSubSeq
<1>12. lo \in 0 .. Len(buf) /\ m \in lo .. Len(buf) BY <1>1, <1>3, <1>4, <1>6
<1> QED BY <1>2, <1>7, <1>9, <1>10, <1>11, <1>12, Zenon

\* The layout of an archive that nothing happened to.
LEMMA Layout ==
  ASSUME SolidIInv, pc = "published", ~damaged, NEW g, g = stored[1]
  PROVE  /\ g.frames = archive.frames /\ Len(g.frames) = IndexAt
         /\ g.header.magic = TRUE /\ g.header.encAt = Enveloped /\ g.header.commentAt = CommentAt
         /\ g.header.flags = {"solid"} \cup IF opts.encrypt THEN {"encrypted", "aadSeq", "preface"} ELSE {}
         /\ g.footer.magic = TRUE /\ g.footer.indexAt = IndexAt
         /\ g.footer.total = blockSeq + (IF Commented THEN 1 ELSE 0) + 1
         /\ g.ait = Trailer(g.header, g.footer, ring.key)
         /\ StreamFrom(g.header) = Enveloped + 1 /\ StreamEnd(g) = Enveloped + blockSeq + 1
         /\ Enveloped \in {0, 1} /\ (Enveloped = 1 <=> opts.encrypt) /\ blockSeq \in Nat
         /\ (Commented <=> opts.comment # <<>>)
         /\ CommentAt = (IF Commented THEN Enveloped + blockSeq + 1 ELSE 0)
         /\ IndexAt = Enveloped + blockSeq + (IF Commented THEN 1 ELSE 0) + 1
<1>1. blockSeq \in Nat BY DEF SolidIInv, SolidTypeOK, WritesTyped
<1>2. g = [header |-> archive.header, frames |-> archive.frames, footer |-> archive.footer,
           ait |-> Trailer(archive.header, archive.footer, ring.key)]
  BY Untouched
<1>3. g.header = archive.header /\ g.frames = archive.frames /\ g.footer = archive.footer
      /\ g.ait = Trailer(archive.header, archive.footer, ring.key)
  BY <1>2
<1>4. /\ g.header.magic = TRUE /\ g.header.encAt = Enveloped /\ g.header.commentAt = CommentAt
  <2>1. archive.header = [magic |-> TRUE, encAt |-> Enveloped, commentAt |-> CommentAt,
                          flags |-> archive.header.flags]
    BY Untouched
  <2> QED BY <1>3, <2>1
<1>5. g.header.flags = {"solid"} \cup IF opts.encrypt THEN {"encrypted", "aadSeq", "preface"} ELSE {}
  BY <1>3, Untouched
<1>6. /\ g.footer.magic = TRUE /\ g.footer.indexAt = IndexAt
      /\ g.footer.total = blockSeq + (IF Commented THEN 1 ELSE 0) + 1
  <2>1. archive.footer = [magic |-> TRUE, indexAt |-> IndexAt,
                          total |-> blockSeq + (IF Commented THEN 1 ELSE 0) + 1]
    BY Untouched
  <2> QED BY <1>3, <2>1
<1>7. Len(g.frames) = IndexAt BY <1>3, Untouched
<1>8. Enveloped \in {0, 1} /\ (Enveloped = 1 <=> opts.encrypt) BY DEF Enveloped
<1>9. /\ Commented <=> opts.comment # <<>>
      /\ CommentAt = (IF Commented THEN Enveloped + blockSeq + 1 ELSE 0)
      /\ IndexAt = Enveloped + blockSeq + (IF Commented THEN 1 ELSE 0) + 1
  BY DEF Commented, CommentAt, IndexAt
<1>10. StreamFrom(g.header) = Enveloped + 1 BY <1>5, <1>8 DEF StreamFrom
<1>11. StreamEnd(g) = Enveloped + blockSeq + 1
  <2>1. StreamEnd(g) = IF CommentAt # 0 THEN CommentAt ELSE IndexAt BY <1>4, <1>6 DEF StreamEnd
  <2>2. CASE Commented BY <1>1, <1>8, <1>9, <2>1, <2>2
  <2>3. CASE ~Commented BY <1>1, <1>8, <1>9, <2>1, <2>3
  <2> QED BY <2>2, <2>3
<1> QED BY <1>1, <1>3, <1>4, <1>5, <1>6, <1>7, <1>8, <1>9, <1>10, <1>11

\* One turn of the reading loops takes one block.
LEMMA OneTurn ==
  ASSUME SolidIInv, pc = "published", ~damaged, NEW g, g = stored[1], NEW i \in 1 .. blockSeq
  PROVE  StreamStep(g, ring, Len(buf), Ok(SubSeq(buf, 1, Min({Len(buf), (i - 1) * BlockUnits}))),
                    Enveloped + 1 + i - 1)
           = Ok(SubSeq(buf, 1, Min({Len(buf), i * BlockUnits})))
<1> DEFINE lo == (i - 1) * BlockUnits
           m == Min({Len(buf), i * BlockUnits})
           at0 == Enveloped + 1 + i - 1
<1>1. /\ g.frames = archive.frames /\ StreamFrom(g.header) = Enveloped + 1 /\ Enveloped \in {0, 1}
      /\ blockSeq \in Nat
  BY Layout
<1>2. Hashed /\ FramesTrue /\ buf \in Seq(Symbols)
  BY DEF Hashed, SolidIInv, SolidTypeOK, ReadsTyped
<1>3. /\ Chunk(i) \in Seq(Symbols) /\ lo \in 0 .. Len(buf) /\ m \in lo .. Len(buf)
      /\ Len(Chunk(i)) = m - lo /\ SubSeq(buf, 1, lo) \o Chunk(i) = SubSeq(buf, 1, m)
      /\ Min({Len(buf), lo}) = lo
  BY <1>2, ChunkJoins
<1>4. PICK c, sofar : c = Chunk(i) /\ sofar = SubSeq(buf, 1, lo) OBVIOUS
<1> HIDE DEF lo, m
<1>5. at0 = Enveloped + i /\ at0 - (Enveloped + 1) = i - 1 BY <1>1
<1>6. g.frames[at0] = Frame("data", c, ring, SolidSeq(i - 1)) BY <1>1, <1>2, <1>4, <1>5 DEF FramesTrue
<1> HIDE DEF at0
<1>7. g.frames[at0].type = "data" BY <1>6, FrameIs
<1>8. Decode(g.frames[at0], ring, SolidSeq(at0 - StreamFrom(g.header))) = Ok(c)
  <2>1. Decode(Frame("data", c, ring, SolidSeq(i - 1)), ring, SolidSeq(i - 1)) = Ok(c)
    BY <1>3, <1>4, ReadBack
  <2> QED BY <1>1, <1>5, <1>6, <2>1
<1>9. Len(sofar) = lo /\ lo \in Nat /\ m \in Nat /\ Len(buf) \in Nat
  <2>1. Len(buf) \in Nat BY <1>2
  <2>2. \A k \in 1 .. lo : buf[k] \in Symbols BY <1>2, <1>3, <2>1
  <2>3. 1 \in Int /\ lo \in Int BY <1>3, <2>1
  <2>4. Len(sofar) = IF 1 <= lo THEN lo - 1 + 1 ELSE 0 BY <1>4, <2>2, <2>3, SubSeqProperties
  <2> QED BY <1>3, <2>1, <2>4
<1>10. ~(Len(c) > Len(buf) - Len(sofar)) BY <1>3, <1>4, <1>9
<1>11. PICK sum : sum = Ok(sofar) OBVIOUS
<1>12. sum.err = "OK" /\ sum.out = sofar BY <1>11 DEF Ok
<1>13. Ok(c).err = "OK" /\ Ok(c).out = c BY DEF Ok
<1>14. StreamStep(g, ring, Len(buf), sum, at0) = Ok(sofar \o c)
  BY <1>7, <1>8, <1>10, <1>12, <1>13 DEF StreamStep
<1> QED BY <1>3, <1>4, <1>11, <1>14, Zenon DEF at0, lo, m

\* The loops find the whole stream.
LEMMA StreamFound ==
  ASSUME SolidIInv, pc = "published", ~damaged, NEW g, g = stored[1]
  PROVE  StreamUpTo(g, ring, Len(buf))[blockSeq] = Ok(buf)
<1> DEFINE upto(i) == Ok(SubSeq(buf, 1, Min({Len(buf), i * BlockUnits})))
           first == Enveloped + 1
           f == [i \in 0 .. blockSeq |-> upto(i)]
           s == StreamUpTo(g, ring, Len(buf))
           step(sum, i) == StreamStep(g, ring, Len(buf), sum, first + i - 1)
<1>1. /\ StreamFrom(g.header) = first /\ StreamEnd(g) - first = blockSeq /\ blockSeq \in Nat
  <2>1. /\ StreamFrom(g.header) = Enveloped + 1 /\ StreamEnd(g) = Enveloped + blockSeq + 1
        /\ Enveloped \in {0, 1} /\ blockSeq \in Nat
    BY Layout
  <2> QED BY <2>1
<1>2. buf \in Seq(Symbols) /\ Len(buf) \in Nat /\ Len(buf) <= blockSeq * BlockUnits /\ BlockUnits \in Nat
  <2>1. ReadsTyped /\ BlocksTrue BY DEF SolidIInv, SolidTypeOK
  <2> QED BY <2>1, SolidAssumption DEF ReadsTyped, BlocksTrue, Hashed
<1>3. upto(0) = Ok(<<>>)
  <2>1. 0 * BlockUnits = 0 BY <1>2
  <2>2. Min({Len(buf), 0}) = 0 BY <1>2, SmallerOfTwo
  <2>3. SubSeq(buf, 1, 0) = <<>> BY SubSeqEmpty
  <2> QED BY <2>1, <2>2, <2>3
<1>4. \A i \in 1 .. blockSeq : step(upto(i - 1), i) = upto(i) BY OneTurn
<1> HIDE DEF upto, step
<1>5. \A i \in 0 .. blockSeq : f[i] = IF i = 0 THEN Ok(<<>>) ELSE step(f[i - 1], i)
  <2> SUFFICES ASSUME NEW i \in 0 .. blockSeq PROVE f[i] = IF i = 0 THEN Ok(<<>>) ELSE step(f[i - 1], i)
    OBVIOUS
  <2>1. CASE i = 0 BY <1>3, <2>1
  <2>2. CASE i # 0
    <3>1. i \in 1 .. blockSeq /\ i - 1 \in 0 .. blockSeq BY <1>1, <2>2
    <3>2. f[i - 1] = upto(i - 1) /\ f[i] = upto(i) BY <3>1
    <3> QED BY <1>4, <2>2, <3>1, <3>2
  <2> QED BY <2>1, <2>2
<1>6. f = [i \in 0 .. blockSeq |-> IF i = 0 THEN Ok(<<>>) ELSE step(f[i - 1], i)]
  <2>1. f = [i \in 0 .. blockSeq |-> f[i]] OBVIOUS
  <2> HIDE DEF f
  <2> QED BY <1>5, <2>1
<1>7. s = [i \in 0 .. blockSeq |-> IF i = 0 THEN Ok(<<>>) ELSE step(s[i - 1], i)]
  <2>1. PICK from, n : from = first /\ n = blockSeq OBVIOUS
  <2>2. from = StreamFrom(g.header) /\ n = StreamEnd(g) - from BY <1>1, <2>1
  <2>3. PICK h : h = f OBVIOUS
  <2>4. h = [i \in 0 .. n |-> IF i = 0 THEN Ok(<<>>)
                              ELSE StreamStep(g, ring, Len(buf), h[i - 1], from + i - 1)]
    BY <1>6, <2>1, <2>3, Zenon DEF step
  <2> HIDE DEF f, first
  <2>5. s = [i \in 0 .. n |-> IF i = 0 THEN Ok(<<>>)
                              ELSE StreamStep(g, ring, Len(buf), s[i - 1], from + i - 1)]
    BY <2>2, <2>4, StreamUnfold DEF s
  <2> QED BY <2>1, <2>5, Zenon DEF step
<1> HIDE DEF s
<1>8. \A i \in 0 .. blockSeq : s[i] = IF i = 0 THEN Ok(<<>>) ELSE step(s[i - 1], i) BY <1>7
<1>9. \A i \in 0 .. blockSeq : s[i] = f[i]
  <2> DEFINE Bad == {i \in 0 .. blockSeq : s[i] # f[i]}
  <2> SUFFICES ASSUME Bad # {} PROVE FALSE OBVIOUS
  <2>1. PICK i \in Bad : \A m \in Bad : i <= m
    <3>1. Bad \in SUBSET Nat BY <1>1
    <3> HIDE DEF Bad
    <3> QED BY <3>1, LeastNumber
  <2> HIDE DEF f
  <2>2. i \in 0 .. blockSeq /\ s[i] # f[i] OBVIOUS
  <2>3. i # 0 BY <1>5, <1>8, <2>2
  <2>4. i - 1 \in 0 .. blockSeq /\ ~(i <= i - 1) BY <1>1, <2>2, <2>3
  <2>5. s[i - 1] = f[i - 1] BY <2>1, <2>4
  <2> QED BY <1>5, <1>8, <2>2, <2>3, <2>5
<1>10. f[blockSeq] = upto(blockSeq) BY <1>1
<1>11. upto(blockSeq) = Ok(buf)
  <2>1. PICK n \in Nat : n = blockSeq * BlockUnits BY <1>1, <1>2
  <2>2. Min({Len(buf), n}) = Len(buf) BY <1>2, <2>1, SmallerOfTwo
  <2>3. SubSeq(buf, 1, Len(buf)) = buf BY <1>2, SubSeqFull
  <2> QED BY <2>1, <2>2, <2>3 DEF upto
<1>12. blockSeq \in 0 .. blockSeq BY <1>1
<1> HIDE DEF f
<1> QED BY <1>9, <1>10, <1>11, <1>12 DEF s

\* The envelope of such an archive is found, and opened by the right credential.
LEMMA EnvelopeFound ==
  ASSUME SolidIInv, pc = "published", ~damaged, NEW g, g = stored[1], NEW r, RightKey(r)
  PROVE  EnvelopeError(g, r) = "OK" /\ RingOf(g, r) = ring
<1>1. /\ g.frames = archive.frames /\ Len(g.frames) = IndexAt /\ IndexAt = Enveloped + blockSeq + (IF Commented THEN 1 ELSE 0) + 1
      /\ g.header.encAt = Enveloped /\ blockSeq \in Nat
      /\ g.header.flags = {"solid"} \cup IF opts.encrypt THEN {"encrypted", "aadSeq", "preface"} ELSE {}
  BY Layout
<1>2. FramesTrue /\ RingTrue /\ opts \in WriterOpts BY DEF SolidIInv, SolidTypeOK, OptionsTyped
<1>3. ring = [key |-> IF opts.encrypt THEN SealedKey(opts, "salt") ELSE NoKey, preface |-> opts.encrypt]
  BY <1>2 DEF RingTrue
<1>4. opts.encrypt \in BOOLEAN /\ (opts.encrypt => SealedKey(opts, "salt") # NoKey)
  BY <1>2, SolidAssumption
<1>5. CASE ~opts.encrypt
  <2>1. "encrypted" \notin g.header.flags /\ "preface" \notin g.header.flags BY <1>1, <1>5
  <2>2. EnvelopeError(g, r) = "OK" BY <2>1 DEF EnvelopeError
  <2>3. RingOf(g, r) = [key |-> NoKey, preface |-> FALSE]
    <3>1. RingOf(g, r) = [key |-> NoKey, preface |-> "preface" \in g.header.flags] BY <2>1 DEF RingOf
    <3>2. ("preface" \in g.header.flags) = FALSE BY <2>1
    <3> QED BY <3>1, <3>2, Zenon
  <2>4. ring = [key |-> NoKey, preface |-> FALSE] BY <1>3, <1>4, <1>5
  <2> QED BY <2>2, <2>3, <2>4
<1>6. CASE opts.encrypt
  <2>1. "encrypted" \in g.header.flags /\ "preface" \in g.header.flags BY <1>1, <1>6
  <2>2. PICK k : k = ring.key OBVIOUS
  <2>3. k # NoKey /\ ring = [key |-> k, preface |-> TRUE] BY <1>3, <1>4, <1>6, <2>2
  <2>4. OpenEnvelope(EnvelopeOf(k), r) = k BY <1>6, <2>2 DEF RightKey
  <2>5. PICK env : env = EnvelopeOf(k) OBVIOUS
  <2>6. g.header.encAt = 1 /\ 1 \in 1 .. Len(g.frames) BY <1>1, <1>6 DEF Enveloped
  <2>7. g.frames[1] = Frame("enc", <<env>>, [key |-> NoKey, preface |-> FALSE], 0)
    BY <1>1, <1>2, <1>6, <2>2, <2>5 DEF FramesTrue
  <2>8. PICK eb : eb = g.frames[1] OBVIOUS
  <2>9. eb = [type |-> "enc", sealed |-> FALSE, size |-> 1, sum |-> <<env>>, body |-> <<env>>,
              whole |-> TRUE, seal |-> <<>>]
    BY <2>7, <2>8 DEF Frame
  <2>10. eb.type = "enc" /\ ~eb.sealed /\ eb.size = 1 /\ eb.sum = <<env>> /\ eb.body = <<env>> /\ eb.whole
    BY <2>9
  <2>11. EnvelopeFrame(g) = Ok(<<env>>)
    <3>1. EnvelopeFrame(g) = IF eb.type # "enc" \/ eb.sealed \/ eb.size # Len(eb.body) \/ eb.size = 0
                             THEN Fails("CORRUPT")
                             ELSE IF ~eb.whole \/ eb.sum # eb.body THEN Fails("BAD_CHECKSUM")
                             ELSE Ok(eb.body)
      BY <2>6, <2>8 DEF EnvelopeFrame, Readable
    <3>2. Len(<<env>>) = 1 OBVIOUS
    <3> QED BY <2>10, <3>1, <3>2
  <2>12. EnvelopeFrame(g).err = "OK" /\ EnvelopeFrame(g).out[1] = env BY <2>11 DEF Ok
  <2>13. EnvelopeError(g, r) = "OK" BY <2>3, <2>4, <2>5, <2>12 DEF EnvelopeError
  <2>14. RingOf(g, r) = [key |-> k, preface |-> TRUE] BY <2>1, <2>4, <2>5, <2>12 DEF RingOf
  <2> QED BY <2>3, <2>13, <2>14
<1> QED BY <1>5, <1>6

\* Comment and index are found, and are the writer's.
LEMMA IndexFound ==
  ASSUME SolidIInv, pc = "published", ~damaged, NEW g, g = stored[1]
  PROVE  CommentOf(g, ring) = Ok(opts.comment) /\ IndexOf(g, ring) = Ok(entries)
<1>1. /\ g.frames = archive.frames /\ Len(g.frames) = IndexAt
      /\ g.header.commentAt = CommentAt /\ g.footer.indexAt = IndexAt
      /\ g.header.flags = {"solid"} \cup IF opts.encrypt THEN {"encrypted", "aadSeq", "preface"} ELSE {}
      /\ Enveloped \in {0, 1} /\ blockSeq \in Nat
      /\ (Commented <=> opts.comment # <<>>)
      /\ CommentAt = (IF Commented THEN Enveloped + blockSeq + 1 ELSE 0)
      /\ IndexAt = Enveloped + blockSeq + (IF Commented THEN 1 ELSE 0) + 1
  BY Layout
<1>2. FramesTrue /\ Indexed /\ opts \in WriterOpts /\ entries \in Seq(EntryType)
  BY DEF SolidIInv, SolidTypeOK, OptionsTyped, ReadsTyped, Indexed
<1>3. opts.comment \in Seq(Symbols) BY <1>2, SolidAssumption
<1>4. IndexOf(g, ring) = Ok(entries)
  <2>1. "disk" \notin g.header.flags BY <1>1
  <2>2. PICK ib : ib = g.frames[IndexAt] OBVIOUS
  <2>3. ib = Frame("index", entries, ring, IndexSeq) BY <1>1, <1>2, <2>2 DEF FramesTrue
  <2>4. ib.type = "index" BY <2>3, FrameIs
  <2>5. IndexAt \in 1 .. Len(g.frames) BY <1>1
  <2>6. IndexOf(g, ring) = Decode(ib, ring, IndexSeq) BY <1>1, <2>1, <2>2, <2>4, <2>5 DEF IndexOf, Readable
  <2> QED BY <1>2, <2>3, <2>6, ReadBack
<1>5. CASE ~Commented
  <2>1. g.header.commentAt = 0 /\ opts.comment = <<>> BY <1>1, <1>5
  <2> QED BY <1>4, <2>1 DEF CommentOf
<1>6. CASE Commented
  <2>1. PICK cb : cb = g.frames[CommentAt] OBVIOUS
  <2>2. cb = Frame("comment", opts.comment, ring, CommentSeq) BY <1>1, <1>2, <1>6, <2>1 DEF FramesTrue
  <2>3. cb.type = "comment" /\ cb.size = Len(opts.comment) BY <2>2, FrameIs
  <2>4. cb.size # 0 BY <1>1, <1>3, <1>6, <2>3, EmptySeq
  <2>5. CommentAt \in 1 .. Len(g.frames) /\ CommentAt # 0 BY <1>1, <1>6
  <2>6. CommentOf(g, ring) = Decode(cb, ring, CommentSeq)
    BY <1>1, <2>1, <2>3, <2>4, <2>5 DEF CommentOf, Readable
  <2>7. Decode(cb, ring, CommentSeq) = Ok(opts.comment) BY <1>3, <2>2, ReadBack
  <2> QED BY <1>4, <2>6, <2>7
<1> QED BY <1>5, <1>6

\* Such an archive opens.
LEMMA OpensRight ==
  ASSUME SolidIInv, pc = "published", ~damaged, NEW g, g = stored[1], NEW r, RightKey(r)
  PROVE  /\ OpenArchive(g, r).err = "OK" /\ OpenArchive(g, r).ring = ring
         /\ OpenArchive(g, r).entries = entries /\ OpenArchive(g, r).comment = opts.comment
<1>1. /\ g.header.magic = TRUE /\ g.footer.magic = TRUE
      /\ g.header.flags = {"solid"} \cup IF opts.encrypt THEN {"encrypted", "aadSeq", "preface"} ELSE {}
      /\ g.ait = Trailer(g.header, g.footer, ring.key)
  BY Layout
<1>2. g.ait # <<>> BY <1>1 DEF Trailer
<1>3. FlagsConsistent(g.header.flags) BY <1>1 DEF FlagsConsistent
<1>4. LayoutError(g, r) = "OK" BY <1>1, <1>2, <1>3 DEF LayoutError
<1>5. EnvelopeError(g, r) = "OK" /\ RingOf(g, r) = ring BY EnvelopeFound
<1>6. TrailerError(g, ring) = "OK" BY <1>1 DEF TrailerError
<1>7. CommentOf(g, ring) = Ok(opts.comment) /\ IndexOf(g, ring) = Ok(entries) BY IndexFound
<1>8. CommentOf(g, ring).err = "OK" /\ IndexOf(g, ring).err = "OK"
      /\ CommentOf(g, ring).out = opts.comment /\ IndexOf(g, ring).out = entries
  BY <1>7 DEF Ok
<1> QED BY <1>4, <1>5, <1>6, <1>8 DEF OpenArchive

\* The stream is all of it, if a reader takes so much.
LEMMA StreamRight ==
  ASSUME SolidIInv, pc = "published", ~damaged, NEW g, g = stored[1]
  PROVE  Stream(g, ring, entries) = IF TotalSize(entries) <= MaxSolid THEN Ok(buf) ELSE Fails("OVERFLOW")
<1>1. /\ g.frames = archive.frames /\ Len(g.frames) = IndexAt
      /\ g.header.commentAt = CommentAt
      /\ g.footer.total = blockSeq + (IF Commented THEN 1 ELSE 0) + 1
      /\ StreamFrom(g.header) = Enveloped + 1 /\ StreamEnd(g) = Enveloped + blockSeq + 1
      /\ Enveloped \in {0, 1} /\ blockSeq \in Nat
      /\ CommentAt = (IF Commented THEN Enveloped + blockSeq + 1 ELSE 0)
      /\ IndexAt = Enveloped + blockSeq + (IF Commented THEN 1 ELSE 0) + 1
  BY Layout
<1>2. TotalSize(entries) = Len(buf) /\ Len(buf) \in Nat
  <2>1. /\ OptionsTyped /\ InputsTyped /\ ReadsTyped /\ EntriesTrue /\ StreamTrue
        /\ Surveyed /\ Gathered
    BY DEF SolidIInv, SolidTypeOK, Surveyed, Gathered
  <2>2. Len(entries) = Len(opts.paths) /\ Len(entries) \in Nat \ {0} BY <2>1 DEF EntriesTrue, OptionsTyped
  <2>3. \A i \in 1 .. Len(entries) :
          entries[i].offset = IF i = 1 THEN 0 ELSE entries[i - 1].offset + entries[i - 1].size
    BY <2>1, <2>2, Elements DEF EntriesTrue, ReadsTyped
  <2>4. TotalSize(entries) = entries[Len(entries)].offset + entries[Len(entries)].size
    BY <2>2, <2>3, TotalOfChain
  <2> QED BY <2>1, <2>4 DEF StreamTrue, ReadsTyped
<1>3. StreamUpTo(g, ring, Len(buf))[blockSeq] = Ok(buf) BY StreamFound
<1>4. PICK total, first, end, metadata, found :
        /\ total = Len(buf) /\ first = Enveloped + 1 /\ end = Enveloped + blockSeq + 1
        /\ metadata = (IF g.header.commentAt # 0 THEN 2 ELSE 1)
        /\ found = StreamUpTo(g, ring, Len(buf))[end - first]
  OBVIOUS
<1>5. Stream(g, ring, entries) =
        IF total > MaxSolid THEN Fails("OVERFLOW")
        ELSE IF end < first \/ end > Len(g.frames) + 1 THEN Fails("CORRUPT")
        ELSE IF \/ found.err # "OK" \/ Len(found.out) # total
                \/ end - first # g.footer.total - metadata
        THEN Fails("CORRUPT")
        ELSE found
  BY <1>1, <1>2, <1>4, Zenon DEF Stream
<1>6. end - first = blockSeq /\ ~(end < first) /\ ~(end > Len(g.frames) + 1) BY <1>1, <1>4
<1>7. end - first = g.footer.total - metadata
  <2>1. CASE Commented BY <1>1, <1>4, <2>1
  <2>2. CASE ~Commented BY <1>1, <1>4, <2>2
  <2> QED BY <2>1, <2>2
<1>8. found = Ok(buf) /\ found.err = "OK" /\ found.out = buf BY <1>3, <1>4, <1>6 DEF Ok
<1>9. total <= MaxSolid <=> ~(total > MaxSolid) BY <1>2, <1>4, SolidAssumption
<1> QED BY <1>2, <1>4, <1>5, <1>6, <1>7, <1>8, <1>9

\* Every file is in the stream, and hashes to what the index says.
LEMMA FilesFound ==
  ASSUME SolidIInv, pc = "published"
  PROVE  /\ DOMAIN entries = Inputs
         /\ \A f \in DOMAIN entries :
              /\ entries[f].path = opts.paths[f] /\ Sound(buf, entries[f])
              /\ Stretch(buf, entries[f]) = instant[f]
<1>1. OptionsTyped /\ InputsTyped /\ ReadsTyped /\ EntriesTrue /\ StreamTrue /\ Surveyed /\ Gathered /\ Hashed
  BY DEF SolidIInv, SolidTypeOK, Surveyed, Gathered, Hashed
<1>2. DOMAIN entries = 1 .. Len(opts.paths) BY <1>1, Elements DEF EntriesTrue, ReadsTyped
<1>3. DOMAIN entries = Inputs BY <1>1, <1>2 DEF OptionsTyped, InputsTyped, Inputs
<1>4. ASSUME NEW f \in DOMAIN entries
      PROVE  /\ entries[f].path = opts.paths[f] /\ Sound(buf, entries[f])
             /\ Stretch(buf, entries[f]) = instant[f]
  <2>1. InStream(f) /\ entries[f].hash = instant[f] /\ entries[f].path = opts.paths[f]
    BY <1>1 DEF StreamTrue, EntriesTrue
  <2>2. instant[f] \in Seq(Symbols) /\ buf \in Seq(Symbols)
    BY <1>1, <1>2 DEF ReadsTyped, OptionsTyped
  <2>3. PICK o, n, t : o = entries[f].offset /\ n = entries[f].size /\ t = instant[f] OBVIOUS
  <2>4. o \in Nat /\ n \in Nat
    <3>1. entries[f] \in EntryType BY <1>1, <1>2, Elements DEF ReadsTyped
    <3> QED BY <2>3, <3>1 DEF EntryType
  <2>5. Len(t) = n /\ o + n <= Len(buf) /\ \A i \in 1 .. n : buf[o + i] = t[i]
    BY <2>1, <2>3 DEF InStream
  <2>6. SubSeq(buf, o + 1, o + n) = t BY <2>2, <2>3, <2>4, <2>5, StretchIs
  <2> QED BY <2>1, <2>3, <2>5, <2>6 DEF Sound, Stretch
<1> QED BY <1>3, <1>4

\* The archive opens, the stream is whole, and every file is in it.
LEMMA AllOrNothing == SolidIInv => SolidSnapshot
<1> SUFFICES ASSUME SolidIInv, pc = "published", ~damaged, NEW r \in Readers, RightKey(r)
             PROVE  /\ OpenArchive(stored[1], r).comment = opts.comment
                    /\ Recovered(stored[1], r) =
                         IF TotalSize(entries) <= MaxSolid THEN [err |-> "OK", files |-> Original]
                         ELSE [err |-> "OVERFLOW", files |-> {}]
  BY DEF SolidSnapshot
<1>1. PICK g, a : g = stored[1] /\ a = OpenArchive(g, r) OBVIOUS
<1>2. a.err = "OK" /\ a.ring = ring /\ a.entries = entries /\ a.comment = opts.comment
  BY <1>1, OpensRight
<1>3. "solid" \in g.header.flags BY <1>1, Layout
<1>4. PICK stream : stream = Stream(g, ring, entries) OBVIOUS
<1>5. stream = IF TotalSize(entries) <= MaxSolid THEN Ok(buf) ELSE Fails("OVERFLOW")
  BY <1>1, <1>4, StreamRight
<1>6. CASE ~(TotalSize(entries) <= MaxSolid)
  <2>1. stream.err = "OVERFLOW" BY <1>5, <1>6 DEF Fails
  <2>2. Recovered(g, r) = [err |-> "OVERFLOW", files |-> {}]
    BY <1>1, <1>2, <1>3, <1>4, <2>1 DEF Recovered
  <2> QED BY <1>1, <1>2, <1>6, <2>2
<1>7. CASE TotalSize(entries) <= MaxSolid
  <2>1. stream.err = "OK" /\ stream.out = buf BY <1>5, <1>7 DEF Ok
  <2> DEFINE good == {i \in DOMAIN entries : Sound(stream.out, entries[i])}
             Give(i) == [path |-> entries[i].path, content |-> Stretch(stream.out, entries[i])]
  <2>2. Recovered(g, r) = [err |-> IF good = DOMAIN entries THEN "OK" ELSE "CORRUPT",
                           files |-> {Give(i) : i \in good}]
    BY <1>1, <1>2, <1>3, <1>4, <2>1 DEF Recovered
  <2>3. DOMAIN entries = Inputs
        /\ \A i \in DOMAIN entries : /\ entries[i].path = opts.paths[i] /\ Sound(buf, entries[i])
                                     /\ Stretch(buf, entries[i]) = instant[i]
    BY FilesFound
  <2>4. good = Inputs BY <2>1, <2>3
  <2>5. \A i \in Inputs : Give(i) = [path |-> opts.paths[i], content |-> instant[i]] BY <2>1, <2>3
  <2> HIDE DEF good, Give
  <2>6. {Give(i) : i \in good} = Original BY <2>4, <2>5 DEF Original
  <2> QED BY <1>1, <1>2, <1>7, <2>2, <2>3, <2>4, <2>6
<1> QED BY <1>6, <1>7

\* A published solid archive holds all inputs as they were at one instant, for
\* whoever has the key, unless it is larger than readers take.
THEOREM SolidIsASnapshot == SolidSpec => []SolidSnapshot
BY SolidInvariance, AllOrNothing, PTL
=============================================================================
