--------------------------- MODULE WebJobsProofs ---------------------------
(***************************************************************************)
(* WebJobs keeps its promises with any number of workers and jobs and any  *)
(* TTL that is at least the timeout of a worker: IInv is inductive.        *)
(* The first part says what a step does to the record of a request, field  *)
(* by field; the second goes through the conjuncts of IInv.                *)
(***************************************************************************)
EXTENDS WebJobs, TLAPS

Others(w) == \A v \in Workers \ {w} : req'[v] = req[v]

\* The request goes on to p.
To(w, p) ==
  /\ Others(w) /\ req'[w].pc = p
  /\ req'[w].began = req[w].began /\ req'[w].todo = req[w].todo
  /\ req'[w].cut = req[w].cut /\ req'[w].job = req[w].job
  /\ req'[w].kind = req[w].kind /\ req'[w].victim = req[w].victim
  /\ req'[w].listing = req[w].listing /\ req'[w].after = req[w].after

\* The request ends.
Off(w) == Others(w) /\ req'[w].pc = "idle"

\* The worker is about to remove j.
Rm(w, j, next) ==
  /\ Others(w) /\ req'[w].pc = "list"
  /\ req'[w].victim = j /\ req'[w].after = next
  /\ req'[w].began = req[w].began /\ req'[w].todo = req[w].todo

\* The record of a worker without a request is a request.
LEMMA IdleRequest == TypeOK => Idle \in Request
  BY TimeAssumption DEF TypeOK, Request, Idle, Places, Kinds, Entries

\* A worker that takes a well-formed record leaves the records well-formed.
LEMMA BecomesType ==
  ASSUME TypeOK, NEW w \in Workers, NEW r \in Request, Becomes(w, r)
  PROVE  req' \in [Workers -> Request]
  BY IdleRequest DEF TypeOK, Becomes

\* What Moves does to the fields: only pc changes, or the request ends.
LEMMA MovesTo ==
  ASSUME TypeOK, NEW w \in Workers, NEW from, NEW to, Moves(w, from, to)
  PROVE  /\ req[w].pc = from
         /\ to # "idle" => To(w, to)
         /\ to = "idle" => Off(w)
<1>1. req[w].pc = from /\ Others(w)
  BY DEF TypeOK, Moves, Becomes, Others
<1>2. CASE to # "idle"
  BY <1>1, <1>2 DEF TypeOK, Request, Moves, Becomes, To
<1>3. CASE to = "idle"
  <2>1. [req[w] EXCEPT !.pc = to].pc = "idle"
    BY <1>3 DEF TypeOK, Request
  <2>2. req'[w] = Idle
    BY <2>1 DEF TypeOK, Moves, Becomes
  <2>3. Idle.pc = "idle"
    BY DEF Idle
  <2> QED BY <1>1, <1>3, <2>2, <2>3 DEF Off
<1> QED BY <1>1, <1>2, <1>3

\* Moves keeps the records well-formed.
LEMMA MovesType ==
  ASSUME TypeOK, NEW w \in Workers, NEW from, NEW to \in Places, Moves(w, from, to)
  PROVE  req' \in [Workers -> Request]
<1>1. [req[w] EXCEPT !.pc = to] \in Request
  BY DEF TypeOK, Request
<1> QED BY <1>1, BecomesType DEF Moves

\* What Remove does to the fields.
LEMMA RemoveRm ==
  ASSUME TypeOK, NEW w \in Workers, NEW from, NEW j, NEW next, Remove(w, from, j, next)
  PROVE  req[w].pc = from /\ Rm(w, j, next)
<1> DEFINE r == [req[w] EXCEPT !.pc = "list", !.job = NoJob, !.kind = "check",
                               !.victim = j, !.after = next]
<1>1. /\ r.pc = "list" /\ r.victim = j /\ r.after = next
      /\ r.began = req[w].began /\ r.todo = req[w].todo
  BY DEF TypeOK, Request
<1>2. req' = [req EXCEPT ![w] = IF r.pc = "idle" THEN Idle ELSE r] /\ req[w].pc = from
  BY DEF Remove, Becomes
<1>3. req'[w] = r /\ Others(w)
  BY <1>1, <1>2 DEF TypeOK, Others
<1> QED BY <1>1, <1>2, <1>3 DEF Rm

\* Remove keeps the records well-formed if the directory is a known one.
LEMMA RemoveType ==
  ASSUME TypeOK, NEW w \in Workers, NEW from, NEW j \in used, NEW next \in {"scan", "idle"},
         Remove(w, from, j, next)
  PROVE  req' \in [Workers -> Request]
<1>0. req[w] \in Request /\ "list" \in Places /\ "check" \in Kinds
  BY DEF TypeOK, Places, Removing, Kinds
<1>1. [req[w] EXCEPT !.pc = "list", !.job = NoJob, !.kind = "check",
                     !.victim = j, !.after = next] \in Request
  BY <1>0 DEF Request
<1> QED BY <1>1, BecomesType DEF Remove

\* What Enters does to the fields.
LEMMA EntersEffect ==
  ASSUME TypeOK, NEW w \in Workers, NEW to, to # "idle", NEW j, NEW k, Enters(w, to, j, k)
  PROVE  /\ Others(w) /\ req[w].pc = "handle" /\ req'[w].pc = to
         /\ req'[w].job = j /\ req'[w].kind = k /\ req'[w].began = req[w].began
<1> DEFINE r == [req[w] EXCEPT !.pc = to, !.cut = FALSE, !.job = j, !.kind = k]
<1>1. r.pc = to /\ r.job = j /\ r.kind = k /\ r.began = req[w].began
  BY DEF TypeOK, Request
<1>2. req' = [req EXCEPT ![w] = IF r.pc = "idle" THEN Idle ELSE r] /\ req[w].pc = "handle"
  BY DEF Enters, Becomes
<1>3. req'[w] = r /\ Others(w)
  BY <1>1, <1>2 DEF TypeOK, Others
<1> QED BY <1>1, <1>2, <1>3

\* A request comes, with every directory on its list.
LEMMA ArriveEffect ==
  ASSUME TypeOK, NEW w \in Workers, Arrive(w)
  PROVE  /\ Others(w) /\ req[w].pc = "idle" /\ req'[w].pc = "scan"
         /\ req'[w].began = clock /\ req'[w].todo = present
         /\ req' \in [Workers -> Request]
<1> DEFINE r == [Idle EXCEPT !.pc = "scan", !.began = clock, !.todo = present]
<1>1. Idle \in Request
  BY IdleRequest
<1>2. clock \in 0..clock /\ present \subseteq used
  BY TimeAssumption DEF TypeOK
<1>3. r \in Request
  BY <1>1, <1>2 DEF Request, Places, Scanning
<1>4. r.pc = "scan" /\ r.began = clock /\ r.todo = present
  BY <1>1 DEF Request
<1>5. req' = [req EXCEPT ![w] = IF r.pc = "idle" THEN Idle ELSE r] /\ req[w].pc = "idle"
  BY DEF Arrive, Becomes
<1>6. req'[w] = r /\ Others(w)
  BY <1>4, <1>5 DEF TypeOK, Others
<1>7. req' \in [Workers -> Request]
  BY <1>3, BecomesType DEF Arrive
<1> QED BY <1>4, <1>5, <1>6, <1>7

\* The directory leaves the list and is looked at if it is there.
LEMMA LookEffect ==
  ASSUME TypeOK, NEW w \in Workers, NEW j \in Jobs, Look(w, j)
  PROVE  /\ Others(w) /\ req[w].pc = "scan" /\ j \in req[w].todo
         /\ req'[w].began = req[w].began /\ req'[w].todo = req[w].todo \ {j}
         /\ \/ j \in present /\ req'[w].pc = "stat" /\ req'[w].victim = j
            \/ j \notin present /\ req'[w].pc = "scan"
         /\ req' \in [Workers -> Request]
<1>0. req[w] \in Request /\ req[w].pc = "scan" /\ j \in req[w].todo /\ j \in used
  BY DEF TypeOK, Request, Look
<1>1. CASE j \in present
  <2> DEFINE r == [req[w] EXCEPT !.pc = "stat", !.todo = @ \ {j}, !.victim = j]
  <2>1. r \in Request
    BY <1>0 DEF Request, Places, Scanning
  <2>2. r.pc = "stat" /\ r.victim = j /\ r.began = req[w].began /\ r.todo = req[w].todo \ {j}
    BY <1>0 DEF Request
  <2>3. Becomes(w, r)
    BY <1>1 DEF Look
  <2>4. req' = [req EXCEPT ![w] = IF r.pc = "idle" THEN Idle ELSE r]
    BY <2>3 DEF Becomes
  <2>5. req'[w] = r /\ Others(w)
    BY <2>2, <2>4 DEF TypeOK, Others
  <2> QED BY <1>0, <1>1, <2>1, <2>2, <2>3, <2>5, BecomesType
<1>2. CASE j \notin present
  <2> DEFINE r == [req[w] EXCEPT !.todo = @ \ {j}]
  <2>1. r \in Request
    BY <1>0 DEF Request
  <2>2. r.pc = "scan" /\ r.began = req[w].began /\ r.todo = req[w].todo \ {j}
    BY <1>0 DEF Request
  <2>3. Becomes(w, r)
    BY <1>2 DEF Look
  <2>4. req' = [req EXCEPT ![w] = IF r.pc = "idle" THEN Idle ELSE r]
    BY <2>3 DEF Becomes
  <2>5. req'[w] = r /\ Others(w)
    BY <2>2, <2>4 DEF TypeOK, Others
  <2> QED BY <1>0, <1>2, <2>1, <2>2, <2>3, <2>5, BecomesType
<1> QED BY <1>1, <1>2

\* The directories a request speaks of are known ones.
LEMMA JobsUsed ==
  ASSUME IInv, NEW w \in Workers
  PROVE  /\ req[w].pc \in InJob \cup InDownload => req[w].job \in used
         /\ req[w].pc = "stat" => req[w].victim \in used
  BY DEF IInv, TypeOK, Owned, Owns, Working, Downloads, ScanComplete

\* A well-formed record stays one while time passes and jobs are added.
LEMMA RequestGrows ==
  ASSUME TypeOK, used \subseteq used', clock' \in Nat, clock <= clock'
  PROVE  Request \subseteq Request'
  BY TimeAssumption DEF TypeOK, Request

\* The three ways the look at the age of a directory goes on.
LEMMA StatEffect ==
  ASSUME IInv, NEW w \in Workers, Stat(w)
  PROVE  /\ Others(w) /\ req[w].pc = "stat" /\ req'[w].began = req[w].began
         /\ \/ req'[w].pc = "handle" /\ req'[w].cut
            \/ /\ req[w].began <= mtime[req[w].victim] + TTL
               /\ req'[w].pc = "scan" /\ req'[w].todo = req[w].todo
            \/ /\ req[w].victim \in present /\ req[w].began > mtime[req[w].victim] + TTL
               /\ Rm(w, req[w].victim, "scan")
         /\ req' \in [Workers -> Request]
<1> DEFINE j == req[w].victim
<1>a. TypeOK
  BY DEF IInv
<1>b. req[w].pc = "stat"
  BY DEF Stat, Remove
<1>c. j \in used
  BY <1>b, JobsUsed
<1> USE <1>a
<1>0. req[w] \in Request
  BY DEF TypeOK
<1>1. CASE j \notin present
  <2> DEFINE r == [req[w] EXCEPT !.pc = "handle", !.todo = {}, !.victim = NoJob, !.cut = TRUE]
  <2>1. r \in Request
    BY <1>0 DEF Request, Places
  <2>2. r.pc = "handle" /\ r.cut /\ r.began = req[w].began
    BY <1>0 DEF Request
  <2>3. Becomes(w, r) /\ req[w].pc = "stat"
    BY <1>1 DEF Stat
  <2>4. req' = [req EXCEPT ![w] = IF r.pc = "idle" THEN Idle ELSE r]
    BY <2>3 DEF Becomes
  <2>5. req'[w] = r /\ Others(w)
    BY <2>2, <2>4 DEF TypeOK, Others
  <2> QED BY <1>1, <2>1, <2>2, <2>3, <2>5, BecomesType
<1>2. CASE j \in present /\ req[w].began <= mtime[j] + TTL
  <2> DEFINE r == [req[w] EXCEPT !.pc = "scan", !.victim = NoJob]
  <2>0. mtime[j] \in 0..clock /\ req[w].began \in 0..clock /\ clock \in Nat
    BY TimeAssumption, <1>0, <1>2 DEF TypeOK, Request
  <2>1. r \in Request
    BY <1>0 DEF Request, Places, Scanning
  <2>2. r.pc = "scan" /\ r.began = req[w].began /\ r.todo = req[w].todo
    BY <1>0 DEF Request
  <2>3. Becomes(w, r) /\ req[w].pc = "stat"
    BY <1>2, <2>0, TimeAssumption DEF Stat
  <2>4. req' = [req EXCEPT ![w] = IF r.pc = "idle" THEN Idle ELSE r]
    BY <2>3 DEF Becomes
  <2>5. req'[w] = r /\ Others(w)
    BY <2>2, <2>4 DEF TypeOK, Others
  <2> QED BY <1>2, <2>1, <2>2, <2>3, <2>5, BecomesType
<1>3. CASE j \in present /\ ~(req[w].began <= mtime[j] + TTL)
  <2>1. j \in present /\ req[w].began > mtime[j] + TTL /\ Remove(w, "stat", j, "scan")
    BY <1>3 DEF Stat
  <2> QED BY <2>1, <1>c, RemoveRm, RemoveType DEF Rm
<1> QED BY <1>1, <1>2, <1>3

\* rmtree lists the directory, or finds it gone and gives way.
LEMMA ListEffect ==
  ASSUME TypeOK, NEW w \in Workers, List(w)
  PROVE  /\ req[w].pc = "list"
         /\ \/ /\ req[w].victim \in present
               /\ Others(w) /\ req'[w].pc = "unlink" /\ req'[w].listing = files[req[w].victim]
               /\ req'[w].began = req[w].began /\ req'[w].todo = req[w].todo
               /\ req'[w].victim = req[w].victim /\ req'[w].after = req[w].after
               /\ removing' = removing \cup {req[w].victim}
            \/ /\ req[w].victim \notin present /\ removing' = removing
               /\ (To(w, "scan") /\ req[w].after = "scan") \/ Off(w)
         /\ req' \in [Workers -> Request]
<1> DEFINE j == req[w].victim
<1>0. req[w] \in Request /\ present \subseteq Jobs /\ req[w].after \in {"scan", "idle"}
  BY DEF TypeOK, Request
<1>1. CASE j \in present
  <2> DEFINE r == [req[w] EXCEPT !.pc = "unlink", !.listing = files[j]]
  <2>1. r \in Request
    BY <1>0, <1>1 DEF TypeOK, Request, Places, Removing
  <2>2. /\ r.pc = "unlink" /\ r.listing = files[j] /\ r.began = req[w].began
        /\ r.todo = req[w].todo /\ r.victim = j /\ r.after = req[w].after
    BY <1>0 DEF Request
  <2>3. Becomes(w, r) /\ req[w].pc = "list" /\ removing' = removing \cup {j}
    BY <1>1 DEF List
  <2>4. req' = [req EXCEPT ![w] = IF r.pc = "idle" THEN Idle ELSE r]
    BY <2>3 DEF Becomes
  <2>5. req'[w] = r /\ Others(w)
    BY <2>2, <2>4 DEF TypeOK, Others
  <2> QED BY <1>1, <2>1, <2>2, <2>3, <2>5, BecomesType
<1>2. CASE j \notin present
  <2>1. Moves(w, "list", req[w].after) /\ removing' = removing
    BY <1>2 DEF List
  <2>2. req[w].after \in Places
    BY <1>0 DEF Places, Scanning
  <2> QED BY <1>0, <1>2, <2>1, <2>2, MovesTo, MovesType
<1> QED BY <1>1, <1>2

\* One entry leaves the listing.
LEMMA UnlinkEffect ==
  ASSUME TypeOK, NEW w \in Workers, NEW e \in Entries, Unlink(w, e)
  PROVE  /\ Others(w) /\ req[w].pc = "unlink" /\ req'[w].pc = "unlink"
         /\ e \in req[w].listing /\ req'[w].listing = req[w].listing \ {e}
         /\ req'[w].began = req[w].began /\ req'[w].todo = req[w].todo
         /\ req'[w].victim = req[w].victim /\ req'[w].after = req[w].after
         /\ req' \in [Workers -> Request]
<1> DEFINE r == [req[w] EXCEPT !.listing = @ \ {e}]
<1>0. req[w] \in Request /\ req[w].pc = "unlink" /\ e \in req[w].listing
  BY DEF TypeOK, Unlink
<1>1. r \in Request
  BY <1>0 DEF Request
<1>2. /\ r.pc = "unlink" /\ r.listing = req[w].listing \ {e} /\ r.began = req[w].began
      /\ r.todo = req[w].todo /\ r.victim = req[w].victim /\ r.after = req[w].after
  BY <1>0 DEF Request
<1>3. Becomes(w, r)
  BY DEF Unlink
<1>4. req' = [req EXCEPT ![w] = IF r.pc = "idle" THEN Idle ELSE r]
  BY <1>3 DEF Becomes
<1>5. req'[w] = r /\ Others(w)
  BY <1>2, <1>4 DEF TypeOK, Others
<1> QED BY <1>0, <1>1, <1>2, <1>3, <1>5, BecomesType

\* rmtree gives way to what comes after it.
LEMMA RmdirEffect ==
  ASSUME TypeOK, NEW w \in Workers, Rmdir(w)
  PROVE  /\ req[w].pc = "unlink"
         /\ (To(w, "scan") /\ req[w].after = "scan") \/ Off(w)
         /\ req' \in [Workers -> Request]
<1>0. req[w].after \in {"scan", "idle"}
  BY DEF TypeOK, Request
<1>1. Moves(w, "unlink", req[w].after) /\ req[w].after \in Places
  BY <1>0 DEF Rmdir, Places, Scanning
<1> QED BY <1>0, <1>1, MovesTo, MovesType

\* The cleanup gives way to the handler.
LEMMA ScanDoneEffect ==
  ASSUME TypeOK, NEW w \in Workers, ScanDone(w)
  PROVE  req[w].pc = "scan" /\ To(w, "handle") /\ req' \in [Workers -> Request]
  BY MovesTo, MovesType DEF ScanDone, Places, Scanning, Removing, InJob, InDownload

\* The request ends without a job.
LEMMA AnswerEffect ==
  ASSUME TypeOK, NEW w \in Workers, Answer(w)
  PROVE  req[w].pc = "handle" /\ Off(w) /\ req' \in [Workers -> Request]
  BY MovesTo, MovesType DEF Answer, Places, Scanning, Removing, InJob, InDownload

\* The upload is stored and the child runs.
LEMMA SaveEffect ==
  ASSUME TypeOK, NEW w \in Workers, Save(w)
  PROVE  req[w].pc = "upload" /\ To(w, "run") /\ req' \in [Workers -> Request]
  BY MovesTo, MovesType DEF Save, Places, Scanning, Removing, InJob, InDownload

\* The request for a key pair ends.
LEMMA ShowLinksEffect ==
  ASSUME TypeOK, NEW w \in Workers, ShowLinks(w)
  PROVE  req[w].pc = "run2" /\ Off(w) /\ req' \in [Workers -> Request]
  BY MovesTo, MovesType DEF ShowLinks, Places, Scanning, Removing, InJob, InDownload

\* The download ends.
LEMMA ServedEffect ==
  ASSUME TypeOK, NEW w \in Workers, Served(w)
  PROVE  req[w].pc = "serve" /\ Off(w) /\ req' \in [Workers -> Request]
  BY MovesTo, MovesType DEF Served, Places, Scanning, Removing, InJob, InDownload

\* The job is removed when the upload cannot be stored.
LEMMA SaveFailsEffect ==
  ASSUME IInv, NEW w \in Workers, SaveFails(w)
  PROVE  req[w].pc = "upload" /\ Rm(w, req[w].job, "idle") /\ req' \in [Workers -> Request]
<1>1. req[w].pc = "upload" /\ TypeOK
  BY DEF SaveFails, Remove, IInv
<1>2. req[w].job \in used
  BY <1>1, JobsUsed DEF InJob
<1> QED BY <1>1, <1>2, RemoveRm, RemoveType DEF SaveFails

\* The job is removed when the response is closed.
LEMMA CloseResponseEffect ==
  ASSUME IInv, NEW w \in Workers, CloseResponse(w)
  PROVE  req[w].pc = "stream" /\ Rm(w, req[w].job, "idle") /\ req' \in [Workers -> Request]
<1>1. req[w].pc = "stream" /\ TypeOK
  BY DEF CloseResponse, Remove, IInv
<1>2. req[w].job \in used
  BY <1>1, JobsUsed DEF InJob
<1> QED BY <1>1, <1>2, RemoveRm, RemoveType DEF CloseResponse

\* The job is removed when the child fails.
LEMMA RunFailsEffect ==
  ASSUME IInv, NEW w \in Workers, RunFails(w)
  PROVE  /\ req[w].pc \in {"run", "run2"} /\ Rm(w, req[w].job, "idle")
         /\ req' \in [Workers -> Request]
<1>1. req[w].pc \in {"run", "run2"} /\ TypeOK
  BY DEF RunFails, IInv
<1>2. req[w].job \in used
  BY <1>1, JobsUsed DEF InJob
<1> QED BY <1>1, <1>2, RemoveRm, RemoveType DEF RunFails

\* The request ends where the handler raises.
LEMMA RunRaisesEffect ==
  ASSUME TypeOK, NEW w \in Workers, RunRaises(w)
  PROVE  req[w].pc \in {"upload", "run", "run2"} /\ Off(w) /\ req' \in [Workers -> Request]
  BY MovesTo, MovesType DEF RunRaises, Places

\* Where each kind of request goes after a run that succeeded.
LEMMA RunSucceedsEffect ==
  ASSUME IInv, NEW w \in Workers, RunSucceeds(w)
  PROVE  /\ req[w].pc = "run"
         /\ \/ req[w].kind = "check" /\ Rm(w, req[w].job, "idle")
            \/ req[w].kind = "compress" /\ To(w, "stream")
            \/ req[w].kind = "extract" /\ To(w, "pack")
            \/ req[w].kind = "keygen" /\ To(w, "run2")
         /\ req' \in [Workers -> Request]
<1>a. req[w].pc = "run" /\ TypeOK
  BY DEF RunSucceeds, Moves, Remove, IInv
<1>b. req[w].job \in used
  BY <1>a, JobsUsed DEF InJob
<1>1. CASE Remove(w, "run", req[w].job, "idle") /\ req[w].kind = "check"
  BY <1>a, <1>b, <1>1, RemoveRm, RemoveType
<1>2. CASE req[w].kind = "compress" /\ Moves(w, "run", "stream")
  BY <1>a, <1>b, <1>2, MovesTo, MovesType DEF Places, InJob
<1>3. CASE req[w].kind = "extract" /\ Moves(w, "run", "pack")
  BY <1>a, <1>b, <1>3, MovesTo, MovesType DEF Places, InJob
<1>4. CASE req[w].kind = "keygen" /\ Moves(w, "run", "run2")
  BY <1>a, <1>b, <1>4, MovesTo, MovesType DEF Places, InJob
<1> QED BY <1>1, <1>2, <1>3, <1>4 DEF RunSucceeds

\* The files are packed, or cannot be and the job is removed.
LEMMA PackEffect ==
  ASSUME IInv, NEW w \in Workers, Pack(w)
  PROVE  /\ req[w].pc = "pack"
         /\ \/ To(w, "stream") /\ UNCHANGED <<files, mtime>>
            \/ To(w, "stream") /\ Touch(req[w].job, files[req[w].job] \cup {"out"})
            \/ Rm(w, req[w].job, "idle") /\ UNCHANGED <<files, mtime>>
         /\ req' \in [Workers -> Request]
<1>a. req[w].pc = "pack" /\ TypeOK
  BY DEF Pack, Moves, Remove, IInv
<1>b. req[w].job \in used
  BY <1>a, JobsUsed DEF InJob
<1>1. CASE Moves(w, "pack", "stream") /\ UNCHANGED <<files, mtime>>
  BY <1>a, <1>b, <1>1, MovesTo, MovesType DEF Places, InJob
<1>2. CASE Moves(w, "pack", "stream") /\ Touch(req[w].job, files[req[w].job] \cup {"out"})
  BY <1>a, <1>b, <1>2, MovesTo, MovesType DEF Places, InJob
<1>3. CASE Remove(w, "pack", req[w].job, "idle") /\ UNCHANGED <<files, mtime>>
  BY <1>a, <1>b, <1>3, RemoveRm, RemoveType
<1> QED BY <1>1, <1>2, <1>3 DEF Pack

\* A download begins, of a known job.
LEMMA AskKeyEffect ==
  ASSUME IInv, NEW w \in Workers, NEW j \in Jobs, AskKey(w, j)
  PROVE  /\ Others(w) /\ req[w].pc = "handle" /\ req'[w].pc = "keystat"
         /\ req'[w].job = j /\ req'[w].began = req[w].began
         /\ req' \in [Workers -> Request]
<1>0. TypeOK /\ j \in used
  BY DEF IInv, Links, AskKey
<1>a. req[w] \in Request /\ "keystat" \in Places /\ "keygen" \in Kinds
  BY <1>0 DEF TypeOK, Places, InDownload, Kinds
<1>1. [req[w] EXCEPT !.pc = "keystat", !.cut = FALSE, !.job = j, !.kind = "keygen"] \in Request
  BY <1>0, <1>a DEF Request
<1>2. Enters(w, "keystat", j, "keygen")
  BY DEF AskKey
<1>3. /\ Others(w) /\ req[w].pc = "handle" /\ req'[w].pc = "keystat"
      /\ req'[w].job = j /\ req'[w].began = req[w].began
  BY <1>0, <1>2, EntersEffect
<1>4. Becomes(w, [req[w] EXCEPT !.pc = "keystat", !.cut = FALSE, !.job = j, !.kind = "keygen"])
  BY <1>2 DEF Enters
<1>5. req' \in [Workers -> Request]
  BY <1>0, <1>1, <1>4, BecomesType
<1> QED BY <1>3, <1>5

\* A job begins, with its child or before its upload.
LEMMA StartJobEffect ==
  ASSUME TypeOK, NEW w \in Workers, NEW j \in Jobs, NEW k \in Kinds, StartJob(w, j, k)
  PROVE  /\ Others(w) /\ req[w].pc = "handle" /\ req'[w].job = j /\ req'[w].kind = k
         /\ req'[w].began = req[w].began
         /\ \/ k = "keygen" /\ req'[w].pc = "run" /\ child' = [child EXCEPT ![j] = "private"]
            \/ k # "keygen" /\ req'[w].pc = "upload" /\ child' = child
  BY EntersEffect DEF StartJob

\* The three ways the look at the age of a key goes on.
LEMMA KeyStatEffect ==
  ASSUME IInv, NEW w \in Workers, KeyStat(w)
  PROVE  /\ req[w].pc = "keystat"
         /\ \/ Off(w)
            \/ /\ req[w].job \in present /\ clock <= mtime[req[w].job] + TTL
               /\ To(w, "keyopen")
            \/ /\ req[w].job \in present /\ clock > mtime[req[w].job] + TTL
               /\ Rm(w, req[w].job, "idle")
         /\ req' \in [Workers -> Request]
<1> DEFINE j == req[w].job
<1>a. req[w].pc = "keystat" /\ TypeOK
  BY DEF KeyStat, Moves, Remove, IInv
<1>b. req[w].job \in used
  BY <1>a, JobsUsed DEF InDownload
<1>1. CASE Moves(w, "keystat", "idle")
  BY <1>a, <1>b, <1>1, MovesTo, MovesType DEF Places
<1>2. CASE j \in present /\ clock <= mtime[j] + TTL /\ Moves(w, "keystat", "keyopen")
  BY <1>a, <1>b, <1>2, MovesTo, MovesType DEF Places, InDownload
<1>3. CASE j \in present /\ clock > mtime[j] + TTL /\ Remove(w, "keystat", j, "idle")
  BY <1>a, <1>b, <1>3, RemoveRm, RemoveType
<1> QED BY <1>1, <1>2, <1>3 DEF KeyStat

\* The key is sent or is gone.
LEMMA KeyOpenEffect ==
  ASSUME TypeOK, NEW w \in Workers, KeyOpen(w)
  PROVE  /\ req[w].pc = "keyopen" /\ (To(w, "serve") \/ Off(w))
         /\ req' \in [Workers -> Request]
  BY MovesTo, MovesType DEF KeyOpen, Places, InDownload

\* The request of a killed worker is over.
LEMMA KillEffect ==
  ASSUME TypeOK, NEW w \in Workers, Kill(w)
  PROVE  req[w].pc # "idle" /\ Off(w) /\ req' \in [Workers -> Request]
<1>1. Idle \in Request /\ Idle.pc = "idle"
  BY IdleRequest DEF Idle
<1> QED BY <1>1 DEF TypeOK, Kill, Off, Others

\* Every step keeps the types.
LEMMA TypeStep == IInv /\ [Next]_vars => TypeOK'
<1> SUFFICES ASSUME IInv, [Next]_vars PROVE TypeOK'
  OBVIOUS
<1>0. TypeOK
  BY DEF IInv
<1> USE <1>0, TimeAssumption DEF TypeOK, Never
<1>1. ASSUME NEW w \in Workers, Cleanup(w) \/ Rmtree(w) \/ Handler(w) \/ Kill(w)
      PROVE  TypeOK'
  <2>1. CASE Arrive(w)
    <3>1. req' \in [Workers -> Request]
      BY <2>1, ArriveEffect
    <3>2. used' = used /\ clock' = clock
      BY <2>1 DEF Arrive, dirVars
    <3>3. req' \in [Workers -> Request']
      BY <3>1, <3>2, RequestGrows
    <3> QED BY <2>1, <3>3 DEF Arrive, Touch, dirVars
  <2>2. ASSUME NEW j \in Jobs, Look(w, j) PROVE TypeOK'
    <3>1. req' \in [Workers -> Request]
      BY <2>2, LookEffect
    <3>2. used' = used /\ clock' = clock
      BY <2>2 DEF Look, dirVars
    <3>3. req' \in [Workers -> Request']
      BY <3>1, <3>2, RequestGrows
    <3> QED BY <2>2, <3>3 DEF Look, dirVars
  <2>3. CASE Stat(w)
    <3>1. req' \in [Workers -> Request]
      BY <2>3, StatEffect
    <3>2. used' = used /\ clock' = clock
      BY <2>3 DEF Stat, dirVars
    <3>3. req' \in [Workers -> Request']
      BY <3>1, <3>2, RequestGrows
    <3> QED BY <2>3, <3>3 DEF Stat, Touch, dirVars
  <2>4. CASE ScanDone(w)
    <3>1. req' \in [Workers -> Request]
      BY <2>4, ScanDoneEffect
    <3>2. used' = used /\ clock' = clock
      BY <2>4 DEF ScanDone, dirVars
    <3>3. req' \in [Workers -> Request']
      BY <3>1, <3>2, RequestGrows
    <3> QED BY <2>4, <3>3 DEF ScanDone, Touch, dirVars
  <2>5. CASE List(w)
    <3>1. req' \in [Workers -> Request]
      BY <2>5, ListEffect
    <3>2. used' = used /\ clock' = clock
      BY <2>5 DEF List, dirVars
    <3>3. req' \in [Workers -> Request']
      BY <3>1, <3>2, RequestGrows
    <3> QED BY <2>5, <3>3 DEF List, Touch, dirVars
  <2>6. ASSUME NEW e \in Entries, Unlink(w, e) PROVE TypeOK'
    <3>1. req' \in [Workers -> Request]
      BY <2>6, UnlinkEffect
    <3>2. used' = used /\ clock' = clock
      BY <2>6 DEF Unlink, dirVars
    <3>3. req' \in [Workers -> Request']
      BY <3>1, <3>2, RequestGrows
    <3> QED BY <2>6, <3>3 DEF Unlink, Touch, dirVars
  <2>7. CASE Rmdir(w)
    <3>1. req' \in [Workers -> Request]
      BY <2>7, RmdirEffect
    <3>2. used' = used /\ clock' = clock
      BY <2>7 DEF Rmdir, dirVars
    <3>3. req' \in [Workers -> Request']
      BY <3>1, <3>2, RequestGrows
    <3> QED BY <2>7, <3>3 DEF Rmdir, Touch, dirVars
  <2>8. CASE Answer(w)
    <3>1. req' \in [Workers -> Request]
      BY <2>8, AnswerEffect
    <3>2. used' = used /\ clock' = clock
      BY <2>8 DEF Answer, dirVars
    <3>3. req' \in [Workers -> Request']
      BY <3>1, <3>2, RequestGrows
    <3> QED BY <2>8, <3>3 DEF Answer, Touch, dirVars
  <2>9. ASSUME NEW j \in Jobs, NEW k \in Kinds, StartJob(w, j, k) PROVE TypeOK'
    <3>1. Request \subseteq Request' /\ clock \in Nat
      BY <2>9, RequestGrows DEF StartJob
    <3> DEFINE p == IF k = "keygen" THEN "run" ELSE "upload"
               r == [req[w] EXCEPT !.pc = p, !.cut = FALSE, !.job = j, !.kind = k]
    <3>2. req[w] \in Request' /\ j \in used'
      BY <2>9, <3>1 DEF StartJob
    <3>3. r \in Request'
      BY <3>2 DEF Request, Places, InJob
    <3>4. r.pc = p /\ p # "idle"
      BY <3>2 DEF Request
    <3>5. req' = [req EXCEPT ![w] = r]
      BY <2>9, <3>4 DEF StartJob, Enters, Becomes
    <3>6. req' \in [Workers -> Request']
      BY <3>1, <3>3, <3>5
    <3> QED BY <2>9, <3>1, <3>6 DEF StartJob, Touch, Kinds, Child, Running
  <2>10. CASE Save(w)
    <3>1. req' \in [Workers -> Request]
      BY <2>10, SaveEffect
    <3>2. used' = used /\ clock' = clock
      BY <2>10 DEF Save, dirVars
    <3>3. req' \in [Workers -> Request']
      BY <3>1, <3>2, RequestGrows
    <3>4. req[w].job \in used
      BY <2>10, SaveEffect, JobsUsed DEF InJob
    <3> QED BY <2>10, <3>3, <3>4 DEF Save, Touch, dirVars, Child, Running, Entries
  <2>11. CASE SaveFails(w)
    <3>1. req' \in [Workers -> Request]
      BY <2>11, SaveFailsEffect
    <3>2. used' = used /\ clock' = clock
      BY <2>11 DEF SaveFails, dirVars
    <3>3. req' \in [Workers -> Request']
      BY <3>1, <3>2, RequestGrows
    <3> QED BY <2>11, <3>3 DEF SaveFails, Touch, dirVars
  <2>12. CASE RunFails(w)
    <3>1. req' \in [Workers -> Request]
      BY <2>12, RunFailsEffect
    <3>2. used' = used /\ clock' = clock
      BY <2>12 DEF RunFails, dirVars
    <3>3. req' \in [Workers -> Request']
      BY <3>1, <3>2, RequestGrows
    <3>4. req[w].job \in used
      BY <2>12, RunFailsEffect, JobsUsed DEF InJob
    <3> QED BY <2>12, <3>3, <3>4 DEF RunFails, Touch, dirVars, Child, Running, Entries
  <2>13. CASE RunRaises(w)
    <3>1. req' \in [Workers -> Request]
      BY <2>13, RunRaisesEffect
    <3>2. used' = used /\ clock' = clock
      BY <2>13 DEF RunRaises, dirVars
    <3>3. req' \in [Workers -> Request']
      BY <3>1, <3>2, RequestGrows
    <3>4. req[w].job \in used
      BY <2>13, RunRaisesEffect, JobsUsed DEF InJob
    <3> QED BY <2>13, <3>3, <3>4 DEF RunRaises, Touch, dirVars, Child, Running, Entries
  <2>14. CASE RunSucceeds(w)
    <3>1. req' \in [Workers -> Request]
      BY <2>14, RunSucceedsEffect
    <3>2. used' = used /\ clock' = clock
      BY <2>14 DEF RunSucceeds, dirVars
    <3>3. req' \in [Workers -> Request']
      BY <3>1, <3>2, RequestGrows
    <3>4. req[w].job \in used
      BY <2>14, RunSucceedsEffect, JobsUsed DEF InJob
    <3> QED BY <2>14, <3>3, <3>4 DEF RunSucceeds, Touch, dirVars, Child, Running, Entries
  <2>15. CASE ShowLinks(w)
    <3>1. req' \in [Workers -> Request]
      BY <2>15, ShowLinksEffect
    <3>2. used' = used /\ clock' = clock
      BY <2>15 DEF ShowLinks, dirVars
    <3>3. req' \in [Workers -> Request']
      BY <3>1, <3>2, RequestGrows
    <3>4. req[w].job \in used
      BY <2>15, ShowLinksEffect, JobsUsed DEF InJob
    <3> QED BY <2>15, <3>3, <3>4 DEF ShowLinks, Touch, dirVars, Child, Running, Entries
  <2>16. CASE Pack(w)
    <3>1. req' \in [Workers -> Request]
      BY <2>16, PackEffect
    <3>2. used' = used /\ clock' = clock
      BY <2>16 DEF Pack, dirVars
    <3>3. req' \in [Workers -> Request']
      BY <3>1, <3>2, RequestGrows
    <3>4. req[w].job \in used
      BY <2>16, PackEffect, JobsUsed DEF InJob
    <3> QED BY <2>16, <3>3, <3>4 DEF Pack, Touch, dirVars, Child, Running, Entries
  <2>17. CASE CloseResponse(w)
    <3>1. req' \in [Workers -> Request]
      BY <2>17, CloseResponseEffect
    <3>2. used' = used /\ clock' = clock
      BY <2>17 DEF CloseResponse, dirVars
    <3>3. req' \in [Workers -> Request']
      BY <3>1, <3>2, RequestGrows
    <3> QED BY <2>17, <3>3 DEF CloseResponse, Touch, dirVars
  <2>18. ASSUME NEW j \in Jobs, AskKey(w, j) PROVE TypeOK'
    <3>1. req' \in [Workers -> Request]
      BY <2>18, AskKeyEffect
    <3>2. used' = used /\ clock' = clock
      BY <2>18 DEF AskKey, dirVars
    <3>3. req' \in [Workers -> Request']
      BY <3>1, <3>2, RequestGrows
    <3> QED BY <2>18, <3>3 DEF AskKey, Touch, dirVars
  <2>19. CASE KeyStat(w)
    <3>1. req' \in [Workers -> Request]
      BY <2>19, KeyStatEffect
    <3>2. used' = used /\ clock' = clock
      BY <2>19 DEF KeyStat, dirVars
    <3>3. req' \in [Workers -> Request']
      BY <3>1, <3>2, RequestGrows
    <3> QED BY <2>19, <3>3 DEF KeyStat, Touch, dirVars
  <2>20. CASE KeyOpen(w)
    <3>1. req' \in [Workers -> Request]
      BY <2>20, KeyOpenEffect
    <3>2. used' = used /\ clock' = clock
      BY <2>20 DEF KeyOpen, dirVars
    <3>3. req' \in [Workers -> Request']
      BY <3>1, <3>2, RequestGrows
    <3> QED BY <2>20, <3>3 DEF KeyOpen, Touch, dirVars
  <2>21. CASE Served(w)
    <3>1. req' \in [Workers -> Request]
      BY <2>21, ServedEffect
    <3>2. used' = used /\ clock' = clock
      BY <2>21 DEF Served, dirVars
    <3>3. req' \in [Workers -> Request']
      BY <3>1, <3>2, RequestGrows
    <3> QED BY <2>21, <3>3 DEF Served, Touch, dirVars
  <2>22. CASE Kill(w)
    <3>1. req' \in [Workers -> Request]
      BY <2>22, KillEffect
    <3>2. used' = used /\ clock' = clock
      BY <2>22 DEF Kill, dirVars
    <3>3. req' \in [Workers -> Request']
      BY <3>1, <3>2, RequestGrows
    <3>4. abandoned' \subseteq used
      BY <2>22, JobsUsed DEF IInv, Removals, Clearing, Kill
    <3> QED BY <2>22, <3>3, <3>4 DEF Kill, dirVars
  <2> QED
    BY <1>1, <2>1, <2>2, <2>3, <2>4, <2>5, <2>6, <2>7, <2>8, <2>9, <2>10, <2>11,
       <2>12, <2>13, <2>14, <2>15, <2>16, <2>17, <2>18, <2>19, <2>20, <2>21, <2>22
       DEF Cleanup, Rmtree, Handler
<1>2. ASSUME NEW j \in Jobs, ChildEnds(j) PROVE TypeOK'
  BY <1>2 DEF ChildEnds, Touch, Running, Child, Entries, Request
<1>3. CASE Tick
  <2>1. Request \subseteq Request'
    BY <1>3, RequestGrows DEF Tick, dirVars
  <2> QED BY <1>3, <2>1 DEF Tick, dirVars
<1>4. CASE UNCHANGED vars
  BY <1>4 DEF vars, dirVars, Request
<1> QED BY <1>1, <1>2, <1>3, <1>4 DEF Next

\* Every step keeps InTime: Tick waits for the oldest request.
LEMMA InTimeStep == IInv /\ [Next]_vars => InTime'
<1> SUFFICES ASSUME IInv, [Next]_vars PROVE InTime'
  OBVIOUS
<1>0. TypeOK
  BY DEF IInv
<1> USE <1>0, TimeAssumption DEF IInv, InTime, TypeOK, Request, Others, To, Off, Rm, dirVars
<1>1. ASSUME NEW w \in Workers, Cleanup(w) \/ Rmtree(w) \/ Handler(w) \/ Kill(w)
      PROVE  InTime'
  <2>1. CASE Arrive(w)
    BY <2>1, ArriveEffect DEF Arrive
  <2>2. ASSUME NEW j \in Jobs, Look(w, j) PROVE InTime'
    BY <2>2, LookEffect DEF Look
  <2>3. CASE Stat(w)
    BY <2>3, StatEffect DEF Stat
  <2>4. CASE ScanDone(w)
    BY <2>4, ScanDoneEffect DEF ScanDone
  <2>5. CASE List(w)
    BY <2>5, ListEffect DEF List
  <2>6. ASSUME NEW e \in Entries, Unlink(w, e) PROVE InTime'
    BY <2>6, UnlinkEffect DEF Unlink
  <2>7. CASE Rmdir(w)
    BY <2>7, RmdirEffect DEF Rmdir
  <2>8. CASE Answer(w)
    BY <2>8, AnswerEffect DEF Answer
  <2>9. ASSUME NEW j \in Jobs, NEW k \in Kinds, StartJob(w, j, k) PROVE InTime'
    BY <2>9, StartJobEffect DEF StartJob
  <2>10. CASE Save(w)
    BY <2>10, SaveEffect DEF Save
  <2>11. CASE SaveFails(w)
    BY <2>11, SaveFailsEffect DEF SaveFails
  <2>12. CASE RunFails(w)
    BY <2>12, RunFailsEffect DEF RunFails
  <2>13. CASE RunRaises(w)
    BY <2>13, RunRaisesEffect DEF RunRaises
  <2>14. CASE RunSucceeds(w)
    <3>1. Others(w) /\ (req'[w].pc = "idle" \/ req'[w].began = req[w].began)
      BY <2>14, RunSucceedsEffect
    <3>2. req[w].pc = "run" /\ clock' = clock
      BY <2>14, RunSucceedsEffect DEF RunSucceeds
    <3> QED BY <3>1, <3>2
  <2>15. CASE ShowLinks(w)
    BY <2>15, ShowLinksEffect DEF ShowLinks
  <2>16. CASE Pack(w)
    BY <2>16, PackEffect DEF Pack
  <2>17. CASE CloseResponse(w)
    BY <2>17, CloseResponseEffect DEF CloseResponse
  <2>18. ASSUME NEW j \in Jobs, AskKey(w, j) PROVE InTime'
    BY <2>18, AskKeyEffect DEF AskKey
  <2>19. CASE KeyStat(w)
    BY <2>19, KeyStatEffect DEF KeyStat
  <2>20. CASE KeyOpen(w)
    BY <2>20, KeyOpenEffect DEF KeyOpen
  <2>21. CASE Served(w)
    BY <2>21, ServedEffect DEF Served
  <2>22. CASE Kill(w)
    BY <2>22, KillEffect DEF Kill
  <2> QED
    BY <1>1, <2>1, <2>2, <2>3, <2>4, <2>5, <2>6, <2>7, <2>8, <2>9, <2>10, <2>11,
       <2>12, <2>13, <2>14, <2>15, <2>16, <2>17, <2>18, <2>19, <2>20, <2>21, <2>22
       DEF Cleanup, Rmtree, Handler
<1>2. ASSUME NEW j \in Jobs, ChildEnds(j) PROVE InTime'
  BY <1>2 DEF ChildEnds
<1>3. CASE Tick
  BY <1>3 DEF Tick
<1>4. CASE UNCHANGED vars
  BY <1>4 DEF vars, dirVars
<1> QED BY <1>1, <1>2, <1>3, <1>4 DEF Next

\* A request that works owns its job, whose links are not shown.
LEMMA JobOwned ==
  ASSUME IInv, NEW w \in Workers, req[w].pc \in InJob
  PROVE  Owns(w) /\ req[w].job \in used /\ shown[req[w].job] = Never
  BY DEF IInv, TypeOK, Owned, Owns, Working

\* Downloads stays where nothing new is on its way.
LEMMA DownloadsKept ==
  ASSUME Downloads, TypeOK, used \subseteq used', removing \subseteq removing',
         \A j \in Jobs : shown[j] # Never => shown'[j] = shown[j],
         \A v \in Workers : req'[v].pc \in InDownload =>
           /\ req[v].pc \in InDownload /\ req'[v].job = req[v].job
           /\ req'[v].began = req[v].began
           /\ req'[v].pc # "keystat" => req[v].pc # "keystat"
  PROVE  Downloads'
<1> SUFFICES ASSUME NEW v \in Workers, req'[v].pc \in InDownload
             PROVE  /\ req'[v].job \in used' /\ shown'[req'[v].job] # Never'
                    /\ req'[v].pc # "keystat" =>
                         req'[v].began <= shown'[req'[v].job] + TTL \/ req'[v].job \in removing'
  BY DEF Downloads
<1> DEFINE j == req[v].job
<1>1. /\ j \in used /\ shown[j] # Never
      /\ req[v].pc # "keystat" => req[v].began <= shown[j] + TTL \/ j \in removing
  BY DEF Downloads
<1>2. j \in Jobs /\ shown'[j] = shown[j]
  BY <1>1 DEF TypeOK
<1> QED BY <1>1, <1>2 DEF Never

\* Every step keeps Downloads.
LEMMA DownloadsStep == IInv /\ [Next]_vars => Downloads'
<1> SUFFICES ASSUME IInv, [Next]_vars PROVE Downloads'
  OBVIOUS
<1>0. TypeOK
  BY DEF IInv
<1> USE <1>0, TimeAssumption DEF IInv, InDownload,
    Others, To, Off, Rm, dirVars, Touch
<1>1. ASSUME NEW w \in Workers, Cleanup(w) \/ Rmtree(w) \/ Handler(w) \/ Kill(w)
      PROVE  Downloads'
  <2>1. CASE Arrive(w)
    BY <2>1, ArriveEffect, DownloadsKept DEF Arrive
  <2>2. ASSUME NEW j \in Jobs, Look(w, j) PROVE Downloads'
    BY <2>2, LookEffect, DownloadsKept DEF Look
  <2>3. CASE Stat(w)
    BY <2>3, StatEffect, DownloadsKept DEF Stat
  <2>4. CASE ScanDone(w)
    BY <2>4, ScanDoneEffect, DownloadsKept DEF ScanDone
  <2>5. CASE List(w)
    BY <2>5, ListEffect, DownloadsKept DEF List
  <2>6. ASSUME NEW e \in Entries, Unlink(w, e) PROVE Downloads'
    BY <2>6, UnlinkEffect, DownloadsKept DEF Unlink
  <2>7. CASE Rmdir(w)
    BY <2>7, RmdirEffect, DownloadsKept DEF Rmdir
  <2>8. CASE Answer(w)
    BY <2>8, AnswerEffect, DownloadsKept DEF Answer
  <2>9. ASSUME NEW j \in Jobs, NEW k \in Kinds, StartJob(w, j, k) PROVE Downloads'
    BY <2>9, StartJobEffect, DownloadsKept DEF StartJob
  <2>10. CASE Save(w)
    BY <2>10, SaveEffect, DownloadsKept DEF Save
  <2>11. CASE SaveFails(w)
    BY <2>11, SaveFailsEffect, DownloadsKept DEF SaveFails
  <2>12. CASE RunFails(w)
    BY <2>12, RunFailsEffect, DownloadsKept DEF RunFails
  <2>13. CASE RunRaises(w)
    BY <2>13, RunRaisesEffect, DownloadsKept DEF RunRaises
  <2>14. CASE RunSucceeds(w)
    <3>1. Others(w) /\ req'[w].pc \notin InDownload
      BY <2>14, RunSucceedsEffect
    <3>2. UNCHANGED <<used, removing, shown>>
      BY <2>14 DEF RunSucceeds
    <3> QED BY <3>1, <3>2, DownloadsKept
  <2>15. CASE ShowLinks(w)
    <3>1. shown[req[w].job] = Never
      BY <2>15, ShowLinksEffect, JobOwned DEF InJob
    <3>2. ASSUME NEW j \in Jobs, shown[j] # Never PROVE shown'[j] = shown[j]
      BY <2>15, <3>1, <3>2 DEF ShowLinks, TypeOK
    <3>3. UNCHANGED <<used, removing>>
      BY <2>15 DEF ShowLinks
    <3>4. Off(w)
      BY <2>15, ShowLinksEffect
    <3> QED BY <3>2, <3>3, <3>4, DownloadsKept
  <2>16. CASE Pack(w)
    BY <2>16, PackEffect, DownloadsKept DEF Pack
  <2>17. CASE CloseResponse(w)
    BY <2>17, CloseResponseEffect, DownloadsKept DEF CloseResponse
  <2>18. ASSUME NEW j \in Jobs, AskKey(w, j) PROVE Downloads'
    <3>1. j \in used
      BY <2>18 DEF IInv, Links, AskKey
    <3>2. \A v \in Workers \ {w} : req'[v] = req[v]
      BY <2>18, AskKeyEffect DEF Others
    <3>3. req'[w].pc = "keystat" /\ req'[w].job = j
      BY <2>18, AskKeyEffect
    <3>4. UNCHANGED <<used, shown, removing>> /\ shown[j] # Never
      BY <2>18 DEF AskKey
    <3> QED BY <3>1, <3>2, <3>3, <3>4 DEF Downloads
  <2>19. CASE KeyStat(w)
    <3> DEFINE j == req[w].job
    <3>1. UNCHANGED <<used, shown, removing>> /\ TypeOK
      BY <2>19 DEF KeyStat
    <3>2. CASE Off(w) \/ Rm(w, j, "idle")
      BY <3>1, <3>2, DownloadsKept DEF Off, Rm
    <3>3. CASE j \in present /\ clock <= mtime[j] + TTL /\ To(w, "keyopen")
      <4>1. req[w].pc = "keystat"
        BY <2>19, KeyStatEffect
      <4>2. j \in used /\ shown[j] # Never
        BY <4>1 DEF Downloads
      <4>3. mtime[j] <= shown[j] \/ j \in removing
        BY <4>2 DEF IInv, Links, TypeOK
      <4>4. mtime[j] \in Nat /\ shown[j] \in Nat /\ clock \in Nat /\ req[w].began \in Nat
            /\ req[w].began <= clock
        BY <3>1, <4>2 DEF TypeOK, Request, Never
      <4>5. req[w].began <= shown[j] + TTL \/ j \in removing
        BY <3>3, <4>3, <4>4
      <4>6. \A v \in Workers \ {w} : req'[v] = req[v]
        BY <3>3 DEF To
      <4>7. req'[w].job = j /\ req'[w].began = req[w].began
        BY <3>3 DEF To
      <4> QED BY <3>1, <4>2, <4>5, <4>6, <4>7 DEF Downloads
    <3> QED BY <2>19, <3>2, <3>3, KeyStatEffect
  <2>20. CASE KeyOpen(w)
    BY <2>20, KeyOpenEffect, DownloadsKept DEF KeyOpen
  <2>21. CASE Served(w)
    BY <2>21, ServedEffect, DownloadsKept DEF Served
  <2>22. CASE Kill(w)
    BY <2>22, KillEffect, DownloadsKept DEF Kill
  <2> QED
    BY <1>1, <2>1, <2>2, <2>3, <2>4, <2>5, <2>6, <2>7, <2>8, <2>9, <2>10, <2>11,
       <2>12, <2>13, <2>14, <2>15, <2>16, <2>17, <2>18, <2>19, <2>20, <2>21, <2>22
       DEF Cleanup, Rmtree, Handler
<1>2. ASSUME NEW j \in Jobs, ChildEnds(j) PROVE Downloads'
  BY <1>2, DownloadsKept DEF ChildEnds
<1>3. CASE Tick
  BY <1>3, DownloadsKept DEF Tick, dirVars
<1>4. CASE UNCHANGED vars
  BY <1>4, DownloadsKept DEF vars
<1> QED BY <1>1, <1>2, <1>3, <1>4 DEF Next

\* Links stays where no more is shown and what is shown is let alone.
LEMMA LinksKept ==
  ASSUME Links, TypeOK, used \subseteq used', removing \subseteq removing',
         \A j \in Jobs : shown'[j] # Never =>
           /\ shown'[j] = shown[j] /\ child'[j] = child[j]
           /\ mtime'[j] = mtime[j] \/ j \in removing
  PROVE  Links'
  BY DEF Links, Never

\* Every step keeps Links.
LEMMA LinksStep == IInv /\ [Next]_vars => Links'
<1> SUFFICES ASSUME IInv, [Next]_vars PROVE Links'
  OBVIOUS
<1>0. TypeOK
  BY DEF IInv
<1> USE <1>0, TimeAssumption DEF IInv, dirVars, Touch
<1>1. ASSUME NEW w \in Workers, Cleanup(w) \/ Rmtree(w) \/ Handler(w) \/ Kill(w)
      PROVE  Links'
  <2>1. CASE Arrive(w)
    BY <2>1, ArriveEffect, LinksKept DEF Arrive
  <2>2. ASSUME NEW j \in Jobs, Look(w, j) PROVE Links'
    BY <2>2, LookEffect, LinksKept DEF Look
  <2>3. CASE Stat(w)
    BY <2>3, StatEffect, LinksKept DEF Stat
  <2>4. CASE ScanDone(w)
    BY <2>4, ScanDoneEffect, LinksKept DEF ScanDone
  <2>5. CASE List(w)
    BY <2>5, ListEffect, LinksKept DEF List
  <2>6. ASSUME NEW e \in Entries, Unlink(w, e) PROVE Links'
    <3>1. req[w].victim \in removing
      BY <2>6, UnlinkEffect DEF Removals, Clearing, Removing
    <3> QED BY <2>6, <3>1, LinksKept DEF Unlink, TypeOK
  <2>7. CASE Rmdir(w)
    BY <2>7, RmdirEffect, LinksKept DEF Rmdir
  <2>8. CASE Answer(w)
    BY <2>8, AnswerEffect, LinksKept DEF Answer
  <2>9. ASSUME NEW j \in Jobs, NEW k \in Kinds, StartJob(w, j, k) PROVE Links'
    <3>1. shown[j] = Never
      BY <2>9 DEF Links, StartJob
    <3> QED BY <2>9, <3>1, LinksKept DEF StartJob, TypeOK
  <2>10. CASE Save(w)
    <3>1. shown[req[w].job] = Never /\ req[w].job \in Jobs
      BY <2>10, SaveEffect, JobOwned DEF InJob, TypeOK
    <3> QED BY <2>10, <3>1, LinksKept DEF Save, TypeOK
  <2>11. CASE SaveFails(w)
    BY <2>11, SaveFailsEffect, LinksKept DEF SaveFails
  <2>12. CASE RunFails(w)
    <3>1. shown[req[w].job] = Never /\ req[w].job \in Jobs
      BY <2>12, RunFailsEffect, JobOwned DEF InJob, TypeOK
    <3> QED BY <2>12, <3>1, LinksKept DEF RunFails, TypeOK
  <2>13. CASE RunRaises(w)
    <3>1. shown[req[w].job] = Never /\ req[w].job \in Jobs
      BY <2>13, RunRaisesEffect, JobOwned DEF InJob, TypeOK
    <3> QED BY <2>13, <3>1, LinksKept DEF RunRaises, TypeOK
  <2>14. CASE RunSucceeds(w)
    <3>1. shown[req[w].job] = Never /\ req[w].job \in Jobs
      BY <2>14, RunSucceedsEffect, JobOwned DEF InJob, TypeOK
    <3> QED BY <2>14, <3>1, LinksKept DEF RunSucceeds, TypeOK
  <2>15. CASE ShowLinks(w)
    <3> DEFINE i == req[w].job
    <3>1. i \in used /\ i \in Jobs
      BY <2>15, ShowLinksEffect, JobOwned DEF InJob, TypeOK
    <3>2. /\ shown' = [shown EXCEPT ![i] = clock] /\ child' = [child EXCEPT ![i] = "none"]
          /\ UNCHANGED <<used, mtime, removing>>
      BY <2>15 DEF ShowLinks
    <3>3. mtime[i] <= clock
      BY <3>1 DEF TypeOK
    <3>4. ASSUME NEW n \in Jobs, n # i PROVE shown'[n] = shown[n] /\ child'[n] = child[n]
      BY <3>2, <3>4 DEF TypeOK
    <3>5. shown'[i] = clock /\ child'[i] = "none"
      BY <3>1, <3>2 DEF TypeOK
    <3> QED BY <3>1, <3>2, <3>3, <3>4, <3>5 DEF Links, Never
  <2>16. CASE Pack(w)
    <3>1. shown[req[w].job] = Never /\ req[w].job \in Jobs
      BY <2>16, PackEffect, JobOwned DEF InJob, TypeOK
    <3> QED BY <2>16, <3>1, LinksKept DEF Pack, TypeOK
  <2>17. CASE CloseResponse(w)
    BY <2>17, CloseResponseEffect, LinksKept DEF CloseResponse
  <2>18. ASSUME NEW j \in Jobs, AskKey(w, j) PROVE Links'
    BY <2>18, AskKeyEffect, LinksKept DEF AskKey
  <2>19. CASE KeyStat(w)
    BY <2>19, KeyStatEffect, LinksKept DEF KeyStat
  <2>20. CASE KeyOpen(w)
    BY <2>20, KeyOpenEffect, LinksKept DEF KeyOpen
  <2>21. CASE Served(w)
    BY <2>21, ServedEffect, LinksKept DEF Served
  <2>22. CASE Kill(w)
    BY <2>22, KillEffect, LinksKept DEF Kill
  <2> QED
    BY <1>1, <2>1, <2>2, <2>3, <2>4, <2>5, <2>6, <2>7, <2>8, <2>9, <2>10, <2>11,
       <2>12, <2>13, <2>14, <2>15, <2>16, <2>17, <2>18, <2>19, <2>20, <2>21, <2>22
       DEF Cleanup, Rmtree, Handler
<1>2. ASSUME NEW j \in Jobs, ChildEnds(j) PROVE Links'
  <2>1. child[j] # "none"
    BY <1>2 DEF ChildEnds, Running
  <2>2. shown[j] = Never
    BY <2>1 DEF Links
  <2> QED BY <1>2, <2>2, LinksKept DEF ChildEnds, TypeOK
<1>3. CASE Tick
  BY <1>3, LinksKept DEF Tick, dirVars
<1>4. CASE UNCHANGED vars
  BY <1>4, LinksKept DEF vars
<1> QED BY <1>1, <1>2, <1>3, <1>4 DEF Next

-----------------------------------------------------------------------------
(* A step of a worker changes at most the directory it works on, or removes *)
(* or makes.                                                               *)

Step(w) == Cleanup(w) \/ Rmtree(w) \/ Handler(w) \/ Kill(w)

OnlyTouches(t) ==
  \A j \in Jobs \ {t} :
    /\ j \in used' <=> j \in used
    /\ j \in present' <=> j \in present
    /\ files'[j] = files[j] /\ mtime'[j] = mtime[j]
    /\ child'[j] = child[j] /\ shown'[j] = shown[j]
    /\ j \in removing' <=> j \in removing
    /\ j \in abandoned' <=> j \in abandoned

\* A step of a worker leaves the requests of the others as they are.
LEMMA OthersStay ==
  ASSUME IInv, NEW w \in Workers, Step(w)
  PROVE  Others(w)
<1>0. TypeOK
  BY DEF IInv
<1>1. CASE Arrive(w)
  BY <1>0, <1>1, ArriveEffect DEF To, Off, Rm
<1>2. ASSUME NEW j \in Jobs, Look(w, j) PROVE Others(w)
  BY <1>0, <1>2, LookEffect DEF To, Off, Rm
<1>3. CASE Stat(w)
  BY <1>0, <1>3, StatEffect DEF To, Off, Rm
<1>4. CASE ScanDone(w)
  BY <1>0, <1>4, ScanDoneEffect DEF To, Off, Rm
<1>5. CASE List(w)
  BY <1>0, <1>5, ListEffect DEF To, Off, Rm
<1>6. ASSUME NEW e \in Entries, Unlink(w, e) PROVE Others(w)
  BY <1>0, <1>6, UnlinkEffect DEF To, Off, Rm
<1>7. CASE Rmdir(w)
  BY <1>0, <1>7, RmdirEffect DEF To, Off, Rm
<1>8. CASE Answer(w)
  BY <1>0, <1>8, AnswerEffect DEF To, Off, Rm
<1>9. ASSUME NEW j \in Jobs, NEW k \in Kinds, StartJob(w, j, k) PROVE Others(w)
  BY <1>0, <1>9, StartJobEffect DEF To, Off, Rm
<1>10. CASE Save(w)
  BY <1>0, <1>10, SaveEffect DEF To, Off, Rm
<1>11. CASE SaveFails(w)
  BY <1>0, <1>11, SaveFailsEffect DEF To, Off, Rm
<1>12. CASE RunFails(w)
  BY <1>0, <1>12, RunFailsEffect DEF To, Off, Rm
<1>13. CASE RunRaises(w)
  BY <1>0, <1>13, RunRaisesEffect DEF To, Off, Rm
<1>14. CASE RunSucceeds(w)
  BY <1>0, <1>14, RunSucceedsEffect DEF To, Off, Rm
<1>15. CASE ShowLinks(w)
  BY <1>0, <1>15, ShowLinksEffect DEF To, Off, Rm
<1>16. CASE Pack(w)
  BY <1>0, <1>16, PackEffect DEF To, Off, Rm
<1>17. CASE CloseResponse(w)
  BY <1>0, <1>17, CloseResponseEffect DEF To, Off, Rm
<1>18. ASSUME NEW j \in Jobs, AskKey(w, j) PROVE Others(w)
  BY <1>0, <1>18, AskKeyEffect DEF To, Off, Rm
<1>19. CASE KeyStat(w)
  BY <1>0, <1>19, KeyStatEffect DEF To, Off, Rm
<1>20. CASE KeyOpen(w)
  BY <1>0, <1>20, KeyOpenEffect DEF To, Off, Rm
<1>21. CASE Served(w)
  BY <1>0, <1>21, ServedEffect DEF To, Off, Rm
<1>22. CASE Kill(w)
  BY <1>0, <1>22, KillEffect DEF To, Off, Rm
<1> QED
  BY <1>1, <1>2, <1>3, <1>4, <1>5, <1>6, <1>7, <1>8, <1>9, <1>10, <1>11,
     <1>12, <1>13, <1>14, <1>15, <1>16, <1>17, <1>18, <1>19, <1>20, <1>21, <1>22
     DEF Step, Cleanup, Rmtree, Handler

\* The directory a request is about.
Mine(w) == IF Clearing(w) THEN req[w].victim ELSE req[w].job

\* A step of a worker is confined to one directory: its own, or a new one.
LEMMA Footprint ==
  ASSUME IInv, NEW w \in Workers, Step(w)
  PROVE  \/ OnlyTouches(Mine(w)) /\ (~Working(w) /\ ~Clearing(w) => OnlyTouches(NoJob))
         \/ \E j \in Jobs, k \in Kinds : StartJob(w, j, k) /\ OnlyTouches(j)
<1> DEFINE G == OnlyTouches(Mine(w)) /\ (~Working(w) /\ ~Clearing(w) => OnlyTouches(NoJob))
<1>0. TypeOK
  BY DEF IInv
<1>1. CASE Arrive(w)
  BY <1>1 DEF Arrive, OnlyTouches, dirVars
<1>2. ASSUME NEW j \in Jobs, Look(w, j) PROVE G
  BY <1>2 DEF Look, OnlyTouches, dirVars
<1>3. CASE Stat(w)
  BY <1>3 DEF Stat, OnlyTouches, dirVars
<1>4. CASE ScanDone(w)
  BY <1>4 DEF ScanDone, OnlyTouches, dirVars
<1>5. CASE List(w)
  <2>1. Clearing(w)
    BY <1>0, <1>5, ListEffect DEF Clearing, Removing
  <2>2. OnlyTouches(req[w].victim)
    BY <1>0, <1>5 DEF List, OnlyTouches, Touch, dirVars, TypeOK
  <2> QED BY <2>1, <2>2 DEF Mine
<1>6. ASSUME NEW e \in Entries, Unlink(w, e) PROVE G
  <2>1. Clearing(w)
    BY <1>0, <1>6, UnlinkEffect DEF Clearing, Removing
  <2>2. OnlyTouches(req[w].victim)
    BY <1>0, <1>6 DEF Unlink, OnlyTouches, Touch, dirVars, TypeOK
  <2> QED BY <2>1, <2>2 DEF Mine
<1>7. CASE Rmdir(w)
  <2>1. Clearing(w)
    BY <1>0, <1>7, RmdirEffect DEF Clearing, Removing
  <2>2. OnlyTouches(req[w].victim)
    BY <1>0, <1>7 DEF Rmdir, OnlyTouches, Touch, dirVars, TypeOK
  <2> QED BY <2>1, <2>2 DEF Mine
<1>8. CASE Answer(w)
  BY <1>8 DEF Answer, OnlyTouches, dirVars
<1>9. ASSUME NEW j \in Jobs, NEW k \in Kinds, StartJob(w, j, k) PROVE OnlyTouches(j)
  BY <1>0, <1>9 DEF StartJob, OnlyTouches, Touch, TypeOK
<1>10. CASE Save(w)
  <2>1. Working(w) /\ ~Clearing(w)
    BY <1>0, <1>10, SaveEffect DEF Working, Clearing, InJob, Removing
  <2>2. OnlyTouches(req[w].job)
    BY <1>0, <1>10 DEF Save, OnlyTouches, Touch, dirVars, TypeOK
  <2> QED BY <2>1, <2>2 DEF Mine
<1>11. CASE SaveFails(w)
  BY <1>11 DEF SaveFails, OnlyTouches, dirVars
<1>12. CASE RunFails(w)
  <2>1. Working(w) /\ ~Clearing(w)
    BY <1>0, <1>12, RunFailsEffect DEF Working, Clearing, InJob, Removing
  <2>2. OnlyTouches(req[w].job)
    BY <1>0, <1>12 DEF RunFails, OnlyTouches, Touch, dirVars, TypeOK
  <2> QED BY <2>1, <2>2 DEF Mine
<1>13. CASE RunRaises(w)
  <2>1. Working(w) /\ ~Clearing(w)
    BY <1>0, <1>13, RunRaisesEffect DEF Working, Clearing, InJob, Removing
  <2>2. OnlyTouches(req[w].job)
    BY <1>0, <1>13 DEF RunRaises, OnlyTouches, Touch, dirVars, TypeOK
  <2> QED BY <2>1, <2>2 DEF Mine
<1>14. CASE RunSucceeds(w)
  <2>1. Working(w) /\ ~Clearing(w)
    BY <1>0, <1>14, RunSucceedsEffect DEF Working, Clearing, InJob, Removing
  <2>2. OnlyTouches(req[w].job)
    BY <1>0, <1>14 DEF RunSucceeds, OnlyTouches, Touch, dirVars, TypeOK
  <2> QED BY <2>1, <2>2 DEF Mine
<1>15. CASE ShowLinks(w)
  <2>1. Working(w) /\ ~Clearing(w)
    BY <1>0, <1>15, ShowLinksEffect DEF Working, Clearing, InJob, Removing
  <2>2. OnlyTouches(req[w].job)
    BY <1>0, <1>15 DEF ShowLinks, OnlyTouches, Touch, dirVars, TypeOK
  <2> QED BY <2>1, <2>2 DEF Mine
<1>16. CASE Pack(w)
  <2>1. Working(w) /\ ~Clearing(w)
    BY <1>0, <1>16, PackEffect DEF Working, Clearing, InJob, Removing
  <2>2. OnlyTouches(req[w].job)
    BY <1>0, <1>16 DEF Pack, OnlyTouches, Touch, dirVars, TypeOK
  <2> QED BY <2>1, <2>2 DEF Mine
<1>17. CASE CloseResponse(w)
  BY <1>17 DEF CloseResponse, OnlyTouches, dirVars
<1>18. ASSUME NEW j \in Jobs, AskKey(w, j) PROVE G
  BY <1>18 DEF AskKey, OnlyTouches, dirVars
<1>19. CASE KeyStat(w)
  BY <1>19 DEF KeyStat, OnlyTouches, dirVars
<1>20. CASE KeyOpen(w)
  BY <1>20 DEF KeyOpen, OnlyTouches, dirVars
<1>21. CASE Served(w)
  BY <1>21 DEF Served, OnlyTouches, dirVars
<1>22. CASE Kill(w)
  BY <1>22 DEF Kill, OnlyTouches, dirVars, Mine, Working, Clearing, InJob, Removing
<1> QED
  BY <1>1, <1>2, <1>3, <1>4, <1>5, <1>6, <1>7, <1>8, <1>9, <1>10, <1>11,
     <1>12, <1>13, <1>14, <1>15, <1>16, <1>17, <1>18, <1>19, <1>20, <1>21, <1>22
     DEF Step, Cleanup, Rmtree, Handler

\* A step of a worker lets no directory grow older, and forgets nothing.
LEMMA TimesGrow ==
  ASSUME IInv, NEW w \in Workers, Step(w)
  PROVE  /\ clock' = clock /\ used \subseteq used'
         /\ removing \subseteq removing' /\ abandoned \subseteq abandoned'
         /\ \A j \in Jobs : mtime'[j] = mtime[j] \/ mtime'[j] = clock
         /\ \A j \in Jobs : j \in present' => j \in present \/ mtime'[j] = clock
<1> DEFINE G == /\ clock' = clock /\ used \subseteq used'
                /\ removing \subseteq removing' /\ abandoned \subseteq abandoned'
                /\ \A j \in Jobs : mtime'[j] = mtime[j] \/ mtime'[j] = clock
                /\ \A j \in Jobs : j \in present' => j \in present \/ mtime'[j] = clock
<1>0. TypeOK
  BY DEF IInv
<1>1. CASE Arrive(w)
  BY <1>0, <1>1 DEF Arrive, Touch, dirVars, TypeOK
<1>2. ASSUME NEW j \in Jobs, Look(w, j) PROVE G
  BY <1>0, <1>2 DEF Look, Touch, dirVars, TypeOK
<1>3. CASE Stat(w)
  BY <1>0, <1>3 DEF Stat, Touch, dirVars, TypeOK
<1>4. CASE ScanDone(w)
  BY <1>0, <1>4 DEF ScanDone, Touch, dirVars, TypeOK
<1>5. CASE List(w)
  BY <1>0, <1>5 DEF List, Touch, dirVars, TypeOK
<1>6. ASSUME NEW e \in Entries, Unlink(w, e) PROVE G
  BY <1>0, <1>6 DEF Unlink, Touch, dirVars, TypeOK
<1>7. CASE Rmdir(w)
  BY <1>0, <1>7 DEF Rmdir, Touch, dirVars, TypeOK
<1>8. CASE Answer(w)
  BY <1>0, <1>8 DEF Answer, Touch, dirVars, TypeOK
<1>9. ASSUME NEW j \in Jobs, NEW k \in Kinds, StartJob(w, j, k) PROVE G
  BY <1>0, <1>9 DEF StartJob, Touch, dirVars, TypeOK
<1>10. CASE Save(w)
  BY <1>0, <1>10 DEF Save, Touch, dirVars, TypeOK
<1>11. CASE SaveFails(w)
  BY <1>0, <1>11 DEF SaveFails, Touch, dirVars, TypeOK
<1>12. CASE RunFails(w)
  BY <1>0, <1>12 DEF RunFails, Touch, dirVars, TypeOK
<1>13. CASE RunRaises(w)
  BY <1>0, <1>13 DEF RunRaises, Touch, dirVars, TypeOK
<1>14. CASE RunSucceeds(w)
  BY <1>0, <1>14 DEF RunSucceeds, Touch, dirVars, TypeOK
<1>15. CASE ShowLinks(w)
  BY <1>0, <1>15 DEF ShowLinks, Touch, dirVars, TypeOK
<1>16. CASE Pack(w)
  BY <1>0, <1>16 DEF Pack, Touch, dirVars, TypeOK
<1>17. CASE CloseResponse(w)
  BY <1>0, <1>17 DEF CloseResponse, Touch, dirVars, TypeOK
<1>18. ASSUME NEW j \in Jobs, AskKey(w, j) PROVE G
  BY <1>0, <1>18 DEF AskKey, Touch, dirVars, TypeOK
<1>19. CASE KeyStat(w)
  BY <1>0, <1>19 DEF KeyStat, Touch, dirVars, TypeOK
<1>20. CASE KeyOpen(w)
  BY <1>0, <1>20 DEF KeyOpen, Touch, dirVars, TypeOK
<1>21. CASE Served(w)
  BY <1>0, <1>21 DEF Served, Touch, dirVars, TypeOK
<1>22. CASE Kill(w)
  BY <1>0, <1>22 DEF Kill, Touch, dirVars, TypeOK
<1> QED
  BY <1>1, <1>2, <1>3, <1>4, <1>5, <1>6, <1>7, <1>8, <1>9, <1>10, <1>11,
     <1>12, <1>13, <1>14, <1>15, <1>16, <1>17, <1>18, <1>19, <1>20, <1>21, <1>22
     DEF Step, Cleanup, Rmtree, Handler

-----------------------------------------------------------------------------
(* cleanup_old_jobs looks at everything.                                   *)

ScanOf(v) ==
  /\ req[v].pc \in Scanning \/ (Clearing(v) /\ req[v].after = "scan") =>
       \A j \in present :
         \/ j \in req[v].todo \/ req[v].began <= mtime[j] + TTL
         \/ req[v].pc # "scan" /\ j = req[v].victim
  /\ req[v].pc = "stat" => req[v].victim \in used
  /\ req[v].pc = "handle" /\ ~req[v].cut => \A j \in present : req[v].began <= mtime[j] + TTL

\* What one worker knows of the scan stays true while the others go on.
LEMMA ScanKept ==
  ASSUME TypeOK, NEW v \in Workers, ScanOf(v), req'[v] = req[v],
         used \subseteq used', present' \subseteq Jobs,
         \A j \in Jobs : mtime'[j] = mtime[j] \/ mtime'[j] = clock,
         \A j \in Jobs : j \in present' => j \in present \/ mtime'[j] = clock
  PROVE  ScanOf(v)'
<1>1. req[v].began \in Nat /\ req[v].began <= clock /\ clock \in Nat
  BY TimeAssumption DEF TypeOK, Request
<1>2. ASSUME NEW j \in Jobs, mtime'[j] = clock PROVE req[v].began <= mtime'[j] + TTL
  BY <1>1, <1>2, TimeAssumption
<1>3. ASSUME NEW j \in present'
      PROVE  (j \in present /\ mtime'[j] = mtime[j]) \/ req[v].began <= mtime'[j] + TTL
  BY <1>2, <1>3
<1> QED BY <1>3 DEF ScanOf, Clearing

\* The worker itself looks at every directory that it takes off its list.
LEMMA ScanOwn ==
  ASSUME IInv, NEW w \in Workers, Step(w)
  PROVE  ScanOf(w)'
<1>0. TypeOK
  BY DEF IInv
<1>s. ScanOf(w)
  BY DEF IInv, ScanOf, ScanComplete, ExpiredAreGone
<1>1. CASE Arrive(w)
  <2>1. req'[w].pc = "scan" /\ req'[w].todo = present /\ present' = present
    BY <1>0, <1>1, ArriveEffect DEF Arrive, dirVars
  <2> QED BY <2>1 DEF ScanOf, Scanning, Clearing, Removing
<1>2. ASSUME NEW j \in Jobs, Look(w, j) PROVE ScanOf(w)'
  <2>1. /\ req[w].pc = "scan" /\ req'[w].began = req[w].began
        /\ req'[w].todo = req[w].todo \ {j}
        /\ \/ j \in present /\ req'[w].pc = "stat" /\ req'[w].victim = j
           \/ j \notin present /\ req'[w].pc = "scan"
        /\ UNCHANGED <<used, present, mtime>>
    BY <1>0, <1>2, LookEffect DEF Look, dirVars
  <2>2. \A i \in present : i \in req[w].todo \/ req[w].began <= mtime[i] + TTL
    BY <1>s, <2>1 DEF ScanOf, Scanning
  <2>3. present \subseteq used
    BY <1>0 DEF TypeOK
  <2> QED BY <2>1, <2>2, <2>3 DEF ScanOf, Scanning, Clearing, Removing
<1>3. CASE Stat(w)
  <2> DEFINE i == req[w].victim
  <2>1. /\ req[w].pc = "stat" /\ req'[w].began = req[w].began
        /\ \/ req'[w].pc = "handle" /\ req'[w].cut
           \/ /\ req[w].began <= mtime[i] + TTL
              /\ req'[w].pc = "scan" /\ req'[w].todo = req[w].todo
           \/ /\ req'[w].pc = "list" /\ req'[w].todo = req[w].todo /\ req'[w].victim = i
        /\ UNCHANGED <<used, present, mtime>>
    BY <1>3, StatEffect DEF Stat, dirVars, Rm
  <2>2. \A n \in present : n \in req[w].todo \/ req[w].began <= mtime[n] + TTL \/ n = i
    BY <1>s, <2>1 DEF ScanOf, Scanning
  <2>3. CASE req'[w].pc = "handle" /\ req'[w].cut
    BY <2>3 DEF ScanOf, Scanning, Clearing, Removing
  <2>4. CASE req[w].began <= mtime[i] + TTL /\ req'[w].pc = "scan" /\ req'[w].todo = req[w].todo
    BY <2>1, <2>2, <2>4 DEF ScanOf, Scanning, Clearing, Removing
  <2>5. CASE req'[w].pc = "list" /\ req'[w].todo = req[w].todo /\ req'[w].victim = i
    BY <2>1, <2>2, <2>5 DEF ScanOf, Scanning, Clearing, Removing
  <2> QED BY <2>1, <2>3, <2>4, <2>5
<1>4. CASE ScanDone(w)
  <2>1. /\ req[w].pc = "scan" /\ req[w].todo = {} /\ req'[w].pc = "handle"
        /\ req'[w].began = req[w].began /\ UNCHANGED <<present, mtime>>
    BY <1>0, <1>4, ScanDoneEffect DEF ScanDone, dirVars, To
  <2> QED BY <1>s, <2>1 DEF ScanOf, Scanning, Clearing, Removing
<1>5. CASE List(w)
  <2> DEFINE i == req[w].victim
  <2>0. UNCHANGED <<used, present, mtime>>
    BY <1>5 DEF List, dirVars
  <2>1. req[w].pc = "list" /\ Clearing(w)
    BY <1>0, <1>5, ListEffect DEF Clearing, Removing
  <2>2. CASE /\ req'[w].pc = "unlink" /\ req'[w].began = req[w].began /\ req'[w].todo = req[w].todo
             /\ req'[w].victim = i /\ req'[w].after = req[w].after
    BY <1>s, <2>0, <2>1, <2>2 DEF ScanOf, Scanning, Clearing, Removing
  <2>3. CASE i \notin present /\ To(w, "scan") /\ req[w].after = "scan"
    <3>1. /\ req'[w].pc = "scan" /\ req'[w].began = req[w].began /\ req'[w].todo = req[w].todo
      BY <2>3 DEF To
    <3>2. \A n \in present : n \in req[w].todo \/ req[w].began <= mtime[n] + TTL
      BY <1>s, <2>1, <2>3 DEF ScanOf
    <3> QED BY <2>0, <3>1, <3>2 DEF ScanOf, Scanning, Clearing, Removing
  <2>4. CASE Off(w)
    BY <2>4 DEF Off, ScanOf, Scanning, Clearing, Removing
  <2> QED BY <1>0, <1>5, <2>2, <2>3, <2>4, ListEffect
<1>6. ASSUME NEW e \in Entries, Unlink(w, e) PROVE ScanOf(w)'
  <2>1. /\ req[w].pc = "unlink" /\ req'[w].pc = "unlink" /\ req'[w].began = req[w].began
        /\ req'[w].todo = req[w].todo /\ req'[w].victim = req[w].victim
        /\ req'[w].after = req[w].after /\ UNCHANGED <<used, present>>
    BY <1>0, <1>6, UnlinkEffect DEF Unlink
  <2>2. \A n \in present : n # req[w].victim => mtime'[n] = mtime[n]
    BY <1>0, <1>6 DEF Unlink, Touch, TypeOK
  <2> QED BY <1>s, <2>1, <2>2 DEF ScanOf, Scanning, Clearing, Removing
<1>7. CASE Rmdir(w)
  <2> DEFINE i == req[w].victim
  <2>0. req[w].pc = "unlink" /\ Clearing(w) /\ UNCHANGED <<used, files, mtime>>
    BY <1>0, <1>7, RmdirEffect DEF Rmdir, Clearing, Removing
  <2>1. CASE Off(w)
    BY <2>1 DEF Off, ScanOf, Scanning, Clearing, Removing
  <2>2. CASE To(w, "scan") /\ req[w].after = "scan"
    <3>1. req'[w].pc = "scan" /\ req'[w].began = req[w].began /\ req'[w].todo = req[w].todo
      BY <2>2 DEF To
    <3>2. i \in present' => files[i] # {} /\ req[w].listing = {}
      BY <1>7 DEF Rmdir
    <3>3. files[i] # {} /\ req[w].listing = {} => req[w].began <= mtime[i]
      BY <2>0 DEF IInv, Removals
    <3>4. i \in present' => req[w].began <= mtime[i] + TTL
      <4>1. i \in present' => i \in Jobs
        BY <1>7, <1>0 DEF Rmdir, TypeOK
      <4> QED BY <1>0, <3>2, <3>3, <4>1, TimeAssumption DEF TypeOK, Request
    <3>5. present' \subseteq present
      BY <1>7 DEF Rmdir
    <3>6. \A n \in present' : n \in req[w].todo \/ req[w].began <= mtime[n] + TTL
      BY <1>s, <2>0, <2>2, <3>4, <3>5 DEF ScanOf
    <3> QED BY <2>0, <3>1, <3>6 DEF ScanOf, Scanning, Clearing, Removing
  <2> QED BY <1>0, <1>7, <2>1, <2>2, RmdirEffect
<1>8. CASE Answer(w)
  BY <1>0, <1>8, AnswerEffect DEF ScanOf, To, Off, Rm, Scanning, Clearing, Removing
<1>9. ASSUME NEW j \in Jobs, NEW k \in Kinds, StartJob(w, j, k) PROVE ScanOf(w)'
  BY <1>0, <1>9, StartJobEffect DEF ScanOf, To, Off, Rm, Scanning, Clearing, Removing
<1>10. CASE Save(w)
  BY <1>0, <1>10, SaveEffect DEF ScanOf, To, Off, Rm, Scanning, Clearing, Removing
<1>11. CASE SaveFails(w)
  BY <1>0, <1>11, SaveFailsEffect DEF ScanOf, To, Off, Rm, Scanning, Clearing, Removing
<1>12. CASE RunFails(w)
  BY <1>0, <1>12, RunFailsEffect DEF ScanOf, To, Off, Rm, Scanning, Clearing, Removing
<1>13. CASE RunRaises(w)
  BY <1>0, <1>13, RunRaisesEffect DEF ScanOf, To, Off, Rm, Scanning, Clearing, Removing
<1>14. CASE RunSucceeds(w)
  BY <1>0, <1>14, RunSucceedsEffect DEF ScanOf, To, Off, Rm, Scanning, Clearing, Removing
<1>15. CASE ShowLinks(w)
  BY <1>0, <1>15, ShowLinksEffect DEF ScanOf, To, Off, Rm, Scanning, Clearing, Removing
<1>16. CASE Pack(w)
  BY <1>0, <1>16, PackEffect DEF ScanOf, To, Off, Rm, Scanning, Clearing, Removing
<1>17. CASE CloseResponse(w)
  BY <1>0, <1>17, CloseResponseEffect DEF ScanOf, To, Off, Rm, Scanning, Clearing, Removing
<1>18. ASSUME NEW j \in Jobs, AskKey(w, j) PROVE ScanOf(w)'
  BY <1>0, <1>18, AskKeyEffect DEF ScanOf, To, Off, Rm, Scanning, Clearing, Removing
<1>19. CASE KeyStat(w)
  BY <1>0, <1>19, KeyStatEffect DEF ScanOf, To, Off, Rm, Scanning, Clearing, Removing
<1>20. CASE KeyOpen(w)
  BY <1>0, <1>20, KeyOpenEffect DEF ScanOf, To, Off, Rm, Scanning, Clearing, Removing
<1>21. CASE Served(w)
  BY <1>0, <1>21, ServedEffect DEF ScanOf, To, Off, Rm, Scanning, Clearing, Removing
<1>22. CASE Kill(w)
  BY <1>0, <1>22, KillEffect DEF ScanOf, To, Off, Rm, Scanning, Clearing, Removing
<1> QED
  BY <1>1, <1>2, <1>3, <1>4, <1>5, <1>6, <1>7, <1>8, <1>9, <1>10, <1>11,
     <1>12, <1>13, <1>14, <1>15, <1>16, <1>17, <1>18, <1>19, <1>20, <1>21, <1>22
     DEF Step, Cleanup, Rmtree, Handler

\* Every step keeps ScanComplete and ExpiredAreGone.
LEMMA ScanStep == IInv /\ [Next]_vars => ScanComplete' /\ ExpiredAreGone'
<1> SUFFICES ASSUME IInv, [Next]_vars, NEW v \in Workers PROVE ScanOf(v)'
  BY DEF ScanOf, ScanComplete, ExpiredAreGone
<1>0. TypeOK /\ TypeOK' /\ ScanOf(v)
  BY TypeStep DEF IInv, ScanOf, ScanComplete, ExpiredAreGone
<1>1. present' \subseteq Jobs
  BY <1>0 DEF TypeOK
<1>2. ASSUME NEW w \in Workers, Step(w) PROVE ScanOf(v)'
  <2>1. CASE v = w
    BY <1>2, <2>1, ScanOwn
  <2>2. CASE v # w
    <3>1. req'[v] = req[v]
      BY <1>2, <2>2, OthersStay DEF Others
    <3> QED BY <1>0, <1>1, <1>2, <3>1, TimesGrow, ScanKept
  <2> QED BY <2>1, <2>2
<1>3. ASSUME NEW j \in Jobs, ChildEnds(j) PROVE ScanOf(v)'
  <2>1. /\ \A i \in Jobs : mtime'[i] = mtime[i] \/ mtime'[i] = clock
        /\ UNCHANGED <<used, present, req>>
    BY <1>0, <1>3 DEF ChildEnds, Touch, TypeOK
  <2> QED BY <1>0, <1>1, <2>1, ScanKept
<1>4. CASE Tick \/ UNCHANGED vars
  BY <1>0, <1>1, <1>4, ScanKept DEF Tick, vars, dirVars
<1> QED BY <1>2, <1>3, <1>4 DEF Next, Step

-----------------------------------------------------------------------------
(* Where a request that owns a directory, or that removes one, can go.     *)

\* A request leaves its directory to a removal, to the reader of its links, or
\* to the litter.
LEMMA WorkMoves ==
  ASSUME IInv, NEW w \in Workers, Step(w), Working(w)
  PROVE  LET d == req[w].job IN
         \/ Working(w)' /\ req'[w].job = d
         \/ Clearing(w)' /\ req'[w].victim = d
         \/ d \in abandoned'
         \/ shown'[d] # Never /\ files'[d] = {"private", "public"}
<1> DEFINE d == req[w].job
           G == \/ Working(w)' /\ req'[w].job = d
                \/ Clearing(w)' /\ req'[w].victim = d
                \/ d \in abandoned'
                \/ shown'[d] # Never /\ files'[d] = {"private", "public"}
<1>0. TypeOK
  BY DEF IInv
<1>a. d \in used /\ d \in Jobs /\ Owns(w) /\ req[w].pc \in InJob
  BY <1>0, JobOwned DEF Working, TypeOK
<1> SUFFICES G
  OBVIOUS
<1> HIDE DEF d
<1>1. CASE Arrive(w)
  BY <1>0, <1>a, <1>1, ArriveEffect DEF InJob, Removing, Clearing
<1>2. ASSUME NEW j \in Jobs, Look(w, j) PROVE G
  BY <1>0, <1>a, <1>2, LookEffect DEF InJob, Removing, Clearing
<1>3. CASE Stat(w)
  BY <1>0, <1>a, <1>3, StatEffect DEF InJob, Removing, Clearing
<1>4. CASE ScanDone(w)
  BY <1>0, <1>a, <1>4, ScanDoneEffect DEF InJob, Removing, Clearing
<1>5. CASE List(w)
  BY <1>0, <1>a, <1>5, ListEffect DEF InJob, Removing, Clearing
<1>6. ASSUME NEW e \in Entries, Unlink(w, e) PROVE G
  BY <1>0, <1>a, <1>6, UnlinkEffect DEF InJob, Removing, Clearing
<1>7. CASE Rmdir(w)
  BY <1>0, <1>a, <1>7, RmdirEffect DEF InJob, Removing, Clearing
<1>8. CASE Answer(w)
  BY <1>0, <1>a, <1>8, AnswerEffect DEF InJob, Removing, Clearing
<1>9. ASSUME NEW j \in Jobs, NEW k \in Kinds, StartJob(w, j, k) PROVE G
  BY <1>0, <1>a, <1>9, StartJobEffect DEF InJob, Removing, Clearing
<1>10. CASE Save(w)
  <2>1. req'[w].pc = "run" /\ req'[w].job = d
    BY <1>0, <1>10, SaveEffect DEF To, d
  <2> QED BY <2>1 DEF Working, InJob
<1>11. CASE SaveFails(w)
  <2>1. req'[w].pc = "list" /\ req'[w].victim = d
    BY <1>11, SaveFailsEffect DEF Rm, d
  <2> QED BY <2>1 DEF Clearing, Removing
<1>12. CASE RunFails(w)
  <2>1. req'[w].pc = "list" /\ req'[w].victim = d
    BY <1>12, RunFailsEffect DEF Rm, d
  <2> QED BY <2>1 DEF Clearing, Removing
<1>13. CASE RunRaises(w)
  BY <1>13 DEF RunRaises, d
<1>14. CASE RunSucceeds(w)
  <2>1. \/ req'[w].pc = "list" /\ req'[w].victim = d
        \/ req'[w].pc \in {"stream", "pack", "run2"} /\ req'[w].job = d
    BY <1>14, RunSucceedsEffect DEF Rm, To, d
  <2> QED BY <2>1 DEF Clearing, Removing, Working, InJob
<1>15. CASE ShowLinks(w)
  <2>1. req[w].pc = "run2" /\ child[d] = "ok" /\ files' = files
        /\ shown' = [shown EXCEPT ![d] = clock]
    BY <1>0, <1>15, ShowLinksEffect DEF ShowLinks, dirVars, d
  <2>2. files'[d] = {"private", "public"}
    BY <1>a, <2>1 DEF Owns, ChildExpected, d
  <2>3. clock # Never /\ shown'[d] = clock
    BY <1>0, <1>a, <2>1, TimeAssumption DEF TypeOK, Never
  <2> QED BY <2>2, <2>3
<1>16. CASE Pack(w)
  <2>1. \/ req'[w].pc = "list" /\ req'[w].victim = d
        \/ req'[w].pc = "stream" /\ req'[w].job = d
    BY <1>16, PackEffect DEF Rm, To, d
  <2> QED BY <2>1 DEF Clearing, Removing, Working, InJob
<1>17. CASE CloseResponse(w)
  <2>1. req'[w].pc = "list" /\ req'[w].victim = d
    BY <1>17, CloseResponseEffect DEF Rm, d
  <2> QED BY <2>1 DEF Clearing, Removing
<1>18. ASSUME NEW j \in Jobs, AskKey(w, j) PROVE G
  BY <1>0, <1>a, <1>18, AskKeyEffect DEF InJob, Removing, Clearing
<1>19. CASE KeyStat(w)
  BY <1>0, <1>a, <1>19, KeyStatEffect DEF InJob, Removing, Clearing
<1>20. CASE KeyOpen(w)
  BY <1>0, <1>a, <1>20, KeyOpenEffect DEF InJob, Removing, Clearing
<1>21. CASE Served(w)
  BY <1>0, <1>a, <1>21, ServedEffect DEF InJob, Removing, Clearing
<1>22. CASE Kill(w)
  BY <1>a, <1>22 DEF Kill, d
<1> QED
  BY <1>1, <1>2, <1>3, <1>4, <1>5, <1>6, <1>7, <1>8, <1>9, <1>10, <1>11,
     <1>12, <1>13, <1>14, <1>15, <1>16, <1>17, <1>18, <1>19, <1>20, <1>21, <1>22
     DEF Step, Cleanup, Rmtree, Handler

\* A removal adds nothing to a directory and ends with it gone or abandoned.
LEMMA ClearMoves ==
  ASSUME IInv, NEW w \in Workers, Step(w), Clearing(w)
  PROVE  LET d == req[w].victim IN
         /\ child' = child
         /\ \A i \in Jobs : files'[i] \subseteq files[i]
         /\ \/ Clearing(w)' /\ req'[w].victim = d
            \/ d \in abandoned' \/ d \notin present'
<1> DEFINE d == req[w].victim
           G == /\ child' = child
                /\ \A i \in Jobs : files'[i] \subseteq files[i]
                /\ \/ Clearing(w)' /\ req'[w].victim = d
                   \/ d \in abandoned' \/ d \notin present'
<1>0. TypeOK
  BY DEF IInv
<1>a. d \in used /\ d \in Jobs /\ req[w].pc \in Removing
  BY <1>0 DEF Clearing, IInv, Removals, TypeOK
<1> SUFFICES G
  OBVIOUS
<1> HIDE DEF d
<1>1. CASE Arrive(w)
  BY <1>0, <1>a, <1>1, ArriveEffect DEF Removing
<1>2. ASSUME NEW j \in Jobs, Look(w, j) PROVE G
  BY <1>0, <1>a, <1>2, LookEffect DEF Removing
<1>3. CASE Stat(w)
  BY <1>a, <1>3, StatEffect DEF Removing
<1>4. CASE ScanDone(w)
  BY <1>0, <1>a, <1>4, ScanDoneEffect DEF Removing
<1>5. CASE List(w)
  <2>1. child' = child /\ files' = files /\ present' = present
    BY <1>5 DEF List, dirVars
  <2>2. \/ d \in present /\ req'[w].pc = "unlink" /\ req'[w].victim = d
        \/ d \notin present
    BY <1>0, <1>5, ListEffect DEF d
  <2> QED BY <2>1, <2>2 DEF Clearing, Removing
<1>6. ASSUME NEW e \in Entries, Unlink(w, e) PROVE G
  <2>1. req'[w].pc = "unlink" /\ req'[w].victim = d
    BY <1>0, <1>6, UnlinkEffect DEF d
  <2>2. child' = child /\ \A i \in Jobs : files'[i] \subseteq files[i]
    BY <1>0, <1>a, <1>6 DEF Unlink, Touch, TypeOK, d
  <2> QED BY <2>1, <2>2 DEF Clearing, Removing
<1>7. CASE Rmdir(w)
  <2>1. /\ child' = child /\ files' = files /\ req[w].listing = {} /\ abandoned' = abandoned
        /\ files[d] = {} => d \notin present'
    BY <1>7 DEF Rmdir, d
  <2>2. req[w].pc = "unlink"
    BY <1>0, <1>7, RmdirEffect
  <2>3. files[d] # {} => d \in abandoned
    BY <2>1, <2>2 DEF IInv, Removals, Clearing, d
  <2> QED BY <2>1, <2>3
<1>8. CASE Answer(w)
  BY <1>0, <1>a, <1>8, AnswerEffect DEF Removing
<1>9. ASSUME NEW j \in Jobs, NEW k \in Kinds, StartJob(w, j, k) PROVE G
  BY <1>0, <1>a, <1>9, StartJobEffect DEF Removing
<1>10. CASE Save(w)
  BY <1>0, <1>a, <1>10, SaveEffect DEF Removing
<1>11. CASE SaveFails(w)
  BY <1>a, <1>11, SaveFailsEffect DEF Removing
<1>12. CASE RunFails(w)
  BY <1>a, <1>12, RunFailsEffect DEF Removing
<1>13. CASE RunRaises(w)
  BY <1>0, <1>a, <1>13, RunRaisesEffect DEF Removing
<1>14. CASE RunSucceeds(w)
  BY <1>a, <1>14, RunSucceedsEffect DEF Removing
<1>15. CASE ShowLinks(w)
  BY <1>0, <1>a, <1>15, ShowLinksEffect DEF Removing
<1>16. CASE Pack(w)
  BY <1>a, <1>16, PackEffect DEF Removing
<1>17. CASE CloseResponse(w)
  BY <1>a, <1>17, CloseResponseEffect DEF Removing
<1>18. ASSUME NEW j \in Jobs, AskKey(w, j) PROVE G
  BY <1>0, <1>a, <1>18, AskKeyEffect DEF Removing
<1>19. CASE KeyStat(w)
  BY <1>a, <1>19, KeyStatEffect DEF Removing
<1>20. CASE KeyOpen(w)
  BY <1>0, <1>a, <1>20, KeyOpenEffect DEF Removing
<1>21. CASE Served(w)
  BY <1>0, <1>a, <1>21, ServedEffect DEF Removing
<1>22. CASE Kill(w)
  BY <1>a, <1>22 DEF Kill, dirVars, d
<1> QED
  BY <1>1, <1>2, <1>3, <1>4, <1>5, <1>6, <1>7, <1>8, <1>9, <1>10, <1>11,
     <1>12, <1>13, <1>14, <1>15, <1>16, <1>17, <1>18, <1>19, <1>20, <1>21, <1>22
     DEF Step, Cleanup, Rmtree, Handler

\* A request works on the job that it has begun itself.
LEMMA WorkStays ==
  ASSUME IInv, NEW w \in Workers, Step(w), Working(w)'
  PROVE  \/ Working(w) /\ req'[w].job = req[w].job
         \/ \E j \in Jobs, k \in Kinds : StartJob(w, j, k)
<1> DEFINE G == \/ Working(w) /\ req'[w].job = req[w].job
                \/ \E j \in Jobs, k \in Kinds : StartJob(w, j, k)
<1>0. TypeOK
  BY DEF IInv
<1>a. req'[w].pc \in InJob
  BY DEF Working
<1>1. CASE Arrive(w)
  BY <1>0, <1>a, <1>1, ArriveEffect DEF To, Off, Rm, Working, InJob
<1>2. ASSUME NEW j \in Jobs, Look(w, j) PROVE G
  BY <1>0, <1>a, <1>2, LookEffect DEF To, Off, Rm, Working, InJob
<1>3. CASE Stat(w)
  BY <1>0, <1>a, <1>3, StatEffect DEF To, Off, Rm, Working, InJob
<1>4. CASE ScanDone(w)
  BY <1>0, <1>a, <1>4, ScanDoneEffect DEF To, Off, Rm, Working, InJob
<1>5. CASE List(w)
  BY <1>0, <1>a, <1>5, ListEffect DEF To, Off, Rm, Working, InJob
<1>6. ASSUME NEW e \in Entries, Unlink(w, e) PROVE G
  BY <1>0, <1>a, <1>6, UnlinkEffect DEF To, Off, Rm, Working, InJob
<1>7. CASE Rmdir(w)
  BY <1>0, <1>a, <1>7, RmdirEffect DEF To, Off, Rm, Working, InJob
<1>8. CASE Answer(w)
  BY <1>0, <1>a, <1>8, AnswerEffect DEF To, Off, Rm, Working, InJob
<1>9. ASSUME NEW j \in Jobs, NEW k \in Kinds, StartJob(w, j, k) PROVE G
  BY <1>9
<1>10. CASE Save(w)
  BY <1>0, <1>a, <1>10, SaveEffect DEF To, Off, Rm, Working, InJob
<1>11. CASE SaveFails(w)
  BY <1>0, <1>a, <1>11, SaveFailsEffect DEF To, Off, Rm, Working, InJob
<1>12. CASE RunFails(w)
  BY <1>0, <1>a, <1>12, RunFailsEffect DEF To, Off, Rm, Working, InJob
<1>13. CASE RunRaises(w)
  BY <1>0, <1>a, <1>13, RunRaisesEffect DEF To, Off, Rm, Working, InJob
<1>14. CASE RunSucceeds(w)
  BY <1>0, <1>a, <1>14, RunSucceedsEffect DEF To, Off, Rm, Working, InJob
<1>15. CASE ShowLinks(w)
  BY <1>0, <1>a, <1>15, ShowLinksEffect DEF To, Off, Rm, Working, InJob
<1>16. CASE Pack(w)
  BY <1>0, <1>a, <1>16, PackEffect DEF To, Off, Rm, Working, InJob
<1>17. CASE CloseResponse(w)
  BY <1>0, <1>a, <1>17, CloseResponseEffect DEF To, Off, Rm, Working, InJob
<1>18. ASSUME NEW j \in Jobs, AskKey(w, j) PROVE G
  BY <1>0, <1>a, <1>18, AskKeyEffect DEF To, Off, Rm, Working, InJob
<1>19. CASE KeyStat(w)
  BY <1>0, <1>a, <1>19, KeyStatEffect DEF To, Off, Rm, Working, InJob
<1>20. CASE KeyOpen(w)
  BY <1>0, <1>a, <1>20, KeyOpenEffect DEF To, Off, Rm, Working, InJob
<1>21. CASE Served(w)
  BY <1>0, <1>a, <1>21, ServedEffect DEF To, Off, Rm, Working, InJob
<1>22. CASE Kill(w)
  BY <1>0, <1>a, <1>22, KillEffect DEF To, Off, Rm, Working, InJob
<1> QED
  BY <1>1, <1>2, <1>3, <1>4, <1>5, <1>6, <1>7, <1>8, <1>9, <1>10, <1>11,
     <1>12, <1>13, <1>14, <1>15, <1>16, <1>17, <1>18, <1>19, <1>20, <1>21, <1>22
     DEF Step, Cleanup, Rmtree, Handler

-----------------------------------------------------------------------------
(* Owned.                                                                  *)

\* A request owns its job as long as the job stays as it is.
LEMMA OwnsKept ==
  ASSUME TypeOK, NEW w \in Workers, Working(w), Owns(w), req'[w] = req[w],
         LET j == req[w].job IN
           /\ j \in present' /\ j \notin removing' /\ j \notin abandoned'
           /\ shown'[j] = shown[j] /\ mtime'[j] = mtime[j]
           /\ files'[j] = files[j] /\ child'[j] = child[j]
           /\ \A v \in Workers \ {w} : Working(v)' => req'[v].job # j
  PROVE  Owns(w)'
  BY DEF Owns, Deposit, ChildExpected

\* The directory of a request is not the one another worker changes.
LEMMA OwnsApart ==
  ASSUME IInv, NEW w \in Workers, Step(w), NEW v \in Workers \ {w}, Working(v)
  PROVE  Owns(v)'
<1> DEFINE j == req[v].job
<1>0. TypeOK
  BY DEF IInv
<1>1. j \in used /\ j \in Jobs /\ Owns(v)
  BY <1>0, JobOwned DEF Working, TypeOK
<1>2. \A u \in Workers \ {w} : req'[u] = req[u]
  BY OthersStay DEF Others
<1>3. ASSUME NEW t, OnlyTouches(t), t # j
      PROVE  /\ j \in present' /\ j \notin removing' /\ j \notin abandoned'
             /\ shown'[j] = shown[j] /\ mtime'[j] = mtime[j]
             /\ files'[j] = files[j] /\ child'[j] = child[j]
  <2>1. j \in Jobs \ {t}
    BY <1>1, <1>3
  <2>2. j \in present /\ j \notin removing /\ j \notin abandoned
    BY <1>1 DEF Owns
  <2> QED BY <1>3, <2>1, <2>2 DEF OnlyTouches
<1>4. ASSUME Working(w) PROVE req[w].job # j
  BY <1>1, <1>4 DEF Owns
<1>5. ASSUME Clearing(w) PROVE req[w].victim # j
  BY <1>5 DEF IInv, Removals
<1>6. ASSUME NEW i \in Jobs, NEW k \in Kinds, StartJob(w, i, k) PROVE i # j /\ req'[w].job = i
  BY <1>0, <1>1, <1>6, StartJobEffect DEF StartJob
<1>7. Working(w)' => req'[w].job # j
  BY <1>4, <1>6, WorkStays
<1>8. \A u \in Workers \ {v} : Working(u)' => req'[u].job # j
  <2>1. ASSUME NEW u \in Workers \ {v, w}, Working(u)' PROVE req'[u].job # j
    <3>1. req'[u] = req[u] /\ Working(u)
      BY <1>2, <2>1 DEF Working
    <3> QED BY <1>1, <3>1 DEF Owns
  <2> QED BY <1>7, <2>1
<1>9. CASE \E i \in Jobs, k \in Kinds : StartJob(w, i, k) /\ OnlyTouches(i)
  <2>1. PICK i \in Jobs, k \in Kinds : StartJob(w, i, k) /\ OnlyTouches(i)
    BY <1>9
  <2>2. i # j
    BY <1>6, <2>1
  <2> QED BY <1>0, <1>1, <1>2, <1>3, <1>8, <2>1, <2>2, OwnsKept
<1>10. CASE OnlyTouches(Mine(w)) /\ (~Working(w) /\ ~Clearing(w) => OnlyTouches(NoJob))
  <2>1. NoJob # j
    BY <1>1, TimeAssumption
  <2>2. CASE Working(w) \/ Clearing(w)
    <3>1. Mine(w) # j
      BY <1>4, <1>5, <2>2 DEF Mine
    <3> QED BY <1>0, <1>1, <1>2, <1>3, <1>8, <1>10, <3>1, OwnsKept
  <2>3. CASE ~Working(w) /\ ~Clearing(w)
    BY <1>0, <1>1, <1>2, <1>3, <1>8, <1>10, <2>1, <2>3, OwnsKept
  <2> QED BY <2>2, <2>3
<1> QED BY <1>9, <1>10, Footprint

\* What the worker itself does to its directory.
LEMMA OwnsOwn ==
  ASSUME IInv, NEW w \in Workers, Step(w), Working(w)'
  PROVE  Owns(w)'
<1>0. TypeOK
  BY DEF IInv
<1>a. req'[w].pc \in InJob
  BY DEF Working
<1>b. \A v \in Workers \ {w} : req'[v] = req[v] /\ (Working(v)' <=> Working(v))
  BY OthersStay DEF Others, Working
<1>c. \A v \in Workers : Working(v) => req[v].job \in used /\ Owns(v)
  BY <1>0, JobOwned DEF Working
<1>d. clock \in Nat /\ req[w].began \in Nat /\ req[w].began <= clock
  BY <1>0, TimeAssumption DEF TypeOK, Request
<1>1. CASE Arrive(w)
  BY <1>0, <1>a, <1>1, ArriveEffect DEF To, Off, Rm, InJob, Removing, Scanning, InDownload
<1>2. ASSUME NEW j \in Jobs, Look(w, j) PROVE Owns(w)'
  BY <1>0, <1>a, <1>2, LookEffect DEF To, Off, Rm, InJob, Removing, Scanning, InDownload
<1>3. CASE Stat(w)
  BY <1>0, <1>a, <1>3, StatEffect DEF To, Off, Rm, InJob, Removing, Scanning, InDownload
<1>4. CASE ScanDone(w)
  BY <1>0, <1>a, <1>4, ScanDoneEffect DEF To, Off, Rm, InJob, Removing, Scanning, InDownload
<1>5. CASE List(w)
  BY <1>0, <1>a, <1>5, ListEffect DEF To, Off, Rm, InJob, Removing, Scanning, InDownload
<1>6. ASSUME NEW e \in Entries, Unlink(w, e) PROVE Owns(w)'
  BY <1>0, <1>a, <1>6, UnlinkEffect DEF To, Off, Rm, InJob, Removing, Scanning, InDownload
<1>7. CASE Rmdir(w)
  BY <1>0, <1>a, <1>7, RmdirEffect DEF To, Off, Rm, InJob, Removing, Scanning, InDownload
<1>8. CASE Answer(w)
  BY <1>0, <1>a, <1>8, AnswerEffect DEF To, Off, Rm, InJob, Removing, Scanning, InDownload
<1>9. ASSUME NEW j \in Jobs, NEW k \in Kinds, StartJob(w, j, k) PROVE Owns(w)'
  <2>1. /\ req'[w].job = j /\ req'[w].kind = k /\ req'[w].began = req[w].began
        /\ \/ k = "keygen" /\ req'[w].pc = "run" /\ child' = [child EXCEPT ![j] = "private"]
           \/ k # "keygen" /\ req'[w].pc = "upload" /\ child' = child
    BY <1>0, <1>9, StartJobEffect
  <2>2. /\ j \in present' /\ removing' = removing /\ abandoned' = abandoned /\ shown' = shown
        /\ j \notin used
    BY <1>9 DEF StartJob
  <2>3. files'[j] = {} /\ mtime'[j] = clock
    BY <1>0, <1>9 DEF StartJob, Touch, TypeOK
  <2>4. shown[j] = Never /\ j \notin removing /\ j \notin abandoned
    BY <1>0, <2>2 DEF IInv, Links, TypeOK
  <2>5. child[j] = "none" \/ k = "keygen"
    BY <2>2 DEF IInv, Unused
  <2>6. \A v \in Workers \ {w} : Working(v)' => req'[v].job # j
    BY <1>b, <1>c, <2>2
  <2>7. Deposit(w)' \subseteq files'[j]
    BY <2>1 DEF Deposit
  <2>8. ChildExpected(w)'
    BY <1>0, <2>1, <2>3, <2>5 DEF ChildExpected, TypeOK
  <2> QED BY <1>d, <2>1, <2>2, <2>3, <2>4, <2>6, <2>7, <2>8 DEF Owns
<1>10. CASE Save(w)
  <2> DEFINE j == req[w].job
  <2>a. Working(w) /\ Owns(w) /\ j \in Jobs
    BY <1>0, <1>c, <1>10, SaveEffect DEF Working, InJob, TypeOK
  <2>b. \A v \in Workers \ {w} : Working(v)' => req'[v].job # j
    BY <1>b, <2>a DEF Owns
  <2>1. /\ req[w].pc = "upload" /\ req'[w].pc = "run" /\ req'[w].job = j
        /\ req'[w].kind = req[w].kind /\ req'[w].began = req[w].began
    BY <1>0, <1>10, SaveEffect DEF To
  <2>2. /\ present' = present /\ removing' = removing /\ abandoned' = abandoned /\ shown' = shown
        /\ files'[j] = {"in"} /\ mtime'[j] = clock
        /\ child'[j] = IF req[w].kind = "compress" THEN "out" ELSE "quiet"
    BY <1>0, <2>a, <1>10 DEF Save, Touch, TypeOK
  <2>3. req[w].kind # "keygen"
    BY <2>a, <2>1 DEF Owns
  <2>4. Deposit(w)' \subseteq files'[j]
    BY <2>1, <2>2 DEF Deposit
  <2>5. ChildExpected(w)'
    BY <2>1, <2>2, <2>3 DEF ChildExpected
  <2> QED BY <1>d, <2>a, <2>b, <2>1, <2>2, <2>4, <2>5 DEF Owns
<1>11. CASE SaveFails(w)
  BY <1>0, <1>a, <1>11, SaveFailsEffect DEF To, Off, Rm, InJob, Removing, Scanning, InDownload
<1>12. CASE RunFails(w)
  BY <1>0, <1>a, <1>12, RunFailsEffect DEF To, Off, Rm, InJob, Removing, Scanning, InDownload
<1>13. CASE RunRaises(w)
  BY <1>0, <1>a, <1>13, RunRaisesEffect DEF To, Off, Rm, InJob, Removing, Scanning, InDownload
<1>14. CASE RunSucceeds(w)
  <2> DEFINE j == req[w].job
  <2>a. Working(w) /\ Owns(w) /\ j \in Jobs
    BY <1>0, <1>c, <1>14, RunSucceedsEffect DEF Working, InJob, TypeOK
  <2>b. \A v \in Workers \ {w} : Working(v)' => req'[v].job # j
    BY <1>b, <2>a DEF Owns
  <2>1. /\ req[w].pc = "run" /\ req'[w].job = j
        /\ req'[w].kind = req[w].kind /\ req'[w].began = req[w].began
        /\ \/ req[w].kind = "compress" /\ req'[w].pc = "stream"
           \/ req[w].kind = "extract" /\ req'[w].pc = "pack"
           \/ req[w].kind = "keygen" /\ req'[w].pc = "run2"
    BY <1>a, <1>14, RunSucceedsEffect DEF To, Rm, InJob
  <2>2. /\ present' = present /\ removing' = removing /\ abandoned' = abandoned /\ shown' = shown
        /\ files' = files /\ mtime' = mtime /\ child[j] = "ok"
        /\ child'[j] = IF req[w].kind = "keygen" THEN "public" ELSE "none"
    BY <1>0, <2>a, <1>14 DEF RunSucceeds, dirVars, TypeOK
  <2>3. Deposit(w) \subseteq files[j] /\ ChildExpected(w)
    BY <2>a DEF Owns
  <2>4. req[w].kind = "keygen" => files[j] = {"private"}
    BY <2>1, <2>2, <2>3 DEF ChildExpected
  <2>5. req[w].kind = "compress" => "out" \in files[j]
    BY <2>1, <2>2, <2>3 DEF ChildExpected
  <2>6. Deposit(w)' \subseteq files'[j]
    BY <2>1, <2>2, <2>3, <2>4, <2>5 DEF Deposit
  <2>7. ChildExpected(w)'
    BY <2>1, <2>2, <2>4 DEF ChildExpected
  <2> QED BY <2>a, <2>b, <2>1, <2>2, <2>6, <2>7 DEF Owns
<1>15. CASE ShowLinks(w)
  BY <1>0, <1>a, <1>15, ShowLinksEffect DEF To, Off, Rm, InJob, Removing, Scanning, InDownload
<1>16. CASE Pack(w)
  <2> DEFINE j == req[w].job
  <2>a. Working(w) /\ Owns(w) /\ j \in Jobs
    BY <1>0, <1>c, <1>16, PackEffect DEF Working, InJob, TypeOK
  <2>b. \A v \in Workers \ {w} : Working(v)' => req'[v].job # j
    BY <1>b, <2>a DEF Owns
  <2>1. /\ req[w].pc = "pack" /\ req'[w].job = j /\ req'[w].pc = "stream"
        /\ req'[w].kind = req[w].kind /\ req'[w].began = req[w].began
        /\ \/ UNCHANGED <<files, mtime>> \/ Touch(j, files[j] \cup {"out"})
    BY <1>a, <1>16, PackEffect DEF To, Rm, InJob
  <2>2. /\ present' = present /\ removing' = removing /\ abandoned' = abandoned /\ shown' = shown
        /\ child' = child
    BY <1>16 DEF Pack
  <2>3. Deposit(w) \subseteq files[j] /\ ChildExpected(w) /\ req[w].kind = "extract"
        /\ req[w].began <= mtime[j]
    BY <2>a, <2>1 DEF Owns
  <2>4. files[j] \subseteq files'[j] /\ (mtime'[j] = mtime[j] \/ mtime'[j] = clock)
    BY <1>0, <2>a, <2>1 DEF Touch, TypeOK
  <2>6. Deposit(w)' \subseteq files'[j]
    BY <2>1, <2>3, <2>4 DEF Deposit
  <2>7. ChildExpected(w)'
    BY <2>1, <2>2, <2>3 DEF ChildExpected
  <2> QED BY <1>d, <2>a, <2>b, <2>1, <2>2, <2>3, <2>4, <2>6, <2>7 DEF Owns
<1>17. CASE CloseResponse(w)
  BY <1>0, <1>a, <1>17, CloseResponseEffect DEF To, Off, Rm, InJob, Removing, Scanning, InDownload
<1>18. ASSUME NEW j \in Jobs, AskKey(w, j) PROVE Owns(w)'
  BY <1>0, <1>a, <1>18, AskKeyEffect DEF To, Off, Rm, InJob, Removing, Scanning, InDownload
<1>19. CASE KeyStat(w)
  BY <1>0, <1>a, <1>19, KeyStatEffect DEF To, Off, Rm, InJob, Removing, Scanning, InDownload
<1>20. CASE KeyOpen(w)
  BY <1>0, <1>a, <1>20, KeyOpenEffect DEF To, Off, Rm, InJob, Removing, Scanning, InDownload
<1>21. CASE Served(w)
  BY <1>0, <1>a, <1>21, ServedEffect DEF To, Off, Rm, InJob, Removing, Scanning, InDownload
<1>22. CASE Kill(w)
  BY <1>0, <1>a, <1>22, KillEffect DEF To, Off, Rm, InJob, Removing, Scanning, InDownload
<1> QED
  BY <1>1, <1>2, <1>3, <1>4, <1>5, <1>6, <1>7, <1>8, <1>9, <1>10, <1>11,
     <1>12, <1>13, <1>14, <1>15, <1>16, <1>17, <1>18, <1>19, <1>20, <1>21, <1>22
     DEF Step, Cleanup, Rmtree, Handler

\* Every step keeps Owned.
LEMMA OwnedStep == IInv /\ [Next]_vars => Owned'
<1> SUFFICES ASSUME IInv, [Next]_vars, NEW v \in Workers, Working(v)' PROVE Owns(v)'
  BY DEF Owned
<1>0. TypeOK
  BY DEF IInv
<1>1. ASSUME NEW w \in Workers, Step(w) PROVE Owns(v)'
  <2>1. CASE v = w
    BY <1>1, <2>1, OwnsOwn
  <2>2. CASE v # w
    <3>1. Working(v)
      BY <1>1, <2>2, OthersStay DEF Others, Working
    <3> QED BY <1>1, <2>2, <3>1, OwnsApart
  <2> QED BY <2>1, <2>2
<1>2. ASSUME UNCHANGED <<req, used, present, removing, abandoned, shown>>
      PROVE  Working(v) /\ Owns(v) /\ \A u \in Workers : Working(u)' <=> Working(u)
  BY <1>2, JobOwned DEF Working
<1>3. ASSUME NEW i \in Jobs, ChildEnds(i) PROVE Owns(v)'
  <2> DEFINE j == req[v].job
  <2>1. UNCHANGED <<clock, req, used, present, removing, abandoned, shown>>
    BY <1>3 DEF ChildEnds
  <2>2. Working(v) /\ Owns(v) /\ \A u \in Workers : Working(u)' <=> Working(u)
    BY <1>2, <2>1
  <2>3. j \in Jobs /\ j \in present
    BY <1>0, <2>2 DEF Owns, TypeOK
  <2>4. CASE i # j
    <3>1. mtime'[j] = mtime[j] /\ files'[j] = files[j] /\ child'[j] = child[j]
      BY <1>0, <1>3, <2>3, <2>4 DEF ChildEnds, Touch, TypeOK
    <3> QED BY <1>0, <2>1, <2>2, <3>1, OwnsKept DEF Owns
  <2>5. CASE i = j
    <3>1. child[j] \in Running
      BY <1>3, <2>5 DEF ChildEnds
    <3>2. req[v].pc \in {"run", "run2"} /\ ChildExpected(v) /\ Deposit(v) \subseteq files[j]
      BY <2>2, <3>1 DEF Owns, ChildExpected, Running
    <3>3. req[v].began \in Nat /\ req[v].began <= clock /\ clock \in Nat /\ req[v].began <= mtime[j]
      BY <1>0, <2>2, TimeAssumption DEF Owns, TypeOK, Request
    <3>4. /\ \/ child'[j] = "ok" /\ child[j] # "quiet" /\ files'[j] = files[j] \cup {child[j]}
             \/ child'[j] = "ok" /\ child[j] = "quiet" /\ files'[j] = files[j]
             \/ child'[j] = "bad" /\ files'[j] = files[j]
          /\ mtime'[j] = mtime[j] \/ mtime'[j] = clock
      BY <1>0, <1>3, <2>3, <2>5 DEF ChildEnds, Touch, TypeOK
    <3>5. Deposit(v)' \subseteq files'[j]
      BY <2>1, <3>2, <3>4 DEF Deposit
    <3>6. ChildExpected(v)'
      <4>1. req' = req
        BY <2>1
      <4>2. CASE req[v].pc = "run2"
        <5>1. files[j] = {"private"} /\ child[j] = "public"
          BY <3>1, <3>2, <4>2 DEF ChildExpected, Running
        <5> QED BY <3>4, <4>1, <4>2, <5>1 DEF ChildExpected
      <4>3. CASE req[v].pc = "run" /\ req[v].kind = "keygen"
        <5>1. files[j] = {} /\ child[j] = "private"
          BY <3>1, <3>2, <4>3 DEF ChildExpected, Running
        <5> QED BY <3>4, <4>1, <4>3, <5>1 DEF ChildExpected
      <4>4. CASE req[v].pc = "run" /\ req[v].kind = "compress"
        <5>1. child[j] = "out"
          BY <3>1, <3>2, <4>4 DEF ChildExpected, Running
        <5> QED BY <3>4, <4>1, <4>4, <5>1 DEF ChildExpected
      <4>5. CASE req[v].pc = "run" /\ req[v].kind \in {"extract", "check"}
        BY <3>4, <4>1, <4>5 DEF ChildExpected
      <4>6. req[v].kind \in Kinds
        BY <1>0 DEF TypeOK, Request
      <4> QED BY <3>2, <4>2, <4>3, <4>4, <4>5, <4>6 DEF Kinds
    <3>7. req[v].began <= mtime'[j]
      BY <3>3, <3>4
    <3> QED BY <2>1, <2>2, <3>5, <3>6, <3>7 DEF Owns, Never
  <2> QED BY <2>4, <2>5
<1>4. CASE Tick \/ UNCHANGED vars
  <2>1. UNCHANGED <<req, used, present, removing, abandoned, shown, mtime, files, child>>
    BY <1>4 DEF Tick, vars, dirVars
  <2>2. Working(v) /\ Owns(v) /\ \A u \in Workers : Working(u)' <=> Working(u)
    BY <1>2, <2>1
  <2> QED BY <1>0, <2>1, <2>2, OwnsKept DEF Owns
<1> QED BY <1>1, <1>3, <1>4 DEF Next, Step

\* Every step keeps Unused.
LEMMA UnusedStep == IInv /\ [Next]_vars => Unused'
<1> SUFFICES ASSUME IInv, [Next]_vars, NEW j \in Jobs, j \notin used' PROVE child'[j] = "none"
  BY DEF Unused
<1>0. TypeOK /\ Unused
  BY DEF IInv
<1>1. ASSUME NEW w \in Workers, Step(w) PROVE child'[j] = "none"
  <2>1. j \notin used /\ child[j] = "none"
    BY <1>0, <1>1, TimesGrow DEF Unused
  <2>2. Working(w) => req[w].job # j
    BY <2>1, JobOwned DEF Working
  <2>3. Clearing(w) => req[w].victim # j
    BY <2>1 DEF IInv, Removals
  <2>4. j # NoJob
    BY TimeAssumption
  <2>5. ASSUME NEW i \in Jobs, NEW k \in Kinds, StartJob(w, i, k) PROVE i # j
    BY <2>5 DEF StartJob
  <2>6. ASSUME NEW t, OnlyTouches(t), t # j PROVE child'[j] = "none"
    BY <2>1, <2>6 DEF OnlyTouches
  <2> QED BY <1>1, <2>2, <2>3, <2>4, <2>5, <2>6, Footprint DEF Mine
<1>2. ASSUME NEW i \in Jobs, ChildEnds(i) PROVE child'[j] = "none"
  <2>1. child[j] = "none" /\ i # j
    BY <1>0, <1>2 DEF ChildEnds, Unused, Running
  <2> QED BY <1>0, <1>2, <2>1 DEF ChildEnds, TypeOK
<1>3. CASE Tick \/ UNCHANGED vars
  BY <1>0, <1>3 DEF Tick, vars, dirVars, Unused
<1> QED BY <1>1, <1>2, <1>3 DEF Next, Step

-----------------------------------------------------------------------------
(* Removals.                                                               *)

RemovalOf(u) ==
  LET j == req[u].victim IN
  /\ j \in used
  /\ \A v \in Workers : Working(v) => req[v].job # j
  /\ req[u].pc = "unlink" => j \in removing
  /\ j \notin abandoned => child[j] = "none"
  /\ req[u].pc = "unlink" /\ j \notin abandoned => files[j] \subseteq req[u].listing
  /\ req[u].pc = "unlink" /\ ~(files[j] \subseteq req[u].listing) => req[u].began <= mtime[j]

\* A removal stays in order while others only take entries away or renew the
\* mtime.
LEMMA RemovalKept ==
  ASSUME TypeOK, NEW u \in Workers, RemovalOf(u), req'[u] = req[u],
         used \subseteq used', removing \subseteq removing', abandoned \subseteq abandoned',
         LET j == req[u].victim IN
           /\ \A v \in Workers : Working(v)' => req'[v].job # j
           /\ j \notin abandoned => child'[j] = child[j]
           /\ \/ files'[j] \subseteq files[j] /\ mtime'[j] = mtime[j]
              \/ (j \in abandoned \/ files'[j] \subseteq files[j]) /\ mtime'[j] = clock
  PROVE  RemovalOf(u)'
<1> DEFINE j == req[u].victim
<1>1. req[u].began <= clock
  BY DEF TypeOK, Request
<1>2. req[u].pc = "unlink" /\ ~(files'[j] \subseteq req[u].listing) => req[u].began <= mtime'[j]
  BY <1>1 DEF RemovalOf
<1> QED BY <1>2 DEF RemovalOf

\* A step of another worker keeps a removal in order.
LEMMA RemovalApart ==
  ASSUME IInv, NEW w \in Workers, Step(w), NEW u \in Workers \ {w}, Clearing(u)
  PROVE  RemovalOf(u)'
<1> DEFINE j == req[u].victim
<1>0. TypeOK
  BY DEF IInv
<1>1. RemovalOf(u) /\ j \in used /\ j \in Jobs
  BY <1>0 DEF IInv, Removals, RemovalOf, TypeOK
<1>2. \A v \in Workers \ {w} : req'[v] = req[v] /\ (Working(v)' <=> Working(v))
  BY OthersStay DEF Others, Working
<1>3. Working(w) => req[w].job # j
  BY <1>1 DEF RemovalOf
<1>4. ASSUME NEW i \in Jobs, NEW k \in Kinds, StartJob(w, i, k) PROVE i # j /\ req'[w].job = i
  BY <1>0, <1>1, <1>4, StartJobEffect DEF StartJob
<1>5. Working(w)' => req'[w].job # j
  BY <1>3, <1>4, WorkStays
<1>6. \A v \in Workers : Working(v)' => req'[v].job # j
  BY <1>1, <1>2, <1>5 DEF RemovalOf
<1>7. /\ used \subseteq used' /\ removing \subseteq removing' /\ abandoned \subseteq abandoned'
      /\ mtime'[j] = mtime[j] \/ mtime'[j] = clock
  BY <1>1, TimesGrow
<1>8. ASSUME NEW t, OnlyTouches(t), t # j PROVE RemovalOf(u)'
  <2>1. files'[j] = files[j] /\ mtime'[j] = mtime[j] /\ child'[j] = child[j]
    BY <1>1, <1>8 DEF OnlyTouches
  <2> QED BY <1>0, <1>1, <1>2, <1>6, <1>7, <2>1, RemovalKept
<1>9. CASE Clearing(w)
  <2>1. child' = child /\ files'[j] \subseteq files[j]
    BY <1>1, <1>9, ClearMoves
  <2> QED BY <1>0, <1>1, <1>2, <1>6, <1>7, <2>1, RemovalKept
<1>10. CASE ~Clearing(w) /\ \E i \in Jobs, k \in Kinds : StartJob(w, i, k) /\ OnlyTouches(i)
  BY <1>4, <1>8, <1>10
<1>11. CASE /\ ~Clearing(w) /\ OnlyTouches(Mine(w))
            /\ ~Working(w) /\ ~Clearing(w) => OnlyTouches(NoJob)
  <2>1. NoJob # j
    BY <1>1, TimeAssumption
  <2> QED BY <1>3, <1>8, <1>11, <2>1 DEF Mine
<1> QED BY <1>9, <1>10, <1>11, Footprint

\* The steps of a removal itself keep it in order, and one that begins is.
LEMMA RemovalOwn ==
  ASSUME IInv, NEW w \in Workers, Step(w), Clearing(w)'
  PROVE  RemovalOf(w)'
<1>0. TypeOK
  BY DEF IInv
<1>a. req'[w].pc \in Removing
  BY DEF Clearing
<1>b. \A v \in Workers \ {w} : req'[v] = req[v] /\ (Working(v)' <=> Working(v))
  BY OthersStay DEF Others, Working
<1>c. ~Working(w)'
  BY <1>a DEF Working, InJob, Removing
<1>d. used \subseteq used' /\ removing \subseteq removing' /\ abandoned \subseteq abandoned'
  BY TimesGrow
<1>e. ASSUME NEW d \in used, req'[w].pc = "list", req'[w].victim = d,
             \A v \in Workers \ {w} : Working(v) => req[v].job # d,
             d \notin abandoned => child'[d] = "none"
      PROVE  RemovalOf(w)'
  BY <1>b, <1>c, <1>d, <1>e DEF RemovalOf
<1>f. ASSUME Working(w) PROVE \A v \in Workers \ {w} : Working(v) => req[v].job # req[w].job
  BY <1>f, JobOwned DEF Working, Owns
<1>1. CASE Arrive(w)
  BY <1>0, <1>a, <1>1, ArriveEffect DEF To, Off, Rm, InJob, Removing, Scanning, InDownload
<1>2. ASSUME NEW j \in Jobs, Look(w, j) PROVE RemovalOf(w)'
  BY <1>0, <1>a, <1>2, LookEffect DEF To, Off, Rm, InJob, Removing, Scanning, InDownload
<1>3. CASE Stat(w)
  <2> DEFINE d == req[w].victim
  <2>1. /\ d \in present /\ req[w].began > mtime[d] + TTL
        /\ req'[w].pc = "list" /\ req'[w].victim = d /\ child' = child
    BY <1>a, <1>3, StatEffect DEF Stat, Rm, Removing
  <2>2. d \in used /\ d \in Jobs
    BY <1>0, <2>1 DEF TypeOK
  <2>3. ASSUME NEW v \in Workers, Working(v) PROVE req[v].job # d
    <3>1. req[v].pc # "idle" /\ Owns(v)
      BY <2>3, JobOwned DEF Working, InJob
    <3>2. clock <= req[v].began + Timeout
      BY <3>1 DEF IInv, InTime
    <3>3. req[v].began <= mtime[req[v].job]
      BY <3>1 DEF Owns
    <3>4. req[w].began <= clock /\ clock \in Nat /\ req[v].began \in Nat /\ req[w].began \in Nat
          /\ mtime[d] \in Nat
      BY <1>0, <2>2, TimeAssumption DEF TypeOK, Request
    <3> QED BY <2>1, <3>2, <3>3, <3>4, TimeAssumption
  <2>4. d \notin abandoned => child[d] = "none"
    <3>1. ASSUME NEW u \in Workers, Clearing(u), req[u].victim = d, d \notin abandoned
          PROVE  child[d] = "none"
      BY <3>1 DEF IInv, Removals
    <3>2. shown[d] # Never => child[d] = "none"
      BY <2>2 DEF IInv, Links
    <3> QED BY <2>1, <2>3, <3>1, <3>2 DEF IInv, LitterHasCause, Working, Clearing
  <2> QED BY <1>e, <2>1, <2>2, <2>3, <2>4
<1>4. CASE ScanDone(w)
  BY <1>0, <1>a, <1>4, ScanDoneEffect DEF To, Off, Rm, InJob, Removing, Scanning, InDownload
<1>5. CASE List(w)
  <2> DEFINE d == req[w].victim
  <2>1. Clearing(w) /\ child' = child /\ abandoned' = abandoned /\ files' = files /\ used' = used
    BY <1>0, <1>5, ListEffect DEF List, Clearing, Removing, dirVars
  <2>2. req'[w].pc = "unlink" /\ req'[w].listing = files[d] /\ req'[w].victim = d
        /\ removing' = removing \cup {d}
    BY <1>0, <1>a, <1>5, ListEffect DEF Off, To, Removing
  <2>3. RemovalOf(w)
    BY <2>1 DEF IInv, Removals, RemovalOf
  <2> QED BY <1>b, <1>c, <2>1, <2>2, <2>3 DEF RemovalOf
<1>6. ASSUME NEW e \in Entries, Unlink(w, e) PROVE RemovalOf(w)'
  <2> DEFINE d == req[w].victim
  <2>1. /\ req[w].pc = "unlink" /\ req'[w].pc = "unlink" /\ req'[w].victim = d
        /\ req'[w].listing = req[w].listing \ {e} /\ req'[w].began = req[w].began
    BY <1>0, <1>6, UnlinkEffect
  <2>2. RemovalOf(w) /\ d \in Jobs
    BY <1>0, <2>1 DEF IInv, Removals, RemovalOf, Clearing, Removing, TypeOK
  <2>3. /\ files'[d] = files[d] \ {e} /\ (mtime'[d] = mtime[d] \/ mtime'[d] = clock)
        /\ UNCHANGED <<used, removing, abandoned, child>>
    BY <1>0, <2>2, <1>6 DEF Unlink, Touch, TypeOK
  <2>4. req[w].began <= clock
    BY <1>0 DEF TypeOK, Request
  <2>5. ~(files'[d] \subseteq req'[w].listing) => req'[w].began <= mtime'[d]
    BY <2>1, <2>2, <2>3, <2>4 DEF RemovalOf
  <2> QED BY <1>b, <1>c, <2>1, <2>2, <2>3, <2>5 DEF RemovalOf
<1>7. CASE Rmdir(w)
  BY <1>0, <1>a, <1>7, RmdirEffect DEF To, Off, Rm, InJob, Removing, Scanning, InDownload
<1>8. CASE Answer(w)
  BY <1>0, <1>a, <1>8, AnswerEffect DEF To, Off, Rm, InJob, Removing, Scanning, InDownload
<1>9. ASSUME NEW j \in Jobs, NEW k \in Kinds, StartJob(w, j, k) PROVE RemovalOf(w)'
  BY <1>0, <1>a, <1>9, StartJobEffect DEF To, Off, Rm, InJob, Removing, Scanning, InDownload
<1>10. CASE Save(w)
  BY <1>0, <1>a, <1>10, SaveEffect DEF To, Off, Rm, InJob, Removing, Scanning, InDownload
<1>11. CASE SaveFails(w)
  <2> DEFINE d == req[w].job
  <2>1. req[w].pc = "upload" /\ req'[w].pc = "list" /\ req'[w].victim = d /\ child' = child
    BY <1>0, <1>a, <1>11, SaveFailsEffect DEF SaveFails, Rm, To, Removing
  <2>2. Working(w) /\ Owns(w) /\ d \in used
    BY <2>1, JobOwned DEF Working, InJob
  <2>3. child[d] = "none"
    BY <2>1, <2>2 DEF Owns, ChildExpected
  <2> QED BY <1>e, <1>f, <2>1, <2>2, <2>3
<1>12. CASE RunFails(w)
  <2> DEFINE d == req[w].job
  <2>1. /\ req[w].pc \in {"run", "run2"} /\ req'[w].pc = "list" /\ req'[w].victim = d
    BY <1>0, <1>a, <1>12, RunFailsEffect DEF Rm, To, Removing
  <2>2. Working(w) /\ d \in used /\ d \in Jobs
    BY <1>0, <2>1, JobOwned DEF Working, InJob, TypeOK
  <2>3. child'[d] = "none"
    BY <1>0, <1>a, <2>2, <1>12, RunFailsEffect DEF RunFails, To, Rm, Removing, TypeOK
  <2> QED BY <1>e, <1>f, <2>1, <2>2, <2>3
<1>13. CASE RunRaises(w)
  BY <1>0, <1>a, <1>13, RunRaisesEffect DEF To, Off, Rm, InJob, Removing, Scanning, InDownload
<1>14. CASE RunSucceeds(w)
  <2> DEFINE d == req[w].job
  <2>1. /\ req[w].pc \in {"run", "run2"} /\ req'[w].pc = "list" /\ req'[w].victim = d
    BY <1>0, <1>a, <1>14, RunSucceedsEffect DEF Rm, To, Removing
  <2>2. Working(w) /\ d \in used /\ d \in Jobs
    BY <1>0, <2>1, JobOwned DEF Working, InJob, TypeOK
  <2>3. child'[d] = "none"
    BY <1>0, <1>a, <2>2, <1>14, RunSucceedsEffect DEF RunSucceeds, To, Rm, Removing, TypeOK
  <2> QED BY <1>e, <1>f, <2>1, <2>2, <2>3
<1>15. CASE ShowLinks(w)
  BY <1>0, <1>a, <1>15, ShowLinksEffect DEF To, Off, Rm, InJob, Removing, Scanning, InDownload
<1>16. CASE Pack(w)
  <2> DEFINE d == req[w].job
  <2>1. req[w].pc = "pack" /\ req'[w].pc = "list" /\ req'[w].victim = d /\ child' = child
    BY <1>0, <1>a, <1>16, PackEffect DEF Pack, Rm, To, Removing
  <2>2. Working(w) /\ Owns(w) /\ d \in used
    BY <2>1, JobOwned DEF Working, InJob
  <2>3. child[d] = "none"
    BY <2>1, <2>2 DEF Owns, ChildExpected
  <2> QED BY <1>e, <1>f, <2>1, <2>2, <2>3
<1>17. CASE CloseResponse(w)
  <2> DEFINE d == req[w].job
  <2>1. req[w].pc = "stream" /\ req'[w].pc = "list" /\ req'[w].victim = d /\ child' = child
    BY <1>0, <1>a, <1>17, CloseResponseEffect DEF CloseResponse, Rm, To, Removing
  <2>2. Working(w) /\ Owns(w) /\ d \in used
    BY <2>1, JobOwned DEF Working, InJob
  <2>3. child[d] = "none"
    BY <2>1, <2>2 DEF Owns, ChildExpected
  <2> QED BY <1>e, <1>f, <2>1, <2>2, <2>3
<1>18. ASSUME NEW j \in Jobs, AskKey(w, j) PROVE RemovalOf(w)'
  BY <1>0, <1>a, <1>18, AskKeyEffect DEF To, Off, Rm, InJob, Removing, Scanning, InDownload
<1>19. CASE KeyStat(w)
  <2> DEFINE d == req[w].job
  <2>1. /\ req[w].pc = "keystat" /\ req'[w].pc = "list" /\ req'[w].victim = d
        /\ child' = child
    BY <1>a, <1>19, KeyStatEffect DEF KeyStat, Off, Rm, To, Removing, dirVars
  <2>2. d \in used /\ d \in Jobs /\ shown[d] # Never
    BY <1>0, <2>1 DEF IInv, Downloads, InDownload, TypeOK
  <2>3. child[d] = "none"
    BY <2>2 DEF IInv, Links
  <2>4. \A v \in Workers : Working(v) => req[v].job # d
    BY <2>2, JobOwned DEF Working
  <2> QED BY <1>e, <2>1, <2>2, <2>3, <2>4
<1>20. CASE KeyOpen(w)
  BY <1>0, <1>a, <1>20, KeyOpenEffect DEF To, Off, Rm, InJob, Removing, Scanning, InDownload
<1>21. CASE Served(w)
  BY <1>0, <1>a, <1>21, ServedEffect DEF To, Off, Rm, InJob, Removing, Scanning, InDownload
<1>22. CASE Kill(w)
  BY <1>0, <1>a, <1>22, KillEffect DEF To, Off, Rm, InJob, Removing, Scanning, InDownload
<1> QED
  BY <1>1, <1>2, <1>3, <1>4, <1>5, <1>6, <1>7, <1>8, <1>9, <1>10, <1>11,
     <1>12, <1>13, <1>14, <1>15, <1>16, <1>17, <1>18, <1>19, <1>20, <1>21, <1>22
     DEF Step, Cleanup, Rmtree, Handler

\* Every step keeps Removals.
LEMMA RemovalsStep == IInv /\ [Next]_vars => Removals'
<1> SUFFICES ASSUME IInv, [Next]_vars, NEW u \in Workers, Clearing(u)' PROVE RemovalOf(u)'
  BY DEF Removals, RemovalOf
<1>0. TypeOK
  BY DEF IInv
<1>1. ASSUME NEW w \in Workers, Step(w) PROVE RemovalOf(u)'
  <2>1. CASE u = w
    BY <1>1, <2>1, RemovalOwn
  <2>2. CASE u # w
    <3>1. Clearing(u)
      BY <1>1, <2>2, OthersStay DEF Others, Clearing
    <3> QED BY <1>1, <2>2, <3>1, RemovalApart
  <2> QED BY <2>1, <2>2
<1>2. ASSUME req' = req
      PROVE  RemovalOf(u) /\ req[u].victim \in Jobs /\ \A v \in Workers : Working(v)' <=> Working(v)
  BY <1>0, <1>2 DEF Clearing, Working, IInv, Removals, RemovalOf, TypeOK
<1>3. ASSUME NEW i \in Jobs, ChildEnds(i) PROVE RemovalOf(u)'
  <2> DEFINE j == req[u].victim
  <2>1. UNCHANGED <<clock, req, used, present, removing, abandoned>>
    BY <1>3 DEF ChildEnds
  <2>2. RemovalOf(u) /\ j \in Jobs /\ \A v \in Workers : Working(v)' <=> Working(v)
    BY <1>2, <2>1
  <2>3. i = j => j \in abandoned
    BY <1>3, <2>2 DEF ChildEnds, Running, RemovalOf
  <2>4. j \notin abandoned => child'[j] = child[j]
    BY <1>0, <1>3, <2>2, <2>3 DEF ChildEnds, TypeOK
  <2>5. \/ files'[j] \subseteq files[j] /\ mtime'[j] = mtime[j]
        \/ j \in abandoned /\ mtime'[j] = clock
    BY <1>0, <1>3, <2>2, <2>3 DEF ChildEnds, Touch, TypeOK
  <2> QED BY <1>0, <2>1, <2>2, <2>4, <2>5, RemovalKept DEF RemovalOf
<1>4. CASE Tick \/ UNCHANGED vars
  <2>1. UNCHANGED <<req, used, removing, abandoned, mtime, files, child>>
    BY <1>4 DEF Tick, vars, dirVars
  <2>2. RemovalOf(u) /\ \A v \in Workers : Working(v)' <=> Working(v)
    BY <1>2, <2>1
  <2> QED BY <1>0, <2>1, <2>2, RemovalKept DEF RemovalOf
<1> QED BY <1>1, <1>3, <1>4 DEF Next, Step

-----------------------------------------------------------------------------
(* LitterHasCause.                                                         *)

\* Every step keeps LitterHasCause.
LEMMA LitterStep == IInv /\ [Next]_vars => LitterHasCause'
<1> DEFINE Cause(j) == \/ \E w \in Workers : Working(w) /\ req[w].job = j
                       \/ \E w \in Workers : Clearing(w) /\ req[w].victim = j
                       \/ shown[j] # Never /\ (j \notin removing => files[j] = {"private", "public"})
                       \/ j \in abandoned
<1> SUFFICES ASSUME IInv, [Next]_vars, NEW j \in Jobs, j \in present' PROVE Cause(j)'
  <2>1. IInv /\ [Next]_vars => present' \subseteq Jobs
    BY TypeStep DEF TypeOK
  <2> QED BY <2>1 DEF LitterHasCause, Working, Clearing
<1>0. TypeOK /\ (j \in present => Cause(j))
  BY DEF IInv, LitterHasCause, Working, Clearing
<1>1. ASSUME NEW w \in Workers, Step(w) PROVE Cause(j)'
  <2>1. \A v \in Workers \ {w} : req'[v] = req[v]
    BY <1>1, OthersStay DEF Others
  <2>2. \A v \in Workers \ {w} : (Working(v)' <=> Working(v)) /\ (Clearing(v)' <=> Clearing(v))
    BY <2>1 DEF Working, Clearing
  <2>3. CASE Working(w) /\ req[w].job = j
    <3>1. \/ Working(w)' /\ req'[w].job = j
          \/ Clearing(w)' /\ req'[w].victim = j
          \/ j \in abandoned'
          \/ shown'[j] # Never /\ files'[j] = {"private", "public"}
      BY <1>1, <2>3, WorkMoves
    <3> QED BY <3>1 DEF Never
  <2>4. CASE Clearing(w) /\ req[w].victim = j
    <3>1. \/ Clearing(w)' /\ req'[w].victim = j
          \/ j \in abandoned'
      BY <1>1, <2>4, ClearMoves
    <3> QED BY <3>1
  <2>5. ASSUME ~(Working(w) /\ req[w].job = j), ~(Clearing(w) /\ req[w].victim = j),
               NEW t, OnlyTouches(t), t # j
        PROVE  Cause(j)'
    <3>1. /\ j \in present /\ shown'[j] = shown[j] /\ files'[j] = files[j]
          /\ j \in removing' <=> j \in removing
          /\ j \in abandoned' <=> j \in abandoned
      BY <2>5 DEF OnlyTouches
    <3>2. CASE \E v \in Workers : Working(v) /\ req[v].job = j
      BY <2>1, <2>2, <2>5, <3>2
    <3>3. CASE \E v \in Workers : Clearing(v) /\ req[v].victim = j
      BY <2>1, <2>2, <2>5, <3>3
    <3>4. CASE shown[j] # Never /\ (j \notin removing => files[j] = {"private", "public"})
      BY <3>1, <3>4 DEF Never
    <3>5. CASE j \in abandoned
      BY <3>1, <3>5
    <3> QED BY <1>0, <3>1, <3>2, <3>3, <3>4, <3>5
  <2>6. CASE \E i \in Jobs, k \in Kinds : StartJob(w, i, k) /\ OnlyTouches(i)
    <3>1. PICK i \in Jobs, k \in Kinds : StartJob(w, i, k) /\ OnlyTouches(i)
      BY <2>6
    <3>2. req[w].pc = "handle" /\ req'[w].job = i /\ req'[w].pc \in {"run", "upload"}
      BY <1>0, <3>1, StartJobEffect
    <3>3. ~Working(w) /\ ~Clearing(w) /\ Working(w)'
      BY <3>2 DEF Working, Clearing, InJob, Removing
    <3>4. CASE i = j
      BY <3>2, <3>3, <3>4
    <3>5. CASE i # j
      BY <2>5, <3>1, <3>3, <3>5
    <3> QED BY <3>4, <3>5
  <2>7. CASE OnlyTouches(Mine(w)) /\ (~Working(w) /\ ~Clearing(w) => OnlyTouches(NoJob))
    <3>1. NoJob # j
      BY TimeAssumption
    <3>2. ~(Working(w) /\ Clearing(w))
      BY DEF Working, Clearing, InJob, Removing
    <3> QED BY <2>3, <2>4, <2>5, <2>7, <3>1, <3>2 DEF Mine
  <2> QED BY <1>1, <2>6, <2>7, Footprint
<1>2. ASSUME NEW i \in Jobs, ChildEnds(i) PROVE Cause(j)'
  <2>1. UNCHANGED <<clock, req, present, removing, abandoned, shown>>
    BY <1>2 DEF ChildEnds
  <2>2. shown[j] # Never => files'[j] = files[j]
    <3>1. shown[j] # Never => i # j
      BY <1>2 DEF ChildEnds, Running, IInv, Links
    <3> QED BY <1>0, <1>2, <3>1 DEF ChildEnds, Touch, TypeOK
  <2> QED BY <1>0, <2>1, <2>2 DEF Working, Clearing, Never
<1>3. CASE Tick \/ UNCHANGED vars
  <2>1. UNCHANGED <<req, present, removing, abandoned, shown, files>>
    BY <1>3 DEF Tick, vars, dirVars
  <2> QED BY <1>0, <2>1 DEF Working, Clearing, Never
<1> QED BY <1>1, <1>2, <1>3 DEF Next, Step

-----------------------------------------------------------------------------
(* The theorems.                                                           *)

\* IInv holds at the start.
LEMMA InitIInv == Init => IInv
<1> SUFFICES ASSUME Init PROVE IInv
  OBVIOUS
<1>1. \A w \in Workers : req[w] = Idle /\ req[w].pc = "idle"
  BY DEF Init, Idle
<1>2. clock = 0 /\ 0 \in 0..Horizon /\ 0 \in 0..clock /\ used = {} /\ present = {}
  BY TimeAssumption DEF Init
<1>3. Idle \in Request
  BY <1>2 DEF Idle, Request, Places, Kinds
<1>4. req \in [Workers -> Request]
  BY <1>3 DEF Init
<1>5. /\ files \in [Jobs -> SUBSET Entries] /\ mtime \in [Jobs -> 0..clock]
      /\ child \in [Jobs -> Child] /\ shown \in [Jobs -> (0..clock) \cup {Never}]
      /\ removing = {} /\ abandoned = {}
  BY <1>2 DEF Init, Child
<1>6. TypeOK
  BY <1>2, <1>4, <1>5 DEF TypeOK
<1>7. InTime /\ Owned /\ Removals /\ Downloads /\ ScanComplete /\ ExpiredAreGone
  BY <1>1 DEF InTime, Owned, Removals, Downloads, ScanComplete, ExpiredAreGone,
              Working, Clearing, InJob, Removing, InDownload, Scanning
<1>8. Links /\ Unused /\ LitterHasCause
  BY <1>2 DEF Init, Links, Unused, LitterHasCause
<1> QED BY <1>6, <1>7, <1>8 DEF IInv

\* IInv is inductive: it holds in every state of every run, whatever the
\* number of workers and jobs.
THEOREM Invariance == Spec => []IInv
<1>1. IInv /\ [Next]_vars => IInv'
  BY TypeStep, InTimeStep, UnusedStep, OwnedStep, RemovalsStep, LinksStep, DownloadsStep,
     ScanStep, LitterStep DEF IInv
<1> QED BY <1>1, InitIInv, PTL DEF Spec

\* cleanup_old_jobs never takes away the directory of a request that is being
\* worked on: an upload, an archive or half a key pair stays where it is.
THEOREM Undisturbed == Spec => []JobUndisturbed
<1>1. IInv => JobUndisturbed
  BY DEF IInv, Owned, Owns, Working, JobUndisturbed
<1> QED BY <1>1, Invariance, PTL

\* No key is sent to a request that came later than MAX_KEY_AGE after its link
\* was shown, but for a key whose directory is being removed.
THEOREM InTimeOnly == Spec => []ServedInTime
<1>1. IInv => ServedInTime
  BY DEF IInv, Downloads, InDownload, ServedInTime
<1> QED BY <1>1, Invariance, PTL

\* What had expired when a request arrived is gone when its handler starts.
THEOREM Expiry == Spec => []ExpiredAreGone
<1>1. IInv => ExpiredAreGone
  BY DEF IInv
<1> QED BY <1>1, Invariance, PTL

\* No handler leaves its directory behind, other than a key pair whose links
\* were shown, unless it was killed or raised.
THEOREM NoLitter == Spec => []LitterHasCause
<1>1. IInv => LitterHasCause
  BY DEF IInv
<1> QED BY <1>1, Invariance, PTL
=============================================================================
