------------------------------ MODULE WebJobs ------------------------------
(***************************************************************************)
(* The job directories of the web service (app.py).  Several gunicorn      *)
(* worker processes share WORKDIR and nothing else: every request first    *)
(* removes the directories whose mtime is older than ZUPT_KEY_TTL_SEC,     *)
(* then may make a directory of its own, run zupt in it as a child         *)
(* process, and remove it, or leave it for the links to a new key pair.    *)
(* A worker that is busy longer than the gunicorn timeout is killed, its   *)
(* child process lives on.                                                 *)
(*                                                                         *)
(* Time is a clock in ticks.  Of a directory the model keeps the direct    *)
(* entries and the mtime, which changes with them.  shutil.rmtree is a     *)
(* step per entry.  A job id is 128 random bits: it is used once.          *)
(***************************************************************************)
EXTENDS Naturals, FiniteSets

CONSTANTS
  Workers,  \* the gunicorn worker processes
  Jobs,     \* the job ids
  NoJob,    \* no job
  TTL,      \* MAX_KEY_AGE, in ticks
  Timeout,  \* gunicorn --timeout, in ticks
  Horizon   \* how far the clock goes

\* app.py does not relate the two; the deployment has 14400 and 660 seconds.
ASSUME TimeAssumption ==
  /\ TTL \in Nat /\ Timeout \in Nat /\ Horizon \in Nat
  /\ Timeout <= TTL
  /\ NoJob \notin Jobs

VARIABLES
  clock,
  used,       \* the ids new_job_id has returned
  present,    \* the job directories in WORKDIR
  files,      \* the entries of each directory
  mtime,      \* st_mtime of each directory
  child,      \* the zupt process of each job
  shown,      \* when the links of a key pair were shown, or Never
  req,        \* what each worker knows of its request
  removing,   \* the directories some rmtree has begun to remove
  abandoned   \* the directories whose worker was killed or gave up

dirVars == <<used, present, files, mtime>>
vars == <<clock, dirVars, child, shown, req, removing, abandoned>>

Entries == {"in", "out", "private", "public"}
Kinds == {"compress", "extract", "check", "keygen"}

\* What a zupt process is about to leave in the job directory ("quiet":
\* nothing, or deeper down), or how it ended.
Running == {"private", "public", "out", "quiet"}
Child == Running \cup {"none", "ok", "bad"}

Scanning == {"scan", "stat"}
Removing == {"list", "unlink"}
InJob == {"upload", "run", "run2", "pack", "stream"}
InDownload == {"keystat", "keyopen", "serve"}
Places == {"idle", "handle"} \cup Scanning \cup Removing \cup InJob \cup InDownload

\* began: when the request came, which is also the "now" of its cleanup; todo:
\* the directories the cleanup has still to look at; cut: it has given up on
\* an OSError; job and kind: the job of the request; victim: the directory the
\* worker looks at or removes, listing: the entries rmtree has still to unlink,
\* after: where the worker goes on.
Idle == [pc |-> "idle", began |-> 0, todo |-> {}, cut |-> FALSE, job |-> NoJob,
         kind |-> "check", victim |-> NoJob, listing |-> {}, after |-> "idle"]

Never == Horizon + 1

Init ==
  /\ clock = 0
  /\ used = {} /\ present = {}
  /\ files = [j \in Jobs |-> {}]
  /\ mtime = [j \in Jobs |-> 0]
  /\ child = [j \in Jobs |-> "none"]
  /\ shown = [j \in Jobs |-> Never]
  /\ req = [w \in Workers |-> Idle]
  /\ removing = {} /\ abandoned = {}

\* Between two requests a worker remembers nothing.
Becomes(w, r) == req' = [req EXCEPT ![w] = IF r.pc = "idle" THEN Idle ELSE r]

Moves(w, from, to) ==
  req[w].pc = from /\ Becomes(w, [req[w] EXCEPT !.pc = to])

\* An entry appears in, or goes from, the directory of j.
Touch(j, entries) ==
  /\ files' = [files EXCEPT ![j] = entries]
  /\ mtime' = [mtime EXCEPT ![j] = clock]

\* shutil.rmtree(j, ignore_errors=True), then on to next.
Remove(w, from, j, next) ==
  /\ req[w].pc = from
  /\ Becomes(w, [req[w] EXCEPT !.pc = "list", !.job = NoJob, !.kind = "check",
                               !.victim = j, !.after = next])

-----------------------------------------------------------------------------
(* csrf_prepare: cleanup_old_jobs.                                         *)

Arrive(w) ==
  /\ req[w].pc = "idle"
  /\ Becomes(w, [Idle EXCEPT !.pc = "scan", !.began = clock, !.todo = present])
  /\ UNCHANGED <<clock, dirVars, child, shown, removing, abandoned>>

\* entry.is_dir(): what is not there any more is passed over.
Look(w, j) ==
  /\ req[w].pc = "scan" /\ j \in req[w].todo
  /\ \/ /\ j \in present
        /\ Becomes(w, [req[w] EXCEPT !.pc = "stat", !.todo = @ \ {j}, !.victim = j])
     \/ /\ j \notin present
        /\ Becomes(w, [req[w] EXCEPT !.todo = @ \ {j}])
  /\ UNCHANGED <<clock, dirVars, child, shown, removing, abandoned>>

\* Mutant: removes what is exactly as old as it may be.
StatEarly(w) ==
  LET j == req[w].victim IN
  /\ \/ /\ j \notin present /\ req[w].pc = "stat"
        /\ Becomes(w, [req[w] EXCEPT !.pc = "handle", !.todo = {}, !.victim = NoJob, !.cut = TRUE])
     \/ /\ j \in present /\ req[w].began < mtime[j] + TTL /\ req[w].pc = "stat"
        /\ Becomes(w, [req[w] EXCEPT !.pc = "scan", !.victim = NoJob])
     \/ j \in present /\ req[w].began >= mtime[j] + TTL /\ Remove(w, "stat", j, "scan")
  /\ UNCHANGED <<clock, dirVars, child, shown, removing, abandoned>>

\* entry.stat(): a directory that went since is_dir() ends the whole cleanup.
Stat(w) ==
  LET j == req[w].victim IN
  /\ \/ /\ j \notin present /\ req[w].pc = "stat"
        /\ Becomes(w, [req[w] EXCEPT !.pc = "handle", !.todo = {}, !.victim = NoJob, !.cut = TRUE])
     \/ /\ j \in present /\ req[w].began <= mtime[j] + TTL /\ req[w].pc = "stat"
        /\ Becomes(w, [req[w] EXCEPT !.pc = "scan", !.victim = NoJob])
     \/ j \in present /\ req[w].began > mtime[j] + TTL /\ Remove(w, "stat", j, "scan")
  /\ UNCHANGED <<clock, dirVars, child, shown, removing, abandoned>>

ScanDone(w) ==
  /\ req[w].todo = {}
  /\ Moves(w, "scan", "handle")
  /\ UNCHANGED <<clock, dirVars, child, shown, removing, abandoned>>

-----------------------------------------------------------------------------
(* shutil.rmtree, errors ignored.                                          *)

List(w) ==
  LET j == req[w].victim IN
  /\ \/ /\ j \in present /\ req[w].pc = "list"
        /\ Becomes(w, [req[w] EXCEPT !.pc = "unlink", !.listing = files[j]])
        /\ removing' = removing \cup {j}
     \/ j \notin present /\ Moves(w, "list", req[w].after) /\ UNCHANGED removing
  /\ UNCHANGED <<clock, dirVars, child, shown, abandoned>>

Unlink(w, e) ==
  LET j == req[w].victim IN
  /\ req[w].pc = "unlink" /\ e \in req[w].listing
  /\ Becomes(w, [req[w] EXCEPT !.listing = @ \ {e}])
  /\ IF e \in files[j] THEN Touch(j, files[j] \ {e}) ELSE UNCHANGED <<files, mtime>>
  /\ UNCHANGED <<clock, used, present, child, shown, removing, abandoned>>

\* rmdir fails when an entry has appeared since the listing.
Rmdir(w) ==
  LET j == req[w].victim IN
  /\ req[w].listing = {}
  /\ Moves(w, "unlink", req[w].after)
  /\ present' = IF files[j] = {} THEN present \ {j} ELSE present
  /\ UNCHANGED <<clock, used, files, mtime, child, shown, removing, abandoned>>

-----------------------------------------------------------------------------
(* The handlers.                                                           *)

\* A page, or a request that is refused before it has a job.
Answer(w) ==
  /\ Moves(w, "handle", "idle")
  /\ UNCHANGED <<clock, dirVars, child, shown, removing, abandoned>>

\* The request is for the job j of kind k.
Enters(w, to, j, k) ==
  /\ req[w].pc = "handle"
  /\ Becomes(w, [req[w] EXCEPT !.pc = to, !.cut = FALSE, !.job = j, !.kind = k])

\* Mutant: an id is free again when its directory is gone.
StartJobReused(w, j, k) ==
  /\ j \notin present
  /\ used' = used \cup {j} /\ present' = present \cup {j}
  /\ Touch(j, {})
  /\ \/ k = "keygen" /\ Enters(w, "run", j, k) /\ child' = [child EXCEPT ![j] = "private"]
     \/ k # "keygen" /\ Enters(w, "upload", j, k) /\ UNCHANGED child
  /\ UNCHANGED <<clock, shown, removing, abandoned>>

\* new_job_id and job_dir.
StartJob(w, j, k) ==
  /\ j \notin used
  /\ used' = used \cup {j} /\ present' = present \cup {j}
  /\ Touch(j, {})
  /\ \/ k = "keygen" /\ Enters(w, "run", j, k) /\ child' = [child EXCEPT ![j] = "private"]
     \/ k # "keygen" /\ Enters(w, "upload", j, k) /\ UNCHANGED child
  /\ UNCHANGED <<clock, shown, removing, abandoned>>

\* _save_job_upload, then the child process.
Save(w) ==
  LET j == req[w].job IN
  /\ j \in present
  /\ Moves(w, "upload", "run")
  /\ Touch(j, {"in"})
  /\ child' = [child EXCEPT ![j] = IF req[w].kind = "compress" THEN "out" ELSE "quiet"]
  /\ UNCHANGED <<clock, used, present, shown, removing, abandoned>>

SaveFails(w) ==
  /\ Remove(w, "upload", req[w].job, "idle")
  /\ UNCHANGED <<clock, dirVars, child, shown, removing, abandoned>>

\* run_zupt returns an error, or a timeout: the child is gone.
RunFails(w) ==
  LET j == req[w].job IN
  /\ req[w].pc \in {"run", "run2"} /\ child[j] = "bad"
  /\ Remove(w, req[w].pc, j, "idle")
  /\ child' = [child EXCEPT ![j] = "none"]
  /\ UNCHANGED <<clock, dirVars, shown, removing, abandoned>>

\* The handler raises: a directory for uploads, keys or output cannot be made, or
\* the output of the child is not UTF-8.
RunRaises(w) ==
  LET j == req[w].job IN
  /\ \/ req[w].pc = "upload"
     \/ req[w].pc \in {"run", "run2"} /\ child[j] \in {"ok", "bad"}
  /\ Moves(w, req[w].pc, "idle")
  /\ child' = [child EXCEPT ![j] = "none"]
  /\ abandoned' = abandoned \cup {j}
  /\ UNCHANGED <<clock, dirVars, shown, removing>>

\* What follows a run that succeeded: test and info are done, an archive is
\* sent, extracted files are packed, a private key gets its public key.
RunSucceeds(w) ==
  LET j == req[w].job
      k == req[w].kind
  IN
  /\ req[w].pc = "run" /\ child[j] = "ok"
  /\ \/ k = "check" /\ Remove(w, "run", j, "idle")
     \/ k = "compress" /\ Moves(w, "run", "stream")
     \/ k = "extract" /\ Moves(w, "run", "pack")
     \/ k = "keygen" /\ Moves(w, "run", "run2")
  /\ child' = [child EXCEPT ![j] = IF k = "keygen" THEN "public" ELSE "none"]
  /\ UNCHANGED <<clock, dirVars, shown, removing, abandoned>>

\* keygen_result.html shows the links of the key pair.
ShowLinks(w) ==
  LET j == req[w].job IN
  /\ req[w].pc = "run2" /\ child[j] = "ok"
  /\ Moves(w, "run2", "idle")
  /\ child' = [child EXCEPT ![j] = "none"]
  /\ shown' = [shown EXCEPT ![j] = clock]
  /\ UNCHANGED <<clock, dirVars, removing, abandoned>>

\* extract: one file is sent as it is, several as extracted.tar.gz; nothing
\* extracted, or nowhere to put the tar file, is an error.
Pack(w) ==
  LET j == req[w].job IN
  /\ \/ Moves(w, "pack", "stream") /\ UNCHANGED <<files, mtime>>
     \/ j \in present /\ Moves(w, "pack", "stream") /\ Touch(j, files[j] \cup {"out"})
     \/ Remove(w, "pack", j, "idle") /\ UNCHANGED <<files, mtime>>
  /\ UNCHANGED <<clock, used, present, child, shown, removing, abandoned>>

\* job_download: call_on_close removes the directory.
CloseResponse(w) ==
  /\ Remove(w, "stream", req[w].job, "idle")
  /\ UNCHANGED <<clock, dirVars, child, shown, removing, abandoned>>

\* download_key: someone who was shown the link asks for the key.
AskKey(w, j) ==
  /\ shown[j] # Never
  /\ Enters(w, "keystat", j, "keygen")
  /\ UNCHANGED <<clock, dirVars, child, shown, removing, abandoned>>

\* Mutant: the age is left to cleanup_old_jobs.
KeyStatTrusting(w) ==
  /\ \/ req[w].job \notin present /\ Moves(w, "keystat", "idle")
     \/ req[w].job \in present /\ Moves(w, "keystat", "keyopen")
  /\ UNCHANGED <<clock, dirVars, child, shown, removing, abandoned>>

KeyStat(w) ==
  LET j == req[w].job IN
  /\ \/ j \notin present /\ Moves(w, "keystat", "idle")
     \/ j \in present /\ clock <= mtime[j] + TTL /\ Moves(w, "keystat", "keyopen")
     \/ j \in present /\ clock > mtime[j] + TTL /\ Remove(w, "keystat", j, "idle")
  /\ UNCHANGED <<clock, dirVars, child, shown, removing, abandoned>>

\* send_file opens the key; the file may be gone by now.
KeyOpen(w) ==
  /\ req[w].pc = "keyopen"
  /\ \/ "private" \in files[req[w].job] /\ Moves(w, "keyopen", "serve")
     \/ "private" \notin files[req[w].job] /\ Moves(w, "keyopen", "idle")
  /\ UNCHANGED <<clock, dirVars, child, shown, removing, abandoned>>

Served(w) ==
  /\ Moves(w, "serve", "idle")
  /\ UNCHANGED <<clock, dirVars, child, shown, removing, abandoned>>

-----------------------------------------------------------------------------
(* The surroundings.                                                       *)

\* zupt does its work, which it cannot do in a directory that is gone.
ChildEnds(j) ==
  /\ child[j] \in Running
  /\ \/ /\ j \in present /\ child[j] # "quiet"
        /\ Touch(j, files[j] \cup {child[j]})
        /\ child' = [child EXCEPT ![j] = "ok"]
     \/ /\ child[j] = "quiet"
        /\ child' = [child EXCEPT ![j] = "ok"] /\ UNCHANGED <<files, mtime>>
     \/ child' = [child EXCEPT ![j] = "bad"] /\ UNCHANGED <<files, mtime>>
  /\ UNCHANGED <<clock, used, present, shown, req, removing, abandoned>>

\* A worker dies, of the gunicorn timeout or of anything else, and a new one
\* takes its place.
Kill(w) ==
  /\ req[w].pc # "idle"
  /\ req' = [req EXCEPT ![w] = Idle]
  /\ abandoned' = abandoned \cup {j \in Jobs :
       \/ req[w].pc \in InJob /\ j = req[w].job
       \/ req[w].pc \in Removing /\ j = req[w].victim}
  /\ UNCHANGED <<clock, dirVars, child, shown, removing>>

\* No request outlives the timeout.
Tick ==
  /\ clock < Horizon
  /\ \A w \in Workers : req[w].pc # "idle" => clock < req[w].began + Timeout
  /\ clock' = clock + 1
  /\ UNCHANGED <<dirVars, child, shown, req, removing, abandoned>>

Cleanup(w) == Arrive(w) \/ (\E j \in Jobs : Look(w, j)) \/ Stat(w) \/ ScanDone(w)

Rmtree(w) == List(w) \/ (\E e \in Entries : Unlink(w, e)) \/ Rmdir(w)

Handler(w) ==
  \/ Answer(w)
  \/ \E j \in Jobs, k \in Kinds : StartJob(w, j, k)
  \/ Save(w) \/ SaveFails(w)
  \/ RunFails(w) \/ RunRaises(w) \/ RunSucceeds(w)
  \/ ShowLinks(w) \/ Pack(w) \/ CloseResponse(w)
  \/ \E j \in Jobs : AskKey(w, j)
  \/ KeyStat(w) \/ KeyOpen(w) \/ Served(w)

Next ==
  \/ \E w \in Workers : Cleanup(w) \/ Rmtree(w) \/ Handler(w) \/ Kill(w)
  \/ \E j \in Jobs : ChildEnds(j)
  \/ Tick

Spec == Init /\ [][Next]_vars

-----------------------------------------------------------------------------
(* Properties.                                                             *)

Request ==
  [pc : Places, began : 0..clock, todo : SUBSET used, cut : BOOLEAN,
   job : used \cup {NoJob}, kind : Kinds, victim : used \cup {NoJob},
   listing : SUBSET Entries, after : {"scan", "idle"}]

\* Every variable keeps its type.
TypeOK ==
  /\ clock \in 0..Horizon
  /\ used \in SUBSET Jobs /\ present \in SUBSET used
  /\ files \in [Jobs -> SUBSET Entries] /\ mtime \in [Jobs -> 0..clock]
  /\ child \in [Jobs -> Child] /\ shown \in [Jobs -> (0..clock) \cup {Never}]
  /\ req \in [Workers -> Request]
  /\ removing \in SUBSET used /\ abandoned \in SUBSET used

\* What the handler has put into its directory so far.
Deposit(w) ==
  {e \in Entries :
     \/ e = "in" /\ req[w].kind # "keygen" /\ req[w].pc # "upload"
     \/ e = "out" /\ req[w].kind = "compress" /\ req[w].pc = "stream"
     \/ e = "private" /\ req[w].pc = "run2"}

\* cleanup_old_jobs, in this worker or in another, never touches the directory
\* of a request that is being worked on or whose result is being sent.
JobUndisturbed ==
  \A w \in Workers : req[w].pc \in InJob =>
    /\ req[w].job \in present \ removing
    /\ Deposit(w) \subseteq files[req[w].job]

\* A key is sent only to a request within MAX_KEY_AGE of the moment its link
\* was shown ("idle key links cannot bypass their TTL"), or while some worker
\* removes its directory: the first unlink of rmtree renews the mtime.
ServedInTime ==
  \A w \in Workers : req[w].pc = "serve" =>
    req[w].began <= shown[req[w].job] + TTL \/ req[w].job \in removing

\* When a request gets to its handler no directory is left that had expired
\* when it arrived ("Expiry is enforced on every externally reachable
\* non-health request"), unless the cleanup was cut short.
ExpiredAreGone ==
  \A w \in Workers : req[w].pc = "handle" /\ ~req[w].cut =>
    \A j \in present : req[w].began <= mtime[j] + TTL

\* A directory without a request belongs to a key pair whose links were shown
\* (both keys are there until it is removed), or its request was killed or
\* raised: every error path of the handlers cleans up.
LitterHasCause ==
  \A j \in present :
    \/ \E w \in Workers : req[w].pc \in InJob /\ req[w].job = j
    \/ \E w \in Workers : req[w].pc \in Removing /\ req[w].victim = j
    \/ shown[j] # Never /\ (j \notin removing => files[j] = {"private", "public"})
    \/ j \in abandoned

-----------------------------------------------------------------------------
(* The inductive invariant.                                                *)

Working(w) == req[w].pc \in InJob
Clearing(w) == req[w].pc \in Removing

\* No request is older than the timeout.
InTime ==
  \A w \in Workers : req[w].pc # "idle" => clock <= req[w].began + Timeout

\* The child of a request at this point, and what is in its directory.
ChildExpected(w) ==
  LET c == child[req[w].job]
      f == files[req[w].job]
  IN
  /\ req[w].pc \notin {"run", "run2"} => c = "none"
  /\ req[w].pc = "run" /\ req[w].kind = "keygen" =>
       c \in {"private", "ok", "bad"} /\ f = (IF c = "ok" THEN {"private"} ELSE {})
  /\ req[w].pc = "run" /\ req[w].kind = "compress" =>
       c \in {"out", "ok", "bad"} /\ (c = "ok" => "out" \in f)
  /\ req[w].pc = "run" /\ req[w].kind \in {"extract", "check"} =>
       c \in {"quiet", "ok", "bad"}
  /\ req[w].pc = "run2" =>
       /\ c \in {"public", "ok", "bad"}
       /\ f = (IF c = "ok" THEN {"private", "public"} ELSE {"private"})

\* A job belongs to one request, which has touched its directory itself and
\* has shown no link to it yet.
Owns(w) ==
  LET j == req[w].job IN
  /\ j \in present /\ j \notin removing /\ j \notin abandoned
  /\ shown[j] = Never
  /\ req[w].began <= mtime[j]
  /\ Deposit(w) \subseteq files[j]
  /\ ChildExpected(w)
  /\ req[w].pc = "run2" => req[w].kind = "keygen"
  /\ req[w].pc \in {"upload", "stream"} => req[w].kind # "keygen"
  /\ req[w].pc = "pack" => req[w].kind = "extract"
  /\ \A v \in Workers \ {w} : Working(v) => req[v].job # j

Owned == \A w \in Workers : Working(w) => Owns(w)

\* Nobody removes the directory of a request; what is removed gets no new
\* entry unless an orphan is left in it.
Removals ==
  \A w \in Workers : Clearing(w) =>
    LET j == req[w].victim IN
    /\ j \in used
    /\ \A v \in Workers : Working(v) => req[v].job # j
    /\ req[w].pc = "unlink" => j \in removing
    /\ j \notin abandoned => child[j] = "none"
    /\ req[w].pc = "unlink" /\ j \notin abandoned => files[j] \subseteq req[w].listing
    /\ req[w].pc = "unlink" /\ ~(files[j] \subseteq req[w].listing) => req[w].began <= mtime[j]

\* A job that has not begun has no child.
Unused == \A j \in Jobs \ used : child[j] = "none"

\* The links that were shown.
Links ==
  \A j \in Jobs : shown[j] # Never =>
    /\ j \in used /\ child[j] = "none"
    /\ mtime[j] <= shown[j] \/ j \in removing

\* A key on its way to somebody.
Downloads ==
  \A w \in Workers : req[w].pc \in InDownload =>
    LET j == req[w].job IN
    /\ j \in used /\ shown[j] # Never
    /\ req[w].pc # "keystat" => req[w].began <= shown[j] + TTL \/ j \in removing

\* What the cleanup has not looked at yet is still on its list.
ScanComplete ==
  \A w \in Workers :
    /\ req[w].pc \in Scanning \/ (Clearing(w) /\ req[w].after = "scan") =>
         \A j \in present :
           \/ j \in req[w].todo \/ req[w].began <= mtime[j] + TTL
           \/ req[w].pc # "scan" /\ j = req[w].victim
    /\ req[w].pc = "stat" => req[w].victim \in used

IInv ==
  /\ TypeOK /\ InTime /\ Unused /\ Owned /\ Removals /\ Links /\ Downloads
  /\ ScanComplete /\ ExpiredAreGone /\ LitterHasCause
=============================================================================
