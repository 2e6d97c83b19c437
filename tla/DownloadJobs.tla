---------------------------- MODULE DownloadJobs ----------------------------
(***************************************************************************)
(* Download jobs and the Hetzner servers that run them.                    *)
(*                                                                         *)
(* One process serves the HTTP API and runs, between awaits of a single    *)
(* thread, any number of handlers and background tasks over one Postgres   *)
(* database: provisionDownload (src/lib/provisioner.ts), drainQueue        *)
(* (src/lib/queue-drain.ts), the manual provision, cleanup, status, link   *)
(* and delete handlers (src/routes/downloads.ts) and the reconciler        *)
(* (src/lib/job-reconciler.ts).  A server, once it boots, calls the API    *)
(* back with its job's progress.  Every await is a place where another     *)
(* step may come in between, so every await ends an action here.           *)
(*                                                                         *)
(* The process may crash and restart: the database and the servers stay,   *)
(* whatever was in flight is lost.                                         *)
(***************************************************************************)
EXTENDS JobStatus, Integers, FiniteSets

CONSTANTS
  MaxJobs,          \* bound: rows are 1..MaxJobs, in the order of createdAt
  NzbFiles,         \* the rows of NzbFile
  NzbFileOf,        \* NzbFileOf[j], the file job j is for (nzbFileId)
  Servers,          \* ids Hetzner may hand out, never twice
  Activities,       \* bound: handlers and tasks in flight at once
  Reconcilers,      \* reconcileStaleJobs passes that may overlap
  MaxPatches,       \* bound: PATCH requests between their read and their write
  MaxProgress,      \* bound: steps of the progress field (100 in the code)
  DownloadSlots,    \* globalLimit - maxUploadVps of getVpsLimits
  BROKEN_THRESHOLD, \* failures that break a file (3 in the code)
  MaxAge,           \* bound: how old rows get, 2 for everything: see Ages
  MaxCrashes,       \* bound: restarts of the process
  UserPatch,        \* statuses a user, not the server, asks for by PATCH
  PatchServers,     \* server ids clients name in the body of a PATCH
  EditedFiles,      \* files whose status administrators set by hand
  Faults,           \* whether Hetzner and the token table may fail a call
  None

Jobs == 1 .. MaxJobs

ASSUME ConstantsAssumption ==
  /\ MaxJobs \in Nat
  /\ NzbFileOf \in [Jobs -> NzbFiles]
  /\ None \notin Servers
  /\ MaxPatches \in Nat
  /\ MaxProgress \in Nat
  /\ DownloadSlots \in Nat
  /\ BROKEN_THRESHOLD \in Nat \ {0}
  /\ MaxAge \in 0 .. 2
  /\ MaxCrashes \in Nat
  /\ UserPatch \subseteq Statuses
  /\ PatchServers \subseteq Servers
  /\ EditedFiles \subseteq NzbFiles
  /\ Faults \in BOOLEAN

VARIABLES
  (* rows *)
  status,     \* DownloadJob.status, or "absent" or "deleted"
  serverId,   \* DownloadJob.hetznerServerId, None for null
  progress,   \* DownloadJob.progress
  age,        \* how long ago DownloadJob.updatedAt is: see Ages
  files,      \* the files that still have a row
  attempts,   \* NzbFile.failedAttempts
  broken,     \* the files whose NzbFile.status is "broken"
  tokens,     \* the jobs with a row in ServiceToken
  (* Hetzner Cloud *)
  vps,        \* "unused", "running", "off" or "gone"
  label,      \* the server's job-id label
  (* the memory of the process *)
  act,        \* the activities in flight
  patches,    \* PATCH requests that have read the row and not yet written it
  rec,        \* the reconciler's passes
  snap,       \* progressSnapshots: None or [progress, aged]
  crashes     \* restarts so far

rowVars == <<status, serverId, progress, age, files, attempts, broken, tokens>>
vpsVars == <<vps, label>>
memVars == <<act, patches, rec, snap, crashes>>
vars == <<rowVars, vpsVars, memVars>>

-----------------------------------------------------------------------------
(* Ages abstracts the clock to what the reconciler compares it with: 0 is  *)
(* less than STALE_CHECK_HOURS, 1 less than HARD_TIMEOUT_HOURS, 2 more.    *)
Ages == 0 .. MaxAge

\* The steps of an activity; via says which handler started it.
Pcs == {"idle", "read", "gate", "claim", "token", "create", "record", "abort",
        "delete", "clear", "drain", "find", "grab"}
Vias == {"auto", "drain", "manual"}

Idle == [pc |-> "idle", via |-> "auto", job |-> 0, srv |-> None]

\* What the reconciler keeps of an active row for the rest of its pass.
Snapshots == [job: Jobs, status: ActiveStatuses, srv: Servers \cup {None},
              age: Ages, progress: 0 .. MaxProgress]

NoPass == [pc |-> "idle", todo |-> {}, ids |-> {}, list |-> {}, victim |-> None]

Requests == [job: Jobs, seen: Statuses, want: Statuses,
             progress: 0 .. MaxProgress, srv: PatchServers \cup {None}]

InFlight == [pc: Pcs, via: Vias, job: Jobs \cup {0}, srv: Servers \cup {None}]
Passes == [pc: {"idle", "jobs", "scan", "reap"}, todo: SUBSET Snapshots,
           ids: SUBSET Jobs, list: SUBSET Servers, victim: Servers \cup {None}]

RowsOK ==
  /\ status \in [Jobs -> RowStatuses]
  /\ serverId \in [Jobs -> Servers \cup {None}]
  /\ progress \in [Jobs -> 0 .. MaxProgress]
  /\ age \in [Jobs -> Ages]
  /\ files \subseteq NzbFiles
  /\ attempts \in [NzbFiles -> Nat]
  /\ broken \subseteq NzbFiles
  /\ tokens \subseteq Jobs

VpsOK ==
  /\ vps \in [Servers -> {"unused", "running", "off", "gone"}]
  /\ label \in [Servers -> Jobs \cup {0}]

ActOK ==
  /\ act \in [Activities -> InFlight]
  /\ \A a \in Activities : act[a].pc # "idle" => act[a].job \in Jobs

PassesOK ==
  /\ rec \in [Reconcilers -> Passes]
  /\ snap \in [Jobs -> [progress: 0 .. MaxProgress, aged: BOOLEAN] \cup {None}]

TypeOK ==
  /\ RowsOK /\ VpsOK /\ ActOK /\ PassesOK
  /\ patches \subseteq Requests
  /\ crashes \in 0 .. MaxCrashes

Init ==
  /\ status = [j \in Jobs |-> "absent"]
  /\ serverId = [j \in Jobs |-> None]
  /\ progress = [j \in Jobs |-> 0]
  /\ age = [j \in Jobs |-> 0]
  /\ files = NzbFiles
  /\ attempts = [f \in NzbFiles |-> 0]
  /\ broken = {}
  /\ tokens = {}
  /\ vps = [s \in Servers |-> "unused"]
  /\ label = [s \in Servers |-> 0]
  /\ act = [a \in Activities |-> Idle]
  /\ patches = {}
  /\ rec = [r \in Reconcilers |-> NoPass]
  /\ snap = [j \in Jobs |-> None]
  /\ crashes = 0

-----------------------------------------------------------------------------
(* Queries and updates several handlers share.                             *)

Alive(s) == vps[s] \in {"running", "off"}
IsActive(j) == status[j] \in ActiveStatuses
JobsOf(f) == {j \in Jobs : NzbFileOf[j] = f}

\* canProvision("download") counts the jobs that hold a server; uploads are
\* counted in the composition with them.
ActiveVpsCount ==
  Cardinality({j \in Jobs : serverId[j] # None /\ status[j] \in BusyStatuses})
CanProvision == ActiveVpsCount < DownloadSlots

\* Every write of a row sets updatedAt (Prisma's @updatedAt).
Touch(j) == age' = [age EXCEPT ![j] = 0]
SetStatus(j, st) == status' = [status EXCEPT ![j] = st] /\ Touch(j)

\* The where clause of a compare-and-swap: the row still has the status the
\* caller saw.  The second form is the clause with its status condition lost.
Unchanged(j, seen) == status[j] = seen
Unconditional(j, seen) == Exists(status[j])

\* markJobFailed with an expectedStatus: one transaction.
MarkedFrom_AnyStatus(j, expected) == Unconditional(j, expected)
MarkedFrom(j, expected) == Unchanged(j, expected)
MarkJobFailed(j, expected) ==
  LET f == NzbFileOf[j] IN
  IF MarkedFrom(j, expected)
  THEN /\ SetStatus(j, "failed")
       /\ attempts' = [attempts EXCEPT ![f] = @ + 1]
       /\ broken' = IF attempts[f] + 1 >= BROKEN_THRESHOLD
                    THEN broken \cup {f} ELSE broken
  ELSE UNCHANGED <<status, age, attempts, broken>>

\* Rows leave the table, by themselves or with their file.
RemoveRows(S) ==
  /\ status' = [j \in Jobs |-> IF j \in S THEN "deleted" ELSE status[j]]
  /\ serverId' = [j \in Jobs |-> IF j \in S THEN None ELSE serverId[j]]
  /\ progress' = [j \in Jobs |-> IF j \in S THEN 0 ELSE progress[j]]
  /\ age' = [j \in Jobs |-> IF j \in S THEN 0 ELSE age[j]]

\* The next step of an activity, and its end.
Goto(a, pc) == act' = [act EXCEPT ![a].pc = pc]
Done(a) == act' = [act EXCEPT ![a] = Idle]
Start(a, pc, via, j, s) ==
  /\ act[a] = Idle
  /\ act' = [act EXCEPT ![a] = [pc |-> pc, via |-> via, job |-> j, srv |-> s]]
At(a, pc) == act[a].pc = pc

-----------------------------------------------------------------------------
(* POST /downloads/jobs.  The serializable transaction makes the conflict  *)
(* check and the insert one step; provisionDownload follows on its own.    *)
NoConflict(j) == \A k \in JobsOf(NzbFileOf[j]) : ~IsActive(k)

CreateJob(a, j) ==
  /\ status[j] = "absent"
  /\ \A k \in 1 .. (j - 1) : status[k] # "absent"
  /\ NzbFileOf[j] \in files
  /\ NoConflict(j)
  /\ SetStatus(j, "queued")
  /\ Start(a, "read", "auto", j, None)
  /\ UNCHANGED <<serverId, progress, files, attempts, broken, tokens, vpsVars,
                 patches, rec, snap, crashes>>

\* POST /downloads/request for a file whose movie is not known: the row waits
\* for its review.  Several users may have reviews of one file; which of them
\* asked, and whether the file has a movie, is the subject of ReviewFlow.
RequestReview(j) ==
  /\ status[j] = "absent"
  /\ \A k \in 1 .. (j - 1) : status[k] # "absent"
  /\ NzbFileOf[j] \in files
  /\ NoConflict(j)
  /\ SetStatus(j, "needs_review")
  /\ UNCHANGED <<serverId, progress, files, attempts, broken, tokens, vpsVars,
                 memVars>>

\* POST /downloads/jobs/:id/assign-movie and the reconciler's TMDB retry: a
\* file gets its movie and all its reviews are queued at once, or a review of a
\* file that has one follows alone.  Each row that is queued gets its own
\* provisionDownload, but for one that came in after the transaction had listed
\* the reviews, or when AUTO_PROVISION is off.
Reviews(f) == {j \in JobsOf(f) : status[j] = "needs_review"}
QueueReviews(f, S, who) ==
  /\ S = Reviews(f) \/ \E j \in Reviews(f) : S = {j}
  /\ status' = [j \in Jobs |-> IF j \in S THEN "queued" ELSE status[j]]
  /\ age' = [j \in Jobs |-> IF j \in S THEN 0 ELSE age[j]]
  /\ \A a, b \in DOMAIN who : who[a] = who[b] => a = b
  /\ act' = [a \in Activities |->
               IF a \in DOMAIN who
               THEN [Idle EXCEPT !.pc = "read", !.job = who[a]] ELSE act[a]]
  /\ UNCHANGED <<serverId, progress, files, attempts, broken, tokens, vpsVars,
                 patches, rec, snap, crashes>>

Flip(f) ==
  \E S \in SUBSET Reviews(f) \ {{}} :
    \E A \in SUBSET {a \in Activities : act[a] = Idle} : \E who \in [A -> S] :
      QueueReviews(f, S, who)

\* cleanupExpiredReviews: nobody answered in time.
ExpireReview(j) ==
  /\ status[j] = "needs_review"
  /\ SetStatus(j, "expired")
  /\ UNCHANGED <<serverId, progress, files, attempts, broken, tokens, vpsVars,
                 memVars>>

\* DELETE /downloads/jobs/:id: deleteMany where the status is not busy.
DeleteJob(j) ==
  /\ Exists(status[j]) /\ status[j] \notin BusyStatuses
  /\ RemoveRows({j})
  /\ UNCHANGED <<files, attempts, broken, tokens, vpsVars, memVars>>

\* DELETE /nzb/files/:id and /nzb/movies/:id: the schema cascades to jobs.
DeleteNzbFile(f) ==
  /\ f \in files
  /\ files' = files \ {f}
  /\ attempts' = [attempts EXCEPT ![f] = 0]
  /\ broken' = broken \ {f}
  /\ RemoveRows({j \in JobsOf(f) : Exists(status[j])})
  /\ UNCHANGED <<tokens, vpsVars, memVars>>

\* PUT /nzb/files/:id and PATCH /nzb/files/:id/status: an administrator sets the
\* status of a file; failedAttempts stays as it is.
SetFileStatus(f) ==
  /\ f \in files \cap EditedFiles
  /\ broken' \in {broken \cup {f}, broken \ {f}}
  /\ UNCHANGED <<status, serverId, progress, age, files, attempts, tokens,
                 vpsVars, memVars>>

\* DELETE /library/:nzbFileId, by the last user who had the film: the object in
\* S3 goes, and every completed job of the file is failed with it.
LibraryEmptied(f) ==
  LET gone == {j \in JobsOf(f) : status[j] = "completed"} IN
  /\ gone # {}
  /\ status' = [j \in Jobs |-> IF j \in gone THEN "failed" ELSE status[j]]
  /\ age' = [j \in Jobs |-> IF j \in gone THEN 0 ELSE age[j]]
  /\ UNCHANGED <<serverId, progress, files, attempts, broken, tokens, vpsVars,
                 memVars>>

-----------------------------------------------------------------------------
(* provisionDownload.  The read of the job row; a job that is not queued   *)
(* is skipped.  The drain has claimed its job before it comes here.        *)
ReadJob(a) ==
  /\ At(a, "read")
  /\ IF status[act[a].job] = "queued" THEN Goto(a, "gate") ELSE Done(a)
  /\ UNCHANGED <<rowVars, vpsVars, patches, rec, snap, crashes>>

\* That read throws: the drain's catch block gives the claim back.
ReadJobFails(a) ==
  /\ Faults /\ At(a, "read")
  /\ IF act[a].via = "drain" /\ status[act[a].job] = "provisioning"
     THEN SetStatus(act[a].job, "queued")
     ELSE UNCHANGED <<status, age>>
  /\ Done(a)
  /\ UNCHANGED <<serverId, progress, files, attempts, broken, tokens, vpsVars,
                 patches, rec, snap, crashes>>

\* canProvision: without a free slot the job stays queued.
Gate(a) ==
  /\ At(a, "gate")
  /\ IF CanProvision THEN Goto(a, "claim") ELSE Done(a)
  /\ UNCHANGED <<rowVars, vpsVars, patches, rec, snap, crashes>>

\* The compare-and-swap queued -> provisioning, of both provisioners.
Claimable_IfExists(j) == Exists(status[j])
Claimable(j) == Unchanged(j, "queued")
Claim(a) ==
  /\ At(a, "claim")
  /\ IF Claimable(act[a].job)
     THEN SetStatus(act[a].job, "provisioning") /\ Goto(a, "token")
     ELSE UNCHANGED <<status, age>> /\ Done(a)
  /\ UNCHANGED <<serverId, progress, files, attempts, broken, tokens, vpsVars,
                 patches, rec, snap, crashes>>

\* storeServiceToken.
StoreToken(a) ==
  /\ At(a, "token")
  /\ tokens' = tokens \cup {act[a].job}
  /\ Goto(a, "create")
  /\ UNCHANGED <<status, serverId, progress, age, files, attempts, broken,
                 vpsVars, patches, rec, snap, crashes>>

\* No configuration, or the token cannot be stored: provisionHetznerVPS fails
\* the job, the manual handler answers 500 and leaves the job as it is.
StoreTokenFails(a) ==
  /\ Faults /\ At(a, "token")
  /\ IF act[a].via = "manual"
     THEN UNCHANGED <<status, age, attempts, broken>>
     ELSE MarkJobFailed(act[a].job, "provisioning")
  /\ Done(a)
  /\ UNCHANGED <<serverId, progress, files, tokens, vpsVars, patches, rec,
                 snap, crashes>>

\* createServer: Hetzner creates a server that carries the job's label.
NewServer(s, j) ==
  /\ vps[s] = "unused"
  /\ vps' = [vps EXCEPT ![s] = "running"]
  /\ label' = [label EXCEPT ![s] = j]

CreateServer(a, s) ==
  /\ At(a, "create")
  /\ NewServer(s, act[a].job)
  /\ act' = [act EXCEPT ![a].pc = "record", ![a].srv = s]
  /\ UNCHANGED <<rowVars, patches, rec, snap, crashes>>

\* createServer throws, for want of capacity or because the answer did not
\* come in FETCH_TIMEOUT_MS; in the second case the server may exist.
CreateServerFails(a) ==
  /\ Faults /\ At(a, "create")
  /\ UNCHANGED vpsVars \/ \E s \in Servers : NewServer(s, act[a].job)
  /\ tokens' = tokens \ {act[a].job}
  /\ Goto(a, "abort")
  /\ UNCHANGED <<status, serverId, progress, age, files, attempts, broken,
                 patches, rec, snap, crashes>>

\* Give up: provisionHetznerVPS fails a job that is still provisioning; the
\* manual handler overwrites the status of any row and counts no attempt.
Abort(a) ==
  LET j == act[a].job IN
  /\ At(a, "abort")
  /\ IF act[a].via = "manual"
     THEN /\ IF Exists(status[j]) THEN SetStatus(j, "failed")
                                  ELSE UNCHANGED <<status, age>>
          /\ UNCHANGED <<attempts, broken>>
     ELSE MarkJobFailed(j, "provisioning")
  /\ Done(a)
  /\ UNCHANGED <<serverId, progress, files, tokens, vpsVars, patches, rec,
                 snap, crashes>>

\* The row learns its server: provisionHetznerVPS only while the job is still
\* provisioning, the manual handler in any status.
RecordServer(a) ==
  LET j == act[a].job
      writes == IF act[a].via = "manual" THEN Exists(status[j])
                                         ELSE Unchanged(j, "provisioning")
  IN
  /\ At(a, "record")
  /\ IF writes THEN serverId' = [serverId EXCEPT ![j] = act[a].srv] /\ Touch(j)
               ELSE UNCHANGED <<serverId, age>>
  /\ Done(a)
  /\ UNCHANGED <<status, progress, files, attempts, broken, tokens, vpsVars,
                 patches, rec, snap, crashes>>

\* That write throws: provisionHetznerVPS takes it for a failed creation, the
\* manual handler answers 500; the server runs on.
RecordServerFails(a) ==
  /\ Faults /\ At(a, "record")
  /\ IF act[a].via = "manual" THEN Done(a) /\ UNCHANGED tokens
     ELSE Goto(a, "abort") /\ tokens' = tokens \ {act[a].job}
  /\ UNCHANGED <<status, serverId, progress, age, files, attempts, broken,
                 vpsVars, patches, rec, snap, crashes>>

\* POST /downloads/jobs/:id/provision: no gate, and the rest as above.
ManualProvision(a, j) ==
  /\ status[j] = "queued"
  /\ Start(a, "claim", "manual", j, None)
  /\ UNCHANGED <<rowVars, vpsVars, patches, rec, snap, crashes>>

-----------------------------------------------------------------------------
(* POST /downloads/jobs/:id/cleanup, asked for by the server when its      *)
(* container ended or by a user at any time, and the drainQueue it starts. *)
Cleanup(a, j) ==
  /\ Exists(status[j]) /\ serverId[j] # None
  /\ Start(a, "delete", "drain", j, serverId[j])
  /\ UNCHANGED <<rowVars, vpsVars, patches, rec, snap, crashes>>

\* deleteServer; 404 counts as done, also for an id that no server has yet.
CleanupDelete(a) ==
  LET s == act[a].srv IN
  /\ At(a, "delete")
  /\ vps' = IF Alive(s) THEN [vps EXCEPT ![s] = "gone"] ELSE vps
  /\ Goto(a, "clear")
  /\ UNCHANGED <<rowVars, label, patches, rec, snap, crashes>>

CleanupFails(a) ==
  /\ Faults /\ At(a, "delete")
  /\ Done(a)
  /\ UNCHANGED <<rowVars, vpsVars, patches, rec, snap, crashes>>

\* The tokens go, then the server reference; without a row the update throws
\* and nothing is drained.
CleanupClear(a) ==
  LET j == act[a].job IN
  /\ At(a, "clear")
  /\ tokens' = tokens \ {j}
  /\ IF Exists(status[j])
     THEN serverId' = [serverId EXCEPT ![j] = None] /\ Touch(j) /\ Goto(a, "drain")
     ELSE UNCHANGED <<serverId, age>> /\ Done(a)
  /\ UNCHANGED <<status, progress, files, attempts, broken, vpsVars, patches,
                 rec, snap, crashes>>

\* drainDownloadQueue: the gate, the oldest queued job, the claim.
DrainGate(a) ==
  /\ At(a, "drain")
  /\ IF CanProvision THEN Goto(a, "find") ELSE Done(a)
  /\ UNCHANGED <<rowVars, vpsVars, patches, rec, snap, crashes>>

Waiting(j) == status[j] = "queued" /\ serverId[j] = None

DrainFind(a) ==
  /\ At(a, "find")
  /\ \/ \E j \in Jobs :
          /\ Waiting(j) /\ \A k \in Jobs : Waiting(k) => j <= k
          /\ act' = [act EXCEPT ![a] = [Idle EXCEPT !.pc = "grab", !.via = "drain",
                                                    !.job = j]]
     \/ (\A j \in Jobs : ~Waiting(j)) /\ Done(a)
  /\ UNCHANGED <<rowVars, vpsVars, patches, rec, snap, crashes>>

\* The claim; then provisionDownload, which begins with its own read.
DrainGrab(a) ==
  LET j == act[a].job IN
  /\ At(a, "grab")
  /\ IF Waiting(j) THEN SetStatus(j, "provisioning") /\ Goto(a, "read")
                   ELSE UNCHANGED <<status, age>> /\ Done(a)
  /\ UNCHANGED <<serverId, progress, files, attempts, broken, tokens, vpsVars,
                 patches, rec, snap, crashes>>

-----------------------------------------------------------------------------
(* PATCH /downloads/jobs/:id/status reads the row, checks the transition,  *)
(* and writes with the status it read as the condition of the write.  The  *)
(* server that runs the job reports its transitions and, while bytes flow, *)
(* the same status with its progress; it needs its token to be let in.     *)
(* Whoever calls may name a server in the body, and the row refers to that *)
(* one from then on.                                                       *)
ServerReports(j, want) ==
  /\ \E s \in Servers : label[s] = j /\ vps[s] = "running" /\ j \in tokens
  /\ want = status[j] => want \in {"downloading", "uploading"}

Accepted(from) == STATUS_TRANSITIONS[from] \cup {from}

ProgressAfter_Unvalidated(j, want) ==
  IF want = "completed" THEN {MaxProgress} ELSE {progress[j], progress[j] + 1}
ProgressAfter(j, want) ==
  IF want = "completed" THEN {MaxProgress}
  ELSE {progress[j], progress[j] + 1} \cap 0 .. MaxProgress

PatchRead(j) ==
  /\ Exists(status[j]) /\ status[j] # "needs_review"
  /\ Cardinality(patches) < MaxPatches
  /\ \E want \in Accepted(status[j]), s \in PatchServers \cup {None} :
       \E p \in ProgressAfter(j, want) :
         /\ ServerReports(j, want) \/ want \in UserPatch
         /\ patches' = patches \cup {[job |-> j, seen |-> status[j],
                                      want |-> want, progress |-> p, srv |-> s]}
  /\ UNCHANGED <<rowVars, vpsVars, act, rec, snap, crashes>>

PatchMatches_AnyStatus(q) == Unconditional(q.job, q.seen)
PatchMatches(q) == Unchanged(q.job, q.seen)
PatchWrite(q) ==
  /\ q \in patches
  /\ IF PatchMatches(q)
     THEN /\ progress' = [progress EXCEPT ![q.job] = q.progress]
          /\ serverId' = IF q.srv = None THEN serverId
                         ELSE [serverId EXCEPT ![q.job] = q.srv]
          /\ IF q.want = "failed" /\ q.seen # "failed"
             THEN MarkJobFailed(q.job, q.seen)
             ELSE SetStatus(q.job, q.want) /\ UNCHANGED <<attempts, broken>>
     ELSE UNCHANGED <<status, serverId, progress, age, attempts, broken>>
  /\ patches' = patches \ {q}
  /\ UNCHANGED <<files, tokens, vpsVars, act, rec, snap, crashes>>

\* GET /downloads/jobs/:id/link: S3 has no such object any more.
LinkFindsFileGone(j) ==
  /\ status[j] = "completed"
  /\ SetStatus(j, "failed")
  /\ UNCHANGED <<serverId, progress, files, attempts, broken, tokens, vpsVars,
                 memVars>>

-----------------------------------------------------------------------------
(* reconcileStaleJobs, one pass: a snapshot of the active rows, a verdict  *)
(* on each, then the servers whose job has ended.                          *)
ReconcileStart(r) ==
  /\ rec[r].pc = "idle"
  /\ LET active == {j \in Jobs : IsActive(j)} IN
     rec' = [rec EXCEPT ![r].pc = "jobs", ![r].ids = active,
               ![r].todo = {[job |-> j, status |-> status[j], srv |-> serverId[j],
                             age |-> age[j], progress |-> progress[j]] : j \in active}]
  /\ UNCHANGED <<rowVars, vpsVars, act, patches, snap, crashes>>

\* The in-memory stagnation check, only while bytes should flow.
Flowing(t) == t.status \in {"downloading", "uploading"}
SameProgress(t) == snap[t.job] # None /\ snap[t.job].progress = t.progress
Stagnant(t) == Flowing(t) /\ SameProgress(t) /\ snap[t.job].aged

\* getServer answers that the server is gone or off, or not at all.
Lost(t) == t.srv # None /\ vps[t.srv] # "running"
FoundLost(t, answers) == t.age = 1 /\ answers /\ Lost(t)

Doomed_NoStagnation(t, answers) ==
  \/ t.age = 2
  \/ FoundLost(t, answers)
  \/ t.age = 1 /\ t.status = "queued"
Doomed(t, answers) ==
  \/ t.age = 2
  \/ FoundLost(t, answers)
  \/ Stagnant(t)
  \/ t.age = 1 /\ t.status = "queued"

\* The progress snapshot: untouched by a hard timeout, taken when there is
\* none to compare with, forgotten when stagnation is what fails the job.
Snapped(t, answers) ==
  CASE t.age = 2 \/ ~Flowing(t) -> snap[t.job]
    [] t.age # 2 /\ Flowing(t) /\ ~SameProgress(t) ->
         [progress |-> t.progress, aged |-> FALSE]
    [] t.age # 2 /\ Flowing(t) /\ SameProgress(t) ->
         IF /\ snap[t.job].aged
            /\ Unchanged(t.job, t.status) /\ ~FoundLost(t, answers)
         THEN None ELSE snap[t.job]

ReconcileJob(r, t, answers) ==
  /\ rec[r].pc = "jobs" /\ t \in rec[r].todo
  /\ answers \/ Faults
  /\ IF Doomed(t, answers) THEN MarkJobFailed(t.job, t.status)
                           ELSE UNCHANGED <<status, age, attempts, broken>>
  /\ snap' = [snap EXCEPT ![t.job] = Snapped(t, answers)]
  /\ rec' = [rec EXCEPT ![r].todo = @ \ {t}]
  /\ UNCHANGED <<serverId, progress, files, tokens, vpsVars, act, patches,
                 crashes>>

\* Progress snapshots of jobs that were not active are pruned; listServers.
Pruned(r) == [j \in Jobs |-> IF j \in rec[r].ids THEN snap[j] ELSE None]
JudgedAll(r) == rec[r].pc = "jobs" /\ rec[r].todo = {}

ReconcileList(r) ==
  /\ JudgedAll(r)
  /\ snap' = Pruned(r)
  /\ rec' = [rec EXCEPT ![r] = [NoPass EXCEPT !.pc = "scan",
                                  !.list = {s \in Servers : Alive(s)}]]
  /\ UNCHANGED <<rowVars, vpsVars, act, patches, crashes>>

ReconcileListFails(r) ==
  /\ Faults /\ JudgedAll(r)
  /\ snap' = Pruned(r)
  /\ rec' = [rec EXCEPT ![r] = NoPass]
  /\ UNCHANGED <<rowVars, vpsVars, act, patches, crashes>>

\* The job of a listed server is read again before the server is deleted.
JobEnded_NotRunning(j) == status[j] \notin {"downloading", "uploading"}
JobEnded_RowRequired(j) == status[j] \in {"completed", "failed"}
JobEnded(j) == ~Exists(status[j]) \/ status[j] \in {"completed", "failed"}

ReconcileProbe(r, s) ==
  /\ rec[r].pc = "scan" /\ s \in rec[r].list
  /\ IF JobEnded(label[s])
     THEN rec' = [rec EXCEPT ![r].pc = "reap", ![r].victim = s,
                             ![r].list = @ \ {s}]
     ELSE rec' = [rec EXCEPT ![r].list = @ \ {s}]
  /\ UNCHANGED <<rowVars, vpsVars, act, patches, snap, crashes>>

\* deleteServer, and the tokens unless the server was gone already.
ReconcileReap(r) ==
  LET s == rec[r].victim IN
  /\ rec[r].pc = "reap"
  /\ vps' = [vps EXCEPT ![s] = "gone"]
  /\ tokens' = IF Alive(s) THEN tokens \ {label[s]} ELSE tokens
  /\ rec' = [rec EXCEPT ![r].pc = "scan", ![r].victim = None]
  /\ UNCHANGED <<status, serverId, progress, age, files, attempts, broken,
                 label, act, patches, snap, crashes>>

ReconcileReapFails(r) ==
  /\ Faults /\ rec[r].pc = "reap"
  /\ rec' = [rec EXCEPT ![r].pc = "scan", ![r].victim = None]
  /\ UNCHANGED <<rowVars, vpsVars, act, patches, snap, crashes>>

ReconcileEnd(r) ==
  /\ rec[r].pc = "scan" /\ rec[r].list = {}
  /\ rec' = [rec EXCEPT ![r] = NoPass]
  /\ UNCHANGED <<rowVars, vpsVars, act, patches, snap, crashes>>

-----------------------------------------------------------------------------
(* What happens outside the process, and to it.                            *)

\* A server halts, or is deleted by hand or by /downloads/cleanup-zombies,
\* which goes by the age of the server alone.
ServerStops(s) ==
  /\ vps[s] = "running"
  /\ vps' = [vps EXCEPT ![s] = "off"]
  /\ UNCHANGED <<rowVars, label, memVars>>

ServerVanishes(s) ==
  /\ Alive(s)
  /\ vps' = [vps EXCEPT ![s] = "gone"]
  /\ UNCHANGED <<rowVars, label, memVars>>

\* Time passes for a row that is not written, and for a progress snapshot.
RowAges(j) ==
  /\ IsActive(j) /\ age[j] < MaxAge
  /\ age' = [age EXCEPT ![j] = @ + 1]
  /\ UNCHANGED <<status, serverId, progress, files, attempts, broken, tokens,
                 vpsVars, memVars>>

SnapshotAges(j) ==
  /\ snap[j] # None
  /\ ~snap[j].aged
  /\ snap' = [snap EXCEPT ![j].aged = TRUE]
  /\ UNCHANGED <<rowVars, vpsVars, act, patches, rec, crashes>>

\* The process stops and starts again; only its memory is lost.
Crash ==
  /\ crashes < MaxCrashes
  /\ crashes' = crashes + 1
  /\ act' = [a \in Activities |-> Idle]
  /\ patches' = {}
  /\ rec' = [r \in Reconcilers |-> NoPass]
  /\ snap' = [j \in Jobs |-> None]
  /\ UNCHANGED <<rowVars, vpsVars>>

-----------------------------------------------------------------------------
\* A step an activity takes without anyone asking, and one a call fails at.
ActivityStep(a) ==
  \/ ReadJob(a) \/ Gate(a) \/ Claim(a) \/ StoreToken(a)
  \/ (\E s \in Servers : CreateServer(a, s))
  \/ Abort(a) \/ RecordServer(a)
  \/ CleanupDelete(a) \/ CleanupClear(a)
  \/ DrainGate(a) \/ DrainFind(a) \/ DrainGrab(a)

ActivityFault(a) ==
  \/ ReadJobFails(a) \/ StoreTokenFails(a) \/ CreateServerFails(a)
  \/ RecordServerFails(a) \/ CleanupFails(a)

Request(a, j) == CreateJob(a, j) \/ ManualProvision(a, j) \/ Cleanup(a, j)

ReconcileStep(r) ==
  \/ ReconcileStart(r)
  \/ (\E t \in rec[r].todo, answers \in BOOLEAN : ReconcileJob(r, t, answers))
  \/ ReconcileList(r)
  \/ (\E s \in rec[r].list : ReconcileProbe(r, s))
  \/ ReconcileEnd(r)

ReconcileFault(r) == ReconcileListFails(r) \/ ReconcileReapFails(r)

Next ==
  \/ \E a \in Activities : ActivityStep(a) \/ ActivityFault(a)
  \/ \E a \in Activities, j \in Jobs : Request(a, j)
  \/ \E j \in Jobs : DeleteJob(j) \/ PatchRead(j) \/ LinkFindsFileGone(j)
  \/ \E j \in Jobs : RequestReview(j) \/ ExpireReview(j)
  \/ \E f \in NzbFiles : Flip(f) \/ LibraryEmptied(f) \/ SetFileStatus(f)
  \/ \E f \in NzbFiles : DeleteNzbFile(f)
  \/ \E q \in patches : PatchWrite(q)
  \/ \E r \in Reconcilers : ReconcileStep(r) \/ ReconcileReap(r) \/ ReconcileFault(r)
  \/ \E s \in Servers : ServerStops(s) \/ ServerVanishes(s)
  \/ \E j \in Jobs : RowAges(j) \/ SnapshotAges(j)
  \/ Crash

Spec == Init /\ [][Next]_vars

(***************************************************************************)
(* Fairness.  The event loop runs what is ready, the timer of              *)
(* startReconciler starts passes for ever, time passes, and Hetzner does   *)
(* not refuse a list or a deletion that is asked for again and again for   *)
(* ever.  Users and servers owe nothing.                                   *)
(***************************************************************************)
Fairness ==
  /\ \A a \in Activities : WF_vars(ActivityStep(a))
  /\ \A r \in Reconcilers : WF_vars(ReconcileStep(r))
  /\ \A r \in Reconcilers : SF_vars(ReconcileList(r)) /\ SF_vars(ReconcileReap(r))
  /\ \A j \in Jobs : WF_vars(RowAges(j)) /\ WF_vars(SnapshotAges(j))
  /\ WF_vars(\E q \in patches : PatchWrite(q))

FairSpec == Spec /\ Fairness

-----------------------------------------------------------------------------
(* Safety.                                                                 *)

Used(s) == vps[s] # "unused"

\* However requests, drains and retries interleave, at most one server is
\* ever created for a job: the claims of provisioner.ts, downloads.ts and
\* queue-drain.ts exclude one another, and nothing requeues a claimed job
\* that may have reached createServer.
AtMostOneServerPerJob ==
  \A s, t \in Servers :
    vps[s] # "unused" /\ vps[t] # "unused" /\ label[s] = label[t] => s = t

\* Why that is so.  Between its compare-and-swap and its last write, an
\* activity owns its job; Early is the part before the server exists.
DrainClaim(a) == act[a].pc = "read" /\ act[a].via = "drain"
Early(a) == DrainClaim(a) \/ act[a].pc \in {"token", "create"}
Owns(a) == Early(a) \/ act[a].pc \in {"record", "abort"}
UnclaimedStatuses == {"absent", "needs_review", "expired", "queued"}
Unclaimed(j) == status[j] \in UnclaimedStatuses

\* Two handlers never hold one job, a job that is owned or has a server is out
\* of reach of every claim, and as long as a claim may still be given back by
\* the catch block of drainDownloadQueue, no server stands behind it.  No
\* PATCH in flight can requeue a job, either.
ClaimsExclude ==
  /\ \A a \in Activities : Owns(a) => ~Unclaimed(act[a].job)
  /\ \A a, b \in Activities :
       Owns(a) /\ Owns(b) /\ act[a].job = act[b].job => a = b
  /\ \A s \in Servers : Used(s) => label[s] \in Jobs /\ ~Unclaimed(label[s])
  /\ \A a \in Activities, s \in Servers :
       Early(a) /\ Used(s) => label[s] # act[a].job
  /\ \A q \in patches : q.want \in UnclaimedStatuses => q.seen = q.want

\* A failure is counted once: markJobFailed's compare-and-swap keeps a file's
\* failedAttempts at or below the number of its jobs that ended that way,
\* whoever else tries to fail the same job.
EndedJobsOf(f) == {j \in JobsOf(f) : status[j] \in {"failed", "deleted"}}
FailureCountedOnce ==
  \A f \in NzbFiles : attempts[f] <= Cardinality(EndedJobsOf(f))

\* A file that breaks when a failure is counted has BROKEN_THRESHOLD jobs at
\* least that ended that way: no job counts twice because several paths failed
\* it at once.  An administrator may call a file broken, or whole again, at any
\* time.
BrokenIsEarned ==
  [][\A f \in broken' \ broken :
       attempts' # attempts => Cardinality(EndedJobsOf(f)') >= BROKEN_THRESHOLD]_vars


\* The server the reconciler is about to delete serves no active job, though
\* it read the job's status one await earlier and listed the server before.
VictimIsZombie ==
  \A r \in Reconcilers :
    rec[r].pc = "reap" => ~IsActive(label[rec[r].victim])

\* No handler, late answer or pass brings an ended job back to life, or turns
\* a failure into a success.
TerminalStaysTerminal ==
  [][\A j \in Jobs :
       /\ status[j] = "completed" => status'[j] \in {"completed", "failed", "deleted"}
       /\ status[j] = "failed" => status'[j] \in {"failed", "deleted"}
       /\ status[j] = "deleted" => status'[j] = "deleted"]_status

\* The rows move only as JobLifecycle allows.
Lifecycle == INSTANCE JobLifecycle
ImplementsLifecycle == Lifecycle!Spec

\* A claimed job is somebody's business: until a server was created for it,
\* some activity still holds the claim.
Serves(a, j) ==
  act[a].job = j /\ act[a].pc \in {"read", "token", "create", "record", "abort"}
ClaimIsHeld ==
  \A j \in Jobs :
    status[j] = "provisioning" /\ (\A s \in Servers : label[s] # j) =>
      \E a \in Activities : Serves(a, j)

-----------------------------------------------------------------------------
(* Liveness.                                                               *)

\* The reconciler is the ultimate safety net: no job stays active for ever,
\* whatever its server, its provisioner or the process did.
JobEventuallyEnds == \A j \in Jobs : IsActive(j) ~> ~IsActive(j)

\* No server outlives its job for ever, recorded in the row or not.
ZombieEventuallyDeleted ==
  \A s \in Servers : (Alive(s) /\ ~IsActive(label[s])) ~> ~Alive(s)
=============================================================================
