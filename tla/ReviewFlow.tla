----------------------------- MODULE ReviewFlow -----------------------------
(***************************************************************************)
(* From an uploaded NZB to a file with a movie: POST /downloads/request    *)
(* and POST /downloads/jobs/:id/assign-movie (src/routes/downloads.ts),    *)
(* the retry of the TMDB lookup and the expiry of reviews in the           *)
(* reconciler (src/lib/job-reconciler.ts), and the catalogue handlers of   *)
(* src/routes/nzb.ts that create and delete what they work on.             *)
(*                                                                         *)
(* Every await of a handler ends an action.  A Prisma transaction runs at  *)
(* Postgres' default level, READ COMMITTED, unless the code asks for       *)
(* Serializable: its reads see what is committed when they run, and other  *)
(* transactions may commit between its read and its write.  A Serializable *)
(* one works on the snapshot of its first read and fails to commit when a  *)
(* concurrent Serializable one read and wrote what it read and wrote.      *)
(*                                                                         *)
(* What happens to a job once it is queued is the subject of DownloadJobs; *)
(* here "queued" stands for all of queued, provisioning, downloading and   *)
(* uploading.  Whether a file is marked broken is decided there too: any   *)
(* request may find it so.  An NzbMovie row is its tmdbId: every path that *)
(* needs one reuses or creates it.                                         *)
(***************************************************************************)
EXTENDS Naturals, FiniteSets

CONSTANTS
  Hashes, Users, Movies,
  NoMovie,      \* movieId null
  Requests,     \* POST /downloads/request handlers in flight
  Assigns,      \* assign-movie handlers in flight
  Passes,       \* reconciler passes that may overlap
  Files,        \* the ids NzbFile rows may get, never twice
  Jobs,         \* the ids DownloadJob rows may get, never twice
  None,         \* no row
  MAX_TMDB_RETRIES,
  MaxCrashes    \* bound: restarts of the process

ASSUME ConstantsAssumption ==
  /\ NoMovie \notin Movies
  /\ None \notin Files \cup Jobs
  /\ Hashes # {} /\ Users # {}
  /\ MaxCrashes \in Nat
  /\ MAX_TMDB_RETRIES \in Nat \ {0}

VARIABLES
  file,     \* the NzbFile rows, and whether S3 has the object of s3Key
  nzb,      \* the hashes the NZB service stores
  purges,   \* DELETEs on their way to the NZB service, awaited by nobody
  job,      \* the DownloadJob rows
  req, asg, pass,   \* the handlers and passes in flight
  crashes

vars == <<file, nzb, purges, job, req, asg, pass, crashes>>

-----------------------------------------------------------------------------
(* reviewExpiresAt and tmdbRetryAfter are null, in the future or in the    *)
(* past.  hinted remembers that the row was created with a tmdbRetryAfter. *)
Timers == {"none", "running", "due"}
Live == {"needs_review", "queued", "completed", "failed", "expired"}

NoFile == [row |-> "absent", hash |-> CHOOSE h \in Hashes : TRUE,
           movie |-> NoMovie, s3 |-> "none"]
Row(st) == [status |-> st, file |-> None, user |-> CHOOSE u \in Users : TRUE,
            expiry |-> "none", retry |-> "none", count |-> 0, hinted |-> FALSE]

IdleRequest == [pc |-> "idle", user |-> CHOOSE u \in Users : TRUE,
                hash |-> CHOOSE h \in Hashes : TRUE, file |-> None,
                movie |-> NoMovie, hint |-> FALSE]
IdleAssign == [pc |-> "idle", job |-> None, file |-> None, movie |-> NoMovie]
NoEntry == [job |-> None, file |-> None, count |-> 0, assigned |-> FALSE]
IdlePass == [pc |-> "idle", todo |-> {}, cur |-> NoEntry, movie |-> NoMovie,
             young |-> {}]

Entries == [job: Jobs, file: Files, count: 0 .. MAX_TMDB_RETRIES, assigned: BOOLEAN]

FilesOK ==
  file \in [Files -> [row: {"absent", "present", "deleted"}, hash: Hashes, movie: Movies \cup {NoMovie},
                      s3: {"none", "stored", "gone"}]]
JobsOK ==
  /\ job \in [Jobs -> [status: Live \cup {"absent", "deleted"}, file: Files \cup {None},
                    user: Users, expiry: Timers, retry: Timers,
                    count: 0 .. MAX_TMDB_RETRIES, hinted: BOOLEAN]]
  /\ \A j \in Jobs : job[j].status \in Live => job[j].file \in Files
RequestsOK ==
  req \in [Requests -> [pc: {"idle", "s3", "store", "begin", "commit", "tmdb",
                             "storeNew", "create"},
                        user: Users, hash: Hashes, file: Files \cup {None},
                        movie: Movies \cup {NoMovie}, hint: BOOLEAN]]
AssignsOK ==
  asg \in [Assigns -> [pc: {"idle", "read", "write"}, job: Jobs \cup {None},
                       file: Files \cup {None}, movie: Movies \cup {NoMovie}]]
PassesOK ==
  pass \in [Passes -> [pc: {"idle", "retry", "tmdb", "write", "expire", "count",
                            "reread", "delete"},
                       todo: SUBSET Entries, cur: Entries \cup {NoEntry},
                       movie: Movies \cup {NoMovie}, young: SUBSET Jobs]]
TypeOK ==
  /\ FilesOK /\ JobsOK /\ RequestsOK /\ AssignsOK /\ PassesOK
  /\ nzb \subseteq Hashes /\ purges \subseteq Hashes
  /\ crashes \in 0 .. MaxCrashes
  /\ \A j \in Jobs : job[j].status \in Live => file[job[j].file].row = "present"

Init ==
  /\ file = [f \in Files |-> NoFile]
  /\ nzb = {} /\ purges = {}
  /\ job = [j \in Jobs |-> Row("absent")]
  /\ req = [r \in Requests |-> IdleRequest]
  /\ asg = [a \in Assigns |-> IdleAssign]
  /\ pass = [p \in Passes |-> IdlePass]
  /\ crashes = 0

-----------------------------------------------------------------------------
(* Rows                                                                    *)

There(f) == f \in Files /\ file[f].row = "present"
RowsOf(h) == {f \in Files : There(f) /\ file[f].hash = h}
JobsOf(f) == {j \in Jobs : job[j].status \in Live /\ job[j].file = f}
InReview(f) == {j \in JobsOf(f) : job[j].status = "needs_review"}

NewFile(f) == file[f].row = "absent"
NewJob(j) == job[j].status = "absent"

Stored(h, m) == [row |-> "present", hash |-> h, movie |-> m, s3 |-> "none"]

\* The row a request inserts: in review unless its file has a movie.  The
\* first form forgets the review.
Inserted_AlwaysQueued(f, u, m, hint) == [Row("queued") EXCEPT !.file = f, !.user = u]
Inserted(f, u, m, hint) ==
  IF m # NoMovie THEN [Row("queued") EXCEPT !.file = f, !.user = u]
  ELSE [Row("needs_review") EXCEPT !.file = f, !.user = u, !.expiry = "running",
                                   !.retry = IF hint THEN "running" ELSE "none",
                                   !.hinted = hint]

Insert(j, row) ==
  /\ job' = [job EXCEPT ![j] = row]
  \* What a pass counted before does not include the new row.
  /\ pass' = [p \in Passes |-> IF pass[p].pc \in {"reread", "delete"}
                                 THEN [pass[p] EXCEPT !.young = @ \cup {j}]
                                 ELSE pass[p]]

\* data of an updateMany that ends reviews: queued, both timers null.
Flipped(S) ==
  [j \in Jobs |-> IF j \in S
     THEN [job[j] EXCEPT !.status = "queued", !.expiry = "none", !.retry = "none"]
     ELSE job[j]]

\* onDelete: Cascade of NzbFile.jobs.  The first form forgets the jobs.
Cascade_KeepsJobs(S) ==
  /\ file' = [f \in Files |-> IF f \in S THEN [NoFile EXCEPT !.row = "deleted"] ELSE file[f]]
  /\ UNCHANGED job
Cascade(S) ==
  /\ file' = [f \in Files |-> IF f \in S THEN [NoFile EXCEPT !.row = "deleted"] ELSE file[f]]
  /\ job' = [j \in Jobs |-> IF \E f \in S : j \in JobsOf(f) THEN Row("deleted") ELSE job[j]]

-----------------------------------------------------------------------------
(* POST /downloads/request                                                 *)

Goto(r, pc) == req' = [req EXCEPT ![r].pc = pc]
Respond(r) == req' = [req EXCEPT ![r] = IdleRequest]

RequestOther == <<asg, crashes, purges>>

\* The request's first read: does a row with this hash exist?
Request(r, u, h) ==
  /\ req[r].pc = "idle"
  /\ \/ /\ RowsOf(h) = {}
        /\ req' = [req EXCEPT ![r] = [IdleRequest EXCEPT !.pc = "tmdb", !.user = u, !.hash = h]]
     \/ \E f \in RowsOf(h) :
          req' = [req EXCEPT ![r] = [IdleRequest EXCEPT
                    !.pc = IF file[f].s3 = "none" THEN "store" ELSE "s3",
                    !.user = u, !.hash = h, !.file = f]]
  /\ UNCHANGED <<file, nzb, job, pass, RequestOther>>

\* The file has an s3Key: the object is there, and the request is answered.
AlreadyAvailable(r) ==
  /\ req[r].pc = "s3" /\ file[req[r].file].s3 = "stored"
  /\ Respond(r)
  /\ UNCHANGED <<file, nzb, job, pass, RequestOther>>

\* The object is gone: the s3 columns are set to null.  A row that was
\* deleted meanwhile makes that fail, which the handler ignores.
ResetS3(r) ==
  /\ req[r].pc = "s3" /\ file[req[r].file].s3 # "stored"
  /\ file' = [file EXCEPT ![req[r].file].s3 = "none"]
  /\ Goto(r, "store")
  /\ UNCHANGED <<nzb, job, pass, RequestOther>>

\* S3 is not configured or does not answer: go on with the download.
S3Unreachable(r) ==
  /\ req[r].pc = "s3"
  /\ Goto(r, "store")
  /\ UNCHANGED <<file, nzb, job, pass, RequestOther>>

\* A file marked broken is refused with 410.
RefuseBroken(r) ==
  /\ req[r].pc = "store"
  /\ Respond(r)
  /\ UNCHANGED <<file, nzb, job, pass, RequestOther>>

\* resolveMovieFromTmdb: a movie; no match, for which there is no retry; or
\* an error, after which the reconciler tries again.
LookUp(r) ==
  /\ req[r].pc = "tmdb"
  /\ \/ \E m \in Movies : req' = [req EXCEPT ![r].movie = m, ![r].pc = "storeNew"]
     \/ \E hint \in BOOLEAN : req' = [req EXCEPT ![r].hint = hint, ![r].pc = "storeNew"]
     \/ Respond(r)                              \* TMDB is disabled: 503
  /\ UNCHANGED <<file, nzb, job, pass, RequestOther>>

\* storeNzbInService, before any row is written.
StoreNzb(r) ==
  /\ req[r].pc \in {"store", "storeNew"}
  /\ nzb' = nzb \cup {req[r].hash}
  /\ Goto(r, IF req[r].pc = "store" THEN "begin" ELSE "create")
  /\ UNCHANGED <<file, job, pass, RequestOther>>

StoreNzbFails(r) ==
  /\ req[r].pc \in {"store", "storeNew"}
  /\ Respond(r)                                 \* 503
  /\ UNCHANGED <<file, nzb, job, pass, RequestOther>>

\* A job that blocks a new one: any download under way, or the caller's own
\* review.  The first form forgets the review.
Conflict_OnlyDownloads(f, u) == {j \in JobsOf(f) : job[j].status = "queued"}
Conflict(f, u) ==
  {j \in JobsOf(f) : \/ job[j].status = "queued"
                     \/ job[j].status = "needs_review" /\ job[j].user = u}

\* The reads of the Serializable transaction, all of one snapshot.
Begin(r) ==
  /\ req[r].pc = "begin"
  /\ IF There(req[r].file) /\ Conflict(req[r].file, req[r].user) = {}
     THEN req' = [req EXCEPT ![r].pc = "commit", ![r].movie = file[req[r].file].movie]
     ELSE Respond(r)                            \* 404 or 409
  /\ UNCHANGED <<file, nzb, job, pass, RequestOther>>

\* Each of two open transactions would have seen the other's row.
Clash(r, s) ==
  /\ r # s /\ req[s].pc = "commit" /\ req[s].file = req[r].file
  /\ \/ req[s].user = req[r].user
     \/ req[s].movie # NoMovie /\ req[r].movie # NoMovie

\* The insert and the commit.  The foreign key fails if the file is gone; a
\* transaction that clashes with one that committed first is aborted.
Commit(r) ==
  /\ req[r].pc = "commit"
  /\ There(req[r].file)
  /\ \E j \in Jobs : NewJob(j) /\ Insert(j, Inserted(req[r].file, req[r].user, req[r].movie, FALSE))
  /\ req' = [s \in Requests |-> IF s = r \/ Clash(r, s) THEN IdleRequest ELSE req[s]]
  /\ UNCHANGED <<file, nzb, RequestOther>>

CommitFails(r) ==
  /\ req[r].pc = "commit"
  /\ Respond(r)                                 \* 409, or 500
  /\ UNCHANGED <<file, nzb, job, pass, RequestOther>>

\* A new file and its first job, in one transaction.
CreateFile(r) ==
  /\ req[r].pc = "create"
  /\ RowsOf(req[r].hash) = {}
  /\ \E f \in Files, j \in Jobs :
       /\ NewFile(f) /\ NewJob(j)
       /\ file' = [file EXCEPT ![f] = Stored(req[r].hash, req[r].movie)]
       /\ Insert(j, Inserted(f, req[r].user, req[r].movie, req[r].hint))
  /\ Respond(r)
  /\ UNCHANGED <<nzb, RequestOther>>

\* The unique hash was taken meanwhile: 409.  Or another request creates the
\* same movie: the row is read again after the caught P2002, which Postgres
\* refuses in a transaction that has failed, and the answer is 500.
CreateFileFails(r) ==
  /\ req[r].pc = "create"
  /\ Respond(r)
  /\ UNCHANGED <<file, nzb, job, pass, RequestOther>>

-----------------------------------------------------------------------------
(* POST /downloads/jobs and the catalogue                                  *)

\* Its Serializable transaction aborts a request that would have seen its row.
PostJob(u, f) ==
  /\ There(f) /\ file[f].movie # NoMovie
  /\ \A j \in JobsOf(f) : job[j].status # "queued"
  /\ \E j \in Jobs : NewJob(j) /\ Insert(j, Inserted(f, u, file[f].movie, FALSE))
  /\ req' = [r \in Requests |->
               IF req[r].pc = "commit" /\ req[r].file = f /\ req[r].movie # NoMovie
               THEN IdleRequest ELSE req[r]]
  /\ UNCHANGED <<file, nzb, asg, crashes, purges>>

\* POST /nzb/files and POST /nzb/import: a file that has its movie at once.
AddFile(h, m) ==
  /\ RowsOf(h) = {}
  /\ \E f \in Files : NewFile(f) /\ file' = [file EXCEPT ![f] = Stored(h, m)]
  /\ UNCHANGED <<nzb, purges, job, req, asg, pass, crashes>>

DeleteFile(f) ==
  /\ There(f) /\ Cascade({f})
  /\ UNCHANGED <<nzb, purges, req, asg, pass, crashes>>

\* The rows of a movie go with it.
DeleteMovie(m) ==
  /\ \E f \in Files : There(f) /\ file[f].movie = m
  /\ Cascade({f \in Files : There(f) /\ file[f].movie = m})
  /\ UNCHANGED <<nzb, purges, req, asg, pass, crashes>>

\* DELETE /downloads/jobs/:id
DeleteJob(j) ==
  /\ job[j].status \in Live
  /\ job' = [job EXCEPT ![j] = Row("deleted")]
  /\ UNCHANGED <<file, nzb, purges, req, asg, pass, crashes>>

\* The download of a queued job, from DownloadJobs.
DownloadEnds(j, ok) ==
  /\ job[j].status = "queued"
  /\ job' = [job EXCEPT ![j].status = IF ok THEN "completed" ELSE "failed"]
  /\ file' = IF ok THEN [file EXCEPT ![job[j].file].s3 = "stored"] ELSE file
  /\ UNCHANGED <<nzb, purges, req, asg, pass, crashes>>

\* The object leaves S3 behind the database's back.
ObjectLost(f) ==
  /\ There(f) /\ file[f].s3 = "stored"
  /\ file' = [file EXCEPT ![f].s3 = "gone"]
  /\ UNCHANGED <<nzb, purges, job, req, asg, pass, crashes>>

-----------------------------------------------------------------------------
(* POST /downloads/jobs/:id/assign-movie                                   *)

AssignEnds(a) == asg' = [asg EXCEPT ![a] = IdleAssign]
AssignOther == <<nzb, purges, req, pass, crashes>>

\* The owner of a job in review picks movie m; TMDB is asked.
Assign(a, j, m) ==
  /\ asg[a].pc = "idle" /\ job[j].status = "needs_review"
  /\ asg' = [asg EXCEPT ![a] = [pc |-> "read", job |-> j, file |-> job[j].file, movie |-> m]]
  /\ UNCHANGED <<file, job, AssignOther>>

\* TMDB does not know it or does not answer, or the file is gone.
AssignFails(a) ==
  /\ asg[a].pc \in {"read", "write"}
  /\ AssignEnds(a)
  /\ UNCHANGED <<file, job, AssignOther>>

\* The transaction's fresh read.  A file that has a movie by now keeps it:
\* only the caller's job is flipped, if it is still in review.
AssignRead(a) ==
  LET j == asg[a].job  f == asg[a].file IN
  /\ asg[a].pc = "read" /\ There(f)
  /\ IF file[f].movie = NoMovie
     THEN asg' = [asg EXCEPT ![a].pc = "write"] /\ UNCHANGED job
     ELSE AssignEnds(a) /\ job' = Flipped({j} \cap InReview(f))
  /\ UNCHANGED <<file, AssignOther>>

\* The link and the flip of every review of the file.  The update is not
\* conditional on the movieId that was read.
LinkAndFlip(f, m) ==
  /\ file' = [file EXCEPT ![f].movie = m]
  /\ job' = Flipped(InReview(f))

AssignWrite(a) ==
  /\ asg[a].pc = "write" /\ There(asg[a].file)
  /\ LinkAndFlip(asg[a].file, asg[a].movie)
  /\ AssignEnds(a)
  /\ UNCHANGED AssignOther

-----------------------------------------------------------------------------
(* The reconciler's pass over reviews                                      *)

PassOther == <<nzb, req, asg, crashes>>
Becomes(p, entry) == pass' = [pass EXCEPT ![p] = entry]
Doing(p, pc, e) == Becomes(p, [pass[p] EXCEPT !.pc = pc, !.cur = e])

Entry(j) == [job |-> j, file |-> job[j].file, count |-> job[j].count,
             assigned |-> file[job[j].file].movie # NoMovie]

\* eligibleJobs.
Eligible(j) ==
  job[j].status = "needs_review" /\ job[j].retry = "due" /\ job[j].count < MAX_TMDB_RETRIES

PassStart(p) ==
  /\ pass[p].pc = "idle"
  /\ Becomes(p, [IdlePass EXCEPT !.pc = "retry",
                                 !.todo = {Entry(j) : j \in {k \in Jobs : Eligible(k)}}])
  /\ UNCHANGED <<file, job, purges, PassOther>>

\* One entry per file (seenFiles).  If the file had a movie when the jobs
\* were read its reviews are flipped at once, else TMDB is asked.
RetryTake(p) ==
  /\ pass[p].pc = "retry"
  /\ \E e \in pass[p].todo :
       LET rest == [pass[p] EXCEPT !.todo = {x \in @ : x.file # e.file}] IN
       IF e.assigned
       THEN Becomes(p, rest) /\ job' = Flipped(InReview(e.file))
       ELSE Becomes(p, [rest EXCEPT !.pc = "tmdb", !.cur = e]) /\ UNCHANGED job
  /\ UNCHANGED <<file, purges, PassOther>>

\* TMDB knows the title: the transaction's fresh read.
RetryFound(p, m) ==
  LET f == pass[p].cur.file IN
  /\ pass[p].pc = "tmdb"
  /\ IF There(f) /\ file[f].movie = NoMovie
     THEN Becomes(p, [pass[p] EXCEPT !.pc = "write", !.movie = m]) /\ UNCHANGED job
     ELSE Doing(p, "retry", NoEntry) /\ job' = Flipped(InReview(f))
  /\ UNCHANGED <<file, purges, PassOther>>

RetryWrite(p) ==
  LET f == pass[p].cur.file IN
  /\ pass[p].pc = "write"
  /\ IF There(f) THEN LinkAndFlip(f, pass[p].movie) ELSE UNCHANGED <<file, job>>
  /\ Becomes(p, [pass[p] EXCEPT !.pc = "retry", !.cur = NoEntry, !.movie = NoMovie])
  /\ UNCHANGED <<purges, PassOther>>

\* No answer: every review of the file that is under the cap counts one more
\* attempt, and the back-off follows from the count of the entry, not the row's.
Missed(f) == {j \in InReview(f) : job[j].count < MAX_TMDB_RETRIES}
\* The first form stops one attempt early.
LastAttempt_OffByOne(e) == e.count + 2 >= MAX_TMDB_RETRIES
LastAttempt(e) == e.count + 1 >= MAX_TMDB_RETRIES
RetryMiss(p) ==
  LET e == pass[p].cur IN
  /\ pass[p].pc = "tmdb"
  /\ job' = [j \in Jobs |-> IF j \in Missed(e.file)
       THEN [job[j] EXCEPT !.count = @ + 1,
               !.retry = IF LastAttempt(e) THEN "none" ELSE "running"]
       ELSE job[j]]
  /\ Doing(p, "retry", NoEntry)
  /\ UNCHANGED <<file, purges, PassOther>>

\* expiredJobs.  The first form spares a job that waits for its next retry.
Expired_NotWaiting(j) ==
  job[j].status = "needs_review" /\ job[j].expiry = "due" /\ job[j].retry # "running"
Expired(j) == job[j].status = "needs_review" /\ job[j].expiry = "due"

ExpireStart(p) ==
  /\ pass[p].pc = "retry" /\ pass[p].todo = {}
  /\ Becomes(p, [pass[p] EXCEPT !.pc = "expire",
                                !.todo = {Entry(j) : j \in {k \in Jobs : Expired(k)}}])
  /\ UNCHANGED <<file, job, purges, PassOther>>

\* The compare-and-swap on needs_review.  The first form forgets it.
StillInReview_AnyStatus(j) == job[j].status \in Live
StillInReview(j) == job[j].status = "needs_review"

\* The code leaves both timers in the row of an expired job, where nothing
\* reads them again; here they become "none".
ExpireJob(p) ==
  /\ pass[p].pc = "expire"
  /\ \E e \in pass[p].todo :
       LET rest == [pass[p] EXCEPT !.todo = @ \ {e}] IN
       IF StillInReview(e.job)
       THEN /\ job' = [job EXCEPT ![e.job].status = "expired",
                                  ![e.job].expiry = "none", ![e.job].retry = "none"]
            /\ Becomes(p, [rest EXCEPT !.pc = "count", !.cur = e])
       ELSE UNCHANGED job /\ Becomes(p, rest)
  /\ UNCHANGED <<file, purges, PassOther>>

\* remainingActiveJobs.  The first form does not count reviews.
Pinning_NoReviews == {"queued", "completed"}
Pinning == {"needs_review", "queued", "completed"}
CountJobs(p) ==
  /\ pass[p].pc = "count"
  /\ IF \E j \in JobsOf(pass[p].cur.file) : job[j].status \in Pinning
     THEN Doing(p, "expire", NoEntry)
     ELSE Doing(p, "reread", pass[p].cur)
  /\ UNCHANGED <<file, job, purges, PassOther>>

\* freshFile: kept if it is gone, or has a movie or an s3Key by now.
Orphan(f) == There(f) /\ file[f].movie = NoMovie /\ file[f].s3 = "none"
Reread(p) ==
  /\ pass[p].pc = "reread"
  /\ IF Orphan(pass[p].cur.file)
     THEN Doing(p, "delete", pass[p].cur)
     ELSE Becomes(p, [pass[p] EXCEPT !.pc = "expire", !.cur = NoEntry, !.young = {}])
  /\ UNCHANGED <<file, job, purges, PassOther>>

\* The row and what hangs on it; then the NZB, in the background.
DeleteOrphan(p) ==
  LET f == pass[p].cur.file IN
  /\ pass[p].pc = "delete"
  /\ IF There(f)
     THEN Cascade({f}) /\ purges' = purges \cup {file[f].hash}
     ELSE UNCHANGED <<file, job, purges>>
  /\ Becomes(p, [pass[p] EXCEPT !.pc = "expire", !.cur = NoEntry, !.young = {}])
  /\ UNCHANGED PassOther

\* The rest of the pass is the subject of DownloadJobs.
PassEnd(p) ==
  /\ pass[p].pc = "expire" /\ pass[p].todo = {}
  /\ Becomes(p, IdlePass)
  /\ UNCHANGED <<file, job, purges, PassOther>>

\* deleteNzbFromService: the answer does not matter, a failure is logged.
Purge(h, ok) ==
  /\ h \in purges
  /\ purges' = purges \ {h}
  /\ nzb' = IF ok THEN nzb \ {h} ELSE nzb
  /\ UNCHANGED <<file, job, req, asg, pass, crashes>>

-----------------------------------------------------------------------------
(* Time, crashes, and the system                                           *)

RetryFalls(j) ==
  /\ job[j].status = "needs_review" /\ job[j].retry = "running"
  /\ job' = [job EXCEPT ![j].retry = "due"]
  /\ UNCHANGED <<file, nzb, purges, req, asg, pass, crashes>>

ReviewFalls(j) ==
  /\ job[j].status = "needs_review" /\ job[j].expiry = "running"
  /\ job' = [job EXCEPT ![j].expiry = "due"]
  /\ UNCHANGED <<file, nzb, purges, req, asg, pass, crashes>>

Crash ==
  /\ crashes < MaxCrashes
  /\ crashes' = crashes + 1
  /\ req' = [r \in Requests |-> IdleRequest]
  /\ asg' = [a \in Assigns |-> IdleAssign]
  /\ pass' = [p \in Passes |-> IdlePass]
  /\ purges' = {}
  /\ UNCHANGED <<file, nzb, job>>

RequestStep(r) ==
  \/ AlreadyAvailable(r) \/ ResetS3(r) \/ S3Unreachable(r) \/ RefuseBroken(r)
  \/ LookUp(r) \/ StoreNzb(r) \/ StoreNzbFails(r) \/ Begin(r) \/ Commit(r)
  \/ CommitFails(r) \/ CreateFile(r) \/ CreateFileFails(r)

AssignStep(a) == AssignFails(a) \/ AssignRead(a) \/ AssignWrite(a)

PassStep(p) ==
  \/ PassStart(p) \/ RetryTake(p) \/ (\E m \in Movies : RetryFound(p, m))
  \/ RetryWrite(p) \/ RetryMiss(p) \/ ExpireStart(p) \/ ExpireJob(p)
  \/ CountJobs(p) \/ Reread(p) \/ DeleteOrphan(p) \/ PassEnd(p)

Catalogue ==
  \/ \E u \in Users, f \in Files : PostJob(u, f)
  \/ \E h \in Hashes, m \in Movies : AddFile(h, m)
  \/ \E f \in Files : DeleteFile(f) \/ ObjectLost(f)
  \/ \E m \in Movies : DeleteMovie(m)
  \/ \E j \in Jobs : DeleteJob(j) \/ \E ok \in BOOLEAN : DownloadEnds(j, ok)

Clock == \E j \in Jobs : RetryFalls(j) \/ ReviewFalls(j)

Next ==
  \/ \E r \in Requests : RequestStep(r) \/ \E u \in Users, h \in Hashes : Request(r, u, h)
  \/ \E a \in Assigns : AssignStep(a) \/ \E j \in Jobs, m \in Movies : Assign(a, j, m)
  \/ \E p \in Passes : PassStep(p)
  \/ \E h \in Hashes, ok \in BOOLEAN : Purge(h, ok)
  \/ Catalogue \/ Clock \/ Crash

Spec == Init /\ [][Next]_vars

\* The reconciler runs every five minutes and each of its calls answers or
\* times out; time passes.  Users need not do anything.
FairSpec ==
  /\ Spec
  /\ \A p \in Passes : WF_vars(PassStep(p))
  /\ \A j \in Jobs : WF_vars(ReviewFalls(j))

-----------------------------------------------------------------------------
(* Properties                                                              *)

\* A job that left review, or never was in review, is for a file with a
\* movie, whatever a request read before its insert: the download names its
\* result after the movie and has no other check.
QueuedHasMovie ==
  \A j \in Jobs : job[j].status \in {"queued", "completed", "failed"}
                    => file[job[j].file].movie # NoMovie

\* A user has at most one review pending for a file, however many requests
\* for one NZB are in flight: two would both be flipped, and downloaded twice.
OneReviewPerUser ==
  \A j, k \in Jobs :
    /\ job[j].status = "needs_review" /\ job[k].status = "needs_review"
    /\ job[j].file = job[k].file /\ job[j].user = job[k].user
   => j = k

\* A review that was promised a retry loses it only when its attempts are
\* used up, although attempts are counted for all siblings of a file at once
\* and the deadline is computed from the row one of them had at the query.
GivesUpOnlyWhenExhausted ==
  \A j \in Jobs :
    job[j].status = "needs_review" /\ job[j].hinted /\ job[j].retry = "none"
      => job[j].count = MAX_TMDB_RETRIES

\* The cleanup takes no job with it that its count could have seen: only rows
\* inserted after it, which the code does not look for again.
CleanupSparesWhatItSaw ==
  [][\A p \in Passes : DeleteOrphan(p) =>
       \A j \in Jobs : /\ job[j].status \in {"needs_review", "queued", "completed"}
                       /\ job'[j].status = "deleted"
                      => j \in pass[p].young]_vars

\* Every step of every handler and pass keeps the promise of ReviewPromise:
\* a late expiry, retry or assignment never undoes what was decided.
Outcome(row) ==
  CASE row.status = "needs_review" -> "waiting"
    [] row.status \in {"queued", "completed", "failed"} -> "settled"
    [] OTHER -> row.status
Promise == INSTANCE ReviewPromise WITH
             Rows <- Jobs, review <- [j \in Jobs |-> Outcome(job[j])]
KeepsPromise == Promise!Spec

\* A review does not wait for ever: it is assigned, expires, or is deleted,
\* also when TMDB never answers and the process restarts.
ReviewEnds ==
  \A j \in Jobs : job[j].status = "needs_review" ~> job[j].status # "needs_review"

\* A job waits for a review only while its file has no movie: the comment at
\* downloads.ts:471 rules out "a stuck job" that was created on a stale null.
ReviewMeansUnassigned ==
  \A j \in Jobs : job[j].status = "needs_review" => file[job[j].file].movie = NoMovie
=============================================================================
