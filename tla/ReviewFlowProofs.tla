-------------------------- MODULE ReviewFlowProofs --------------------------
(***************************************************************************)
(* What holds of reviews for every number of files, jobs, users, requests, *)
(* assignments and overlapping passes: the kinds of the rows, that a job   *)
(* that is queued has a movie, that a user waits once for a file, and that *)
(* every step keeps the promise of ReviewPromise.                          *)
(*                                                                         *)
(* The invariants say what a handler that has read a row may still rely on *)
(* when it writes: a file that was read is not made again, it does not     *)
(* lose its movie, and the review that a request did not find is not there *)
(* when it commits, since the one that inserts it aborts the request.      *)
(***************************************************************************)
EXTENDS ReviewFlow, TLAPS

FileStates == [row: {"absent", "present", "deleted"}, hash: Hashes, movie: Movies \cup {NoMovie},
               s3: {"none", "stored", "gone"}]
JobStates == [status: Live \cup {"absent", "deleted"}, file: Files \cup {None}, user: Users,
              expiry: Timers, retry: Timers, count: 0 .. MAX_TMDB_RETRIES, hinted: BOOLEAN]
RequestStates == [pc: {"idle", "s3", "store", "begin", "commit", "tmdb", "storeNew", "create"},
                  user: Users, hash: Hashes, file: Files \cup {None},
                  movie: Movies \cup {NoMovie}, hint: BOOLEAN]
AssignStates == [pc: {"idle", "read", "write"}, job: Jobs \cup {None},
                 file: Files \cup {None}, movie: Movies \cup {NoMovie}]
PassStates == [pc: {"idle", "retry", "tmdb", "write", "expire", "count", "reread", "delete"},
               todo: SUBSET Entries, cur: Entries \cup {NoEntry},
               movie: Movies \cup {NoMovie}, young: SUBSET Jobs]

\* Rows, and what the handlers and passes in flight work on.
RowInv ==
  /\ file \in [Files -> FileStates] /\ job \in [Jobs -> JobStates]
  /\ \A j \in Jobs : job[j].status \in Live =>
       job[j].file \in Files /\ file[job[j].file].row = "present"
ReqInv ==
  /\ req \in [Requests -> RequestStates]
  /\ \A r \in Requests : req[r].pc \in {"s3", "store", "begin", "commit"} => req[r].file \in Files
AsgInv ==
  /\ asg \in [Assigns -> AssignStates]
  /\ \A a \in Assigns : asg[a].pc # "idle" =>
       asg[a].job \in Jobs /\ asg[a].file \in Files /\ asg[a].movie \in Movies
PassInv ==
  /\ pass \in [Passes -> PassStates]
  /\ \A p \in Passes : /\ pass[p].pc \in {"tmdb", "write", "count", "reread", "delete"} =>
                            pass[p].cur \in Entries
                       /\ pass[p].pc = "write" => pass[p].movie \in Movies
ServiceInv == nzb \subseteq Hashes /\ purges \subseteq Hashes /\ crashes \in 0 .. MaxCrashes

KindsInv == RowInv /\ ReqInv /\ AsgInv /\ PassInv /\ ServiceInv

\* The rows that stand for nothing are rows.
LEMMA EmptyRows ==
  /\ NoFile \in FileStates /\ IdleRequest \in RequestStates /\ IdleAssign \in AssignStates
  /\ IdlePass \in PassStates
  /\ \A st \in Live \cup {"absent", "deleted"} : Row(st) \in JobStates /\ Row(st).status = st
  /\ NoFile.row = "absent" /\ IdleRequest.pc = "idle" /\ IdleAssign.pc = "idle"
  /\ IdlePass.pc = "idle"
  <1>1. (CHOOSE h \in Hashes : TRUE) \in Hashes /\ (CHOOSE u \in Users : TRUE) \in Users
    BY ConstantsAssumption
  <1>2. NoFile \in FileStates /\ NoFile.row = "absent"
    BY <1>1 DEF NoFile, FileStates
  <1>3. IdleRequest \in RequestStates /\ IdleRequest.pc = "idle"
    BY <1>1 DEF IdleRequest, RequestStates
  <1>4. IdleAssign \in AssignStates /\ IdleAssign.pc = "idle"
    BY DEF IdleAssign, AssignStates
  <1>5. IdlePass \in PassStates /\ IdlePass.pc = "idle"
    BY DEF IdlePass, PassStates
  <1>6. ASSUME NEW st \in Live \cup {"absent", "deleted"}
        PROVE  Row(st) \in JobStates /\ Row(st).status = st
    BY <1>1, ConstantsAssumption DEF Row, JobStates, Timers
  <1> QED
    BY <1>2, <1>3, <1>4, <1>5, <1>6

\* Before the first request there is nothing.
LEMMA InitKinds == Init => KindsInv
  BY EmptyRows, ConstantsAssumption DEF Init, KindsInv, RowInv, ReqInv, AsgInv, PassInv,
     ServiceInv, Live

\* The invariant holds the type invariant.
LEMMA KindsType == KindsInv => TypeOK
  BY DEF KindsInv, RowInv, ReqInv, AsgInv, PassInv, ServiceInv, TypeOK, FilesOK, JobsOK,
     RequestsOK, AssignsOK, PassesOK, FileStates, JobStates, RequestStates, AssignStates, PassStates

-----------------------------------------------------------------------------
(* What the steps do to the rows                                           *)

\* Ending reviews: queued, for the same file and user.
LEMMA Flips ==
  ASSUME RowInv, NEW S, job' = Flipped(S)
  PROVE  /\ job' \in [Jobs -> JobStates]
         /\ \A j \in Jobs \cap S : /\ job'[j].status = "queued"
                                  /\ job'[j].file = job[j].file /\ job'[j].user = job[j].user
         /\ \A j \in Jobs \ S : job'[j] = job[j]
  <1> SUFFICES ASSUME NEW j \in Jobs
               PROVE  /\ job'[j] \in JobStates
                      /\ j \in S => /\ job'[j].status = "queued"
                                    /\ job'[j].file = job[j].file /\ job'[j].user = job[j].user
                      /\ j \notin S => job'[j] = job[j]
    BY DEF Flipped
  <1>1. job[j] \in JobStates
    BY DEF RowInv
  <1>2. CASE j \in S
    <2>1. job'[j] = [job[j] EXCEPT !.status = "queued", !.expiry = "none", !.retry = "none"]
      BY <1>2 DEF Flipped
    <2> QED
      BY <1>1, <1>2, <2>1 DEF JobStates, Live, Timers
  <1>3. CASE j \notin S
    BY <1>1, <1>3 DEF Flipped
  <1> QED
    BY <1>2, <1>3

\* A cascade: the files and their jobs are gone.
LEMMA Cascades ==
  ASSUME RowInv, NEW S \in SUBSET Files, Cascade(S)
  PROVE  /\ file' \in [Files -> FileStates] /\ job' \in [Jobs -> JobStates]
         /\ \A f \in S : file'[f].row = "deleted"
         /\ \A f \in Files \ S : file'[f] = file[f]
         /\ \A j \in Jobs : \/ job'[j] = job[j] /\ (job[j].status \in Live => job[j].file \notin S)
                            \/ /\ job'[j].status = "deleted" /\ job'[j] = Row("deleted")
                               /\ job[j].status \in Live /\ job[j].file \in S
  <1>1. [NoFile EXCEPT !.row = "deleted"] \in FileStates
        /\ [NoFile EXCEPT !.row = "deleted"].row = "deleted"
    BY EmptyRows DEF FileStates
  <1>2. Row("deleted") \in JobStates /\ Row("deleted").status = "deleted"
    BY EmptyRows
  <1>3. \A j \in Jobs : (\E f \in S : j \in JobsOf(f)) <=> (job[j].status \in Live /\ job[j].file \in S)
    BY DEF JobsOf
  <1>4. job' = [j \in Jobs |-> IF \E f \in S : j \in JobsOf(f) THEN Row("deleted") ELSE job[j]]
    BY DEF Cascade
  <1>5. file' = [f \in Files |-> IF f \in S THEN [NoFile EXCEPT !.row = "deleted"] ELSE file[f]]
    BY DEF Cascade
  <1>6. \A j \in Jobs : \/ job'[j] = job[j] /\ (job[j].status \in Live => job[j].file \notin S)
                        \/ /\ job'[j].status = "deleted" /\ job'[j] = Row("deleted")
                           /\ job[j].status \in Live /\ job[j].file \in S
    BY <1>2, <1>3, <1>4
  <1>7. job' \in [Jobs -> JobStates]
    BY <1>2, <1>4 DEF RowInv
  <1>8. file' \in [Files -> FileStates]
    BY <1>1, <1>5 DEF RowInv
  <1> QED
    BY <1>1, <1>5, <1>6, <1>7, <1>8

\* The row of a request, and what it does to the passes.
LEMMA Inserts ==
  ASSUME RowInv, PassInv, NEW j \in Jobs, NewJob(j), NEW f \in Files, NEW u \in Users,
         NEW m \in Movies \cup {NoMovie}, NEW hint \in BOOLEAN, Insert(j, Inserted(f, u, m, hint))
  PROVE  /\ job' \in [Jobs -> JobStates] /\ job'[j].file = f /\ job'[j].user = u
         /\ job'[j].status = IF m # NoMovie THEN "queued" ELSE "needs_review"
         /\ \A k \in Jobs \ {j} : job'[k] = job[k]
         /\ job[j].status = "absent"
         /\ PassInv'
         /\ \A p \in Passes : /\ pass'[p].pc = pass[p].pc /\ pass'[p].todo = pass[p].todo
                              /\ pass'[p].cur = pass[p].cur
  <1> DEFINE row == Inserted(f, u, m, hint)
  <1>1. row \in JobStates /\ row.file = f /\ row.user = u
        /\ row.status = IF m # NoMovie THEN "queued" ELSE "needs_review"
    <2>1. CASE m # NoMovie
      <3>1. row = [Row("queued") EXCEPT !.file = f, !.user = u]
        BY <2>1 DEF Inserted
      <3>2. Row("queued") \in JobStates /\ Row("queued").status = "queued"
        BY EmptyRows DEF Live
      <3> QED
        BY <2>1, <3>1, <3>2 DEF JobStates
    <2>2. CASE m = NoMovie
      <3> DEFINE retry == IF hint THEN "running" ELSE "none"
                 new == [Row("needs_review") EXCEPT !.file = f, !.user = u, !.expiry = "running",
                                                    !.retry = retry, !.hinted = hint]
      <3>1. row = new
        BY <2>2 DEF Inserted
      <3>2. Row("needs_review") \in JobStates /\ Row("needs_review").status = "needs_review"
        BY EmptyRows DEF Live
      <3>3. retry \in Timers
        BY DEF Timers
      <3> HIDE DEF retry
      <3>4. new \in JobStates /\ new.file = f /\ new.user = u /\ new.status = "needs_review"
        BY <3>2, <3>3 DEF JobStates, Timers
      <3> QED
        BY <2>2, <3>1, <3>4
    <2> QED
      BY <2>1, <2>2
  <1> HIDE DEF row
  <1>2. job' = [job EXCEPT ![j] = row]
    BY DEF Insert, row
  <1>3. ASSUME NEW p \in Passes
        PROVE  /\ pass'[p] \in PassStates /\ pass'[p].pc = pass[p].pc
               /\ pass'[p].todo = pass[p].todo /\ pass'[p].cur = pass[p].cur
               /\ pass'[p].movie = pass[p].movie
    <2>1. pass'[p] = pass[p] \/ pass'[p] = [pass[p] EXCEPT !.young = @ \cup {j}]
      BY DEF Insert
    <2>2. pass[p] \in PassStates
      BY DEF PassInv
    <2> QED
      BY <2>1, <2>2 DEF PassStates
  <1>4. pass' \in [Passes -> PassStates]
    <2>1. pass' = [p \in Passes |-> pass'[p]]
      BY DEF Insert
    <2> QED
      BY <1>3, <2>1
  <1> QED
    BY <1>1, <1>2, <1>3, <1>4 DEF RowInv, PassInv, NewJob

-----------------------------------------------------------------------------
(* Kinds                                                                   *)

\* A file whose object, movie or row changes is still one.
LEMMA FileChanges ==
  ASSUME RowInv, NEW f \in Files, UNCHANGED job,
         \/ \E st \in {"none", "stored", "gone"} : file' = [file EXCEPT ![f].s3 = st]
         \/ \E m \in Movies : file' = [file EXCEPT ![f].movie = m]
  PROVE  RowInv' /\ \A g \in Files : file'[g].row = file[g].row
  BY DEF RowInv, FileStates

\* A link ends the reviews of the file.
LEMMA Links ==
  ASSUME RowInv, NEW f \in Files, NEW m \in Movies, LinkAndFlip(f, m)
  PROVE  /\ RowInv' /\ \A g \in Files : file'[g].row = file[g].row
         /\ file'[f].movie = m /\ \A g \in Files \ {f} : file'[g] = file[g]
  <1>1. file' = [file EXCEPT ![f].movie = m] /\ job' = Flipped(InReview(f))
    BY DEF LinkAndFlip
  <1>2. /\ file' \in [Files -> FileStates] /\ \A g \in Files : file'[g].row = file[g].row
        /\ file'[f].movie = m /\ \A g \in Files \ {f} : file'[g] = file[g]
    BY <1>1 DEF RowInv, FileStates
  <1>3. \A j \in InReview(f) : job[j].status \in Live
    BY DEF InReview, JobsOf
  <1> QED
    BY <1>1, <1>2, <1>3, Flips DEF RowInv

\* Reviews that end leave the rows of files alone.
LEMMA FlipKinds ==
  ASSUME RowInv, NEW f, NEW S \in SUBSET InReview(f), job' = Flipped(S), UNCHANGED file
  PROVE  RowInv'
  <1>1. \A j \in S : job[j].status \in Live
    BY DEF InReview, JobsOf
  <1> QED
    BY <1>1, Flips DEF RowInv

\* A cascade leaves no job without its file.
LEMMA CascadeKinds ==
  ASSUME RowInv, NEW S \in SUBSET Files, Cascade(S)
  PROVE  RowInv'
  <1>1. "deleted" \notin Live
    BY DEF Live
  <1> QED
    BY <1>1, Cascades DEF RowInv

\* A request that moves.
LEMMA RequestMoves ==
  ASSUME ReqInv, NEW r \in Requests, NEW x \in RequestStates, req' = [req EXCEPT ![r] = x],
         x.pc \in {"s3", "store", "begin", "commit"} => x.file \in Files
  PROVE  ReqInv'
  BY DEF ReqInv

\* A pass that moves.
LEMMA PassMoves ==
  ASSUME PassInv, NEW p \in Passes, NEW x \in PassStates, Becomes(p, x),
         x.pc \in {"tmdb", "write", "count", "reread", "delete"} => x.cur \in Entries,
         x.pc = "write" => x.movie \in Movies
  PROVE  PassInv'
  BY DEF PassInv, Becomes

\* The steps of a request.
LEMMA RequestKinds ==
  ASSUME KindsInv, NEW r \in Requests, RequestStep(r)
  PROVE  KindsInv'
  <1>0. req[r] \in RequestStates
    BY DEF KindsInv, ReqInv
  <1> USE DEF KindsInv, RequestOther, Goto, Respond
  <1>1. ASSUME Respond(r), UNCHANGED <<file, nzb, job, pass, RequestOther>>
        PROVE  KindsInv'
    BY <1>1, EmptyRows, RequestMoves DEF RowInv, AsgInv, PassInv, ServiceInv
  <1>2. CASE ResetS3(r)
    <2>1. RowInv'
      BY <1>2, FileChanges DEF ResetS3, ReqInv
    <2>2. ReqInv'
      BY <1>2 DEF ResetS3, ReqInv, RequestStates
    <2> QED
      BY <1>2, <2>1, <2>2 DEF ResetS3, AsgInv, PassInv, ServiceInv
  <1>3. CASE S3Unreachable(r)
    <2>1. ReqInv'
      BY <1>3 DEF S3Unreachable, ReqInv, RequestStates
    <2> QED
      BY <1>3, <2>1 DEF S3Unreachable, RowInv, AsgInv, PassInv, ServiceInv
  <1>4. CASE LookUp(r)
    <2>1. ReqInv'
      <3>1. CASE \E m \in Movies : req' = [req EXCEPT ![r].movie = m, ![r].pc = "storeNew"]
        <4>1. PICK m \in Movies : req' = [req EXCEPT ![r].movie = m, ![r].pc = "storeNew"]
          BY <3>1
        <4> DEFINE x == [req[r] EXCEPT !.movie = m, !.pc = "storeNew"]
        <4>2. x \in RequestStates /\ x.pc = "storeNew"
          BY <1>0 DEF RequestStates
        <4>3. req' = [req EXCEPT ![r] = x]
          BY <4>1
        <4> HIDE DEF x
        <4> QED
          BY <4>2, <4>3, RequestMoves
      <3>2. CASE \E hint \in BOOLEAN : req' = [req EXCEPT ![r].hint = hint, ![r].pc = "storeNew"]
        <4>1. PICK hint \in BOOLEAN : req' = [req EXCEPT ![r].hint = hint, ![r].pc = "storeNew"]
          BY <3>2
        <4> DEFINE x == [req[r] EXCEPT !.hint = hint, !.pc = "storeNew"]
        <4>2. x \in RequestStates /\ x.pc = "storeNew"
          BY <1>0 DEF RequestStates
        <4>3. req' = [req EXCEPT ![r] = x]
          BY <4>1
        <4> HIDE DEF x
        <4> QED
          BY <4>2, <4>3, RequestMoves
      <3>3. CASE Respond(r)
        BY <3>3, EmptyRows, RequestMoves
      <3> QED
        BY <1>4, <3>1, <3>2, <3>3 DEF LookUp
    <2> QED
      BY <1>4, <2>1 DEF LookUp, RowInv, AsgInv, PassInv, ServiceInv
  <1>5. CASE StoreNzb(r)
    <2>1. req' = [req EXCEPT ![r].pc = "begin"] /\ req[r].pc = "store" => ReqInv'
      BY DEF ReqInv, RequestStates
    <2>2. req' = [req EXCEPT ![r].pc = "create"] => ReqInv'
      BY DEF ReqInv, RequestStates
    <2>3. ReqInv'
      BY <1>5, <2>1, <2>2 DEF StoreNzb
    <2>4. nzb' \subseteq Hashes
      BY <1>0, <1>5 DEF StoreNzb, ServiceInv, RequestStates
    <2> QED
      BY <1>5, <2>3, <2>4 DEF StoreNzb, RowInv, AsgInv, PassInv, ServiceInv
  <1>6. CASE Begin(r)
    <2>1. ReqInv'
      <3>1. CASE Respond(r)
        BY <3>1, EmptyRows, RequestMoves
      <3>2. CASE There(req[r].file)
                 /\ req' = [req EXCEPT ![r].pc = "commit", ![r].movie = file[req[r].file].movie]
        <4> DEFINE m == file[req[r].file].movie
                   x == [req[r] EXCEPT !.pc = "commit", !.movie = m]
        <4>1. m \in Movies \cup {NoMovie} /\ req[r].file \in Files
          BY <3>2 DEF There, RowInv, FileStates
        <4>2. req' = [req EXCEPT ![r] = x]
          BY <3>2
        <4> HIDE DEF m
        <4>3. x \in RequestStates /\ x.file = req[r].file
          BY <1>0, <4>1 DEF RequestStates
        <4> HIDE DEF x
        <4> QED
          BY <4>1, <4>2, <4>3, RequestMoves
      <3> QED
        BY <1>6, <3>1, <3>2 DEF Begin
    <2> QED
      BY <1>6, <2>1 DEF Begin, RowInv, AsgInv, PassInv, ServiceInv
  <1>7. CASE Commit(r)
    <2>1. PICK j \in Jobs : /\ NewJob(j)
                            /\ Insert(j, Inserted(req[r].file, req[r].user, req[r].movie, FALSE))
      BY <1>7 DEF Commit
    <2>2. /\ req[r].file \in Files /\ file[req[r].file].row = "present"
          /\ req[r].user \in Users /\ req[r].movie \in Movies \cup {NoMovie}
      BY <1>0, <1>7 DEF Commit, There, RequestStates
    <2>3. RowInv' /\ PassInv'
      <3>1. /\ job' \in [Jobs -> JobStates] /\ job'[j].file = req[r].file
            /\ \A k \in Jobs \ {j} : job'[k] = job[k]
            /\ PassInv'
        BY <2>1, <2>2, Inserts
      <3> QED
        BY <1>7, <2>2, <3>1 DEF Commit, RowInv
    <2>4. ReqInv'
      BY <1>7, EmptyRows DEF Commit, ReqInv
    <2> QED
      BY <1>7, <2>3, <2>4 DEF Commit, AsgInv, ServiceInv
  <1>8. CASE CreateFile(r)
    <2>1. PICK f \in Files, j \in Jobs :
            /\ NewFile(f) /\ NewJob(j)
            /\ file' = [file EXCEPT ![f] = Stored(req[r].hash, req[r].movie)]
            /\ Insert(j, Inserted(f, req[r].user, req[r].movie, req[r].hint))
      BY <1>8 DEF CreateFile
    <2>2. /\ req[r].user \in Users /\ req[r].movie \in Movies \cup {NoMovie}
          /\ req[r].hint \in BOOLEAN /\ req[r].hash \in Hashes
      BY <1>0 DEF RequestStates
    <2>3. Stored(req[r].hash, req[r].movie) \in FileStates
          /\ Stored(req[r].hash, req[r].movie).row = "present"
      BY <2>2 DEF Stored, FileStates
    <2>4. /\ file' \in [Files -> FileStates] /\ file'[f].row = "present"
          /\ \A g \in Files \ {f} : file'[g] = file[g]
      BY <2>1, <2>3 DEF RowInv
    <2>5. /\ job' \in [Jobs -> JobStates] /\ job'[j].file = f
          /\ \A k \in Jobs \ {j} : job'[k] = job[k]
          /\ PassInv'
      BY <2>1, <2>2, Inserts
    <2>6. RowInv'
      BY <2>4, <2>5 DEF RowInv
    <2>7. ReqInv'
      BY <1>8, EmptyRows, RequestMoves DEF CreateFile
    <2> QED
      BY <1>8, <2>5, <2>6, <2>7 DEF CreateFile, AsgInv, ServiceInv
  <1> QED
    BY <1>1, <1>2, <1>3, <1>4, <1>5, <1>6, <1>7, <1>8 DEF RequestStep, AlreadyAvailable,
       RefuseBroken, StoreNzbFails, CommitFails, CreateFileFails

\* The steps of an assignment.
LEMMA AssignKinds ==
  ASSUME KindsInv, NEW a \in Assigns, AssignStep(a)
  PROVE  KindsInv'
  <1> USE DEF KindsInv, AssignOther
  <1>1. CASE AssignFails(a)
    BY <1>1, EmptyRows DEF AssignFails, AssignEnds, RowInv, ReqInv, AsgInv, PassInv, ServiceInv
  <1>2. CASE AssignRead(a)
    <2>1. AsgInv'
      BY <1>2, EmptyRows DEF AssignRead, AssignEnds, AsgInv, AssignStates
    <2>2. RowInv'
      <3>1. CASE UNCHANGED job
        BY <1>2, <3>1 DEF AssignRead, RowInv
      <3>2. CASE job' = Flipped({asg[a].job} \cap InReview(asg[a].file))
        BY <1>2, <3>2, FlipKinds DEF AssignRead
      <3> QED
        BY <1>2, <3>1, <3>2 DEF AssignRead
    <2> QED
      BY <1>2, <2>1, <2>2 DEF AssignRead, ReqInv, PassInv, ServiceInv
  <1>3. CASE AssignWrite(a)
    <2>1. asg[a].file \in Files /\ asg[a].movie \in Movies
      BY <1>3 DEF AssignWrite, AsgInv
    <2>2. RowInv'
      BY <1>3, <2>1, Links DEF AssignWrite
    <2>3. AsgInv'
      BY <1>3, EmptyRows DEF AssignWrite, AssignEnds, AsgInv
    <2> QED
      BY <1>3, <2>2, <2>3 DEF AssignWrite, ReqInv, PassInv, ServiceInv
  <1> QED
    BY <1>1, <1>2, <1>3 DEF AssignStep

\* One more attempt is within the bound.
LEMMA OneMore ==
  ASSUME NEW n \in 0 .. MAX_TMDB_RETRIES, n < MAX_TMDB_RETRIES
  PROVE  n + 1 \in 0 .. MAX_TMDB_RETRIES
  BY ConstantsAssumption

\* A failed look-up counts, within the bound, and leaves the review pending.
LEMMA Misses ==
  ASSUME RowInv, NEW e,
         job' = [j \in Jobs |-> IF j \in Missed(e.file)
                   THEN [job[j] EXCEPT !.count = @ + 1,
                           !.retry = IF LastAttempt(e) THEN "none" ELSE "running"]
                   ELSE job[j]]
  PROVE  /\ job' \in [Jobs -> JobStates]
         /\ \A j \in Jobs : /\ job'[j].status = job[j].status /\ job'[j].file = job[j].file
                            /\ job'[j].user = job[j].user
  <1> SUFFICES ASSUME NEW j \in Jobs
               PROVE  /\ job'[j] \in JobStates
                      /\ job'[j].status = job[j].status /\ job'[j].file = job[j].file
                      /\ job'[j].user = job[j].user
    OBVIOUS
  <1>0. job[j] \in JobStates
    BY DEF RowInv
  <1>1. CASE j \notin Missed(e.file)
    BY <1>0, <1>1
  <1>2. CASE j \in Missed(e.file)
    <2>0. job[j].count \in 0 .. MAX_TMDB_RETRIES /\ MAX_TMDB_RETRIES \in Nat
      BY <1>0, ConstantsAssumption DEF JobStates
    <2>a. job[j].count < MAX_TMDB_RETRIES
      BY <1>2 DEF Missed
    <2>1. job[j].count + 1 \in 0 .. MAX_TMDB_RETRIES
      BY <2>0, <2>a, OneMore
    <2> DEFINE count == job[j].count + 1
               retry == IF LastAttempt(e) THEN "none" ELSE "running"
    <2>2. retry \in Timers
      BY DEF Timers
    <2>3. job'[j] = [job[j] EXCEPT !.count = count, !.retry = retry]
      BY <1>2
    <2> HIDE DEF count, retry
    <2> QED
      BY <1>0, <2>1, <2>2, <2>3 DEF JobStates
  <1> QED
    BY <1>1, <1>2

\* A job expires.
LEMMA Expires ==
  ASSUME RowInv, NEW j \in Jobs,
         job' = [job EXCEPT ![j].status = "expired", ![j].expiry = "none", ![j].retry = "none"]
  PROVE  /\ job' \in [Jobs -> JobStates]
         /\ job'[j].status = "expired" /\ job'[j].file = job[j].file /\ job'[j].user = job[j].user
         /\ \A k \in Jobs \ {j} : job'[k] = job[k]
  <1> DEFINE row == [job[j] EXCEPT !.status = "expired", !.expiry = "none", !.retry = "none"]
  <1>1. job[j] \in JobStates
    BY DEF RowInv
  <1>2. row \in JobStates /\ row.status = "expired" /\ row.file = job[j].file /\ row.user = job[j].user
    BY <1>1 DEF JobStates, Live, Timers
  <1>3. job' = [job EXCEPT ![j] = row]
    BY DEF RowInv
  <1> HIDE DEF row
  <1> QED
    BY <1>2, <1>3 DEF RowInv

\* What a pass notes of a job in review.
LEMMA EntryKinds ==
  ASSUME RowInv, NEW j \in Jobs, job[j].status = "needs_review"
  PROVE  /\ Entry(j) \in Entries /\ Entry(j).file = job[j].file /\ Entry(j).job = j
         /\ Entry(j).assigned <=> file[job[j].file].movie # NoMovie
  <1> DEFINE assigned == file[job[j].file].movie # NoMovie
  <1>1. assigned \in BOOLEAN
    BY Zenon
  <1>2. job[j].file \in Files /\ job[j].count \in 0 .. MAX_TMDB_RETRIES
    BY DEF RowInv, JobStates, Live
  <1>3. Entry(j) = [job |-> j, file |-> job[j].file, count |-> job[j].count, assigned |-> assigned]
    BY DEF Entry
  <1> HIDE DEF assigned
  <1>4. Entry(j) \in Entries /\ Entry(j).file = job[j].file /\ Entry(j).job = j
    BY <1>1, <1>2, <1>3 DEF Entries
  <1>5. Entry(j).assigned = assigned
    BY <1>3
  <1> QED
    BY <1>4, <1>5, Zenon DEF assigned

\* The steps of a pass.
LEMMA PassKinds ==
  ASSUME KindsInv, NEW p \in Passes, PassStep(p)
  PROVE  KindsInv'
  <1>0. pass[p] \in PassStates /\ IdlePass \in PassStates
    BY EmptyRows DEF KindsInv, PassInv
  <1> USE DEF KindsInv, PassOther, Doing
  <1>1. CASE PassStart(p)
    <2> DEFINE T == {Entry(j) : j \in {k \in Jobs : Eligible(k)}}
               x == [IdlePass EXCEPT !.pc = "retry", !.todo = T]
    <2>1. T \subseteq Entries
      BY EntryKinds DEF Eligible
    <2> HIDE DEF T
    <2>2. x \in PassStates /\ x.pc = "retry"
      BY <1>0, <2>1 DEF PassStates
    <2>3. Becomes(p, x)
      BY <1>1 DEF PassStart, T
    <2> HIDE DEF x
    <2>4. PassInv'
      BY <2>2, <2>3, PassMoves
    <2> QED
      BY <1>1, <2>4 DEF PassStart, RowInv, ReqInv, AsgInv, ServiceInv
  <1>2. CASE RetryTake(p)
    <2>1. PICK e \in pass[p].todo :
            LET rest == [pass[p] EXCEPT !.todo = {x \in @ : x.file # e.file}] IN
            IF e.assigned
            THEN Becomes(p, rest) /\ job' = Flipped(InReview(e.file))
            ELSE Becomes(p, [rest EXCEPT !.pc = "tmdb", !.cur = e]) /\ UNCHANGED job
      BY <1>2 DEF RetryTake
    <2> DEFINE T == {x \in pass[p].todo : x.file # e.file}
               rest == [pass[p] EXCEPT !.todo = T]
               ask == [rest EXCEPT !.pc = "tmdb", !.cur = e]
    <2>2. e \in Entries /\ T \in SUBSET Entries
      BY <1>0 DEF PassStates
    <2>3. IF e.assigned THEN Becomes(p, rest) /\ job' = Flipped(InReview(e.file))
          ELSE Becomes(p, ask) /\ UNCHANGED job
      BY <2>1
    <2> HIDE DEF T
    <2>4. rest \in PassStates /\ rest.pc = pass[p].pc
      BY <1>0, <2>2 DEF PassStates
    <2> HIDE DEF rest
    <2>5. ask \in PassStates /\ ask.pc = "tmdb" /\ ask.cur = e
      BY <2>2, <2>4 DEF PassStates
    <2> HIDE DEF ask
    <2>6. PassInv'
      BY <1>2, <2>2, <2>3, <2>4, <2>5, PassMoves DEF RetryTake
    <2>7. RowInv'
      BY <1>2, <2>3, FlipKinds DEF RetryTake, RowInv
    <2> QED
      BY <1>2, <2>6, <2>7 DEF RetryTake, ReqInv, AsgInv, ServiceInv
  <1>3. CASE \E m \in Movies : RetryFound(p, m)
    <2>1. PICK m \in Movies : RetryFound(p, m)
      BY <1>3
    <2> DEFINE x == [pass[p] EXCEPT !.pc = "write", !.movie = m]
               y == [pass[p] EXCEPT !.pc = "retry", !.cur = NoEntry]
    <2>2. x \in PassStates /\ x.pc = "write" /\ x.movie = m /\ x.cur = pass[p].cur
      BY <1>0 DEF PassStates
    <2>3. y \in PassStates /\ y.pc = "retry"
      BY <1>0 DEF PassStates
    <2>4. pass[p].cur \in Entries
      BY <2>1 DEF RetryFound, PassInv
    <2>5. \/ Becomes(p, x) /\ UNCHANGED job
          \/ Becomes(p, y) /\ job' = Flipped(InReview(pass[p].cur.file))
      BY <2>1 DEF RetryFound
    <2> HIDE DEF x, y
    <2>6. PassInv'
      BY <2>2, <2>3, <2>4, <2>5, PassMoves
    <2>7. RowInv'
      BY <2>1, <2>5, FlipKinds DEF RetryFound, RowInv
    <2> QED
      BY <2>1, <2>6, <2>7 DEF RetryFound, ReqInv, AsgInv, ServiceInv
  <1>4. CASE RetryWrite(p)
    <2> DEFINE x == [pass[p] EXCEPT !.pc = "retry", !.cur = NoEntry, !.movie = NoMovie]
    <2>1. x \in PassStates /\ x.pc = "retry"
      BY <1>0 DEF PassStates
    <2>2. Becomes(p, x)
      BY <1>4 DEF RetryWrite
    <2> HIDE DEF x
    <2>3. PassInv'
      BY <2>1, <2>2, PassMoves
    <2>4. RowInv'
      BY <1>4, Links DEF RetryWrite, There, PassInv, RowInv
    <2> QED
      BY <1>4, <2>3, <2>4 DEF RetryWrite, ReqInv, AsgInv, ServiceInv
  <1>5. CASE RetryMiss(p)
    <2> DEFINE x == [pass[p] EXCEPT !.pc = "retry", !.cur = NoEntry]
    <2>1. x \in PassStates /\ x.pc = "retry"
      BY <1>0 DEF PassStates
    <2>2. Becomes(p, x)
      BY <1>5 DEF RetryMiss
    <2> HIDE DEF x
    <2>3. PassInv'
      BY <2>1, <2>2, PassMoves
    <2>4. RowInv'
      BY <1>5, Misses DEF RetryMiss, RowInv
    <2> QED
      BY <1>5, <2>3, <2>4 DEF RetryMiss, ReqInv, AsgInv, ServiceInv
  <1>6. CASE ExpireStart(p)
    <2> DEFINE T == {Entry(j) : j \in {k \in Jobs : Expired(k)}}
               x == [pass[p] EXCEPT !.pc = "expire", !.todo = T]
    <2>1. T \subseteq Entries
      BY EntryKinds DEF Expired
    <2> HIDE DEF T
    <2>2. x \in PassStates /\ x.pc = "expire"
      BY <1>0, <2>1 DEF PassStates
    <2>3. Becomes(p, x)
      BY <1>6 DEF ExpireStart, T
    <2> HIDE DEF x
    <2>4. PassInv'
      BY <2>2, <2>3, PassMoves
    <2> QED
      BY <1>6, <2>4 DEF ExpireStart, RowInv, ReqInv, AsgInv, ServiceInv
  <1>7. CASE ExpireJob(p)
    <2>1. PICK e \in pass[p].todo :
            LET rest == [pass[p] EXCEPT !.todo = @ \ {e}] IN
            IF StillInReview(e.job)
            THEN /\ job' = [job EXCEPT ![e.job].status = "expired",
                                       ![e.job].expiry = "none", ![e.job].retry = "none"]
                 /\ Becomes(p, [rest EXCEPT !.pc = "count", !.cur = e])
            ELSE UNCHANGED job /\ Becomes(p, rest)
      BY <1>7 DEF ExpireJob
    <2> DEFINE T == pass[p].todo \ {e}
               rest == [pass[p] EXCEPT !.todo = T]
               x == [rest EXCEPT !.pc = "count", !.cur = e]
    <2>2. e \in Entries /\ T \in SUBSET Entries /\ e.job \in Jobs
      BY <1>0 DEF PassStates, Entries
    <2>3. IF StillInReview(e.job)
          THEN /\ job' = [job EXCEPT ![e.job].status = "expired",
                                     ![e.job].expiry = "none", ![e.job].retry = "none"]
               /\ Becomes(p, x)
          ELSE UNCHANGED job /\ Becomes(p, rest)
      BY <2>1
    <2> HIDE DEF T
    <2>4. rest \in PassStates /\ rest.pc = pass[p].pc
      BY <1>0, <2>2 DEF PassStates
    <2> HIDE DEF rest
    <2>5. x \in PassStates /\ x.pc = "count" /\ x.cur = e
      BY <2>2, <2>4 DEF PassStates
    <2> HIDE DEF x
    <2>6. PassInv'
      BY <1>7, <2>2, <2>3, <2>4, <2>5, PassMoves DEF ExpireJob
    <2>7. RowInv'
      <3>1. CASE StillInReview(e.job)
        <4>1. job[e.job].status \in Live /\ UNCHANGED file
          BY <1>7, <3>1 DEF ExpireJob, StillInReview, Live
        <4>2. /\ job' \in [Jobs -> JobStates] /\ job'[e.job].file = job[e.job].file
              /\ \A k \in Jobs \ {e.job} : job'[k] = job[k]
          BY <2>2, <2>3, <3>1, Expires
        <4> QED
          BY <2>2, <4>1, <4>2 DEF RowInv
      <3>2. CASE ~StillInReview(e.job)
        BY <1>7, <2>3, <3>2 DEF ExpireJob, RowInv
      <3> QED
        BY <3>1, <3>2
    <2> QED
      BY <1>7, <2>6, <2>7 DEF ExpireJob, ReqInv, AsgInv, ServiceInv
  <1>8. CASE CountJobs(p)
    <2> DEFINE x == [pass[p] EXCEPT !.pc = "expire", !.cur = NoEntry]
               y == [pass[p] EXCEPT !.pc = "reread", !.cur = pass[p].cur]
    <2>1. x \in PassStates /\ x.pc = "expire"
      BY <1>0 DEF PassStates
    <2>2. y \in PassStates /\ y.pc = "reread" /\ y.cur = pass[p].cur
      BY <1>0 DEF PassStates
    <2>3. (Becomes(p, x) \/ Becomes(p, y)) /\ pass[p].cur \in Entries
      BY <1>8 DEF CountJobs, PassInv
    <2> HIDE DEF x, y
    <2>4. PassInv'
      BY <2>1, <2>2, <2>3, PassMoves
    <2> QED
      BY <1>8, <2>4 DEF CountJobs, RowInv, ReqInv, AsgInv, ServiceInv
  <1>9. CASE Reread(p)
    <2> DEFINE x == [pass[p] EXCEPT !.pc = "expire", !.cur = NoEntry, !.young = {}]
               y == [pass[p] EXCEPT !.pc = "delete", !.cur = pass[p].cur]
    <2>1. x \in PassStates /\ x.pc = "expire"
      BY <1>0 DEF PassStates
    <2>2. y \in PassStates /\ y.pc = "delete" /\ y.cur = pass[p].cur
      BY <1>0 DEF PassStates
    <2>3. (Becomes(p, x) \/ Becomes(p, y)) /\ pass[p].cur \in Entries
      BY <1>9 DEF Reread, PassInv
    <2> HIDE DEF x, y
    <2>4. PassInv'
      BY <2>1, <2>2, <2>3, PassMoves
    <2> QED
      BY <1>9, <2>4 DEF Reread, RowInv, ReqInv, AsgInv, ServiceInv
  <1>10. CASE DeleteOrphan(p)
    <2> DEFINE x == [pass[p] EXCEPT !.pc = "expire", !.cur = NoEntry, !.young = {}]
    <2>1. x \in PassStates /\ x.pc = "expire"
      BY <1>0 DEF PassStates
    <2>2. Becomes(p, x)
      BY <1>10 DEF DeleteOrphan
    <2> HIDE DEF x
    <2>3. PassInv'
      BY <2>1, <2>2, PassMoves
    <2>4. CASE There(pass[p].cur.file)
      <3>1. {pass[p].cur.file} \in SUBSET Files /\ file[pass[p].cur.file].hash \in Hashes
        BY <2>4 DEF There, RowInv, FileStates
      <3>2. Cascade({pass[p].cur.file}) /\ purges' = purges \cup {file[pass[p].cur.file].hash}
        BY <1>10, <2>4 DEF DeleteOrphan
      <3>3. RowInv'
        BY <3>1, <3>2, CascadeKinds
      <3> QED
        BY <1>10, <2>3, <3>1, <3>2, <3>3 DEF DeleteOrphan, ReqInv, AsgInv, ServiceInv
    <2>5. CASE ~There(pass[p].cur.file)
      BY <1>10, <2>3, <2>5 DEF DeleteOrphan, RowInv, ReqInv, AsgInv, ServiceInv
    <2> QED
      BY <2>4, <2>5
  <1>11. CASE PassEnd(p)
    <2>1. PassInv'
      BY <1>0, <1>11, EmptyRows, PassMoves DEF PassEnd
    <2> QED
      BY <1>11, <2>1 DEF PassEnd, RowInv, ReqInv, AsgInv, ServiceInv
  <1> QED
    BY <1>1, <1>2, <1>3, <1>4, <1>5, <1>6, <1>7, <1>8, <1>9, <1>10, <1>11 DEF PassStep

\* The catalogue, new files, downloads that end, timers and restarts.
LEMMA OtherKinds ==
  ASSUME KindsInv,
         \/ \E r \in Requests, u \in Users, h \in Hashes : Request(r, u, h)
         \/ \E a \in Assigns, j \in Jobs, m \in Movies : Assign(a, j, m)
         \/ \E h \in Hashes, ok \in BOOLEAN : Purge(h, ok)
         \/ Catalogue \/ Clock \/ Crash \/ UNCHANGED vars
  PROVE  KindsInv'
  <1> USE DEF KindsInv
  <1>1. ASSUME NEW r \in Requests, NEW u \in Users, NEW h \in Hashes, Request(r, u, h)
        PROVE  KindsInv'
    <2>1. ASSUME NEW f \in Files, NEW next \in {"store", "s3"},
                 req' = [req EXCEPT ![r] = [IdleRequest EXCEPT !.pc = next, !.user = u,
                                                               !.hash = h, !.file = f]]
          PROVE  ReqInv'
      <3> DEFINE x == [IdleRequest EXCEPT !.pc = next, !.user = u, !.hash = h, !.file = f]
      <3>1. x \in RequestStates /\ x.file = f
        BY EmptyRows DEF RequestStates
      <3>2. req' = [req EXCEPT ![r] = x]
        BY <2>1
      <3> HIDE DEF x
      <3> QED
        BY <3>1, <3>2, RequestMoves
    <2>2. ASSUME req' = [req EXCEPT ![r] = [IdleRequest EXCEPT !.pc = "tmdb", !.user = u, !.hash = h]]
          PROVE  ReqInv'
      <3> DEFINE x == [IdleRequest EXCEPT !.pc = "tmdb", !.user = u, !.hash = h]
      <3>1. x \in RequestStates /\ x.pc = "tmdb"
        BY EmptyRows DEF RequestStates
      <3>2. req' = [req EXCEPT ![r] = x]
        BY <2>2
      <3> HIDE DEF x
      <3>3. x.pc \in {"s3", "store", "begin", "commit"} => x.file \in Files
        BY <3>1
      <3> QED
        BY <3>1, <3>2, <3>3, RequestMoves
    <2>3. ReqInv'
      BY <1>1, <2>1, <2>2 DEF Request, RowsOf
    <2> QED
      BY <1>1, <2>3 DEF Request, RequestOther, RowInv, AsgInv, PassInv, ServiceInv
  <1>2. ASSUME NEW a \in Assigns, NEW j \in Jobs, NEW m \in Movies, Assign(a, j, m)
        PROVE  KindsInv'
    <2>1. job[j].file \in Files
      BY <1>2 DEF Assign, RowInv, Live
    <2>2. [pc |-> "read", job |-> j, file |-> job[j].file, movie |-> m] \in AssignStates
      BY <2>1 DEF AssignStates
    <2>3. AsgInv'
      BY <1>2, <2>1, <2>2 DEF Assign, AsgInv
    <2> QED
      BY <1>2, <2>3 DEF Assign, AssignOther, RowInv, ReqInv, PassInv, ServiceInv
  <1>3. ASSUME NEW h \in Hashes, NEW ok \in BOOLEAN, Purge(h, ok) PROVE KindsInv'
    BY <1>3 DEF Purge, RowInv, ReqInv, AsgInv, PassInv, ServiceInv
  <1>4. ASSUME NEW u \in Users, NEW f \in Files, PostJob(u, f) PROVE KindsInv'
    <2>1. PICK j \in Jobs : NewJob(j) /\ Insert(j, Inserted(f, u, file[f].movie, FALSE))
      BY <1>4 DEF PostJob
    <2>2. file[f].row = "present" /\ file[f].movie \in Movies \cup {NoMovie}
      BY <1>4 DEF PostJob, There, RowInv, FileStates
    <2>3. /\ job' \in [Jobs -> JobStates] /\ job'[j].file = f
          /\ \A k \in Jobs \ {j} : job'[k] = job[k]
          /\ PassInv'
      BY <2>1, <2>2, Inserts
    <2>4. RowInv'
      BY <1>4, <2>2, <2>3 DEF PostJob, RowInv
    <2>5. ReqInv'
      BY <1>4, EmptyRows DEF PostJob, ReqInv
    <2> QED
      BY <1>4, <2>3, <2>4, <2>5 DEF PostJob, AsgInv, ServiceInv
  <1>5. ASSUME NEW h \in Hashes, NEW m \in Movies, AddFile(h, m) PROVE KindsInv'
    <2>1. PICK f \in Files : NewFile(f) /\ file' = [file EXCEPT ![f] = Stored(h, m)]
      BY <1>5 DEF AddFile
    <2>2. Stored(h, m) \in FileStates /\ Stored(h, m).row = "present"
      BY DEF Stored, FileStates
    <2>3. RowInv'
      BY <1>5, <2>1, <2>2 DEF AddFile, RowInv
    <2> QED
      BY <1>5, <2>3 DEF AddFile, ReqInv, AsgInv, PassInv, ServiceInv
  <1>6. ASSUME NEW S \in SUBSET Files, Cascade(S), UNCHANGED <<nzb, purges, req, asg, pass, crashes>>
        PROVE  KindsInv'
    BY <1>6, CascadeKinds DEF ReqInv, AsgInv, PassInv, ServiceInv
  <1>7. CASE \E f \in Files : DeleteFile(f)
    <2>1. PICK f \in Files : DeleteFile(f)
      BY <1>7
    <2> QED
      BY <2>1, <1>6 DEF DeleteFile
  <1>8. CASE \E m \in Movies : DeleteMovie(m)
    BY <1>6, <1>8 DEF DeleteMovie
  <1>9. CASE \E f \in Files : ObjectLost(f)
    BY <1>9, FileChanges DEF ObjectLost, ReqInv, AsgInv, PassInv, ServiceInv
  <1>10. CASE \E j \in Jobs : DeleteJob(j)
    <2>1. "deleted" \notin Live
      BY DEF Live
    <2> QED
      BY <1>10, <2>1, EmptyRows DEF DeleteJob, RowInv, ReqInv, AsgInv, PassInv, ServiceInv
  <1>11. ASSUME NEW j \in Jobs, NEW ok \in BOOLEAN, DownloadEnds(j, ok) PROVE KindsInv'
    <2>1. job[j].status \in Live /\ job[j] \in JobStates /\ job[j].file \in Files
      BY <1>11 DEF DownloadEnds, Live, RowInv
    <2>2. PICK st \in {"completed", "failed"} : job' = [job EXCEPT ![j].status = st]
      BY <1>11 DEF DownloadEnds
    <2>3. /\ job' \in [Jobs -> JobStates] /\ job'[j].file = job[j].file
          /\ \A k \in Jobs \ {j} : job'[k] = job[k]
      BY <2>1, <2>2 DEF RowInv, JobStates, Live
    <2>4. file' \in [Files -> FileStates] /\ \A g \in Files : file'[g].row = file[g].row
      BY <1>11, <2>1 DEF DownloadEnds, RowInv, FileStates
    <2>5. RowInv'
      BY <2>1, <2>3, <2>4 DEF RowInv
    <2> QED
      BY <1>11, <2>5 DEF DownloadEnds, ReqInv, AsgInv, PassInv, ServiceInv
  <1>12. CASE Clock
    <2>1. PICK j \in Jobs : RetryFalls(j) \/ ReviewFalls(j)
      BY <1>12 DEF Clock
    <2>2. \/ job' = [job EXCEPT ![j].retry = "due"] \/ job' = [job EXCEPT ![j].expiry = "due"]
      BY <2>1 DEF RetryFalls, ReviewFalls
    <2>3. /\ job' \in [Jobs -> JobStates]
          /\ \A k \in Jobs : job'[k].status = job[k].status /\ job'[k].file = job[k].file
      BY <2>2 DEF RowInv, JobStates, Timers
    <2>4. RowInv'
      BY <2>1, <2>3 DEF RetryFalls, ReviewFalls, RowInv
    <2> QED
      BY <2>1, <2>4 DEF RetryFalls, ReviewFalls, ReqInv, AsgInv, PassInv, ServiceInv
  <1>13. CASE Crash
    BY <1>13, EmptyRows, ConstantsAssumption DEF Crash, RowInv, ReqInv, AsgInv, PassInv, ServiceInv
  <1>14. CASE UNCHANGED vars
    BY <1>14 DEF vars, RowInv, ReqInv, AsgInv, PassInv, ServiceInv
  <1> QED
    BY <1>1, <1>2, <1>3, <1>4, <1>5, <1>7, <1>8, <1>9, <1>10, <1>11, <1>12, <1>13, <1>14
       DEF Catalogue

\* Every step keeps the kinds.
LEMMA KindsKept == KindsInv /\ [Next]_vars => KindsInv'
  BY RequestKinds, AssignKinds, PassKinds, OtherKinds DEF Next

\* Rows, handlers and passes have states of their kinds, and a job has a file,
\* however requests, assignments, passes, deletions and restarts overlap.
THEOREM ReviewTypeOK == Spec => []TypeOK
  <1> QED
    BY InitKinds, KindsKept, KindsType, PTL DEF Spec

-----------------------------------------------------------------------------
(* What a step does to the jobs and the files                              *)

\* A request that is to commit knows a file that has been there; the movie it
\* read is still its movie, and its user does not wait for the file already.
ReqKnows ==
  \A r \in Requests : req[r].pc = "commit" =>
    /\ file[req[r].file].row # "absent"
    /\ file[req[r].file].row = "present" /\ req[r].movie # NoMovie
         => file[req[r].file].movie # NoMovie
    /\ \A j \in Jobs : job[j].status = "needs_review" /\ job[j].file = req[r].file
         => job[j].user # req[r].user

\* So does a pass that has noted a file with a movie.
PassKnows ==
  \A p \in Passes : \A e \in pass[p].todo :
    /\ file[e.file].row # "absent"
    /\ file[e.file].row = "present" /\ e.assigned => file[e.file].movie # NoMovie

FlowInv == KindsInv /\ ReqKnows /\ PassKnows /\ QueuedHasMovie /\ OneReviewPerUser

\* A file is not made again, and does not lose its movie.
Grows ==
  \A f \in Files : file[f].row # "absent" =>
    /\ file'[f].row # "absent"
    /\ file'[f].row = "present" => /\ file[f].row = "present"
                                   /\ file[f].movie # NoMovie => file'[f].movie # NoMovie

Same(j) == job'[j].status = job[j].status /\ job'[j].file = job[j].file /\ job'[j].user = job[j].user
OthersSame(S) == \A k \in Jobs \ S : Same(k)
Turned(j, st) ==
  job'[j].status = st /\ job'[j].file = job[j].file /\ job'[j].user = job[j].user

Settles == \E S \in SUBSET Jobs :
  /\ \A j \in S : /\ job[j].status = "needs_review" /\ Turned(j, "queued")
                  /\ file'[job[j].file].movie # NoMovie
  /\ OthersSame(S)
Expires1 == \E j \in Jobs :
  job[j].status = "needs_review" /\ Turned(j, "expired") /\ OthersSame({j})
Removes == \E S \in SUBSET Jobs :
  /\ \A j \in S : job[j].status \in Live /\ job'[j].status = "deleted"
  /\ OthersSame(S)
Ends == \E j \in Jobs, st \in {"completed", "failed"} :
  job[j].status = "queued" /\ Turned(j, st) /\ OthersSame({j})
Opens == \E j \in Jobs :
  /\ job[j].status = "absent" /\ OthersSame({j})
  /\ \/ job'[j].status = "queued" /\ file'[job'[j].file].movie # NoMovie
     \/ /\ job'[j].status = "needs_review"
        /\ \A k \in Jobs \ {j} : job[k].status = "needs_review" /\ job[k].file = job'[j].file
             => job[k].user # job'[j].user
        /\ \A r \in Requests : req'[r].pc = "commit" /\ req'[r].file = job'[j].file
             => req'[r].user # job'[j].user
RowStep == OthersSame({}) \/ Settles \/ Expires1 \/ Removes \/ Ends \/ Opens

\* A step that leaves the jobs alone.
LEMMA Quiet == UNCHANGED job => RowStep
  BY DEF RowStep, OthersSame, Same

\* A step that leaves the files alone.
LEMMA GrowsNot == UNCHANGED file => Grows
  BY DEF Grows

\* A change of the reviews of a file with a movie settles them.
LEMMA FlipStep ==
  ASSUME RowInv, NEW f, NEW S \in SUBSET InReview(f), job' = Flipped(S),
         file'[f].movie # NoMovie \/ S = {}
  PROVE  RowStep
  <1>1. \A j \in S : j \in Jobs /\ job[j].status = "needs_review" /\ job[j].file = f
    BY DEF InReview, JobsOf
  <1>2. \A j \in S : Turned(j, "queued") /\ file'[job[j].file].movie # NoMovie
    BY <1>1, Flips DEF Turned
  <1>3. OthersSame(S)
    BY Flips DEF OthersSame, Same
  <1> QED
    BY <1>1, <1>2, <1>3 DEF RowStep, Settles

\* A cascade removes jobs, and the files for good.
LEMMA CascadeStep ==
  ASSUME RowInv, NEW S \in SUBSET Files, Cascade(S)
  PROVE  RowStep /\ Grows
  <1> DEFINE gone == {j \in Jobs : job[j].status \in Live /\ job[j].file \in S}
  <1>1. \A j \in gone : job[j].status \in Live /\ job'[j].status = "deleted"
    BY Cascades
  <1>2. OthersSame(gone)
    BY Cascades DEF OthersSame, Same
  <1>3. gone \in SUBSET Jobs
    OBVIOUS
  <1>4. Grows
    BY Cascades DEF Grows
  <1> HIDE DEF gone
  <1> QED
    BY <1>1, <1>2, <1>3, <1>4 DEF RowStep, Removes

\* A link keeps the files, and settles the reviews of one.
LEMMA LinkStep ==
  ASSUME RowInv, NEW f \in Files, NEW m \in Movies, LinkAndFlip(f, m)
  PROVE  RowStep /\ Grows
  <1>1. m # NoMovie
    BY ConstantsAssumption
  <1>2. file'[f].movie # NoMovie /\ job' = Flipped(InReview(f))
    BY <1>1, Links DEF LinkAndFlip
  <1>3. Grows
    BY <1>1, Links DEF Grows
  <1> QED
    BY <1>2, <1>3, FlipStep

\* The insert of a job for a file that has the movie it was made with.
LEMMA InsertStep ==
  ASSUME RowInv, PassInv, NEW j \in Jobs, NewJob(j), NEW f \in Files, NEW u \in Users,
         NEW m \in Movies \cup {NoMovie}, NEW hint \in BOOLEAN, Insert(j, Inserted(f, u, m, hint)),
         m # NoMovie => file'[f].movie # NoMovie,
         m = NoMovie => \A k \in Jobs : job[k].status = "needs_review" /\ job[k].file = f
                          => job[k].user # u,
         m = NoMovie => \A r \in Requests : req'[r].pc = "commit" /\ req'[r].file = f
                          => req'[r].user # u
  PROVE  RowStep
  <1>1. /\ job'[j].file = f /\ job'[j].user = u /\ job[j].status = "absent"
        /\ job'[j].status = IF m # NoMovie THEN "queued" ELSE "needs_review"
        /\ \A k \in Jobs \ {j} : job'[k] = job[k]
    BY Inserts
  <1>2. OthersSame({j})
    BY <1>1 DEF OthersSame, Same
  <1> QED
    BY <1>1, <1>2 DEF RowStep, Opens

\* The steps of a request.
LEMMA RequestRows ==
  ASSUME KindsInv, ReqKnows, NEW r \in Requests, RequestStep(r)
  PROVE  RowStep /\ Grows
  <1>0. req[r] \in RequestStates
    BY DEF KindsInv, ReqInv
  <1> USE DEF KindsInv
  <1>1. CASE UNCHANGED <<file, job>>
    BY <1>1, Quiet, GrowsNot
  <1>2. CASE ResetS3(r)
    <2>1. file' = [file EXCEPT ![req[r].file].s3 = "none"] /\ req[r].file \in Files /\ UNCHANGED job
      BY <1>2 DEF ResetS3, ReqInv
    <2>2. Grows
      BY <2>1 DEF Grows, RowInv, FileStates
    <2> QED
      BY <2>1, <2>2, Quiet
  <1>3. CASE Commit(r)
    <2>1. PICK j \in Jobs : /\ NewJob(j)
                            /\ Insert(j, Inserted(req[r].file, req[r].user, req[r].movie, FALSE))
      BY <1>3 DEF Commit
    <2>2. /\ req[r].file \in Files /\ file[req[r].file].row = "present" /\ UNCHANGED file
          /\ req[r].user \in Users /\ req[r].movie \in Movies \cup {NoMovie}
          /\ req[r].pc = "commit"
      BY <1>0, <1>3 DEF Commit, There, RequestStates
    <2>3. \A s \in Requests : req'[s].pc = "commit" =>
            /\ req'[s] = req[s] /\ s # r /\ ~Clash(r, s)
      BY <1>3, EmptyRows DEF Commit
    <2>4. \A s \in Requests : req'[s].pc = "commit" /\ req'[s].file = req[r].file
            => req'[s].user # req[r].user
      BY <2>3 DEF Clash
    <2>5. req[r].movie # NoMovie => file'[req[r].file].movie # NoMovie
      BY <2>2 DEF ReqKnows
    <2>6. \A k \in Jobs : job[k].status = "needs_review" /\ job[k].file = req[r].file
            => job[k].user # req[r].user
      BY <2>2 DEF ReqKnows
    <2>7. PICK hint \in BOOLEAN : hint = FALSE
      OBVIOUS
    <2>8. Insert(j, Inserted(req[r].file, req[r].user, req[r].movie, hint))
      BY <2>1, <2>7
    <2>9. RowStep
      BY <2>1, <2>2, <2>4, <2>5, <2>6, <2>8, InsertStep
    <2> QED
      BY <2>2, <2>9, GrowsNot
  <1>4. CASE CreateFile(r)
    <2>1. PICK f \in Files, j \in Jobs :
            /\ NewFile(f) /\ NewJob(j)
            /\ file' = [file EXCEPT ![f] = Stored(req[r].hash, req[r].movie)]
            /\ Insert(j, Inserted(f, req[r].user, req[r].movie, req[r].hint))
      BY <1>4 DEF CreateFile
    <2>2. /\ req[r].user \in Users /\ req[r].movie \in Movies \cup {NoMovie}
          /\ req[r].hint \in BOOLEAN
      BY <1>0 DEF RequestStates
    <2>3. file'[f].movie = req[r].movie /\ \A g \in Files \ {f} : file'[g] = file[g]
      BY <2>1 DEF RowInv, Stored
    <2>4. file[f].row = "absent"
      BY <2>1 DEF NewFile
    <2>5. \A k \in Jobs : job[k].status = "needs_review" => job[k].file # f
      BY <2>4 DEF RowInv, Live
    <2>6. \A s \in Requests : req'[s].pc = "commit" => req'[s] = req[s]
      BY <1>4, EmptyRows DEF CreateFile, Respond, ReqInv
    <2>7. \A s \in Requests : req'[s].pc = "commit" => req'[s].file # f
      BY <2>4, <2>6 DEF ReqKnows
    <2>8. RowStep
      BY <2>1, <2>2, <2>3, <2>5, <2>7, InsertStep
    <2>9. Grows
      BY <2>3, <2>4 DEF Grows
    <2> QED
      BY <2>8, <2>9
  <1> QED
    BY <1>1, <1>2, <1>3, <1>4 DEF RequestStep, AlreadyAvailable, S3Unreachable, RefuseBroken,
       LookUp, StoreNzb, StoreNzbFails, Begin, CommitFails, CreateFileFails

\* The steps of an assignment.
LEMMA AssignRows ==
  ASSUME KindsInv, NEW a \in Assigns, AssignStep(a)
  PROVE  RowStep /\ Grows
  <1> USE DEF KindsInv
  <1>1. CASE UNCHANGED <<file, job>>
    BY <1>1, Quiet, GrowsNot
  <1>2. CASE AssignRead(a)
    <2>1. CASE file[asg[a].file].movie = NoMovie
      BY <1>2, <2>1, Quiet, GrowsNot DEF AssignRead
    <2>2. CASE file[asg[a].file].movie # NoMovie
      BY <1>2, <2>2, FlipStep, GrowsNot DEF AssignRead
    <2> QED
      BY <2>1, <2>2
  <1>3. CASE AssignWrite(a)
    BY <1>3, LinkStep DEF AssignWrite, AsgInv
  <1> QED
    BY <1>1, <1>2, <1>3 DEF AssignStep, AssignFails

\* The steps of a pass.
LEMMA PassRows ==
  ASSUME KindsInv, PassKnows, NEW p \in Passes, PassStep(p)
  PROVE  RowStep /\ Grows
  <1> USE DEF KindsInv
  <1>1. CASE UNCHANGED <<file, job>>
    BY <1>1, Quiet, GrowsNot
  <1>2. ASSUME NEW f, ~There(f)
        PROVE  InReview(f) = {}
    BY <1>2 DEF There, InReview, JobsOf, RowInv, Live
  <1>3. CASE RetryTake(p)
    <2>1. PICK e \in pass[p].todo :
            \/ e.assigned /\ job' = Flipped(InReview(e.file))
            \/ UNCHANGED job
      BY <1>3 DEF RetryTake
    <2>2. CASE e.assigned /\ job' = Flipped(InReview(e.file))
      <3>1. file[e.file].movie # NoMovie \/ InReview(e.file) = {}
        BY <1>2, <2>2 DEF There, PassKnows, PassInv, PassStates, Entries
      <3> QED
        BY <1>3, <2>2, <3>1, FlipStep, GrowsNot DEF RetryTake
    <2> QED
      BY <1>3, <2>1, <2>2, Quiet, GrowsNot DEF RetryTake
  <1>4. CASE \E m \in Movies : RetryFound(p, m)
    <2>1. PICK m \in Movies : RetryFound(p, m)
      BY <1>4
    <2>2. \/ UNCHANGED job
          \/ /\ job' = Flipped(InReview(pass[p].cur.file))
             /\ ~There(pass[p].cur.file) \/ file[pass[p].cur.file].movie # NoMovie
      BY <2>1 DEF RetryFound
    <2>3. UNCHANGED file
      BY <2>1 DEF RetryFound
    <2> QED
      BY <1>2, <2>2, <2>3, FlipStep, Quiet, GrowsNot
  <1>5. CASE RetryWrite(p)
    BY <1>5, LinkStep, Quiet, GrowsNot DEF RetryWrite, There, PassInv
  <1>6. CASE RetryMiss(p)
    <2>1. OthersSame({})
      BY <1>6, Misses DEF RetryMiss, OthersSame, Same
    <2> QED
      BY <1>6, <2>1, GrowsNot DEF RetryMiss, RowStep
  <1>7. CASE ExpireJob(p)
    <2>1. PICK e \in pass[p].todo :
            \/ /\ job[e.job].status = "needs_review"
               /\ job' = [job EXCEPT ![e.job].status = "expired",
                                     ![e.job].expiry = "none", ![e.job].retry = "none"]
            \/ UNCHANGED job
      BY <1>7 DEF ExpireJob, StillInReview
    <2>2. e.job \in Jobs
      BY DEF PassInv, PassStates, Entries
    <2>3. UNCHANGED job \/ Expires1
      BY <2>1, <2>2, Expires DEF Expires1, Turned, OthersSame, Same
    <2> QED
      BY <1>7, <2>3, Quiet, GrowsNot DEF ExpireJob, RowStep
  <1>8. CASE DeleteOrphan(p)
    <2>1. CASE There(pass[p].cur.file)
      BY <1>8, <2>1, CascadeStep DEF DeleteOrphan, There
    <2>2. CASE ~There(pass[p].cur.file)
      BY <1>8, <2>2, Quiet, GrowsNot DEF DeleteOrphan
    <2> QED
      BY <2>1, <2>2
  <1> QED
    BY <1>1, <1>3, <1>4, <1>5, <1>6, <1>7, <1>8 DEF PassStep, PassStart, ExpireStart, CountJobs,
       Reread, PassEnd

\* The catalogue, downloads that end, timers and what changes no row.
LEMMA OtherRows ==
  ASSUME KindsInv, ReqKnows,
         \/ \E r \in Requests, u \in Users, h \in Hashes : Request(r, u, h)
         \/ \E a \in Assigns, j \in Jobs, m \in Movies : Assign(a, j, m)
         \/ \E h \in Hashes, ok \in BOOLEAN : Purge(h, ok)
         \/ Catalogue \/ Clock \/ Crash \/ UNCHANGED vars
  PROVE  RowStep /\ Grows
  <1> USE DEF KindsInv
  <1>1. CASE UNCHANGED <<file, job>>
    BY <1>1, Quiet, GrowsNot
  <1>2. ASSUME NEW u \in Users, NEW f \in Files, PostJob(u, f) PROVE RowStep /\ Grows
    <2>1. PICK j \in Jobs : NewJob(j) /\ Insert(j, Inserted(f, u, file[f].movie, FALSE))
      BY <1>2 DEF PostJob
    <2>2. file[f].movie \in Movies /\ file[f].movie # NoMovie /\ UNCHANGED file
      BY <1>2, ConstantsAssumption DEF PostJob, RowInv, FileStates
    <2>3. PICK hint \in BOOLEAN : hint = FALSE
      OBVIOUS
    <2>4. Insert(j, Inserted(f, u, file[f].movie, hint))
      BY <2>1, <2>3
    <2>5. RowStep
      BY <2>1, <2>2, <2>4, InsertStep
    <2> QED
      BY <2>2, <2>5, GrowsNot
  <1>3. ASSUME NEW h \in Hashes, NEW m \in Movies, AddFile(h, m) PROVE RowStep /\ Grows
    <2>1. PICK f \in Files : NewFile(f) /\ file' = [file EXCEPT ![f] = Stored(h, m)]
      BY <1>3 DEF AddFile
    <2>2. Grows
      BY <2>1 DEF Grows, NewFile, RowInv
    <2> QED
      BY <1>3, <2>2, Quiet DEF AddFile
  <1>4. CASE \E f \in Files : DeleteFile(f)
    <2>1. PICK f \in Files : DeleteFile(f)
      BY <1>4
    <2> QED
      BY <2>1, CascadeStep DEF DeleteFile
  <1>5. CASE \E m \in Movies : DeleteMovie(m)
    BY <1>5, CascadeStep DEF DeleteMovie
  <1>6. CASE \E f \in Files : ObjectLost(f)
    <2>1. PICK f \in Files : file' = [file EXCEPT ![f].s3 = "gone"]
      BY <1>6 DEF ObjectLost
    <2>2. Grows
      BY <2>1 DEF Grows, RowInv, FileStates
    <2> QED
      BY <1>6, <2>2, Quiet DEF ObjectLost
  <1>7. CASE \E j \in Jobs : DeleteJob(j)
    <2>1. PICK j \in Jobs : DeleteJob(j)
      BY <1>7
    <2>2. job'[j].status = "deleted" /\ job[j].status \in Live /\ OthersSame({j})
      BY <2>1, EmptyRows DEF DeleteJob, OthersSame, Same, RowInv
    <2>3. Removes
      BY <2>2 DEF Removes
    <2> QED
      BY <2>1, <2>3, GrowsNot DEF DeleteJob, RowStep
  <1>8. ASSUME NEW j \in Jobs, NEW ok \in BOOLEAN, DownloadEnds(j, ok) PROVE RowStep /\ Grows
    <2>1. PICK st \in {"completed", "failed"} : job' = [job EXCEPT ![j].status = st]
      BY <1>8 DEF DownloadEnds
    <2>2. job[j].status = "queued" /\ job[j].file \in Files
      BY <1>8 DEF DownloadEnds, RowInv, Live
    <2>3. Turned(j, st) /\ OthersSame({j})
      BY <2>1 DEF Turned, OthersSame, Same, RowInv, JobStates
    <2>4. RowStep
      BY <2>2, <2>3 DEF RowStep, Ends
    <2>5. Grows
      BY <1>8, <2>2 DEF DownloadEnds, Grows, RowInv, FileStates
    <2> QED
      BY <2>4, <2>5
  <1>9. CASE Clock
    <2>1. PICK j \in Jobs : \/ job' = [job EXCEPT ![j].retry = "due"]
                            \/ job' = [job EXCEPT ![j].expiry = "due"]
      BY <1>9 DEF Clock, RetryFalls, ReviewFalls
    <2>2. OthersSame({})
      BY <2>1 DEF OthersSame, Same, RowInv, JobStates
    <2>3. UNCHANGED file
      BY <1>9 DEF Clock, RetryFalls, ReviewFalls
    <2> QED
      BY <2>2, <2>3, GrowsNot DEF RowStep
  <1> QED
    BY <1>1, <1>2, <1>3, <1>4, <1>5, <1>6, <1>7, <1>8, <1>9 DEF Catalogue, Request, Assign,
       AssignOther, RequestOther, Purge, Crash, vars

-----------------------------------------------------------------------------
(* What the handlers know after a step                                     *)

\* A request that is to commit was to do so before, or has just read.
LEMMA CommitsRead ==
  ASSUME KindsInv, [Next]_vars, NEW s \in Requests, req'[s].pc = "commit"
  PROVE  \/ req'[s] = req[s]
         \/ /\ UNCHANGED <<file, job>> /\ There(req[s].file) /\ Conflict(req[s].file, req[s].user) = {}
            /\ req'[s].file = req[s].file /\ req'[s].user = req[s].user
            /\ req'[s].movie = file[req[s].file].movie
  <1> USE EmptyRows DEF KindsInv, ReqInv, Goto, Respond
  <1>1. ASSUME NEW r \in Requests, RequestStep(r), ~Begin(r)
        PROVE  req'[s] = req[s]
    <2>1. \/ AlreadyAvailable(r) \/ RefuseBroken(r) \/ StoreNzbFails(r) \/ CommitFails(r)
          \/ CreateFile(r) \/ CreateFileFails(r)
          => req'[s] = req[s]
      BY DEF AlreadyAvailable, RefuseBroken, StoreNzbFails, CommitFails, CreateFile, CreateFileFails
    <2>2. ResetS3(r) \/ S3Unreachable(r) => req'[s] = req[s]
      BY DEF ResetS3, S3Unreachable, RequestStates
    <2>3. LookUp(r) => req'[s] = req[s]
      <3>1. LookUp(r) => \A q \in Requests \ {r} : req'[q] = req[q]
        BY DEF LookUp, Respond
      <3>2. ASSUME NEW m, \/ req' = [req EXCEPT ![r].movie = m, ![r].pc = "storeNew"]
                          \/ req' = [req EXCEPT ![r].hint = m, ![r].pc = "storeNew"]
            PROVE  req'[r].pc = "storeNew"
        BY <3>2 DEF RequestStates
      <3>3. Respond(r) => req'[r].pc = "idle"
        BY DEF Respond
      <3> QED
        BY <3>1, <3>2, <3>3 DEF LookUp
    <2>4. StoreNzb(r) => req'[s] = req[s]
      BY DEF StoreNzb, RequestStates
    <2>5. Commit(r) => req'[s] = req[s]
      BY DEF Commit
    <2> QED
      BY <1>1, <2>1, <2>2, <2>3, <2>4, <2>5 DEF RequestStep
  <1>2. ASSUME NEW r \in Requests, Begin(r), req'[s] # req[s]
        PROVE  /\ UNCHANGED <<file, job>> /\ There(req[s].file)
               /\ Conflict(req[s].file, req[s].user) = {}
               /\ req'[s].file = req[s].file /\ req'[s].user = req[s].user
               /\ req'[s].movie = file[req[s].file].movie
    <2>1. CASE Respond(r)
      BY <1>2, <2>1
    <2>2. CASE /\ There(req[r].file) /\ Conflict(req[r].file, req[r].user) = {}
               /\ req' = [req EXCEPT ![r].pc = "commit", ![r].movie = file[req[r].file].movie]
      <3> DEFINE m == file[req[r].file].movie
                 x == [req[r] EXCEPT !.pc = "commit", !.movie = m]
      <3>1. req[r] \in RequestStates
        OBVIOUS
      <3>2. req' = [req EXCEPT ![r] = x]
        BY <2>2
      <3> HIDE DEF m
      <3>3. x.file = req[r].file /\ x.user = req[r].user /\ x.movie = m
        BY <3>1 DEF RequestStates
      <3> HIDE DEF x
      <3>4. s = r /\ req'[s] = x
        BY <1>2, <3>2
      <3>5. req'[s].file = req[s].file /\ req'[s].user = req[s].user /\ req'[s].movie = m
        BY <3>3, <3>4
      <3> QED
        BY <1>2, <2>2, <3>4, <3>5 DEF Begin, m
    <2> QED
      BY <1>2, <2>1, <2>2 DEF Begin
  <1>3. ASSUME NEW r \in Requests, NEW u \in Users, NEW h \in Hashes, Request(r, u, h)
        PROVE  req'[s] = req[s]
    <2>1. \A next \in {"store", "s3"}, f \in Files :
            req' = [req EXCEPT ![r] = [IdleRequest EXCEPT !.pc = next, !.user = u,
                                                          !.hash = h, !.file = f]]
            => req'[s] = req[s]
      BY DEF RequestStates
    <2>2. req' = [req EXCEPT ![r] = [IdleRequest EXCEPT !.pc = "tmdb", !.user = u, !.hash = h]]
            => req'[s] = req[s]
      BY DEF RequestStates
    <2> QED
      BY <1>3, <2>1, <2>2 DEF Request, RowsOf
  <1>4. ASSUME NEW u \in Users, NEW f \in Files, PostJob(u, f) PROVE req'[s] = req[s]
    BY <1>4 DEF PostJob
  <1>5. CASE UNCHANGED req
    BY <1>5
  <1>6. CASE Crash
    BY <1>6 DEF Crash
  <1>7. Catalogue => UNCHANGED req \/ \E u \in Users, f \in Files : PostJob(u, f)
    BY DEF Catalogue, AddFile, DeleteFile, ObjectLost, DeleteMovie, DeleteJob, DownloadEnds
  <1>8. \A a \in Assigns : AssignStep(a) => UNCHANGED req
    BY DEF AssignStep, AssignFails, AssignRead, AssignWrite, AssignOther
  <1>9. \A p \in Passes : PassStep(p) => UNCHANGED req
    BY DEF PassStep, PassStart, RetryTake, RetryFound, RetryWrite, RetryMiss, ExpireStart,
       ExpireJob, CountJobs, Reread, DeleteOrphan, PassEnd, PassOther
  <1>10. \A a \in Assigns, j \in Jobs, m \in Movies : Assign(a, j, m) => UNCHANGED req
    BY DEF Assign, AssignOther
  <1>11. \A h \in Hashes, ok \in BOOLEAN : Purge(h, ok) => UNCHANGED req
    BY DEF Purge
  <1>12. Clock => UNCHANGED req
    BY DEF Clock, RetryFalls, ReviewFalls
  <1>13. UNCHANGED vars => UNCHANGED req
    BY DEF vars
  <1> QED
    BY <1>1, <1>2, <1>3, <1>4, <1>5, <1>6, <1>7, <1>8, <1>9, <1>10, <1>11, <1>12, <1>13 DEF Next

\* What a pass is to do it was to do before, or has just read.
LEMMA EntriesRead ==
  ASSUME KindsInv, [Next]_vars, NEW p \in Passes, NEW e \in pass'[p].todo
  PROVE  \/ e \in pass[p].todo
         \/ UNCHANGED <<file, job>> /\ \E j \in Jobs : job[j].status = "needs_review" /\ e = Entry(j)
  <1> USE EmptyRows DEF KindsInv, PassInv
  <1>1. CASE UNCHANGED pass
    BY <1>1
  <1>2. ASSUME NEW q \in Passes, PassStep(q)
        PROVE  \/ e \in pass[p].todo
               \/ UNCHANGED <<file, job>> /\ \E j \in Jobs : job[j].status = "needs_review" /\ e = Entry(j)
    <2> USE DEF Becomes, Doing
    <2>0. pass[q] \in PassStates /\ IdlePass.todo = {}
      BY DEF IdlePass
    <2>1. CASE PassStart(q)
      <3>1. pass' = [pass EXCEPT ![q] = [IdlePass EXCEPT !.pc = "retry",
                       !.todo = {Entry(j) : j \in {k \in Jobs : Eligible(k)}}]]
        BY <2>1 DEF PassStart
      <3>2. pass'[p].todo = pass[p].todo \/ e \in {Entry(j) : j \in {k \in Jobs : Eligible(k)}}
        BY <3>1, <2>0 DEF PassStates
      <3> QED
        BY <2>1, <3>2 DEF PassStart, Eligible
    <2>2. CASE ExpireStart(q)
      <3>1. pass' = [pass EXCEPT ![q] = [pass[q] EXCEPT !.pc = "expire",
                       !.todo = {Entry(j) : j \in {k \in Jobs : Expired(k)}}]]
        BY <2>2 DEF ExpireStart
      <3>2. pass'[p].todo = pass[p].todo \/ e \in {Entry(j) : j \in {k \in Jobs : Expired(k)}}
        BY <3>1, <2>0 DEF PassStates
      <3> QED
        BY <2>2, <3>2 DEF ExpireStart, Expired
    <2>keeps. ASSUME NEW x, pass' = [pass EXCEPT ![q] = x], x.todo \subseteq pass[q].todo
              PROVE  e \in pass[p].todo
      BY <2>keeps
    <2>3. CASE RetryTake(q)
      <3>1. PICK d \in pass[q].todo :
              LET rest == [pass[q] EXCEPT !.todo = {x \in @ : x.file # d.file}] IN
              Becomes(q, rest) \/ Becomes(q, [rest EXCEPT !.pc = "tmdb", !.cur = d])
        BY <2>3 DEF RetryTake
      <3> DEFINE T == {x \in pass[q].todo : x.file # d.file}
                 rest == [pass[q] EXCEPT !.todo = T]
                 ask == [rest EXCEPT !.pc = "tmdb", !.cur = d]
      <3>2. Becomes(q, rest) \/ Becomes(q, ask)
        BY <3>1
      <3>3. T \subseteq pass[q].todo /\ T \in SUBSET Entries /\ d \in Entries
        BY <2>0 DEF PassStates
      <3> HIDE DEF T
      <3>4. rest \in PassStates /\ rest.todo = T
        BY <2>0, <3>3 DEF PassStates
      <3> HIDE DEF rest
      <3>5. ask.todo = T
        BY <3>4 DEF PassStates
      <3> HIDE DEF ask
      <3> QED
        BY <2>keeps, <3>2, <3>3, <3>4, <3>5
    <2>4. CASE \E m \in Movies : RetryFound(q, m)
      <3>1. PICK m \in Movies : RetryFound(q, m)
        BY <2>4
      <3> DEFINE x == [pass[q] EXCEPT !.pc = "write", !.movie = m]
                 y == [pass[q] EXCEPT !.pc = "retry", !.cur = NoEntry]
      <3>2. x.todo = pass[q].todo /\ y.todo = pass[q].todo
        BY <2>0 DEF PassStates
      <3>3. Becomes(q, x) \/ Becomes(q, y)
        BY <3>1 DEF RetryFound
      <3> HIDE DEF x, y
      <3> QED
        BY <2>keeps, <3>2, <3>3
    <2>5. CASE RetryWrite(q)
      BY <2>0, <2>5 DEF RetryWrite, PassStates
    <2>6. CASE RetryMiss(q)
      BY <2>0, <2>6 DEF RetryMiss, PassStates
    <2>7. CASE ExpireJob(q)
      <3>1. PICK d \in pass[q].todo :
              LET rest == [pass[q] EXCEPT !.todo = @ \ {d}] IN
              Becomes(q, rest) \/ Becomes(q, [rest EXCEPT !.pc = "count", !.cur = d])
        BY <2>7 DEF ExpireJob
      <3> DEFINE T == pass[q].todo \ {d}
                 rest == [pass[q] EXCEPT !.todo = T]
                 took == [rest EXCEPT !.pc = "count", !.cur = d]
      <3>2. Becomes(q, rest) \/ Becomes(q, took)
        BY <3>1
      <3>3. T \subseteq pass[q].todo /\ T \in SUBSET Entries /\ d \in Entries
        BY <2>0 DEF PassStates
      <3> HIDE DEF T
      <3>4. rest \in PassStates /\ rest.todo = T
        BY <2>0, <3>3 DEF PassStates
      <3> HIDE DEF rest
      <3>5. took.todo = T
        BY <3>4 DEF PassStates
      <3> HIDE DEF took
      <3> QED
        BY <2>keeps, <3>2, <3>3, <3>4, <3>5
    <2>8. CASE CountJobs(q)
      <3> DEFINE x == [pass[q] EXCEPT !.pc = "expire", !.cur = NoEntry]
                 y == [pass[q] EXCEPT !.pc = "reread", !.cur = pass[q].cur]
      <3>1. x.todo = pass[q].todo /\ y.todo = pass[q].todo
        BY <2>0 DEF PassStates
      <3>2. Becomes(q, x) \/ Becomes(q, y)
        BY <2>8 DEF CountJobs
      <3> HIDE DEF x, y
      <3> QED
        BY <2>keeps, <3>1, <3>2
    <2>9. CASE Reread(q)
      <3> DEFINE x == [pass[q] EXCEPT !.pc = "delete", !.cur = pass[q].cur]
                 y == [pass[q] EXCEPT !.pc = "expire", !.cur = NoEntry, !.young = {}]
      <3>1. x.todo = pass[q].todo /\ y.todo = pass[q].todo
        BY <2>0 DEF PassStates
      <3>2. Becomes(q, x) \/ Becomes(q, y)
        BY <2>9 DEF Reread
      <3> HIDE DEF x, y
      <3> QED
        BY <2>keeps, <3>1, <3>2
    <2>10. CASE DeleteOrphan(q)
      BY <2>0, <2>10 DEF DeleteOrphan, PassStates
    <2>11. CASE PassEnd(q)
      BY <2>0, <2>11 DEF PassEnd
    <2> QED
      BY <1>2, <2>1, <2>2, <2>3, <2>4, <2>5, <2>6, <2>7, <2>8, <2>9, <2>10, <2>11 DEF PassStep
  <1>3. ASSUME NEW j \in Jobs, NEW row, Insert(j, row) PROVE e \in pass[p].todo
    BY <1>3 DEF Insert, PassStates
  <1>4. CASE Crash
    BY <1>4 DEF Crash, IdlePass
  <1>5. \A r \in Requests : RequestStep(r) => UNCHANGED pass \/ Commit(r) \/ CreateFile(r)
    BY DEF RequestStep, AlreadyAvailable, ResetS3, S3Unreachable, RefuseBroken, LookUp, StoreNzb,
       StoreNzbFails, Begin, CommitFails, CreateFileFails
  <1>6. Catalogue => UNCHANGED pass \/ \E u \in Users, f \in Files : PostJob(u, f)
    BY DEF Catalogue, AddFile, DeleteFile, ObjectLost, DeleteMovie, DeleteJob, DownloadEnds
  <1>7. \A r \in Requests : Commit(r) \/ CreateFile(r) => e \in pass[p].todo
    BY <1>3 DEF Commit, CreateFile
  <1>8. \A u \in Users, f \in Files : PostJob(u, f) => e \in pass[p].todo
    BY <1>3 DEF PostJob
  <1>9. \A a \in Assigns : AssignStep(a) => UNCHANGED pass
    BY DEF AssignStep, AssignFails, AssignRead, AssignWrite, AssignOther
  <1>10. \A a \in Assigns, j \in Jobs, m \in Movies : Assign(a, j, m) => UNCHANGED pass
    BY DEF Assign, AssignOther
  <1>11. \A h \in Hashes, ok \in BOOLEAN : Purge(h, ok) => UNCHANGED pass
    BY DEF Purge
  <1>12. Clock => UNCHANGED pass
    BY DEF Clock, RetryFalls, ReviewFalls
  <1>13. UNCHANGED vars => UNCHANGED pass
    BY DEF vars
  <1>14. \A r \in Requests, u \in Users, h \in Hashes : Request(r, u, h) => UNCHANGED pass
    BY DEF Request
  <1> QED
    BY <1>1, <1>2, <1>4, <1>5, <1>6, <1>7, <1>8, <1>9, <1>10, <1>11, <1>12, <1>13, <1>14 DEF Next

\* Every step does one of the six things to the jobs.
LEMMA StepRows == ASSUME KindsInv, ReqKnows, PassKnows, [Next]_vars PROVE RowStep /\ Grows
  BY RequestRows, AssignRows, PassRows, OtherRows DEF Next

\* A job in review was there, or its user did not wait for its file.
LEMMA NewReviews ==
  ASSUME RowStep, NEW j \in Jobs, job'[j].status = "needs_review"
  PROVE  \/ Same(j)
         \/ /\ OthersSame({j}) /\ job[j].status = "absent"
            /\ \A k \in Jobs \ {j} : job[k].status = "needs_review" /\ job[k].file = job'[j].file
                 => job[k].user # job'[j].user
            /\ \A r \in Requests : req'[r].pc = "commit" /\ req'[r].file = job'[j].file
                 => req'[r].user # job'[j].user
  BY DEF RowStep, OthersSame, Settles, Expires1, Removes, Ends, Opens, Turned

\* A job out of review was, or its file has a movie.
LEMMA NewQueued ==
  ASSUME RowStep, NEW j \in Jobs, job'[j].status \in {"queued", "completed", "failed"}
  PROVE  \/ job[j].status \in {"queued", "completed", "failed"} /\ job'[j].file = job[j].file
         \/ file'[job'[j].file].movie # NoMovie
  BY DEF RowStep, OthersSame, Same, Settles, Expires1, Removes, Ends, Opens, Turned

\* At first there is no row and nothing is in flight.
LEMMA InitFlow == Init => FlowInv
  BY InitKinds, EmptyRows, ConstantsAssumption
     DEF Init, FlowInv, ReqKnows, PassKnows, QueuedHasMovie, OneReviewPerUser, IdlePass, Live

\* Every step keeps what handlers and passes rely on.
LEMMA FlowKept == FlowInv /\ [Next]_vars => FlowInv'
  <1> SUFFICES ASSUME FlowInv, [Next]_vars PROVE FlowInv'
    OBVIOUS
  <1>1. KindsInv /\ KindsInv'
    BY KindsKept DEF FlowInv
  <1>2. RowStep /\ Grows
    BY StepRows DEF FlowInv
  <1>3. ReqKnows'
    <2> SUFFICES ASSUME NEW r \in Requests, req'[r].pc = "commit"
                 PROVE  /\ file'[req'[r].file].row # "absent"
                        /\ file'[req'[r].file].row = "present" /\ req'[r].movie # NoMovie
                             => file'[req'[r].file].movie # NoMovie
                        /\ \A j \in Jobs :
                             job'[j].status = "needs_review" /\ job'[j].file = req'[r].file
                               => job'[j].user # req'[r].user
      BY DEF ReqKnows
    <2>1. req'[r].file \in Files
      BY <1>1 DEF KindsInv, ReqInv
    <2>2. CASE req'[r] = req[r]
      <3>1. /\ file[req[r].file].row # "absent"
            /\ file[req[r].file].row = "present" /\ req[r].movie # NoMovie
                 => file[req[r].file].movie # NoMovie
            /\ \A j \in Jobs : job[j].status = "needs_review" /\ job[j].file = req[r].file
                 => job[j].user # req[r].user
        BY <2>2 DEF FlowInv, ReqKnows
      <3>2. /\ file'[req'[r].file].row # "absent"
            /\ file'[req'[r].file].row = "present" /\ req'[r].movie # NoMovie
                 => file'[req'[r].file].movie # NoMovie
        BY <1>2, <2>1, <2>2, <3>1 DEF Grows
      <3>3. ASSUME NEW j \in Jobs, job'[j].status = "needs_review", job'[j].file = req'[r].file
            PROVE  job'[j].user # req'[r].user
        BY <1>2, <2>2, <3>1, <3>3, NewReviews DEF Same
      <3> QED
        BY <3>2, <3>3
    <2>3. CASE /\ UNCHANGED <<file, job>> /\ There(req[r].file)
               /\ Conflict(req[r].file, req[r].user) = {}
               /\ req'[r].file = req[r].file /\ req'[r].user = req[r].user
               /\ req'[r].movie = file[req[r].file].movie
      <3>1. \A j \in Jobs : job[j].status = "needs_review" /\ job[j].file = req[r].file
              => job[j].user # req[r].user
        BY <2>3 DEF Conflict, JobsOf, Live
      <3> QED
        BY <2>3, <3>1 DEF There
    <2> QED
      BY <1>1, <2>2, <2>3, CommitsRead
  <1>4. PassKnows'
    <2> SUFFICES ASSUME NEW p \in Passes, NEW e \in pass'[p].todo
                 PROVE  /\ file'[e.file].row # "absent"
                        /\ file'[e.file].row = "present" /\ e.assigned => file'[e.file].movie # NoMovie
      BY DEF PassKnows
    <2>1. e.file \in Files
      BY <1>1 DEF KindsInv, PassInv, PassStates, Entries
    <2>2. CASE e \in pass[p].todo
      BY <1>2, <2>1, <2>2 DEF FlowInv, PassKnows, Grows
    <2>3. CASE UNCHANGED <<file, job>> /\ \E j \in Jobs : job[j].status = "needs_review" /\ e = Entry(j)
      <3>1. PICK j \in Jobs : job[j].status = "needs_review" /\ e = Entry(j)
        BY <2>3
      <3>2. e.file = job[j].file /\ (e.assigned => file[job[j].file].movie # NoMovie)
        BY <1>1, <3>1, EntryKinds DEF KindsInv
      <3>3. file[e.file].row = "present"
        BY <1>1, <3>1, <3>2 DEF KindsInv, RowInv, Live
      <3> QED
        BY <2>3, <3>2, <3>3
    <2> QED
      BY <1>1, <2>2, <2>3, EntriesRead
  <1>5. QueuedHasMovie'
    <2> SUFFICES ASSUME NEW j \in Jobs, job'[j].status \in {"queued", "completed", "failed"}
                 PROVE  file'[job'[j].file].movie # NoMovie
      BY DEF QueuedHasMovie
    <2>1. job'[j].file \in Files /\ file'[job'[j].file].row = "present"
      BY <1>1 DEF KindsInv, RowInv, Live
    <2>2. CASE job[j].status \in {"queued", "completed", "failed"} /\ job'[j].file = job[j].file
      <3>1. file[job[j].file].row = "present" /\ file[job[j].file].movie # NoMovie
        BY <1>1, <2>2 DEF FlowInv, QueuedHasMovie, KindsInv, RowInv, Live
      <3> QED
        BY <1>2, <2>1, <2>2, <3>1 DEF Grows
    <2> QED
      BY <1>2, <2>2, NewQueued
  <1>6. OneReviewPerUser'
    <2> SUFFICES ASSUME NEW j \in Jobs, NEW k \in Jobs, j # k,
                        job'[j].status = "needs_review", job'[k].status = "needs_review",
                        job'[j].file = job'[k].file, job'[j].user = job'[k].user
                 PROVE  FALSE
      BY DEF OneReviewPerUser
    <2>1. CASE Same(j) /\ Same(k)
      BY <2>1 DEF Same, FlowInv, OneReviewPerUser
    <2>2. CASE ~Same(j)
      <3>1. OthersSame({j}) /\ \A i \in Jobs \ {j} :
              job[i].status = "needs_review" /\ job[i].file = job'[j].file
                => job[i].user # job'[j].user
        BY <1>2, <2>2, NewReviews
      <3> QED
        BY <3>1 DEF OthersSame, Same
    <2>3. CASE ~Same(k)
      <3>1. OthersSame({k}) /\ \A i \in Jobs \ {k} :
              job[i].status = "needs_review" /\ job[i].file = job'[k].file
                => job[i].user # job'[k].user
        BY <1>2, <2>3, NewReviews
      <3> QED
        BY <3>1 DEF OthersSame, Same
    <2> QED
      BY <2>1, <2>2, <2>3
  <1> QED
    BY <1>1, <1>3, <1>4, <1>5, <1>6 DEF FlowInv

\* No job is queued, downloads or is done for a file without a movie, whatever
\* the handler that queued it had read when the file was still unassigned.
THEOREM ReviewQueuedHasMovie == Spec => []QueuedHasMovie
  <1>1. FlowInv => QueuedHasMovie
    BY DEF FlowInv
  <1> QED
    BY <1>1, InitFlow, FlowKept, PTL DEF Spec

\* However many requests of a user for one NZB overlap, at most one of them
\* leaves a review behind.
THEOREM ReviewOncePerUser == Spec => []OneReviewPerUser
  <1>1. FlowInv => OneReviewPerUser
    BY DEF FlowInv
  <1> QED
    BY <1>1, InitFlow, FlowKept, PTL DEF Spec

-----------------------------------------------------------------------------
(* The promise                                                             *)

\* At first no row waits, in the abstract specification either.
LEMMA InitPromise == Init => Promise!Init
  BY EmptyRows DEF Init, Promise!Init, Outcome

\* What a step does to the jobs it does to the outcomes.
LEMMA StepPromise ==
  ASSUME FlowInv, [Next]_vars
  PROVE  [Promise!Next]_([j \in Jobs |-> Outcome(job[j])])
  <1> DEFINE review == [j \in Jobs |-> Outcome(job[j])]
             next == [j \in Jobs |-> Outcome(job'[j])]
  <1>1. review' = next
    OBVIOUS
  <1>2. \A j \in Jobs : /\ review[j] = Outcome(job[j]) /\ next[j] = Outcome(job'[j])
                        /\ Same(j) => next[j] = review[j]
    BY DEF Same, Outcome
  <1>3. RowStep
    BY StepRows DEF FlowInv
  <1>4. CASE OthersSame({})
    BY <1>1, <1>2, <1>4 DEF OthersSame
  <1>5. ASSUME NEW S \in SUBSET Jobs, NEW st, OthersSame(S), \A j \in S : Outcome(job'[j]) = st
        PROVE  Promise!Set(S, st)
    <2>1. next = [j \in Jobs |-> IF j \in S THEN st ELSE review[j]]
      BY <1>2, <1>5 DEF OthersSame
    <2> QED
      BY <1>1, <2>1 DEF Promise!Set
  <1>6. CASE Settles
    <2>1. PICK S \in SUBSET Jobs :
            /\ \A j \in S : job[j].status = "needs_review" /\ job'[j].status = "queued"
            /\ OthersSame(S)
      BY <1>6 DEF Settles, Turned
    <2>2. Promise!Settle(S)
      BY <1>2, <1>5, <2>1 DEF Promise!Settle, Promise!Waiting, Outcome
    <2> QED
      BY <2>2 DEF Promise!Next
  <1>7. CASE Expires1
    <2>1. PICK j \in Jobs : /\ job[j].status = "needs_review" /\ job'[j].status = "expired"
                            /\ OthersSame({j})
      BY <1>7 DEF Expires1, Turned
    <2>2. Promise!Expire(j)
      BY <1>2, <1>5, <2>1 DEF Promise!Expire, Promise!Waiting, Outcome
    <2> QED
      BY <2>2 DEF Promise!Next
  <1>8. CASE Removes
    <2>1. PICK S \in SUBSET Jobs :
            /\ \A j \in S : job[j].status \in Live /\ job'[j].status = "deleted"
            /\ OthersSame(S)
      BY <1>8 DEF Removes
    <2>2. Promise!Remove(S)
      BY <1>2, <1>5, <2>1 DEF Promise!Remove, Promise!Present, Outcome, Live
    <2> QED
      BY <2>2 DEF Promise!Next
  <1>9. CASE Ends
    <2>1. PICK j \in Jobs : /\ job[j].status = "queued" /\ job'[j].status \in {"completed", "failed"}
                            /\ OthersSame({j})
      BY <1>9 DEF Ends, Turned
    <2>2. next = review
      BY <1>2, <2>1 DEF OthersSame, Outcome
    <2> QED
      BY <1>1, <2>2
  <1>10. CASE Opens
    <2>1. PICK j \in Jobs : /\ job[j].status = "absent"
                            /\ job'[j].status \in {"queued", "needs_review"}
                            /\ OthersSame({j})
      BY <1>10 DEF Opens
    <2>2. PICK st \in {"waiting", "settled"} : Outcome(job'[j]) = st
      BY <2>1 DEF Outcome
    <2>3. Promise!Open(j)
      BY <1>2, <1>5, <2>1, <2>2 DEF Promise!Open, Outcome
    <2> QED
      BY <2>3 DEF Promise!Next
  <1> QED
    BY <1>3, <1>4, <1>6, <1>7, <1>8, <1>9, <1>10 DEF RowStep

\* Whatever requests, answers of TMDB, assignments, expiries, deletions and
\* restarts do, and in whatever order, they keep the promise to the user: an
\* expired, settled or deleted row is never brought back.
THEOREM ReviewKeepsPromise == Spec => KeepsPromise
  <1> QED
    BY InitPromise, StepPromise, InitFlow, FlowKept, PTL DEF Spec, KeepsPromise, Promise!Spec

=============================================================================
