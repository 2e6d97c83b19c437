--------------------------- MODULE ReviewPassProofs ---------------------------
(***************************************************************************)
(* What the reconciler's passes may conclude from what they read earlier:  *)
(* a review loses its promised retry only when its attempts are used up,   *)
(* and the cleanup of an expired review takes no job with it that its      *)
(* count could have seen.                                                  *)
(*                                                                         *)
(* For the first, the review a file was created with is never behind its   *)
(* siblings, nor behind what any pass has noted of one of them, since each *)
(* failed look-up counts for all of them at once.  For the second, every   *)
(* job that pins a file between the count and the deletion was inserted    *)
(* in between.                                                             *)
(***************************************************************************)
EXTENDS ReviewFlowProofs

-----------------------------------------------------------------------------
(* What a step does to the counts                                          *)

\* A review goes on as it was, but for its timers; nothing is made.
Keeps(j) ==
  /\ job[j].status = "absent" => job'[j].status = "absent"
  /\ job'[j].status = "needs_review" =>
       /\ job[j].status = "needs_review"
       /\ job'[j].file = job[j].file /\ job'[j].count = job[j].count
       /\ job'[j].hinted = job[j].hinted
       /\ job'[j].retry = job[j].retry \/ job'[j].retry # "none"

\* A row is made, with no attempt; if a retry is promised its file is new.
Makes(j) ==
  /\ job[j].status = "absent" /\ \E row : Insert(j, row)
  /\ \A k \in Jobs \ {j} : job'[k] = job[k]
  /\ job'[j].count = 0
  /\ job'[j].hinted => job'[j].retry = "running" /\ file[job'[j].file].row = "absent"

CountStep ==
  \/ \A j \in Jobs : Keeps(j)
  \/ \E j \in Jobs : Makes(j)
  \/ \E p \in Passes : RetryMiss(p)

\* The row of a request is new.
LEMMA NewRow ==
  ASSUME NEW f \in Files, NEW u \in Users, NEW m \in Movies \cup {NoMovie}, NEW hint \in BOOLEAN
  PROVE  /\ Inserted(f, u, m, hint).count = 0 /\ Inserted(f, u, m, hint).file = f
         /\ Inserted(f, u, m, hint).hinted => hint /\ Inserted(f, u, m, hint).retry = "running"
  <1>1. CASE m # NoMovie
    BY <1>1 DEF Inserted, Row
  <1>2. CASE m = NoMovie /\ hint
    BY <1>2 DEF Inserted, Row
  <1>3. CASE m = NoMovie /\ ~hint
    BY <1>3 DEF Inserted, Row
  <1> QED
    BY <1>1, <1>2, <1>3

\* A request that inserts makes a row.
LEMMA MakesRow ==
  ASSUME RowInv, PassInv, NEW j \in Jobs, NewJob(j), NEW f \in Files, NEW u \in Users,
         NEW m \in Movies \cup {NoMovie}, NEW hint \in BOOLEAN, Insert(j, Inserted(f, u, m, hint)),
         hint => file[f].row = "absent"
  PROVE  CountStep
  <1>1. /\ job[j].status = "absent" /\ \A k \in Jobs \ {j} : job'[k] = job[k]
    BY Inserts
  <1> DEFINE row == Inserted(f, u, m, hint)
  <1>2. row.count = 0 /\ row.file = f /\ (row.hinted => hint /\ row.retry = "running")
    BY NewRow
  <1>3. Insert(j, row)
    OBVIOUS
  <1> HIDE DEF row
  <1>4. job'[j] = row
    BY <1>3 DEF Insert, RowInv
  <1>5. Makes(j)
    BY <1>1, <1>2, <1>3, <1>4 DEF Makes
  <1> QED
    BY <1>5 DEF CountStep

\* Jobs that stay.
LEMMA Still == UNCHANGED job => CountStep
  BY DEF CountStep, Keeps

\* Reviews that end are none.
LEMMA FlipsKeep ==
  ASSUME RowInv, NEW f, NEW S \in SUBSET InReview(f), job' = Flipped(S)
  PROVE  CountStep
  <1>1. \A j \in S : job[j].status = "needs_review"
    BY DEF InReview
  <1>2. \A j \in Jobs : Keeps(j)
    BY <1>1, Flips DEF Keeps
  <1> QED
    BY <1>2 DEF CountStep

\* Nor are those that are deleted.
LEMMA CascadesKeep ==
  ASSUME RowInv, NEW S \in SUBSET Files, Cascade(S)
  PROVE  CountStep
  <1>1. \A j \in Jobs : Keeps(j)
    BY Cascades DEF Keeps, Live
  <1> QED
    BY <1>1 DEF CountStep

\* Every step keeps the counts, makes a row or is a failed look-up.
LEMMA StepCounts == ASSUME KindsInv, [Next]_vars PROVE CountStep
  <1> USE DEF KindsInv
  <1>1. CASE UNCHANGED job
    BY <1>1, Still
  <1>0. PICK yes \in BOOLEAN : yes = FALSE
    OBVIOUS
  <1>2. ASSUME NEW r \in Requests, Commit(r) PROVE CountStep
    <2>0. req[r] \in RequestStates
      BY DEF ReqInv
    <2>1. PICK j \in Jobs : /\ NewJob(j)
                            /\ Insert(j, Inserted(req[r].file, req[r].user, req[r].movie, FALSE))
      BY <1>2 DEF Commit
    <2>2. /\ req[r].file \in Files /\ req[r].user \in Users /\ req[r].movie \in Movies \cup {NoMovie}
      BY <1>2, <2>0 DEF Commit, There, RequestStates
    <2>3. Insert(j, Inserted(req[r].file, req[r].user, req[r].movie, yes))
      BY <1>0, <2>1
    <2> QED
      BY <1>0, <2>1, <2>2, <2>3, MakesRow
  <1>3. ASSUME NEW r \in Requests, CreateFile(r) PROVE CountStep
    <2>0. req[r] \in RequestStates
      BY DEF ReqInv
    <2>1. PICK f \in Files, j \in Jobs :
            /\ NewFile(f) /\ NewJob(j) /\ Insert(j, Inserted(f, req[r].user, req[r].movie, req[r].hint))
      BY <1>3 DEF CreateFile
    <2>2. /\ req[r].user \in Users /\ req[r].movie \in Movies \cup {NoMovie} /\ req[r].hint \in BOOLEAN
      BY <2>0 DEF RequestStates
    <2> QED
      BY <2>1, <2>2, MakesRow DEF NewFile
  <1>4. ASSUME NEW u \in Users, NEW f \in Files, PostJob(u, f) PROVE CountStep
    <2>1. PICK j \in Jobs : NewJob(j) /\ Insert(j, Inserted(f, u, file[f].movie, FALSE))
      BY <1>4 DEF PostJob
    <2>2. file[f].movie \in Movies \cup {NoMovie}
      BY DEF RowInv, FileStates
    <2>3. Insert(j, Inserted(f, u, file[f].movie, yes))
      BY <1>0, <2>1
    <2> QED
      BY <1>0, <2>1, <2>2, <2>3, MakesRow
  <1>5. ASSUME NEW a \in Assigns, AssignStep(a) PROVE CountStep
    BY <1>5, Still, FlipsKeep DEF AssignStep, AssignFails, AssignRead, AssignWrite, LinkAndFlip
  <1>6. ASSUME NEW p \in Passes, PassStep(p) PROVE CountStep
    <2>1. CASE RetryTake(p)
      BY <2>1, Still, FlipsKeep DEF RetryTake
    <2>2. CASE \E m \in Movies : RetryFound(p, m)
      BY <2>2, Still, FlipsKeep DEF RetryFound
    <2>3. CASE RetryWrite(p)
      BY <2>3, Still, FlipsKeep DEF RetryWrite, LinkAndFlip
    <2>4. CASE ExpireJob(p)
      <3>1. PICK e \in pass[p].todo :
              \/ /\ job[e.job].status = "needs_review"
                 /\ job' = [job EXCEPT ![e.job].status = "expired",
                                       ![e.job].expiry = "none", ![e.job].retry = "none"]
              \/ UNCHANGED job
        BY <2>4 DEF ExpireJob, StillInReview
      <3>2. e.job \in Jobs
        BY DEF PassInv, PassStates, Entries
      <3>3. UNCHANGED job \/ \A j \in Jobs : Keeps(j)
        BY <3>1, <3>2, Expires DEF Keeps
      <3> QED
        BY <3>3, Still DEF CountStep
    <2>5. CASE DeleteOrphan(p)
      BY <2>5, Still, CascadesKeep DEF DeleteOrphan, There
    <2>6. CASE RetryMiss(p)
      BY <2>6 DEF CountStep
    <2> QED
      BY <1>6, <2>1, <2>2, <2>3, <2>4, <2>5, <2>6, Still DEF PassStep, PassStart, ExpireStart,
         CountJobs, Reread, PassEnd
  <1>7. CASE \E f \in Files : DeleteFile(f)
    BY <1>7, CascadesKeep DEF DeleteFile
  <1>8. CASE \E m \in Movies : DeleteMovie(m)
    BY <1>8, CascadesKeep DEF DeleteMovie
  <1>9. ASSUME NEW j \in Jobs, DeleteJob(j) PROVE CountStep
    <2>1. \A k \in Jobs : Keeps(k)
      BY <1>9, EmptyRows DEF DeleteJob, Keeps, RowInv, Live
    <2> QED
      BY <2>1 DEF CountStep
  <1>10. ASSUME NEW j \in Jobs, NEW ok \in BOOLEAN, DownloadEnds(j, ok) PROVE CountStep
    <2>1. PICK st \in {"completed", "failed"} : job' = [job EXCEPT ![j].status = st]
      BY <1>10 DEF DownloadEnds
    <2>2. job'[j].status = st /\ job[j].status = "queued" /\ \A k \in Jobs \ {j} : job'[k] = job[k]
      BY <1>10, <2>1 DEF DownloadEnds, RowInv, JobStates
    <2>3. \A k \in Jobs : Keeps(k)
      BY <2>2 DEF Keeps
    <2> QED
      BY <2>3 DEF CountStep
  <1>11. ASSUME NEW j \in Jobs, RetryFalls(j) \/ ReviewFalls(j) PROVE CountStep
    <2>1. \/ job' = [job EXCEPT ![j].retry = "due"]
          \/ job' = [job EXCEPT ![j].expiry = "due"]
      BY <1>11 DEF RetryFalls, ReviewFalls
    <2>2. \A k \in Jobs : Keeps(k)
      BY <2>1 DEF Keeps, RowInv, JobStates
    <2> QED
      BY <2>2 DEF CountStep
  <1>12. ASSUME NEW r \in Requests, RequestStep(r) PROVE CountStep
    BY <1>2, <1>3, <1>12, Still DEF RequestStep, AlreadyAvailable, ResetS3, S3Unreachable,
       RefuseBroken, LookUp, StoreNzb, StoreNzbFails, Begin, CommitFails, CreateFileFails
  <1>13. CASE Catalogue
    BY <1>4, <1>7, <1>8, <1>9, <1>10, <1>13, Still DEF Catalogue, AddFile, ObjectLost
  <1>14. CASE Clock
    BY <1>11, <1>14 DEF Clock
  <1> QED
    BY <1>1, <1>5, <1>6, <1>12, <1>13, <1>14 DEF Next, Request, Assign, AssignOther, Purge, Crash, vars

-----------------------------------------------------------------------------
(* What a step does to the passes                                          *)

Cleaning(p) == pass[p].pc \in {"reread", "delete"}
Pinned(f) == {j \in JobsOf(f) : job[j].status \in Pinning}

\* What a pass works on it had noted before.  A pass that is to delete a file
\* was to do so before, or has just counted no job; it forgets none of those
\* that came later.
CursorStep(p) ==
  /\ pass'[p].cur \in pass[p].todo \cup {pass[p].cur, NoEntry}
  /\ Cleaning(p)' =>
       /\ pass'[p].cur = pass[p].cur
       /\ \/ Cleaning(p) /\ pass[p].young \subseteq pass'[p].young
          \/ pass[p].cur \in Entries /\ Pinned(pass[p].cur.file) = {} /\ UNCHANGED job

\* A pass that moves by itself.
LEMMA OwnMove ==
  ASSUME PassInv, NEW q \in Passes, NEW x, Becomes(q, x), NEW p \in Passes,
         x.cur \in pass[q].todo \cup {pass[q].cur, NoEntry},
         x.pc \in {"reread", "delete"} =>
           /\ x.cur = pass[q].cur
           /\ \/ Cleaning(q) /\ pass[q].young \subseteq x.young
              \/ pass[q].cur \in Entries /\ Pinned(pass[q].cur.file) = {} /\ UNCHANGED job
  PROVE  CursorStep(p)
  <1>1. CASE p = q
    <2>1. pass'[p] = x
      BY <1>1 DEF Becomes, PassInv
    <2> QED
      BY <1>1, <2>1 DEF CursorStep, Cleaning
  <1>2. CASE p # q
    <2>1. pass'[p] = pass[p]
      BY <1>2 DEF Becomes, PassInv
    <2> QED
      BY <2>1 DEF CursorStep, Cleaning
  <1> QED
    BY <1>1, <1>2

\* The steps of a pass.
LEMMA PassCursors ==
  ASSUME PassInv, NEW q \in Passes, PassStep(q), NEW p \in Passes
  PROVE  CursorStep(p)
  <1>0. pass[q] \in PassStates /\ IdlePass \in PassStates /\ IdlePass.pc = "idle"
    BY EmptyRows DEF PassInv
  <1> USE DEF Doing
  <1>1. CASE PassStart(q)
    <2> DEFINE T == {Entry(j) : j \in {k \in Jobs : Eligible(k)}}
    <2> HIDE DEF T
    <2> DEFINE x == [IdlePass EXCEPT !.pc = "retry", !.todo = T]
    <2>1. Becomes(q, x)
      BY <1>1 DEF PassStart, T
    <2>2. x.cur = NoEntry /\ x.pc = "retry"
      BY DEF IdlePass
    <2> HIDE DEF x
    <2> QED
      BY <2>1, <2>2, OwnMove
  <1>2. CASE RetryTake(q)
    <2>1. PICK d \in pass[q].todo :
            LET rest == [pass[q] EXCEPT !.todo = {x \in @ : x.file # d.file}] IN
            \/ Becomes(q, rest) /\ pass[q].pc = "retry"
            \/ Becomes(q, [rest EXCEPT !.pc = "tmdb", !.cur = d])
      BY <1>2 DEF RetryTake
    <2> DEFINE T == {x \in pass[q].todo : x.file # d.file}
    <2>2. T \in SUBSET Entries /\ d \in Entries
      BY <1>0 DEF PassStates
    <2> HIDE DEF T
    <2> DEFINE rest == [pass[q] EXCEPT !.todo = T]
               ask == [rest EXCEPT !.pc = "tmdb", !.cur = d]
    <2>3. (Becomes(q, rest) /\ pass[q].pc = "retry") \/ Becomes(q, ask)
      BY <2>1 DEF T
    <2>4. rest \in PassStates /\ rest.pc = pass[q].pc /\ rest.cur = pass[q].cur
      BY <1>0, <2>2 DEF PassStates
    <2> HIDE DEF rest
    <2>5. ask.pc = "tmdb" /\ ask.cur = d
      BY <2>4 DEF PassStates
    <2> HIDE DEF ask
    <2> QED
      BY <2>3, <2>4, <2>5, OwnMove
  <1>3. CASE \E m \in Movies : RetryFound(q, m)
    <2>1. PICK m \in Movies : RetryFound(q, m)
      BY <1>3
    <2> DEFINE x == [pass[q] EXCEPT !.pc = "write", !.movie = m]
               y == [pass[q] EXCEPT !.pc = "retry", !.cur = NoEntry]
    <2>2. x.pc = "write" /\ x.cur = pass[q].cur /\ y.pc = "retry" /\ y.cur = NoEntry
      BY <1>0 DEF PassStates
    <2>3. Becomes(q, x) \/ Becomes(q, y)
      BY <2>1 DEF RetryFound
    <2> HIDE DEF x, y
    <2> QED
      BY <2>2, <2>3, OwnMove
  <1>4. CASE RetryWrite(q)
    <2> DEFINE x == [pass[q] EXCEPT !.pc = "retry", !.cur = NoEntry, !.movie = NoMovie]
    <2>1. x.pc = "retry" /\ x.cur = NoEntry /\ Becomes(q, x)
      BY <1>0, <1>4 DEF RetryWrite, PassStates
    <2> HIDE DEF x
    <2> QED
      BY <2>1, OwnMove
  <1>5. CASE RetryMiss(q)
    <2> DEFINE x == [pass[q] EXCEPT !.pc = "retry", !.cur = NoEntry]
    <2>1. x.pc = "retry" /\ x.cur = NoEntry /\ Becomes(q, x)
      BY <1>0, <1>5 DEF RetryMiss, PassStates
    <2> HIDE DEF x
    <2> QED
      BY <2>1, OwnMove
  <1>6. CASE ExpireStart(q)
    <2> DEFINE T == {Entry(j) : j \in {k \in Jobs : Expired(k)}}
    <2> HIDE DEF T
    <2> DEFINE x == [pass[q] EXCEPT !.pc = "expire", !.todo = T]
    <2>1. Becomes(q, x)
      BY <1>6 DEF ExpireStart, T
    <2>2. x.cur = pass[q].cur /\ x.pc = "expire"
      BY <1>0 DEF PassStates
    <2> HIDE DEF x
    <2> QED
      BY <2>1, <2>2, OwnMove
  <1>7. CASE ExpireJob(q)
    <2>1. PICK d \in pass[q].todo :
            LET rest == [pass[q] EXCEPT !.todo = @ \ {d}] IN
            \/ Becomes(q, rest) /\ pass[q].pc = "expire"
            \/ Becomes(q, [rest EXCEPT !.pc = "count", !.cur = d])
      BY <1>7 DEF ExpireJob
    <2> DEFINE T == pass[q].todo \ {d}
    <2>2. T \in SUBSET Entries /\ d \in Entries
      BY <1>0 DEF PassStates
    <2> HIDE DEF T
    <2> DEFINE rest == [pass[q] EXCEPT !.todo = T]
               took == [rest EXCEPT !.pc = "count", !.cur = d]
    <2>3. (Becomes(q, rest) /\ pass[q].pc = "expire") \/ Becomes(q, took)
      BY <2>1 DEF T
    <2>4. rest \in PassStates /\ rest.pc = pass[q].pc /\ rest.cur = pass[q].cur
      BY <1>0, <2>2 DEF PassStates
    <2> HIDE DEF rest
    <2>5. took.pc = "count" /\ took.cur = d
      BY <2>4 DEF PassStates
    <2> HIDE DEF took
    <2> QED
      BY <2>3, <2>4, <2>5, OwnMove
  <1>8. CASE CountJobs(q)
    <2> DEFINE x == [pass[q] EXCEPT !.pc = "expire", !.cur = NoEntry]
               y == [pass[q] EXCEPT !.pc = "reread", !.cur = pass[q].cur]
    <2>1. x.pc = "expire" /\ x.cur = NoEntry /\ y.pc = "reread" /\ y.cur = pass[q].cur
      BY <1>0 DEF PassStates
    <2>a. Pinned(pass[q].cur.file) = {} \/ \E j \in JobsOf(pass[q].cur.file) : job[j].status \in Pinning
      BY DEF Pinned
    <2>b. \/ Doing(q, "expire", NoEntry)
          \/ /\ Doing(q, "reread", pass[q].cur)
             /\ ~\E j \in JobsOf(pass[q].cur.file) : job[j].status \in Pinning
      BY <1>8 DEF CountJobs
    <2>2. Becomes(q, x) \/ (Becomes(q, y) /\ Pinned(pass[q].cur.file) = {})
      BY <2>a, <2>b
    <2>3. pass[q].cur \in Entries /\ UNCHANGED job
      BY <1>8 DEF CountJobs, PassInv
    <2> HIDE DEF x, y
    <2> QED
      BY <2>1, <2>2, <2>3, OwnMove
  <1>9. CASE Reread(q)
    <2> DEFINE x == [pass[q] EXCEPT !.pc = "delete", !.cur = pass[q].cur]
               y == [pass[q] EXCEPT !.pc = "expire", !.cur = NoEntry, !.young = {}]
    <2>1. /\ x.pc = "delete" /\ x.cur = pass[q].cur /\ x.young = pass[q].young
          /\ y.pc = "expire" /\ y.cur = NoEntry
      BY <1>0 DEF PassStates
    <2>2. (Becomes(q, x) \/ Becomes(q, y)) /\ Cleaning(q)
      BY <1>9 DEF Reread, Cleaning
    <2> HIDE DEF x, y
    <2> QED
      BY <2>1, <2>2, OwnMove
  <1>10. CASE DeleteOrphan(q)
    <2> DEFINE x == [pass[q] EXCEPT !.pc = "expire", !.cur = NoEntry, !.young = {}]
    <2>1. x.pc = "expire" /\ x.cur = NoEntry /\ Becomes(q, x)
      BY <1>0, <1>10 DEF DeleteOrphan, PassStates
    <2> HIDE DEF x
    <2> QED
      BY <2>1, OwnMove
  <1>11. CASE PassEnd(q)
    <2>1. IdlePass.cur = NoEntry
      BY DEF IdlePass
    <2> QED
      BY <1>0, <1>11, <2>1, OwnMove DEF PassEnd
  <1> QED
    BY <1>1, <1>2, <1>3, <1>4, <1>5, <1>6, <1>7, <1>8, <1>9, <1>10, <1>11 DEF PassStep

\* An insert is noted by every pass that has counted.
LEMMA InsertCursors ==
  ASSUME PassInv, NEW j \in Jobs, NEW row, Insert(j, row), NEW p \in Passes
  PROVE  CursorStep(p) /\ (Cleaning(p)' => j \in pass'[p].young)
  <1>0. pass[p] \in PassStates
    BY DEF PassInv
  <1>1. CASE Cleaning(p)
    <2>1. pass'[p] = [pass[p] EXCEPT !.young = @ \cup {j}]
      BY <1>1 DEF Insert, Cleaning
    <2> QED
      BY <1>0, <1>1, <2>1 DEF CursorStep, Cleaning, PassStates
  <1>2. CASE ~Cleaning(p)
    <2>1. pass'[p] = pass[p]
      BY <1>2 DEF Insert, Cleaning
    <2> QED
      BY <1>2, <2>1 DEF CursorStep, Cleaning
  <1> QED
    BY <1>1, <1>2

\* Every step moves every pass that way.
LEMMA StepCursors == ASSUME PassInv, [Next]_vars, NEW p \in Passes PROVE CursorStep(p)
  <1>1. CASE UNCHANGED pass
    BY <1>1 DEF CursorStep, Cleaning
  <1>2. CASE \E j \in Jobs : \E row : Insert(j, row)
    BY <1>2, InsertCursors
  <1>3. CASE Crash
    BY <1>3 DEF Crash, IdlePass, CursorStep, Cleaning
  <1>4. \A r \in Requests : RequestStep(r) =>
          UNCHANGED pass \/ \E j \in Jobs : \E row : Insert(j, row)
    BY DEF RequestStep, AlreadyAvailable, ResetS3, S3Unreachable, RefuseBroken, LookUp, StoreNzb,
       StoreNzbFails, Begin, CommitFails, CreateFileFails, Commit, CreateFile
  <1>5. Catalogue => UNCHANGED pass \/ \E j \in Jobs : \E row : Insert(j, row)
    BY DEF Catalogue, PostJob, AddFile, DeleteFile, ObjectLost, DeleteMovie, DeleteJob, DownloadEnds
  <1>6. \A a \in Assigns : AssignStep(a) => UNCHANGED pass
    BY DEF AssignStep, AssignFails, AssignRead, AssignWrite, AssignOther
  <1>7. \A a \in Assigns, j \in Jobs, m \in Movies : Assign(a, j, m) => UNCHANGED pass
    BY DEF Assign, AssignOther
  <1>8. \A h \in Hashes, ok \in BOOLEAN : Purge(h, ok) => UNCHANGED pass
    BY DEF Purge
  <1>9. Clock => UNCHANGED pass
    BY DEF Clock, RetryFalls, ReviewFalls
  <1>10. UNCHANGED vars => UNCHANGED pass
    BY DEF vars
  <1>11. \A r \in Requests, u \in Users, h \in Hashes : Request(r, u, h) => UNCHANGED pass
    BY DEF Request
  <1> QED
    BY <1>1, <1>2, <1>3, <1>4, <1>5, <1>6, <1>7, <1>8, <1>9, <1>10, <1>11, PassCursors DEF Next

-----------------------------------------------------------------------------
(* Giving up                                                               *)

Hinted(j) == job[j].status = "needs_review" /\ job[j].hinted
Seen(p) == pass[p].todo \cup {pass[p].cur}

\* What a pass has noted is of a file that has been there.
SeenThere == \A p \in Passes : \A e \in Seen(p) : e # NoEntry => file[e.file].row # "absent"

\* No sibling has more attempts than the review that was promised a retry,
\* and no pass has noted more.
NoneAhead ==
  \A j \in Jobs : Hinted(j) =>
    /\ \A k \in InReview(job[j].file) : job[k].count <= job[j].count
    /\ \A p \in Passes : \A e \in Seen(p) : e.file = job[j].file => e.count <= job[j].count

GiveUpInv == FlowInv /\ SeenThere /\ NoneAhead /\ GivesUpOnlyWhenExhausted

\* Nobody is promised anything at first.
LEMMA InitGiveUp == Init => GiveUpInv
  <1> SUFFICES ASSUME Init PROVE GiveUpInv
    OBVIOUS
  <1>1. \A j \in Jobs : job[j].status = "absent"
    BY EmptyRows DEF Init
  <1>2. \A p \in Passes : Seen(p) = {NoEntry}
    BY DEF Init, Seen, IdlePass
  <1> QED
    BY <1>1, <1>2, InitFlow DEF GiveUpInv, SeenThere, NoneAhead, Hinted, GivesUpOnlyWhenExhausted

\* What a pass has noted it had noted before, or has just read.
LEMMA SeenRead ==
  ASSUME KindsInv, [Next]_vars, NEW p \in Passes, NEW e \in Seen(p)'
  PROVE  \/ e \in Seen(p) \/ e = NoEntry
         \/ UNCHANGED <<file, job>> /\ \E j \in Jobs : job[j].status = "needs_review" /\ e = Entry(j)
  <1>1. CursorStep(p)
    BY StepCursors DEF KindsInv
  <1> QED
    BY <1>1, EntriesRead DEF Seen, CursorStep

\* No note is of no file.
LEMMA NoFileNoted == NoEntry.file \notin Files
  BY ConstantsAssumption DEF NoEntry

\* Notes are of a file, or none.
LEMMA SeenKinds ==
  ASSUME PassInv, NEW p \in Passes, NEW e \in Seen(p)
  PROVE  /\ e \in Entries \/ e = NoEntry
         /\ e # NoEntry => e.file \in Files /\ e.count \in 0 .. MAX_TMDB_RETRIES
         /\ e = NoEntry => e.file \notin Files
  <1>1. pass[p] \in PassStates
    BY DEF PassInv
  <1>2. e \in Entries \/ e = NoEntry
    BY <1>1 DEF Seen, PassStates
  <1> QED
    BY <1>2, NoFileNoted DEF Entries

\* Files that were there have been there.
LEMMA SeenKept == GiveUpInv /\ [Next]_vars => SeenThere'
  <1> SUFFICES ASSUME GiveUpInv, [Next]_vars, NEW p \in Passes, NEW e \in Seen(p)', e # NoEntry
               PROVE  file'[e.file].row # "absent"
    BY DEF SeenThere
  <1>1. KindsInv /\ KindsInv' /\ Grows
    BY KindsKept, StepRows DEF GiveUpInv, FlowInv
  <1>2. CASE e \in Seen(p)
    BY <1>1, <1>2, SeenKinds DEF GiveUpInv, SeenThere, Grows, KindsInv
  <1>3. CASE /\ UNCHANGED <<file, job>>
             /\ \E j \in Jobs : job[j].status = "needs_review" /\ e = Entry(j)
    <2>1. PICK j \in Jobs : job[j].status = "needs_review" /\ e = Entry(j)
      BY <1>3
    <2>2. e.file = job[j].file
      BY <1>1, <2>1, EntryKinds DEF KindsInv
    <2>3. file[e.file].row = "present"
      BY <1>1, <2>1, <2>2 DEF KindsInv, RowInv, Live
    <2> QED
      BY <1>3, <2>3
  <1> QED
    BY <1>1, <1>2, <1>3, SeenRead

\* The count of a job is a number.
LEMMA CountKinds == ASSUME RowInv, NEW j \in Jobs PROVE job[j].count \in 0 .. MAX_TMDB_RETRIES
  BY DEF RowInv, JobStates

\* The count of the row that a pass notes.
LEMMA EntryCount == ASSUME NEW j PROVE Entry(j).count = job[j].count
  BY DEF Entry

\* If the counts stay, a note that is new is of a review that is not ahead.
LEMMA NotesNotAhead ==
  ASSUME GiveUpInv, [Next]_vars, NEW j \in Jobs, Hinted(j), Hinted(j)',
         job'[j].file = job[j].file, job[j].count <= job'[j].count,
         NEW p \in Passes, NEW e \in Seen(p)', e.file = job[j].file
  PROVE  e.count <= job'[j].count
  <1>1. KindsInv /\ KindsInv'
    BY KindsKept DEF GiveUpInv, FlowInv
  <1>2. job[j].count \in Nat /\ job'[j].count \in Nat /\ job[j].file \in Files
    BY <1>1, CountKinds, ConstantsAssumption DEF KindsInv, RowInv, JobStates, Hinted, Live
  <1>3. CASE e \in Seen(p)
    <2>1. e # NoEntry
      BY <1>1, <1>2, <1>3, SeenKinds DEF KindsInv
    <2>2. e.count \in Nat /\ e.count <= job[j].count
      BY <1>1, <1>3, <2>1, SeenKinds, ConstantsAssumption DEF KindsInv, GiveUpInv, NoneAhead
    <2> QED
      BY <1>2, <2>2
  <1>4. CASE UNCHANGED <<file, job>> /\ \E k \in Jobs : job[k].status = "needs_review" /\ e = Entry(k)
    <2>1. PICK k \in Jobs : job[k].status = "needs_review" /\ e = Entry(k)
      BY <1>4
    <2>2. e.file = job[k].file /\ e.count = job[k].count
      BY <1>1, <2>1, EntryKinds, EntryCount DEF KindsInv
    <2>3. k \in InReview(job[j].file)
      BY <2>1, <2>2 DEF InReview, JobsOf, Live
    <2>4. job[k].count <= job[j].count
      BY <2>3 DEF GiveUpInv, NoneAhead
    <2> QED
      BY <1>2, <1>4, <2>2, <2>4
  <1>5. e # NoEntry
    BY <1>2, NoFileNoted
  <1> QED
    BY <1>1, <1>3, <1>4, <1>5, SeenRead

\* Jobs that keep their counts.
LEMMA GiveUpKeeps ==
  ASSUME GiveUpInv, [Next]_vars, \A j \in Jobs : Keeps(j)
  PROVE  NoneAhead' /\ GivesUpOnlyWhenExhausted'
  <1>1. KindsInv /\ KindsInv'
    BY KindsKept DEF GiveUpInv, FlowInv
  <1>2. GivesUpOnlyWhenExhausted'
    BY DEF GivesUpOnlyWhenExhausted, Keeps, GiveUpInv
  <1>3. ASSUME NEW j \in Jobs, Hinted(j)'
        PROVE  /\ \A k \in InReview(job[j].file)' : job'[k].count <= job'[j].count
               /\ \A p \in Passes : \A e \in Seen(p)' : e.file = job'[j].file => e.count <= job'[j].count
    <2>1. Hinted(j) /\ job'[j].file = job[j].file /\ job'[j].count = job[j].count
      BY <1>3 DEF Hinted, Keeps
    <2>2. \A k \in InReview(job[j].file)' : k \in InReview(job[j].file) /\ job'[k].count = job[k].count
      BY <2>1 DEF InReview, JobsOf, Keeps, Live
    <2>3. job[j].count \in Nat
      BY <1>1, CountKinds, ConstantsAssumption DEF KindsInv
    <2> QED
      BY <1>3, <2>1, <2>2, <2>3, NotesNotAhead DEF GiveUpInv, NoneAhead
  <1> QED
    BY <1>2, <1>3 DEF NoneAhead

\* A row that is made.
LEMMA GiveUpMakes ==
  ASSUME GiveUpInv, [Next]_vars, NEW n \in Jobs, Makes(n)
  PROVE  NoneAhead' /\ GivesUpOnlyWhenExhausted'
  <1>1. KindsInv /\ KindsInv'
    BY KindsKept DEF GiveUpInv, FlowInv
  <1>2. GivesUpOnlyWhenExhausted'
    BY DEF GivesUpOnlyWhenExhausted, Makes, GiveUpInv
  <1>3. ASSUME NEW j \in Jobs, Hinted(j)', j # n
        PROVE  /\ \A k \in InReview(job[j].file)' : job'[k].count <= job'[j].count
               /\ \A p \in Passes : \A e \in Seen(p)' : e.file = job'[j].file => e.count <= job'[j].count
    <2>1. Hinted(j) /\ job'[j] = job[j]
      BY <1>3 DEF Hinted, Makes
    <2>2. job[j].count \in Nat
      BY <1>1, CountKinds, ConstantsAssumption DEF KindsInv
    <2>3. ASSUME NEW k \in InReview(job[j].file)' PROVE job'[k].count <= job'[j].count
      <3>1. CASE k = n
        BY <2>1, <2>2, <3>1 DEF Makes
      <3>2. CASE k # n
        BY <2>1, <2>3, <3>2 DEF Makes, InReview, JobsOf, GiveUpInv, NoneAhead
      <3> QED
        BY <3>1, <3>2
    <2> QED
      BY <1>3, <2>1, <2>2, <2>3, NotesNotAhead
  <1>4. ASSUME Hinted(n)'
        PROVE  /\ \A k \in InReview(job[n].file)' : job'[k].count <= job'[n].count
               /\ \A p \in Passes : \A e \in Seen(p)' : e.file # job'[n].file
    <2>1. file[job'[n].file].row = "absent" /\ job'[n].file \in Files /\ job'[n].count = 0
      BY <1>1, <1>4 DEF Hinted, Makes, KindsInv, RowInv, JobStates, Live
    <2>2. ASSUME NEW k \in InReview(job[n].file)' PROVE job'[k].count <= job'[n].count
      <3>1. k = n
        BY <1>1, <2>1, <2>2 DEF InReview, JobsOf, Makes, KindsInv, RowInv
      <3> QED
        BY <2>1, <3>1
    <2>3. ASSUME NEW p \in Passes, NEW e \in Seen(p)' PROVE e.file # job'[n].file
      <3>1. CASE e = NoEntry
        BY <2>1, <3>1, NoFileNoted
      <3>2. CASE e \in Seen(p) /\ e # NoEntry
        BY <2>1, <3>2 DEF GiveUpInv, SeenThere
      <3>3. ~UNCHANGED job
        BY <1>1, <1>4 DEF Makes, Hinted
      <3> QED
        BY <1>1, <3>1, <3>2, <3>3, SeenRead
    <2> QED
      BY <2>2, <2>3
  <1> QED
    BY <1>2, <1>3, <1>4 DEF NoneAhead

\* A look-up that failed: whoever is under the cap has one attempt more, and
\* the last one of a note that is not ahead is the last of the review.
LEMMA GiveUpMiss ==
  ASSUME GiveUpInv, [Next]_vars, NEW q \in Passes, RetryMiss(q)
  PROVE  NoneAhead' /\ GivesUpOnlyWhenExhausted'
  <1> DEFINE e == pass[q].cur
  <1>1. KindsInv /\ KindsInv'
    BY KindsKept DEF GiveUpInv, FlowInv
  <1>2. /\ e \in Entries /\ e \in Seen(q)
        /\ job' = [j \in Jobs |-> IF j \in Missed(e.file)
                     THEN [job[j] EXCEPT !.count = @ + 1,
                             !.retry = IF LastAttempt(e) THEN "none" ELSE "running"]
                     ELSE job[j]]
    BY <1>1 DEF RetryMiss, KindsInv, PassInv, Seen
  <1> HIDE DEF e
  <1>3. e.count \in Nat /\ e.file \in Files /\ MAX_TMDB_RETRIES \in Nat
    <2>1. e.count \in 0 .. MAX_TMDB_RETRIES /\ e.file \in Files
      BY <1>2 DEF Entries
    <2> QED
      BY <2>1, ConstantsAssumption
  <1>4. ASSUME NEW j \in Jobs
        PROVE  /\ job[j].count \in Nat /\ job[j].count <= MAX_TMDB_RETRIES
               /\ job'[j].status = job[j].status /\ job'[j].file = job[j].file
               /\ job'[j].hinted = job[j].hinted
               /\ j \in Missed(e.file) =>
                    /\ job[j].count < MAX_TMDB_RETRIES /\ job[j].file = e.file
                    /\ job'[j].count = job[j].count + 1
                    /\ job'[j].retry = "none" => e.count + 1 >= MAX_TMDB_RETRIES
               /\ j \notin Missed(e.file) => job'[j] = job[j]
    <2>1. job[j] \in JobStates
      BY <1>1 DEF KindsInv, RowInv
    <2>2. job[j].count \in Nat /\ job[j].count <= MAX_TMDB_RETRIES
      BY <1>3, <2>1 DEF JobStates
    <2>3. CASE j \in Missed(e.file)
      <3> DEFINE count == job[j].count + 1
                 retry == IF LastAttempt(e) THEN "none" ELSE "running"
                 row == [job[j] EXCEPT !.count = count, !.retry = retry]
      <3>1. job'[j] = row
        BY <1>2, <2>3
      <3>2. retry = "none" => e.count + 1 >= MAX_TMDB_RETRIES
        BY DEF LastAttempt
      <3>3. job[j].count < MAX_TMDB_RETRIES /\ job[j].file = e.file
        BY <2>3 DEF Missed, InReview, JobsOf
      <3> HIDE DEF retry, count
      <3>4. row.count = count /\ row.retry = retry /\ row.status = job[j].status
            /\ row.file = job[j].file /\ row.hinted = job[j].hinted
        BY <2>1 DEF JobStates
      <3> HIDE DEF row
      <3> QED
        BY <2>2, <2>3, <3>1, <3>2, <3>3, <3>4 DEF count
    <2>4. CASE j \notin Missed(e.file)
      BY <1>2, <2>2, <2>4
    <2> QED
      BY <2>3, <2>4
  <1>5. ASSUME NEW j \in Jobs, Hinted(j)
        PROVE  /\ job[j].file = e.file => e.count <= job[j].count
               /\ job[j].count <= job'[j].count
    <2>1. job[j].file = e.file => e.count <= job[j].count
      BY <1>2, <1>5 DEF GiveUpInv, NoneAhead
    <2>2. job[j].count <= job'[j].count
      BY <1>4
    <2> QED
      BY <2>1, <2>2
  <1>6. GivesUpOnlyWhenExhausted'
    <2> SUFFICES ASSUME NEW j \in Jobs, Hinted(j)', job'[j].retry = "none"
                 PROVE  job'[j].count = MAX_TMDB_RETRIES
      BY DEF GivesUpOnlyWhenExhausted, Hinted
    <2>1. Hinted(j)
      BY <1>4 DEF Hinted
    <2>2. CASE j \in Missed(e.file)
      <3>1. e.count + 1 >= MAX_TMDB_RETRIES /\ e.count <= job[j].count
            /\ job[j].count < MAX_TMDB_RETRIES /\ job'[j].count = job[j].count + 1
        BY <1>4, <1>5, <2>1, <2>2
      <3> QED
        BY <1>3, <1>4, <3>1
    <2>3. CASE j \notin Missed(e.file)
      <3>1. job'[j] = job[j]
        BY <1>4, <2>3
      <3> QED
        BY <2>1, <3>1 DEF GiveUpInv, GivesUpOnlyWhenExhausted, Hinted
    <2> QED
      BY <2>2, <2>3
  <1>7. NoneAhead'
    <2> SUFFICES ASSUME NEW j \in Jobs, Hinted(j)'
                 PROVE  /\ \A k \in InReview(job[j].file)' : job'[k].count <= job'[j].count
                        /\ \A p \in Passes : \A x \in Seen(p)' :
                             x.file = job'[j].file => x.count <= job'[j].count
      BY DEF NoneAhead
    <2>1. Hinted(j) /\ job'[j].file = job[j].file /\ job[j].count <= job'[j].count
      BY <1>4, <1>5 DEF Hinted
    <2>2. ASSUME NEW k \in InReview(job[j].file)' PROVE job'[k].count <= job'[j].count
      <3>1. k \in InReview(job[j].file) /\ job[k].count <= job[j].count
        BY <1>4, <2>1, <2>2 DEF InReview, JobsOf, GiveUpInv, NoneAhead
      <3>2. CASE j \in Missed(e.file)
        <4>1. job'[j].count = job[j].count + 1 /\ job'[k].count \in {job[k].count, job[k].count + 1}
          BY <1>4, <3>1, <3>2 DEF InReview, JobsOf
        <4> QED
          BY <1>4, <3>1, <4>1 DEF InReview, JobsOf
      <3>3. CASE j \notin Missed(e.file) /\ k \in Missed(e.file)
        <4>1. job[k].file = e.file /\ job[k].count < MAX_TMDB_RETRIES
              /\ job'[k].count = job[k].count + 1 /\ job'[j] = job[j]
          BY <1>4, <3>3 DEF Missed, InReview, JobsOf
        <4>2. job[j].file = e.file
          BY <3>1, <4>1 DEF InReview, JobsOf
        <4>3. j \in InReview(e.file)
          BY <2>1, <4>2 DEF InReview, JobsOf, Hinted, Live
        <4>4. ~(job[j].count < MAX_TMDB_RETRIES)
          BY <3>3, <4>3 DEF Missed
        <4>5. k \in Jobs
          BY <3>1 DEF InReview, JobsOf
        <4> QED
          BY <1>3, <1>4, <4>1, <4>4, <4>5
      <3>4. CASE j \notin Missed(e.file) /\ k \notin Missed(e.file)
        BY <1>4, <3>1, <3>4 DEF InReview, JobsOf
      <3> QED
        BY <3>2, <3>3, <3>4
    <2>3. ASSUME NEW p \in Passes, NEW x \in Seen(p)', x.file = job'[j].file
          PROVE  x.count <= job'[j].count
      BY <2>1, <2>3, NotesNotAhead
    <2> QED
      BY <2>2, <2>3
  <1> QED
    BY <1>6, <1>7

\* Every step keeps the promised retries.
LEMMA GiveUpKept == GiveUpInv /\ [Next]_vars => GiveUpInv'
  <1> SUFFICES ASSUME GiveUpInv, [Next]_vars PROVE GiveUpInv'
    OBVIOUS
  <1>1. FlowInv' /\ SeenThere'
    BY FlowKept, SeenKept DEF GiveUpInv
  <1>2. CountStep
    BY StepCounts DEF GiveUpInv, FlowInv
  <1>3. NoneAhead' /\ GivesUpOnlyWhenExhausted'
    BY <1>2, GiveUpKeeps, GiveUpMakes, GiveUpMiss DEF CountStep
  <1> QED
    BY <1>1, <1>3 DEF GiveUpInv

\* A review that was promised a retry loses it only when its attempts are
\* used up, however many siblings and overlapping passes count them, and
\* although the deadline follows from a row that was read before.
THEOREM RetriesAreUsed == Spec => []GivesUpOnlyWhenExhausted
  <1>1. GiveUpInv => GivesUpOnlyWhenExhausted
    BY DEF GiveUpInv
  <1> QED
    BY <1>1, InitGiveUp, GiveUpKept, PTL DEF Spec

-----------------------------------------------------------------------------
(* The cleanup                                                             *)

\* Whatever pins the file of a pass that is to delete it came after its count.
YoungSeen == \A p \in Passes : Cleaning(p) => Pinned(pass[p].cur.file) \subseteq pass[p].young

CleanupInv == FlowInv /\ YoungSeen

\* A job that pins a file pinned it before, or was inserted.
LEMMA PinsStay ==
  ASSUME KindsInv, ReqKnows, PassKnows, [Next]_vars, NEW f, NEW j \in Pinned(f)'
  PROVE  j \in Pinned(f) \/ \E row : Insert(j, row)
  <1>1. RowStep /\ CountStep
    BY StepRows, StepCounts
  <1>2. j \in Jobs /\ job'[j].status \in Pinning /\ job'[j].file = f
    BY DEF Pinned, JobsOf
  <1>3. CASE job[j].status = "absent"
    <2>1. ~Keeps(j)
      BY <1>2, <1>3 DEF Keeps, Pinning
    <2>2. ASSUME NEW p \in Passes, RetryMiss(p) PROVE FALSE
      BY <1>2, <1>3, <2>2, Misses DEF RetryMiss, KindsInv, Pinning
    <2>3. PICK k \in Jobs : Makes(k)
      BY <1>1, <1>2, <2>1, <2>2 DEF CountStep
    <2>4. k = j
      BY <1>2, <1>3, <2>3 DEF Makes, Pinning
    <2> QED
      BY <2>3, <2>4 DEF Makes
  <1>4. CASE job[j].status # "absent"
    <2>1. job[j].status \in Pinning /\ job'[j].file = job[j].file
      BY <1>1, <1>2, <1>4 DEF RowStep, OthersSame, Same, Settles, Expires1, Removes, Ends, Opens,
         Turned, Pinning
    <2> QED
      BY <1>2, <2>1 DEF Pinned, JobsOf, Pinning, Live
  <1> QED
    BY <1>3, <1>4

\* Every step keeps what a pass that is to delete has missed.
LEMMA CleanupKept == CleanupInv /\ [Next]_vars => CleanupInv'
  <1> SUFFICES ASSUME CleanupInv, [Next]_vars PROVE CleanupInv'
    OBVIOUS
  <1>1. FlowInv' /\ KindsInv /\ ReqKnows /\ PassKnows /\ PassInv
    BY FlowKept DEF CleanupInv, FlowInv, KindsInv
  <1>2. ASSUME NEW p \in Passes, Cleaning(p)', NEW j \in Pinned(pass[p].cur.file)'
        PROVE  j \in pass'[p].young
    <2>1. /\ pass'[p].cur = pass[p].cur
          /\ \/ Cleaning(p) /\ pass[p].young \subseteq pass'[p].young
             \/ Pinned(pass[p].cur.file) = {} /\ UNCHANGED job
      BY <1>1, <1>2, StepCursors DEF CursorStep
    <2>2. j \in Jobs
      BY <1>2 DEF Pinned, JobsOf
    <2>3. CASE \E row : Insert(j, row)
      BY <1>1, <1>2, <2>2, <2>3, InsertCursors
    <2>4. CASE j \in Pinned(pass[p].cur.file) /\ ~UNCHANGED job
      BY <2>1, <2>4 DEF CleanupInv, YoungSeen
    <2>5. CASE UNCHANGED job
      <3>1. Pinned(pass[p].cur.file)' = Pinned(pass[p].cur.file)
        BY <2>1, <2>5 DEF Pinned, JobsOf
      <3> QED
        BY <1>2, <2>1, <3>1 DEF CleanupInv, YoungSeen
    <2> QED
      BY <1>1, <1>2, <2>1, <2>3, <2>4, <2>5, PinsStay
  <1>3. YoungSeen'
    BY <1>2 DEF YoungSeen
  <1> QED
    BY <1>1, <1>3 DEF CleanupInv

\* A deletion takes along only what came after the count.
LEMMA DeletionSpares ==
  ASSUME CleanupInv, NEW p \in Passes, DeleteOrphan(p), NEW j \in Jobs,
         job[j].status \in {"needs_review", "queued", "completed"}, job'[j].status = "deleted"
  PROVE  j \in pass[p].young
  <1> DEFINE f == pass[p].cur.file
  <1>1. Cascade({f}) /\ f \in Files /\ Cleaning(p) /\ RowInv
    BY DEF DeleteOrphan, There, Cleaning, CleanupInv, FlowInv, KindsInv
  <1>2. job[j].file = f
    BY <1>1, Cascades
  <1>3. j \in Pinned(f)
    BY <1>2 DEF Pinned, JobsOf, Pinning, Live
  <1> QED
    BY <1>1, <1>3 DEF CleanupInv, YoungSeen

\* The cleanup of an expired review deletes no review, download or finished
\* job that was there when it counted, however the two transactions of the
\* pass interleave with requests, assignments and other passes.
THEOREM CleanupSpares == Spec => CleanupSparesWhatItSaw
  <1>1. Init => CleanupInv
    BY InitFlow, EmptyRows DEF Init, CleanupInv, YoungSeen, Cleaning
  <1>2. CleanupInv =>
          \A p \in Passes : DeleteOrphan(p) =>
            \A j \in Jobs : /\ job[j].status \in {"needs_review", "queued", "completed"}
                            /\ job'[j].status = "deleted"
                           => j \in pass[p].young
    BY DeletionSpares
  <1> QED
    BY <1>1, <1>2, CleanupKept, PTL DEF Spec, CleanupSparesWhatItSaw
===============================================================================
