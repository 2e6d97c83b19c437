---------------------- MODULE DownloadLifecycleProofs ----------------------
(***************************************************************************)
(* What DownloadJobs does to rows and counters, for every value of its     *)
(* constants: it implements JobLifecycle, ended jobs stay ended, only      *)
(* servers of ended jobs are reaped, and a failure is counted once.        *)
(***************************************************************************)
EXTENDS DownloadJobsProofs, FiniteSetTheorems

\* A PATCH in flight wants what the table allows from the status it saw, and an
\* activity that owns a job does not own one under review.
PatchesFollow ==
  \A q \in patches : q.seen # "needs_review" /\ q.want \in Accepted(q.seen)
LifeInv == TypeOK /\ ClaimsExclude /\ PatchesFollow

\* What a step other than the creation of a row may do to the statuses.
Moved == \E j \in Jobs : Lifecycle!Advance(j) \/ Lifecycle!GiveBack(j)
Together ==
  \E S \in SUBSET Jobs :
    Lifecycle!QueueAll(S) \/ Lifecycle!LoseResults(S) \/ Lifecycle!Remove(S)
Kept == UNCHANGED status \/ Moved \/ Together
Created == \E j \in Jobs : Lifecycle!Create(j)

\* What a step may do to the failure counters.
CountsOne(j) ==
  LET f == NzbFileOf[j] IN
  /\ IsActive(j) /\ status'[j] = "failed"
  /\ attempts' = [attempts EXCEPT ![f] = @ + 1]
  /\ broken' = IF attempts[f] + 1 >= BROKEN_THRESHOLD
               THEN broken \cup {f} ELSE broken
Forgets(f) ==
  attempts' = [attempts EXCEPT ![f] = 0] /\ broken' = broken \ {f}
Edits == UNCHANGED <<status, attempts>> /\ broken' \subseteq NzbFiles
Counts ==
  \/ UNCHANGED <<attempts, broken>>
  \/ Edits
  \/ \E j \in Jobs : CountsOne(j)
  \/ \E f \in NzbFiles : Forgets(f)

-----------------------------------------------------------------------------
(* The shared updates, as steps of the life cycle.                         *)

\* The transition table, row by row, is the one of the abstract specification.
LEMMA TableOf ==
  ASSUME NEW st \in Statuses
  PROVE  /\ STATUS_TRANSITIONS[st] =
              CASE st = "needs_review" -> {"queued", "expired"}
                [] st = "queued" -> {"provisioning", "failed"}
                [] st = "provisioning" -> {"downloading", "failed"}
                [] st = "downloading" -> {"uploading", "failed"}
                [] st = "uploading" -> {"completed", "failed"}
                [] st \in {"completed", "failed", "expired"} -> {}
         /\ Lifecycle!STATUS_TRANSITIONS[st] = STATUS_TRANSITIONS[st]
  BY DEF Statuses, STATUS_TRANSITIONS, Lifecycle!STATUS_TRANSITIONS

\* A write the table allows.
LEMMA AdvanceKept ==
  ASSUME NEW j \in Jobs, status[j] \in Statuses,
         NEW st \in STATUS_TRANSITIONS[status[j]], SetStatus(j, st)
  PROVE  Kept
  <1>1. Lifecycle!Exists(status[j])
    BY DEF Lifecycle!Exists, Lifecycle!Statuses, Statuses
  <1>2. st \in Lifecycle!STATUS_TRANSITIONS[status[j]]
    BY TableOf
  <1>3. Lifecycle!Advance(j)
    BY <1>1, <1>2 DEF Lifecycle!Advance, Lifecycle!Becomes, SetStatus
  <1> QED
    BY <1>3 DEF Kept, Moved

\* Rows that get one status together.
LEMMA AllBecomeKept ==
  ASSUME NEW S \in SUBSET Jobs,
         \/ (\A j \in S : status[j] = "needs_review") /\ Lifecycle!AllBecome(S, "queued")
         \/ (\A j \in S : status[j] = "completed") /\ Lifecycle!AllBecome(S, "failed")
  PROVE  Kept
  BY DEF Kept, Together, Lifecycle!QueueAll, Lifecycle!LoseResults

\* A write of the status a row has.
LEMMA SameKept ==
  ASSUME TypeOK, NEW j \in Jobs, SetStatus(j, status[j])
  PROVE  UNCHANGED status
  BY DEF TypeOK, RowsOK, SetStatus

\* Any row may fail that is not under review.
LEMMA FailKept ==
  ASSUME TypeOK, NEW j \in Jobs, Exists(status[j]), SetStatus(j, "failed"),
         status[j] \notin {"needs_review", "expired"}
  PROVE  Kept
  <1>1. status[j] \in Statuses
    BY DEF Exists
  <1>2. CASE status[j] \in ActiveStatuses
    <2>1. "failed" \in STATUS_TRANSITIONS[status[j]]
      BY <1>1, <1>2, TableOf DEF ActiveStatuses
    <2> QED
      BY <1>1, <2>1, AdvanceKept
  <1>3. CASE status[j] = "completed"
    <2>1. Lifecycle!AllBecome({j}, "failed")
      BY DEF Lifecycle!AllBecome, SetStatus, TypeOK, RowsOK
    <2> QED
      BY <1>3, <2>1, AllBecomeKept
  <1>4. CASE status[j] = "failed"
    BY <1>4, SameKept DEF Kept
  <1> QED
    BY <1>1, <1>2, <1>3, <1>4 DEF Statuses, ActiveStatuses

\* markJobFailed fails an active row once and counts it, or does nothing.
LEMMA MarkJobFailedKept ==
  ASSUME LifeInv, NEW j \in Jobs, NEW st \in ActiveStatuses, MarkJobFailed(j, st)
  PROVE  Kept /\ Counts
  <1>1. CASE MarkedFrom(j, st)
    <2>1. SetStatus(j, "failed") /\ status[j] = st
      BY <1>1 DEF MarkJobFailed, MarkedFrom, Unchanged
    <2>2. IsActive(j) /\ Exists(status[j])
      BY <2>1 DEF IsActive, Exists, Statuses, ActiveStatuses
    <2>3. status'[j] = "failed"
      BY <2>1 DEF LifeInv, TypeOK, RowsOK, SetStatus
    <2>4. CountsOne(j)
      BY <1>1, <2>2, <2>3 DEF MarkJobFailed, CountsOne
    <2> QED
      BY <2>1, <2>2, <2>4, FailKept DEF Counts, LifeInv, ActiveStatuses
  <1>2. CASE ~MarkedFrom(j, st)
    BY <1>2 DEF MarkJobFailed, Kept, Counts
  <1> QED
    BY <1>1, <1>2

\* Rows leave the table.
LEMMA RemoveRowsKept ==
  ASSUME NEW S \in SUBSET {j \in Jobs : Exists(status[j])}, RemoveRows(S)
  PROVE  Kept
  BY DEF RemoveRows, Kept, Together, Lifecycle!Remove, Lifecycle!AllBecome,
     Exists, Lifecycle!Exists, Statuses, Lifecycle!Statuses

\* A step that touches no status and no counter.
LEMMA UnchangedKept ==
  ASSUME UNCHANGED <<status, attempts, broken>>
  PROVE  Kept /\ Counts
  BY DEF Kept, Counts

-----------------------------------------------------------------------------
(* Every action is such a step.                                            *)

\* The steps of a provisioner, drain, manual provision or cleanup.
LEMMA ActivityKept ==
  ASSUME LifeInv, NEW a \in Activities, ActivityStep(a) \/ ActivityFault(a)
  PROVE  Kept /\ Counts
  <1> DEFINE j == act[a].job
  <1>0. TypeOK
    BY DEF LifeInv
  <1> USE <1>0, UnchangedKept DEF rowVars, vpsVars
  <1>1. CASE ReadJob(a) \/ Gate(a)
    BY <1>1 DEF ReadJob, Gate
  <1>2. CASE Claim(a)
    <2>1. j \in Jobs
      BY <1>2, JobOf DEF Claim, Pcs
    <2>2. CASE Claimable(j)
      <3>1. status[j] = "queued" /\ SetStatus(j, "provisioning")
        BY <1>2, <2>2 DEF Claim, Claimable, Unchanged
      <3>2. "provisioning" \in STATUS_TRANSITIONS[status[j]]
        BY <3>1, TableOf DEF Statuses
      <3>3. Kept
        BY <2>1, <3>1, <3>2, AdvanceKept DEF Statuses
      <3> QED
        BY <1>2, <3>3 DEF Claim, Counts
    <2>3. CASE ~Claimable(j)
      BY <1>2, <2>3 DEF Claim
    <2> QED
      BY <2>2, <2>3
  <1>3. CASE \/ StoreToken(a) \/ RecordServer(a) \/ RecordServerFails(a)
             \/ CreateServerFails(a) \/ \E s \in Servers : CreateServer(a, s)
    BY <1>3 DEF StoreToken, RecordServer, RecordServerFails, CreateServerFails,
                CreateServer
  <1>4. CASE Abort(a) \/ StoreTokenFails(a)
    <2>1. j \in Jobs
      BY <1>4, JobOf DEF Abort, StoreTokenFails, Pcs
    <2>2. CASE MarkJobFailed(j, "provisioning")
      BY <2>1, <2>2, MarkJobFailedKept DEF ActiveStatuses
    <2>3. CASE Abort(a) /\ Exists(status[j]) /\ SetStatus(j, "failed")
               /\ UNCHANGED <<attempts, broken>>
      <3>1. ~Unclaimed(j)
        BY <2>3 DEF Abort, At, Owns, LifeInv, ClaimsExclude
      <3> QED
        BY <2>1, <2>3, <3>1, FailKept DEF Counts, Unclaimed, UnclaimedStatuses
    <2> QED
      BY <1>4, <2>2, <2>3 DEF Abort, StoreTokenFails
  <1>5. CASE CleanupDelete(a) \/ CleanupFails(a) \/ CleanupClear(a)
    BY <1>5 DEF CleanupDelete, CleanupFails, CleanupClear
  <1>6. CASE DrainGate(a) \/ DrainFind(a)
    BY <1>6 DEF DrainGate, DrainFind
  <1>7. CASE DrainGrab(a)
    <2>1. j \in Jobs
      BY <1>7, JobOf DEF DrainGrab, Pcs
    <2>2. CASE Waiting(j)
      <3>1. status[j] = "queued" /\ SetStatus(j, "provisioning")
        BY <1>7, <2>2 DEF DrainGrab, Waiting
      <3>2. "provisioning" \in STATUS_TRANSITIONS[status[j]]
        BY <3>1, TableOf DEF Statuses
      <3>3. Kept
        BY <2>1, <3>1, <3>2, AdvanceKept DEF Statuses
      <3> QED
        BY <1>7, <3>3 DEF DrainGrab, Counts
    <2>3. CASE ~Waiting(j)
      BY <1>7, <2>3 DEF DrainGrab
    <2> QED
      BY <2>2, <2>3
  <1>8. CASE ReadJobFails(a)
    <2>1. j \in Jobs
      BY <1>8, JobOf DEF ReadJobFails, Pcs
    <2>2. CASE status[j] = "provisioning" /\ SetStatus(j, "queued")
      <3>1. Lifecycle!GiveBack(j)
        BY <2>2 DEF Lifecycle!GiveBack, Lifecycle!Becomes, SetStatus
      <3> QED
        BY <1>8, <2>1, <3>1 DEF Kept, Moved, Counts, ReadJobFails
    <2> QED
      BY <1>8, <2>2 DEF ReadJobFails
  <1> QED
    BY <1>1, <1>2, <1>3, <1>4, <1>5, <1>6, <1>7, <1>8
       DEF ActivityStep, ActivityFault

\* The handlers of users and servers, and the world outside.
LEMMA OtherKept ==
  ASSUME LifeInv,
         \/ \E a \in Activities, j \in Jobs : ManualProvision(a, j) \/ Cleanup(a, j)
         \/ \E j \in Jobs : DeleteJob(j) \/ PatchRead(j) \/ LinkFindsFileGone(j)
         \/ \E f \in NzbFiles : DeleteNzbFile(f)
         \/ \E q \in patches : PatchWrite(q)
         \/ \E j \in Jobs : ExpireReview(j)
         \/ \E f \in NzbFiles : Flip(f) \/ LibraryEmptied(f) \/ SetFileStatus(f)
         \/ \E s \in Servers : ServerStops(s) \/ ServerVanishes(s)
         \/ \E j \in Jobs : RowAges(j) \/ SnapshotAges(j)
         \/ Crash
  PROVE  Kept /\ Counts
  <1> USE UnchangedKept DEF rowVars, vpsVars
  <1>1. ASSUME NEW a \in Activities, NEW j \in Jobs,
               ManualProvision(a, j) \/ Cleanup(a, j)
        PROVE  Kept /\ Counts
    BY <1>1 DEF ManualProvision, Cleanup
  <1>2. ASSUME NEW j \in Jobs, DeleteJob(j)
        PROVE  Kept /\ Counts
    <2>1. {j} \in SUBSET {k \in Jobs : Exists(status[k])}
      BY <1>2 DEF DeleteJob
    <2> QED
      BY <1>2, <2>1, RemoveRowsKept DEF DeleteJob, Counts
  <1>3. ASSUME NEW f \in NzbFiles, DeleteNzbFile(f)
        PROVE  Kept /\ Counts
    <2>1. {j \in JobsOf(f) : Exists(status[j])}
            \in SUBSET {j \in Jobs : Exists(status[j])}
      BY DEF JobsOf
    <2>2. Forgets(f)
      BY <1>3 DEF DeleteNzbFile, Forgets
    <2> QED
      BY <1>3, <2>1, <2>2, RemoveRowsKept DEF DeleteNzbFile, Counts
  <1>4. ASSUME NEW j \in Jobs, PatchRead(j)
        PROVE  Kept /\ Counts
    BY <1>4 DEF PatchRead
  <1>5. ASSUME NEW j \in Jobs, LinkFindsFileGone(j)
        PROVE  Kept /\ Counts
    BY <1>5, FailKept DEF LinkFindsFileGone, Counts, Exists, Statuses, LifeInv
  <1>6. ASSUME NEW q \in patches, PatchWrite(q)
        PROVE  Kept /\ Counts
    <2>1. q.job \in Jobs /\ q.seen \in Statuses /\ q.want \in Accepted(q.seen)
      BY DEF LifeInv, TypeOK, PatchesFollow, Requests
    <2>2. CASE ~PatchMatches(q)
      BY <1>6, <2>2 DEF PatchWrite
    <2>3. CASE PatchMatches(q)
      <3>1. status[q.job] = q.seen
        BY <2>3 DEF PatchMatches, Unchanged
      <3>2. CASE q.want = "failed" /\ q.seen # "failed"
        <4>1. MarkJobFailed(q.job, q.seen)
          BY <1>6, <2>3, <3>2 DEF PatchWrite
        <4>2. q.seen \in ActiveStatuses
          BY <2>1, <3>2, TableOf DEF Accepted, ActiveStatuses, Statuses
        <4> QED
          BY <2>1, <4>1, <4>2, MarkJobFailedKept
      <3>3. CASE ~(q.want = "failed" /\ q.seen # "failed")
        <4>1. SetStatus(q.job, q.want) /\ UNCHANGED <<attempts, broken>>
          BY <1>6, <2>3, <3>3 DEF PatchWrite
        <4>2. CASE q.want = q.seen
          BY <2>1, <3>1, <4>1, <4>2, SameKept DEF LifeInv
        <4>3. CASE q.want \in STATUS_TRANSITIONS[q.seen]
          BY <2>1, <3>1, <4>1, <4>3, AdvanceKept DEF Counts
        <4> QED
          BY <2>1, <4>2, <4>3 DEF Accepted
      <3> QED
        BY <3>2, <3>3
    <2> QED
      BY <2>2, <2>3
  <1>7. ASSUME NEW s \in Servers, ServerStops(s) \/ ServerVanishes(s)
        PROVE  Kept /\ Counts
    BY <1>7 DEF ServerStops, ServerVanishes
  <1>8. ASSUME NEW j \in Jobs, RowAges(j) \/ SnapshotAges(j)
        PROVE  Kept /\ Counts
    BY <1>8 DEF RowAges, SnapshotAges
  <1>9. ASSUME Crash
        PROVE  Kept /\ Counts
    BY <1>9 DEF Crash
  <1>10. ASSUME NEW j \in Jobs, ExpireReview(j)
         PROVE  Kept /\ Counts
    <2>1. status[j] \in Statuses /\ "expired" \in STATUS_TRANSITIONS[status[j]]
      BY <1>10, TableOf DEF ExpireReview, Statuses
    <2> QED
      BY <1>10, <2>1, AdvanceKept DEF ExpireReview, Counts
  <1>11. ASSUME NEW f \in NzbFiles, Flip(f)
         PROVE  Kept /\ Counts
    <2>1. PICK S \in SUBSET Reviews(f) :
            status' = [j \in Jobs |-> IF j \in S THEN "queued" ELSE status[j]]
      BY <1>11 DEF Flip, QueueReviews
    <2>2. S \in SUBSET Jobs /\ \A j \in S : status[j] = "needs_review"
      BY DEF Reviews, JobsOf
    <2>3. Kept
      BY <2>1, <2>2, AllBecomeKept DEF Lifecycle!AllBecome
    <2> QED
      BY <1>11, <2>3 DEF Flip, QueueReviews, Counts
  <1>12. ASSUME NEW f \in NzbFiles, LibraryEmptied(f)
         PROVE  Kept /\ Counts
    <2> DEFINE S == {j \in JobsOf(f) : status[j] = "completed"}
    <2>1. status' = [j \in Jobs |-> IF j \in S THEN "failed" ELSE status[j]]
      BY <1>12 DEF LibraryEmptied
    <2>2. S \in SUBSET Jobs /\ \A j \in S : status[j] = "completed"
      BY DEF JobsOf
    <2>3. Lifecycle!AllBecome(S, "failed")
      BY <2>1 DEF Lifecycle!AllBecome
    <2> HIDE DEF S
    <2>4. Kept
      BY <2>2, <2>3, AllBecomeKept
    <2> QED
      BY <1>12, <2>4 DEF LibraryEmptied, Counts
  <1>13. ASSUME NEW f \in NzbFiles, SetFileStatus(f)
         PROVE  Kept /\ Counts
    BY <1>13 DEF SetFileStatus, Kept, Counts, Edits, LifeInv, TypeOK, RowsOK
  <1> QED
    BY <1>1, <1>2, <1>3, <1>4, <1>5, <1>6, <1>7, <1>8, <1>9, <1>10, <1>11, <1>12,
       <1>13

\* The steps of a pass of the reconciler.
LEMMA ReconcileKept ==
  ASSUME LifeInv, NEW r \in Reconcilers,
         ReconcileStep(r) \/ ReconcileReap(r) \/ ReconcileFault(r)
  PROVE  Kept /\ Counts
  <1> USE UnchangedKept DEF rowVars, vpsVars
  <1>1. ASSUME NEW t \in rec[r].todo, NEW answers \in BOOLEAN,
               ReconcileJob(r, t, answers)
        PROVE  Kept /\ Counts
    <2>1. t.job \in Jobs /\ t.status \in ActiveStatuses
      BY DEF LifeInv, TypeOK, PassesOK, Passes, Snapshots
    <2> QED
      BY <1>1, <2>1, MarkJobFailedKept DEF ReconcileJob
  <1>2. ASSUME NEW s \in rec[r].list, ReconcileProbe(r, s)
        PROVE  Kept /\ Counts
    BY <1>2 DEF ReconcileProbe
  <1>3. CASE \/ ReconcileStart(r) \/ ReconcileList(r) \/ ReconcileEnd(r)
             \/ ReconcileReap(r) \/ ReconcileFault(r)
    BY <1>3 DEF ReconcileStart, ReconcileList, ReconcileEnd, ReconcileReap,
                ReconcileFault, ReconcileListFails, ReconcileReapFails
  <1> QED
    BY <1>1, <1>2, <1>3 DEF ReconcileStep

\* What the creation of a row does.
LEMMA CreatedKept ==
  ASSUME LifeInv, NEW j \in Jobs,
         RequestReview(j) \/ \E a \in Activities : CreateJob(a, j)
  PROVE  Created /\ Counts
  <1>1. CASE RequestReview(j)
    <2>1. Lifecycle!Create(j)
      BY <1>1 DEF RequestReview, SetStatus, Lifecycle!Create, Lifecycle!Becomes
    <2> QED
      BY <1>1, <2>1 DEF Created, Counts, RequestReview
  <1>2. ASSUME NEW a \in Activities, CreateJob(a, j) PROVE Created /\ Counts
    <2>1. Lifecycle!Create(j)
      BY <1>2 DEF CreateJob, SetStatus, Lifecycle!Create, Lifecycle!Becomes
    <2> QED
      BY <1>2, <2>1 DEF Created, Counts, CreateJob
  <1> QED
    BY <1>1, <1>2

\* A step creates a row or keeps to the life cycle, and counts one failure at
\* the most.
LEMMA NextKept ==
  ASSUME LifeInv, [Next]_vars
  PROVE  Counts /\ (Kept \/ Created)
  <1>1. CASE UNCHANGED vars
    BY <1>1, UnchangedKept DEF vars, rowVars
  <1> QED
    BY <1>1, CreatedKept, ActivityKept, OtherKept, ReconcileKept DEF Next, Request

-----------------------------------------------------------------------------
(* The life cycle.                                                         *)

\* A row that is kept ends, or goes on, or comes out of its review, but does not
\* begin again.
Onward(j) ==
  /\ IsActive(j)' => IsActive(j) \/ status[j] = "needs_review"
  /\ status[j] = "completed" => status'[j] \in {"completed", "failed", "deleted"}
  /\ status[j] = "failed" => status'[j] \in {"failed", "deleted"}
  /\ status[j] = "deleted" => status'[j] = "deleted"

LEMMA KeptRows ==
  ASSUME LifeInv, Kept, NEW j \in Jobs
  PROVE  Onward(j)
  <1>0. status \in [Jobs -> RowStatuses]
    BY DEF LifeInv, TypeOK, RowsOK
  <1>1. CASE UNCHANGED status
    BY <1>0, <1>1 DEF Onward, IsActive
  <1>2. ASSUME NEW k \in Jobs, Lifecycle!Advance(k)
        PROVE  Onward(j)
    <2>1. PICK st \in Lifecycle!STATUS_TRANSITIONS[status[k]] :
            status' = [status EXCEPT ![k] = st]
      BY <1>2 DEF Lifecycle!Advance, Lifecycle!Becomes
    <2>2. status[k] \in Statuses
      BY <1>2 DEF Lifecycle!Advance, Lifecycle!Exists, Lifecycle!Statuses, Statuses
    <2>3. status[k] \in ActiveStatuses \cup {"needs_review"}
      BY <2>1, <2>2, TableOf DEF Statuses, ActiveStatuses
    <2>4. CASE j = k
      BY <1>0, <2>1, <2>3, <2>4 DEF Onward, IsActive, ActiveStatuses
    <2>5. CASE j # k
      BY <1>0, <2>1, <2>5 DEF Onward, IsActive
    <2> QED
      BY <2>4, <2>5
  <1>3. ASSUME NEW k \in Jobs, Lifecycle!GiveBack(k)
        PROVE  Onward(j)
    <2>1. CASE j = k
      BY <1>0, <1>3, <2>1 DEF Lifecycle!GiveBack, Lifecycle!Becomes, Onward,
         IsActive, ActiveStatuses
    <2>2. CASE j # k
      BY <1>0, <1>3, <2>2 DEF Lifecycle!GiveBack, Lifecycle!Becomes, Onward, IsActive
    <2> QED
      BY <2>1, <2>2
  <1>4. ASSUME NEW S \in SUBSET Jobs,
               \/ Lifecycle!QueueAll(S) \/ Lifecycle!LoseResults(S)
               \/ Lifecycle!Remove(S)
        PROVE  Onward(j)
    BY <1>0, <1>4 DEF Lifecycle!QueueAll, Lifecycle!LoseResults, Lifecycle!Remove,
       Lifecycle!AllBecome, Onward, IsActive, ActiveStatuses
  <1> QED
    BY <1>1, <1>2, <1>3, <1>4 DEF Kept, Moved, Together

\* A row that is created was absent, and the others stay as they are.
LEMMA CreatedRows ==
  ASSUME LifeInv, Created, NEW j \in Jobs, status[j] # "absent"
  PROVE  status'[j] = status[j]
  BY DEF LifeInv, TypeOK, RowsOK, Created, Lifecycle!Create, Lifecycle!Becomes

\* LifeInv is inductive.
LEMMA LifeInvKept ==
  ASSUME LifeInv, TypeOK', ClaimsExclude', [Next]_vars
  PROVE  LifeInv'
  <1>2. CASE \E j \in Jobs : PatchRead(j)
    <2>1. PICK j \in Jobs : PatchRead(j)
      BY <1>2
    <2> QED
      BY <2>1 DEF PatchRead, PatchesFollow, LifeInv
  <1>3. CASE patches' \subseteq patches
    BY <1>3 DEF PatchesFollow, LifeInv
  <1>4. ASSUME NEW r \in Reconcilers,
               ReconcileStep(r) \/ ReconcileReap(r) \/ ReconcileFault(r)
        PROVE  patches' \subseteq patches
    BY <1>4 DEF ReconcileStep, ReconcileStart, ReconcileJob, ReconcileList,
         ReconcileProbe, ReconcileReap, ReconcileEnd, ReconcileFault,
         ReconcileListFails, ReconcileReapFails
  <1>5. ASSUME NEW a \in Activities, ActivityStep(a) \/ ActivityFault(a)
        PROVE  patches' \subseteq patches
    BY <1>5 DEF ActivityStep, ActivityFault, ReadJob, Gate, Claim, StoreToken,
         CreateServer, Abort, RecordServer, CleanupDelete, CleanupClear,
         DrainGate, DrainFind, DrainGrab, ReadJobFails, StoreTokenFails,
         CreateServerFails, RecordServerFails, CleanupFails
  <1>6. ASSUME NEW a \in Activities, NEW j \in Jobs, Request(a, j)
        PROVE  patches' \subseteq patches
    BY <1>6 DEF Request, CreateJob, ManualProvision, Cleanup
  <1>7. CASE \/ \E j \in Jobs : DeleteJob(j) \/ LinkFindsFileGone(j)
             \/ \E f \in NzbFiles : DeleteNzbFile(f)
             \/ \E q \in patches : PatchWrite(q)
             \/ \E j \in Jobs : RequestReview(j) \/ ExpireReview(j)
             \/ \E f \in NzbFiles : Flip(f) \/ LibraryEmptied(f) \/ SetFileStatus(f)
             \/ \E s \in Servers : ServerStops(s) \/ ServerVanishes(s)
             \/ \E j \in Jobs : RowAges(j) \/ SnapshotAges(j)
             \/ Crash \/ UNCHANGED vars
    BY <1>7, <1>3 DEF DeleteJob, LinkFindsFileGone, DeleteNzbFile, PatchWrite,
         RequestReview, ExpireReview, Flip, QueueReviews, LibraryEmptied,
         SetFileStatus, ServerStops, ServerVanishes, RowAges, SnapshotAges, Crash,
         vars, memVars
  <1> QED
    BY <1>2, <1>3, <1>4, <1>5, <1>6, <1>7 DEF Next

\* LifeInv in every reachable state.
LEMMA LifeInvHolds == Spec => []LifeInv
  <1>1. Init => LifeInv
    BY InitTypeOK DEF Init, LifeInv, PatchesFollow, ClaimsExclude, Owns, Early,
       DrainClaim, Used, Idle
  <1>2. LifeInv /\ TypeOK' /\ ClaimsExclude' /\ [Next]_vars => LifeInv'
    BY LifeInvKept
  <1> QED
    BY <1>1, <1>2, TypeCorrect, ClaimsKeepApart, PTL DEF Spec

\* The rows of the detailed model move only as the life cycle of JobLifecycle
\* allows: every step of every handler, drain, pass and crash is one of its
\* steps or leaves all statuses alone.
THEOREM RefinesLifecycle == Spec => ImplementsLifecycle
  <1>1. Init => Lifecycle!Init
    BY DEF Init, Lifecycle!Init
  <1>2. LifeInv /\ [Next]_vars => [Lifecycle!Next]_status
    <2> SUFFICES ASSUME LifeInv, [Next]_vars
                 PROVE  Lifecycle!Next \/ UNCHANGED status
      OBVIOUS
    <2>1. Kept => Lifecycle!Next \/ UNCHANGED status
      BY DEF Kept, Moved, Together, Lifecycle!Next
    <2>2. Created => Lifecycle!Next
      BY DEF Created, Lifecycle!Next
    <2> QED
      BY <2>1, <2>2, NextKept
  <1> QED
    BY <1>1, <1>2, LifeInvHolds, PTL DEF Spec, ImplementsLifecycle, Lifecycle!Spec

\* A completed job never runs again and a failed one never succeeds, whatever
\* late PATCH, claim, cleanup or pass comes after it.
THEOREM EndedForGood == Spec => TerminalStaysTerminal
  <1>1. LifeInv /\ [Next]_vars =>
          [\A j \in Jobs :
             /\ status[j] = "completed" => status'[j] \in {"completed", "failed", "deleted"}
             /\ status[j] = "failed" => status'[j] \in {"failed", "deleted"}
             /\ status[j] = "deleted" => status'[j] = "deleted"]_status
    <2> SUFFICES ASSUME LifeInv, [Next]_vars, NEW j \in Jobs
                 PROVE
                   /\ status[j] = "completed" => status'[j] \in {"completed", "failed", "deleted"}
                   /\ status[j] = "failed" => status'[j] \in {"failed", "deleted"}
                   /\ status[j] = "deleted" => status'[j] = "deleted"
      OBVIOUS
    <2>1. CASE Kept
      BY <2>1, KeptRows DEF Onward
    <2>2. CASE Created
      BY <2>2, CreatedRows
    <2> QED
      BY <2>1, <2>2, NextKept
  <1> QED
    BY <1>1, LifeInvHolds, PTL DEF Spec, TerminalStaysTerminal

-----------------------------------------------------------------------------
(* Failures are counted once.                                              *)

\* Rows that ended stay ended; a step that counts ends one that had not.
LEMMA EndedGrow ==
  ASSUME LifeInv, [Next]_vars, NEW f \in NzbFiles
  PROVE  /\ EndedJobsOf(f) \subseteq EndedJobsOf(f)'
         /\ Cardinality(EndedJobsOf(f)) \in Nat
         /\ Cardinality(EndedJobsOf(f)') \in Nat
         /\ Cardinality(EndedJobsOf(f)) <= Cardinality(EndedJobsOf(f)')
         /\ \A j \in JobsOf(f) :
              IsActive(j) /\ status'[j] = "failed"
                => Cardinality(EndedJobsOf(f)) + 1 <= Cardinality(EndedJobsOf(f)')
  <1> DEFINE E == EndedJobsOf(f)
             F == EndedJobsOf(f)'
  <1>1. IsFiniteSet(Jobs)
    BY ConstantsAssumption, FS_Interval DEF Jobs
  <1>2. E \in SUBSET Jobs /\ F \in SUBSET Jobs
    BY DEF EndedJobsOf, JobsOf
  <1>3. IsFiniteSet(E) /\ IsFiniteSet(F)
    BY <1>1, <1>2, FS_Subset
  <1>4. Cardinality(E) \in Nat /\ Cardinality(F) \in Nat
    BY <1>3, FS_CardinalityType
  <1>5. E \subseteq F
    <2>1. CASE Kept
      <3>1. \A j \in Jobs : status[j] \in {"failed", "deleted"} =>
                            status'[j] \in {"failed", "deleted"}
        BY <2>1, KeptRows DEF Onward
      <3> QED
        BY <3>1 DEF EndedJobsOf, JobsOf
    <2>2. CASE Created
      <3>1. \A k \in Jobs : status[k] \in {"failed", "deleted"} => status'[k] = status[k]
        BY <2>2, CreatedRows
      <3> QED
        BY <3>1 DEF EndedJobsOf, JobsOf
    <2> QED
      BY <2>1, <2>2, NextKept
  <1>6. Cardinality(E) <= Cardinality(F)
    BY <1>3, <1>5, FS_Subset
  <1>7. ASSUME NEW j \in JobsOf(f), IsActive(j), status'[j] = "failed"
        PROVE  Cardinality(E) + 1 <= Cardinality(F)
    <2>1. j \notin E /\ j \in F
      BY <1>7 DEF EndedJobsOf, JobsOf, IsActive, ActiveStatuses
    <2>2. E \cup {j} \in SUBSET F
      BY <1>5, <2>1
    <2>3. Cardinality(E \cup {j}) = Cardinality(E) + 1
      BY <1>3, <2>1, FS_AddElement
    <2> QED
      BY <1>3, <2>2, <2>3, FS_Subset
  <1> QED
    BY <1>4, <1>5, <1>6, <1>7

\* A counter grows only with a row that ends, in every step.
LEMMA CountedKept ==
  ASSUME FailureCountedOnce, LifeInv, [Next]_vars
  PROVE  FailureCountedOnce'
  <1>0. /\ attempts \in [NzbFiles -> Nat]
        /\ \A j \in Jobs : NzbFileOf[j] \in NzbFiles /\ j \in JobsOf(NzbFileOf[j])
    BY ConstantsAssumption DEF LifeInv, TypeOK, RowsOK, JobsOf
  <1>1. CASE UNCHANGED attempts
    BY <1>0, <1>1, EndedGrow DEF FailureCountedOnce
  <1>2. ASSUME NEW g \in NzbFiles, Forgets(g)
        PROVE  FailureCountedOnce'
    BY <1>0, <1>2, EndedGrow DEF FailureCountedOnce, Forgets
  <1>3. ASSUME NEW j \in Jobs, CountsOne(j)
        PROVE  FailureCountedOnce'
    <2> DEFINE g == NzbFileOf[j]
    <2>1. attempts[g] + 1 <= Cardinality(EndedJobsOf(g)')
      <3>1. attempts[g] <= Cardinality(EndedJobsOf(g))
        BY <1>0 DEF FailureCountedOnce
      <3>2. Cardinality(EndedJobsOf(g)) + 1 <= Cardinality(EndedJobsOf(g)')
        BY <1>0, <1>3, EndedGrow DEF CountsOne
      <3>3. /\ Cardinality(EndedJobsOf(g)) \in Nat
            /\ Cardinality(EndedJobsOf(g)') \in Nat
        BY <1>0, EndedGrow
      <3> QED
        BY <1>0, <3>1, <3>2, <3>3
    <2>2. attempts' = [attempts EXCEPT ![g] = attempts[g] + 1]
      BY <1>3 DEF CountsOne
    <2>3. ASSUME NEW f \in NzbFiles
          PROVE  attempts'[f] <= Cardinality(EndedJobsOf(f)')
      <3>1. CASE f = g
        BY <1>0, <2>1, <2>2, <3>1
      <3>2. CASE f # g
        BY <1>0, <2>2, <3>2, EndedGrow DEF FailureCountedOnce
      <3> QED
        BY <3>1, <3>2
    <2> QED
      BY <2>3 DEF FailureCountedOnce
  <1> QED
    BY <1>1, <1>2, <1>3, NextKept DEF Counts, Edits

\* A file's failedAttempts never exceeds the number of its jobs that failed or
\* are gone.
THEOREM CountedOnce == Spec => []FailureCountedOnce
  <1>1. Init => FailureCountedOnce
    <2> SUFFICES ASSUME Init PROVE FailureCountedOnce
      OBVIOUS
    <2>1. ASSUME NEW f \in NzbFiles
          PROVE  EndedJobsOf(f) = {} /\ attempts[f] = 0
      BY DEF Init, EndedJobsOf, JobsOf
    <2> QED
      BY <2>1, FS_EmptySet DEF FailureCountedOnce
  <1>2. FailureCountedOnce /\ LifeInv /\ [Next]_vars => FailureCountedOnce'
    BY CountedKept
  <1> QED
    BY <1>1, <1>2, LifeInvHolds, PTL DEF Spec

\* A file that breaks when a failure is counted has at least BROKEN_THRESHOLD
\* jobs that ended that way; only an administrator may call it broken without.
THEOREM BrokenOnEvidence == Spec => BrokenIsEarned
  <1>1. FailureCountedOnce /\ FailureCountedOnce' /\ LifeInv /\ [Next]_vars =>
          [\A f \in broken' \ broken :
             attempts' # attempts => Cardinality(EndedJobsOf(f)') >= BROKEN_THRESHOLD]_vars
    <2> SUFFICES ASSUME FailureCountedOnce', LifeInv, [Next]_vars,
                        NEW f \in broken' \ broken, attempts' # attempts
                 PROVE  Cardinality(EndedJobsOf(f)') >= BROKEN_THRESHOLD
      OBVIOUS
    <2>0. /\ attempts \in [NzbFiles -> Nat] /\ BROKEN_THRESHOLD \in Nat
          /\ \A j \in Jobs : NzbFileOf[j] \in NzbFiles
      BY ConstantsAssumption DEF LifeInv, TypeOK, RowsOK
    <2>1. PICK j \in Jobs : CountsOne(j)
      BY NextKept DEF Counts, Edits, Forgets
    <2>2. f = NzbFileOf[j] /\ attempts[f] + 1 >= BROKEN_THRESHOLD
      BY <2>1 DEF CountsOne
    <2>3. f \in NzbFiles /\ attempts'[f] = attempts[f] + 1
      BY <2>0, <2>1, <2>2 DEF CountsOne
    <2>4. attempts'[f] <= Cardinality(EndedJobsOf(f)')
      BY <2>3 DEF FailureCountedOnce
    <2>5. Cardinality(EndedJobsOf(f)') \in Nat
      BY <2>3, EndedGrow
    <2> QED
      BY <2>0, <2>2, <2>3, <2>4, <2>5
  <1> QED
    BY <1>1, CountedOnce, LifeInvHolds, PTL DEF Spec, BrokenIsEarned

-----------------------------------------------------------------------------
(* Only servers of ended jobs are reaped.                                  *)

\* No step changes the label of a server or brings one back.
LEMMA StepServersKept ==
  ASSUME TypeOK, [Next]_vars
  PROVE  ServersKept
  <1> USE UnchangedKnown DEF rowVars, memVars
  <1>1. ASSUME NEW a \in Activities, NEW s \in Servers, CreateServer(a, s)
        PROVE  ServersKept
    BY <1>1, NewServerKept DEF CreateServer
  <1>2. ASSUME NEW a \in Activities, CreateServerFails(a)
        PROVE  ServersKept
    BY <1>2, NewServerKept DEF CreateServerFails
  <1>3. ASSUME NEW a \in Activities, CleanupDelete(a)
        PROVE  ServersKept
    BY <1>3, StopKept, UnchangedKnown DEF CleanupDelete
  <1>4. ASSUME NEW r \in Reconcilers, ReconcileReap(r)
        PROVE  ServersKept
    BY <1>4, StopKept DEF ReconcileReap
  <1>5. ASSUME NEW s \in Servers, ServerStops(s) \/ ServerVanishes(s)
        PROVE  ServersKept
    BY <1>5, StopKept DEF ServerStops, ServerVanishes
  <1>6. ASSUME NEW a \in Activities,
               \/ ReadJob(a) \/ Gate(a) \/ Claim(a) \/ StoreToken(a) \/ Abort(a)
               \/ RecordServer(a) \/ CleanupClear(a) \/ DrainGate(a)
               \/ DrainFind(a) \/ DrainGrab(a) \/ ReadJobFails(a)
               \/ StoreTokenFails(a) \/ RecordServerFails(a) \/ CleanupFails(a)
        PROVE  ServersKept
    BY <1>6 DEF ReadJob, Gate, Claim, StoreToken, Abort, RecordServer,
       CleanupClear, DrainGate, DrainFind, DrainGrab, ReadJobFails,
       StoreTokenFails, RecordServerFails, CleanupFails
  <1>7. ASSUME NEW a \in Activities, NEW j \in Jobs, Request(a, j)
        PROVE  ServersKept
    BY <1>7 DEF Request, CreateJob, ManualProvision, Cleanup
  <1>8. ASSUME NEW r \in Reconcilers, ReconcileStep(r) \/ ReconcileFault(r)
        PROVE  ServersKept
    BY <1>8 DEF ReconcileStep, ReconcileStart, ReconcileJob, ReconcileList,
       ReconcileProbe, ReconcileEnd, ReconcileFault, ReconcileListFails,
       ReconcileReapFails
  <1>9. CASE \/ \E j \in Jobs : DeleteJob(j) \/ PatchRead(j) \/ LinkFindsFileGone(j)
             \/ \E f \in NzbFiles : DeleteNzbFile(f)
             \/ \E q \in patches : PatchWrite(q)
             \/ \E j \in Jobs : RequestReview(j) \/ ExpireReview(j)
             \/ \E f \in NzbFiles : Flip(f) \/ LibraryEmptied(f) \/ SetFileStatus(f)
             \/ \E j \in Jobs : RowAges(j) \/ SnapshotAges(j)
             \/ Crash \/ UNCHANGED vars
    BY <1>9 DEF DeleteJob, PatchRead, LinkFindsFileGone, DeleteNzbFile,
       PatchWrite, RequestReview, ExpireReview, Flip, QueueReviews, LibraryEmptied,
       SetFileStatus, RowAges, SnapshotAges, Crash, vars
  <1> QED
    BY <1>1, <1>2, <1>3, <1>4, <1>5, <1>6, <1>7, <1>8, <1>9
       DEF Next, ActivityStep, ActivityFault

\* A pass that is about to delete a server was so before, or has just read
\* that the server's job ended.
LEMMA StepVictim ==
  ASSUME TypeOK, [Next]_vars, NEW p \in Reconcilers, rec'[p].pc = "reap"
  PROVE  \/ rec[p].pc = "reap" /\ rec'[p].victim = rec[p].victim
         \/ \E s \in rec[p].list : /\ JobEnded(label[s]) /\ rec'[p].victim = s
                                   /\ UNCHANGED <<status, label>>
  <1> DEFINE Same == rec[p].pc = "reap" /\ rec'[p].victim = rec[p].victim
             Probed == \E s \in rec[p].list : /\ JobEnded(label[s])
                                              /\ rec'[p].victim = s
                                              /\ UNCHANGED <<status, label>>
  <1>0. /\ rec \in [Reconcilers -> Passes]
        /\ \A r \in Reconcilers : DOMAIN rec[r] = {"pc", "todo", "ids", "list", "victim"}
    BY DEF TypeOK, PassesOK, Passes
  <1>1. CASE UNCHANGED rec
    BY <1>1
  <1>2. ASSUME NEW r \in Reconcilers,
               ReconcileStart(r) \/ ReconcileList(r) \/ ReconcileEnd(r)
        PROVE  Same
    <2>1. CASE r = p /\ ReconcileStart(r)
      <3>1. rec'[p].pc = "jobs"
        BY <1>0, <2>1 DEF ReconcileStart, Passes
      <3> QED
        BY <3>1
    <2>2. CASE r = p /\ (ReconcileList(r) \/ ReconcileEnd(r))
      <3> DEFINE scan == [NoPass EXCEPT !.pc = "scan",
                                        !.list = {s \in Servers : Alive(s)}]
      <3>1. scan.pc = "scan" /\ NoPass.pc = "idle"
        BY DEF NoPass
      <3>2. rec'[p] = scan \/ rec'[p] = NoPass
        BY <1>0, <2>2 DEF ReconcileList, ReconcileEnd
      <3> QED
        BY <3>1, <3>2
    <2>3. CASE r # p
      <3>1. rec'[p] = rec[p]
        BY <1>0, <1>2, <2>3 DEF ReconcileStart, ReconcileList, ReconcileEnd
      <3> QED
        BY <3>1
    <2> QED
      BY <1>2, <2>1, <2>2, <2>3
  <1>3. ASSUME NEW r \in Reconcilers, ReconcileReap(r) \/ ReconcileFault(r)
        PROVE  Same
    BY <1>0, <1>3 DEF ReconcileReap, ReconcileFault, ReconcileListFails,
       ReconcileReapFails, NoPass, Passes
  <1>4. ASSUME NEW r \in Reconcilers, NEW t \in rec[r].todo,
               NEW answers \in BOOLEAN, ReconcileJob(r, t, answers)
        PROVE  Same
    BY <1>0, <1>4 DEF ReconcileJob, Passes
  <1>5. ASSUME NEW r \in Reconcilers, NEW s \in rec[r].list, ReconcileProbe(r, s)
        PROVE  Same \/ Probed
    <2>1. CASE r = p /\ JobEnded(label[s])
      BY <1>0, <1>5, <2>1 DEF ReconcileProbe, rowVars, vpsVars, Passes
    <2>2. CASE r # p \/ ~JobEnded(label[s])
      BY <1>0, <1>5, <2>2 DEF ReconcileProbe, Passes
    <2> QED
      BY <2>1, <2>2
  <1>6. CASE Crash
    BY <1>6 DEF Crash, NoPass
  <1>7. ASSUME NEW a \in Activities, ActivityStep(a) \/ ActivityFault(a)
        PROVE  UNCHANGED rec
    BY <1>7 DEF ActivityStep, ActivityFault, ReadJob, Gate, Claim, StoreToken,
         CreateServer, Abort, RecordServer, CleanupDelete, CleanupClear,
         DrainGate, DrainFind, DrainGrab, ReadJobFails, StoreTokenFails,
         CreateServerFails, RecordServerFails, CleanupFails
  <1>8. ASSUME NEW a \in Activities, NEW j \in Jobs, Request(a, j)
        PROVE  UNCHANGED rec
    BY <1>8 DEF Request, CreateJob, ManualProvision, Cleanup
  <1>9. CASE \/ \E j \in Jobs : DeleteJob(j) \/ PatchRead(j) \/ LinkFindsFileGone(j)
             \/ \E f \in NzbFiles : DeleteNzbFile(f)
             \/ \E q \in patches : PatchWrite(q)
             \/ \E j \in Jobs : RequestReview(j) \/ ExpireReview(j)
             \/ \E f \in NzbFiles : Flip(f) \/ LibraryEmptied(f) \/ SetFileStatus(f)
             \/ \E s \in Servers : ServerStops(s) \/ ServerVanishes(s)
             \/ \E j \in Jobs : RowAges(j) \/ SnapshotAges(j)
             \/ UNCHANGED vars
    BY <1>1, <1>9 DEF DeleteJob, PatchRead, LinkFindsFileGone, DeleteNzbFile,
         PatchWrite, RequestReview, ExpireReview, Flip, QueueReviews,
         LibraryEmptied, SetFileStatus, ServerStops, ServerVanishes, RowAges,
         SnapshotAges, vars, memVars
  <1> QED
    BY <1>1, <1>2, <1>3, <1>4, <1>5, <1>6, <1>7, <1>8, <1>9 DEF Next, ReconcileStep

\* The victim of a pass is a server, and its job has ended.
VictimEnded ==
  \A r \in Reconcilers :
    rec[r].pc = "reap" => /\ rec[r].victim \in Servers
                          /\ ~IsActive(label[rec[r].victim])

\* The job of a server that is to be reaped stays ended or deleted.
LEMMA VictimEndedKept ==
  ASSUME VictimEnded, OneServer, LifeInv, [Next]_vars
  PROVE  VictimEnded'
  <1> SUFFICES ASSUME NEW p \in Reconcilers, NEW v, v = rec'[p].victim,
                      rec'[p].pc = "reap"
               PROVE  v \in Servers /\ status'[label'[v]] \notin ActiveStatuses
    BY DEF VictimEnded, IsActive
  <1>0. TypeOK /\ KnownServers /\ ClaimsExclude
    BY DEF OneServer
  <1>1. CASE rec[p].pc = "reap" /\ v = rec[p].victim
    <2>1. v \in Servers /\ ~IsActive(label[v]) /\ Used(v)
      BY <1>0, <1>1 DEF VictimEnded, KnownServers
    <2>2. /\ label[v] \in Jobs /\ status[label[v]] \notin {"absent", "needs_review"}
          /\ label'[v] = label[v]
      BY <1>0, <2>1, StepServersKept
         DEF ClaimsExclude, Unclaimed, UnclaimedStatuses, ServersKept
    <2>3. CASE Kept
      <3>1. IsActive(label[v]) \/ status'[label[v]] \notin ActiveStatuses
        BY <2>2, <2>3, KeptRows DEF IsActive, Onward
      <3> QED
        BY <2>1, <2>2, <3>1
    <2>4. CASE Created
      BY <2>1, <2>2, <2>4, CreatedRows DEF IsActive
    <2> QED
      BY <2>1, <2>3, <2>4, NextKept
  <1>2. ASSUME NEW s \in rec[p].list, JobEnded(label[s]), v = s,
               UNCHANGED <<status, label>>
        PROVE  v \in Servers /\ status'[label'[v]] \notin ActiveStatuses
    <2>1. s \in Servers
      BY <1>0 DEF TypeOK, PassesOK, Passes
    <2>2. status[label[s]] \notin ActiveStatuses
      BY <1>2 DEF JobEnded, Exists, Statuses, ActiveStatuses
    <2> QED
      BY <1>2, <2>1, <2>2
  <1> QED
    BY <1>0, <1>1, <1>2, StepVictim

\* The server a pass is about to delete serves no active job, although the
\* pass read the job's status one await earlier.
THEOREM ZombiesOnly == Spec => []VictimIsZombie
  <1>1. Init => VictimEnded
    BY DEF Init, VictimEnded, NoPass
  <1>2. /\ TypeOK /\ KnownServers /\ ClaimsExclude /\ AtMostOneServerPerJob
        /\ VictimEnded /\ LifeInv /\ [Next]_vars
        => VictimEnded'
    <2> SUFFICES ASSUME OneServer, VictimEnded, LifeInv, [Next]_vars
                 PROVE  VictimEnded'
      BY DEF OneServer
    <2> QED
      BY VictimEndedKept
  <1>3. VictimEnded => VictimIsZombie
    BY DEF VictimEnded, VictimIsZombie
  <1> QED
    BY <1>1, <1>2, <1>3, LifeInvHolds, TypeCorrect, ServersAreKnown,
       OneServerPerJob, PTL DEF Spec

=============================================================================
