------------------------- MODULE DownloadJobsProofs -------------------------
(***************************************************************************)
(* Theorems about DownloadJobs, for every value of its constants.          *)
(***************************************************************************)
EXTENDS DownloadJobs, TLAPS

-----------------------------------------------------------------------------
(* What the shared updates preserve.                                       *)

\* An activity that moves on keeps its job.
LEMMA GotoOK ==
  ASSUME ActOK, NEW a \in Activities, act[a].pc # "idle",
         NEW pc \in Pcs, Goto(a, pc)
  PROVE  ActOK'
  BY DEF ActOK, InFlight, Goto

\* An activity whose server was created keeps its job.
LEMMA GainServerOK ==
  ASSUME NEW x \in InFlight, NEW s \in Servers
  PROVE  LET next == [x EXCEPT !.pc = "record", !.srv = s]
         IN  next \in InFlight /\ next.job = x.job
  BY DEF InFlight, Pcs

\* An activity that ends is idle.
LEMMA DoneOK ==
  ASSUME ActOK, NEW a \in Activities, Done(a)
  PROVE  ActOK'
  BY DEF ActOK, InFlight, Done, Idle, Pcs, Vias

\* An activity that starts has a job.
LEMMA StartOK ==
  ASSUME ActOK, NEW a \in Activities, NEW pc \in Pcs, NEW via \in Vias,
         NEW j \in Jobs, NEW s \in Servers \cup {None}, Start(a, pc, via, j, s)
  PROVE  ActOK'
  BY DEF ActOK, InFlight, Start

\* A write of a status leaves the rows well typed, if it writes nothing else.
LEMMA SetStatusOK ==
  ASSUME RowsOK, NEW j \in Jobs, NEW st \in Statuses, SetStatus(j, st)
  PROVE  status' \in [Jobs -> RowStatuses] /\ age' \in [Jobs -> Ages]
  BY ConstantsAssumption DEF RowsOK, SetStatus, Touch, RowStatuses, Ages

\* So does markJobFailed.
LEMMA MarkJobFailedOK ==
  ASSUME RowsOK, NEW j \in Jobs, NEW st, MarkJobFailed(j, st)
  PROVE  /\ status' \in [Jobs -> RowStatuses] /\ age' \in [Jobs -> Ages]
         /\ attempts' \in [NzbFiles -> Nat] /\ broken' \subseteq NzbFiles
  <1>1. CASE MarkedFrom(j, st)
    <2>1. SetStatus(j, "failed")
      BY <1>1 DEF MarkJobFailed
    <2>2. "failed" \in Statuses /\ NzbFileOf[j] \in NzbFiles
      BY ConstantsAssumption DEF Statuses
    <2>3. attempts' \in [NzbFiles -> Nat] /\ broken' \subseteq NzbFiles
      BY <1>1, <2>2 DEF MarkJobFailed, RowsOK
    <2> QED
      BY <2>1, <2>2, <2>3, SetStatusOK
  <1>2. CASE ~MarkedFrom(j, st)
    BY <1>2 DEF MarkJobFailed, RowsOK
  <1> QED
    BY <1>1, <1>2

-----------------------------------------------------------------------------
(* Type correctness.                                                       *)

\* The initial states are well typed.
LEMMA InitTypeOK == Init => TypeOK
  BY ConstantsAssumption DEF Init, TypeOK, RowsOK, VpsOK, ActOK, PassesOK,
     InFlight, Passes, RowStatuses, Ages, Idle, NoPass, Pcs, Vias

\* The job of an activity in flight is a job.
LEMMA JobOf ==
  ASSUME TypeOK, NEW a \in Activities, NEW pc \in Pcs \ {"idle"}, At(a, pc)
  PROVE  /\ act[a].job \in Jobs /\ act[a].pc # "idle"
         /\ act[a].srv \in Servers \cup {None}
  BY DEF TypeOK, ActOK, InFlight, At

\* The steps an activity takes by itself.
LEMMA ActivityTypeOK ==
  ASSUME TypeOK, NEW a \in Activities, ActivityStep(a)
  PROVE  TypeOK'
  <1> DEFINE j == act[a].job
  <1> USE DEF TypeOK, VpsOK, PassesOK, RowsOK, rowVars, vpsVars, Pcs
  <1>1. CASE ReadJob(a)
    BY <1>1, JobOf, GotoOK, DoneOK DEF ReadJob
  <1>2. CASE Gate(a)
    BY <1>2, JobOf, GotoOK, DoneOK DEF Gate
  <1>3. CASE Claim(a)
    <2>1. j \in Jobs /\ act[a].pc # "idle"
      BY <1>3, JobOf DEF Claim
    <2>2. ActOK'
      BY <1>3, <2>1, GotoOK, DoneOK DEF Claim
    <2>3. status' \in [Jobs -> RowStatuses] /\ age' \in [Jobs -> Ages]
      BY <1>3, <2>1, SetStatusOK DEF Claim, Statuses
    <2> QED
      BY <1>3, <2>2, <2>3 DEF Claim
  <1>4. CASE StoreToken(a)
    BY <1>4, JobOf, GotoOK DEF StoreToken
  <1>5. CASE \E s \in Servers : CreateServer(a, s)
    <2>1. PICK s \in Servers : CreateServer(a, s)
      BY <1>5
    <2>2. j \in Jobs
      BY <2>1, JobOf DEF CreateServer
    <2>3. ActOK'
      <3> DEFINE next == [act[a] EXCEPT !.pc = "record", !.srv = s]
      <3>1. act' = [act EXCEPT ![a] = next]
        BY <2>1 DEF CreateServer, ActOK
      <3>2. next \in InFlight /\ next.job = j
        BY GainServerOK DEF ActOK
      <3> QED
        BY <2>2, <3>1, <3>2 DEF ActOK
    <2> QED
      BY <2>1, <2>2, <2>3 DEF CreateServer, NewServer
  <1>6. CASE Abort(a)
    <2>1. j \in Jobs /\ act[a].pc # "idle"
      BY <1>6, JobOf DEF Abort
    <2>2. ActOK'
      BY <1>6, <2>1, DoneOK DEF Abort
    <2>3. /\ status' \in [Jobs -> RowStatuses] /\ age' \in [Jobs -> Ages]
          /\ attempts' \in [NzbFiles -> Nat] /\ broken' \subseteq NzbFiles
      BY <1>6, <2>1, SetStatusOK, MarkJobFailedOK DEF Abort, Statuses
    <2> QED
      BY <1>6, <2>2, <2>3 DEF Abort
  <1>7. CASE RecordServer(a)
    <2>1. j \in Jobs /\ act[a].srv \in Servers \cup {None} /\ act[a].pc # "idle"
      BY <1>7, JobOf DEF RecordServer
    <2>2. ActOK'
      BY <1>7, <2>1, DoneOK DEF RecordServer
    <2> QED
      BY <1>7, <2>1, <2>2, ConstantsAssumption DEF RecordServer, Touch, Ages
  <1>8. CASE CleanupDelete(a)
    BY <1>8, JobOf, GotoOK DEF CleanupDelete
  <1>9. CASE CleanupClear(a)
    <2>1. j \in Jobs /\ act[a].pc # "idle"
      BY <1>9, JobOf DEF CleanupClear
    <2>2. ActOK'
      BY <1>9, <2>1, GotoOK, DoneOK DEF CleanupClear
    <2> QED
      BY <1>9, <2>1, <2>2, ConstantsAssumption DEF CleanupClear, Touch, Ages
  <1>10. CASE DrainGate(a)
    BY <1>10, JobOf, GotoOK, DoneOK DEF DrainGate
  <1>11. CASE DrainFind(a)
    <2> DEFINE grab(k) == [Idle EXCEPT !.pc = "grab", !.via = "drain", !.job = k]
    <2>1. ASSUME NEW k \in Jobs
          PROVE  grab(k) \in InFlight /\ grab(k).job = k
      BY DEF InFlight, Idle, Vias
    <2>2. CASE Done(a)
      BY <1>11, <2>2, DoneOK DEF DrainFind
    <2>3. CASE \E k \in Jobs : act' = [act EXCEPT ![a] = grab(k)]
      <3>1. ActOK'
        BY <2>1, <2>3 DEF ActOK
      <3> QED
        BY <1>11, <3>1 DEF DrainFind
    <2> QED
      BY <1>11, <2>2, <2>3 DEF DrainFind
  <1>12. CASE DrainGrab(a)
    <2>1. j \in Jobs /\ act[a].pc # "idle"
      BY <1>12, JobOf DEF DrainGrab
    <2>2. ActOK'
      BY <1>12, <2>1, GotoOK, DoneOK DEF DrainGrab
    <2>3. status' \in [Jobs -> RowStatuses] /\ age' \in [Jobs -> Ages]
      BY <1>12, <2>1, SetStatusOK DEF DrainGrab, Statuses
    <2> QED
      BY <1>12, <2>2, <2>3 DEF DrainGrab
  <1> QED
    BY <1>1, <1>2, <1>3, <1>4, <1>5, <1>6, <1>7, <1>8, <1>9, <1>10, <1>11,
       <1>12 DEF ActivityStep

\* The calls that fail under an activity.
LEMMA ActivityFaultTypeOK ==
  ASSUME TypeOK, NEW a \in Activities, ActivityFault(a)
  PROVE  TypeOK'
  <1> DEFINE j == act[a].job
  <1> USE DEF TypeOK, VpsOK, PassesOK, RowsOK, rowVars, vpsVars, Pcs
  <1>1. CASE ReadJobFails(a)
    <2>1. j \in Jobs /\ act[a].pc # "idle"
      BY <1>1, JobOf DEF ReadJobFails
    <2>2. ActOK'
      BY <1>1, <2>1, DoneOK DEF ReadJobFails
    <2>3. status' \in [Jobs -> RowStatuses] /\ age' \in [Jobs -> Ages]
      BY <1>1, <2>1, SetStatusOK DEF ReadJobFails, Statuses
    <2> QED
      BY <1>1, <2>2, <2>3 DEF ReadJobFails
  <1>2. CASE StoreTokenFails(a)
    <2>1. j \in Jobs /\ act[a].pc # "idle"
      BY <1>2, JobOf DEF StoreTokenFails
    <2>2. ActOK'
      BY <1>2, <2>1, DoneOK DEF StoreTokenFails
    <2>3. /\ status' \in [Jobs -> RowStatuses] /\ age' \in [Jobs -> Ages]
          /\ attempts' \in [NzbFiles -> Nat] /\ broken' \subseteq NzbFiles
      BY <1>2, <2>1, MarkJobFailedOK DEF StoreTokenFails
    <2> QED
      BY <1>2, <2>2, <2>3 DEF StoreTokenFails
  <1>3. CASE CreateServerFails(a)
    <2>1. j \in Jobs /\ act[a].pc # "idle"
      BY <1>3, JobOf DEF CreateServerFails
    <2>2. ActOK'
      BY <1>3, <2>1, GotoOK DEF CreateServerFails
    <2>3. VpsOK'
      BY <1>3, <2>1 DEF CreateServerFails, NewServer
    <2> QED
      BY <1>3, <2>1, <2>2, <2>3 DEF CreateServerFails
  <1>4. CASE CleanupFails(a)
    BY <1>4, JobOf, DoneOK DEF CleanupFails
  <1>5. CASE RecordServerFails(a)
    BY <1>5, JobOf, DoneOK, GotoOK DEF RecordServerFails
  <1> QED
    BY <1>1, <1>2, <1>3, <1>4, <1>5 DEF ActivityFault

\* The requests that start an activity.
LEMMA RequestTypeOK ==
  ASSUME TypeOK, NEW a \in Activities, NEW j \in Jobs, Request(a, j)
  PROVE  TypeOK'
  <1> USE DEF TypeOK, VpsOK, PassesOK, RowsOK, rowVars, vpsVars, Pcs, Vias
  <1>1. CASE CreateJob(a, j)
    <2>1. ActOK'
      BY <1>1, StartOK DEF CreateJob
    <2>2. status' \in [Jobs -> RowStatuses] /\ age' \in [Jobs -> Ages]
      BY <1>1, SetStatusOK DEF CreateJob, Statuses
    <2> QED
      BY <1>1, <2>1, <2>2 DEF CreateJob
  <1>2. CASE ManualProvision(a, j)
    BY <1>2, StartOK DEF ManualProvision
  <1>3. CASE Cleanup(a, j)
    BY <1>3, StartOK DEF Cleanup
  <1> QED
    BY <1>1, <1>2, <1>3 DEF Request

\* Rows that leave the table are well typed.
LEMMA RemoveRowsOK ==
  ASSUME RowsOK, NEW S, RemoveRows(S)
  PROVE  /\ status' \in [Jobs -> RowStatuses] /\ age' \in [Jobs -> Ages]
         /\ serverId' \in [Jobs -> Servers \cup {None}]
         /\ progress' \in [Jobs -> 0 .. MaxProgress]
  BY ConstantsAssumption DEF RowsOK, RemoveRows, RowStatuses, Ages

\* Rows that get one status together stay well typed.
LEMMA SetAllOK ==
  ASSUME RowsOK, NEW S, NEW st \in Statuses,
         status' = [j \in Jobs |-> IF j \in S THEN st ELSE status[j]],
         age' = [j \in Jobs |-> IF j \in S THEN 0 ELSE age[j]]
  PROVE  status' \in [Jobs -> RowStatuses] /\ age' \in [Jobs -> Ages]
  BY ConstantsAssumption DEF RowsOK, RowStatuses, Ages

\* Reviews, and what happens to a file.
LEMMA ReviewTypeOK ==
  ASSUME TypeOK,
         \/ \E j \in Jobs : RequestReview(j) \/ ExpireReview(j)
         \/ \E f \in NzbFiles : Flip(f) \/ LibraryEmptied(f) \/ SetFileStatus(f)
  PROVE  TypeOK'
  <1> USE DEF TypeOK, VpsOK, PassesOK, RowsOK, rowVars, vpsVars, memVars
  <1>1. ASSUME NEW j \in Jobs, RequestReview(j) \/ ExpireReview(j) PROVE TypeOK'
    BY <1>1, SetStatusOK DEF RequestReview, ExpireReview, Statuses, ActOK
  <1>2. ASSUME NEW f \in NzbFiles, Flip(f) PROVE TypeOK'
    <2>1. PICK S \in SUBSET Reviews(f) :
            \E A \in SUBSET Activities : \E who \in [A -> S] : QueueReviews(f, S, who)
      BY <1>2 DEF Flip
    <2>2. PICK A \in SUBSET Activities : \E who \in [A -> S] : QueueReviews(f, S, who)
      BY <2>1
    <2>3. PICK who \in [A -> S] : QueueReviews(f, S, who)
      BY <2>2
    <2>4. \A a \in A : who[a] \in Jobs
      BY <2>3 DEF Reviews, JobsOf
    <2>5. \A a \in A : /\ [Idle EXCEPT !.pc = "read", !.job = who[a]] \in InFlight
                       /\ [Idle EXCEPT !.pc = "read", !.job = who[a]].job = who[a]
      BY <2>4 DEF Idle, InFlight, Pcs, Vias
    <2>6. ActOK'
      BY <2>3, <2>4, <2>5 DEF QueueReviews, ActOK
    <2>7. status' \in [Jobs -> RowStatuses] /\ age' \in [Jobs -> Ages]
      BY <2>3, SetAllOK DEF QueueReviews, Statuses
    <2> QED
      BY <2>3, <2>6, <2>7 DEF QueueReviews
  <1>3. ASSUME NEW f \in NzbFiles, LibraryEmptied(f) PROVE TypeOK'
    <2>1. status' \in [Jobs -> RowStatuses] /\ age' \in [Jobs -> Ages]
      BY <1>3, SetAllOK DEF LibraryEmptied, Statuses
    <2> QED
      BY <1>3, <2>1 DEF LibraryEmptied, ActOK
  <1>4. ASSUME NEW f \in NzbFiles, SetFileStatus(f) PROVE TypeOK'
    BY <1>4 DEF SetFileStatus, ActOK
  <1> QED
    BY <1>1, <1>2, <1>3, <1>4

\* The deletions, PATCH and the link.
LEMMA RowStepTypeOK ==
  ASSUME TypeOK,
         \/ \E j \in Jobs : DeleteJob(j) \/ PatchRead(j) \/ LinkFindsFileGone(j)
         \/ \E f \in NzbFiles : DeleteNzbFile(f)
         \/ \E q \in patches : PatchWrite(q)
  PROVE  TypeOK'
  <1> USE DEF TypeOK, VpsOK, ActOK, PassesOK, RowsOK, rowVars, vpsVars, memVars
  <1>1. ASSUME NEW j \in Jobs, DeleteJob(j) PROVE TypeOK'
    BY <1>1, RemoveRowsOK DEF DeleteJob
  <1>2. ASSUME NEW j \in Jobs, PatchRead(j) PROVE TypeOK'
    <2>1. PICK want \in Accepted(status[j]), s \in PatchServers \cup {None} :
            \E p \in ProgressAfter(j, want) :
              patches' = patches \cup {[job |-> j, seen |-> status[j], want |-> want,
                                        progress |-> p, srv |-> s]}
      BY <1>2 DEF PatchRead
    <2>2. status[j] \in Statuses
      BY <1>2 DEF PatchRead, Exists
    <2>3. want \in Statuses
      BY <2>1, <2>2 DEF Accepted, STATUS_TRANSITIONS, Statuses
    <2>4. ProgressAfter(j, want) \subseteq 0 .. MaxProgress
      BY ConstantsAssumption DEF ProgressAfter
    <2>5. patches' \subseteq Requests
      BY <2>1, <2>2, <2>3, <2>4 DEF Requests
    <2> QED
      BY <1>2, <2>5 DEF PatchRead
  <1>3. ASSUME NEW j \in Jobs, LinkFindsFileGone(j) PROVE TypeOK'
    BY <1>3, SetStatusOK DEF LinkFindsFileGone, Statuses
  <1>4. ASSUME NEW f \in NzbFiles, DeleteNzbFile(f) PROVE TypeOK'
    BY <1>4, RemoveRowsOK DEF DeleteNzbFile
  <1>5. ASSUME NEW q \in patches, PatchWrite(q) PROVE TypeOK'
    <2>1. /\ q.job \in Jobs /\ q.want \in Statuses
          /\ q.progress \in 0 .. MaxProgress /\ q.srv \in Servers \cup {None}
      BY ConstantsAssumption DEF Requests
    <2>2. /\ status' \in [Jobs -> RowStatuses] /\ age' \in [Jobs -> Ages]
          /\ attempts' \in [NzbFiles -> Nat] /\ broken' \subseteq NzbFiles
      BY <1>5, <2>1, SetStatusOK, MarkJobFailedOK DEF PatchWrite
    <2>3. serverId' \in [Jobs -> Servers \cup {None}]
      BY <1>5, <2>1 DEF PatchWrite
    <2> QED
      BY <1>5, <2>1, <2>2, <2>3 DEF PatchWrite
  <1> QED
    BY <1>1, <1>2, <1>3, <1>4, <1>5

\* The passes of the reconciler.
LEMMA ReconcileTypeOK ==
  ASSUME TypeOK, NEW r \in Reconcilers,
         ReconcileStep(r) \/ ReconcileReap(r) \/ ReconcileFault(r)
  PROVE  TypeOK'
  <1> DEFINE Marks == [progress: 0 .. MaxProgress, aged: BOOLEAN] \cup {None}
  <1> USE DEF TypeOK, VpsOK, ActOK, PassesOK, RowsOK, rowVars, vpsVars
  <1>1. NoPass \in Passes
    BY DEF NoPass, Passes
  <1>2. CASE ReconcileStart(r)
    <2> DEFINE active == {j \in Jobs : IsActive(j)}
               todo == {[job |-> j, status |-> status[j], srv |-> serverId[j],
                         age |-> age[j], progress |-> progress[j]] : j \in active}
    <2>1. todo \subseteq Snapshots
      BY DEF Snapshots, IsActive
    <2>2. rec' \in [Reconcilers -> Passes]
      <3> DEFINE next == [rec[r] EXCEPT !.pc = "jobs", !.ids = active, !.todo = todo]
      <3>1. next \in Passes
        BY <2>1 DEF Passes
      <3>2. rec' = [rec EXCEPT ![r] = next]
        BY <1>2 DEF ReconcileStart
      <3> QED
        BY <3>1, <3>2
    <2> QED
      BY <1>2, <2>2 DEF ReconcileStart
  <1>3. CASE \E t \in rec[r].todo, answers \in BOOLEAN : ReconcileJob(r, t, answers)
    <2>1. PICK t \in rec[r].todo, answers \in BOOLEAN : ReconcileJob(r, t, answers)
      BY <1>3
    <2>2. /\ t \in Snapshots /\ t.job \in Jobs /\ t.progress \in 0 .. MaxProgress
      BY DEF Passes, Snapshots
    <2>3. /\ status' \in [Jobs -> RowStatuses] /\ age' \in [Jobs -> Ages]
          /\ attempts' \in [NzbFiles -> Nat] /\ broken' \subseteq NzbFiles
      BY <2>1, <2>2, MarkJobFailedOK DEF ReconcileJob
    <2>4. Snapped(t, answers) \in Marks
      BY <2>2 DEF Snapped
    <2>5. snap' \in [Jobs -> Marks]
      BY <2>1, <2>2, <2>4 DEF ReconcileJob
    <2>6. rec' \in [Reconcilers -> Passes]
      <3> DEFINE next == [rec[r] EXCEPT !.todo = @ \ {t}]
      <3>1. next \in Passes
        BY DEF Passes
      <3>2. rec' = [rec EXCEPT ![r] = next]
        BY <2>1 DEF ReconcileJob
      <3> QED
        BY <3>1, <3>2
    <2> QED
      BY <2>1, <2>3, <2>5, <2>6 DEF ReconcileJob
  <1>4. CASE ReconcileList(r)
    <2>1. rec' \in [Reconcilers -> Passes]
      BY <1>4 DEF ReconcileList, Passes, NoPass
    <2>2. snap' \in [Jobs -> Marks]
      BY <1>4 DEF ReconcileList, Pruned
    <2> QED
      BY <1>4, <2>1, <2>2 DEF ReconcileList
  <1>5. CASE \E s \in rec[r].list : ReconcileProbe(r, s)
    <2>1. PICK s \in rec[r].list : ReconcileProbe(r, s)
      BY <1>5
    <2>2. s \in Servers
      BY DEF Passes
    <2>3. rec' \in [Reconcilers -> Passes]
      <3> DEFINE rest == rec[r].list \ {s}
                 reap == [rec[r] EXCEPT !.pc = "reap", !.victim = s, !.list = rest]
                 skip == [rec[r] EXCEPT !.list = rest]
      <3>1. reap \in Passes /\ skip \in Passes
        BY <2>2 DEF Passes
      <3>2. rec' = [rec EXCEPT ![r] = reap] \/ rec' = [rec EXCEPT ![r] = skip]
        BY <2>1 DEF ReconcileProbe
      <3> QED
        BY <3>1, <3>2
    <2> QED
      BY <2>1, <2>3 DEF ReconcileProbe
  <1>6. CASE ReconcileReap(r)
    <2>1. rec' \in [Reconcilers -> Passes]
      <3> DEFINE next == [rec[r] EXCEPT !.pc = "scan", !.victim = None]
      <3>1. next \in Passes
        BY DEF Passes
      <3>2. rec' = [rec EXCEPT ![r] = next]
        BY <1>6 DEF ReconcileReap
      <3> QED
        BY <3>1, <3>2
    <2> QED
      BY <1>6, <2>1 DEF ReconcileReap
  <1>7. CASE ReconcileEnd(r)
    BY <1>1, <1>7 DEF ReconcileEnd
  <1>8. CASE ReconcileListFails(r)
    BY <1>1, <1>8 DEF ReconcileListFails, Pruned
  <1>9. CASE ReconcileReapFails(r)
    <2>1. rec' \in [Reconcilers -> Passes]
      <3> DEFINE next == [rec[r] EXCEPT !.pc = "scan", !.victim = None]
      <3>1. next \in Passes
        BY DEF Passes
      <3>2. rec' = [rec EXCEPT ![r] = next]
        BY <1>9 DEF ReconcileReapFails
      <3> QED
        BY <3>1, <3>2
    <2> QED
      BY <1>9, <2>1 DEF ReconcileReapFails
  <1> QED
    BY <1>2, <1>3, <1>4, <1>5, <1>6, <1>7, <1>8, <1>9
       DEF ReconcileStep, ReconcileFault

\* The world outside the process, and its restarts.
LEMMA WorldTypeOK ==
  ASSUME TypeOK,
         \/ \E s \in Servers : ServerStops(s) \/ ServerVanishes(s)
         \/ \E j \in Jobs : RowAges(j) \/ SnapshotAges(j)
         \/ Crash
  PROVE  TypeOK'
  <1> USE DEF TypeOK, VpsOK, ActOK, PassesOK, RowsOK, rowVars, vpsVars, memVars
  <1>1. ASSUME NEW s \in Servers, ServerStops(s) \/ ServerVanishes(s)
        PROVE  TypeOK'
    BY <1>1 DEF ServerStops, ServerVanishes
  <1>2. ASSUME NEW j \in Jobs, RowAges(j) PROVE TypeOK'
    BY <1>2, ConstantsAssumption DEF RowAges, Ages
  <1>3. ASSUME NEW j \in Jobs, SnapshotAges(j) PROVE TypeOK'
    BY <1>3 DEF SnapshotAges
  <1>4. CASE Crash
    <2>1. NoPass \in Passes /\ Idle \in InFlight
      BY DEF NoPass, Passes, Idle, InFlight, Pcs, Vias
    <2>2. ActOK' /\ PassesOK'
      BY <1>4, <2>1 DEF Crash, Idle
    <2> QED
      BY <1>4, <2>2, ConstantsAssumption DEF Crash
  <1> QED
    BY <1>1, <1>2, <1>3, <1>4

\* In every reachable state all variables are well typed, and an activity in
\* flight has a job: no step of a handler, a pass or a server is ever about
\* nothing.
THEOREM TypeCorrect == Spec => []TypeOK
  <1>1. Init => TypeOK
    BY InitTypeOK
  <1>2. TypeOK /\ [Next]_vars => TypeOK'
    <2> SUFFICES ASSUME TypeOK, [Next]_vars PROVE TypeOK'
      OBVIOUS
    <2>1. CASE UNCHANGED vars
      BY <2>1 DEF TypeOK, RowsOK, VpsOK, ActOK, PassesOK, vars, rowVars,
         vpsVars, memVars
    <2>2. CASE Next
      BY <2>2, ActivityTypeOK, ActivityFaultTypeOK, RequestTypeOK,
         ReviewTypeOK, RowStepTypeOK, ReconcileTypeOK, WorldTypeOK DEF Next
    <2> QED
      BY <2>1, <2>2
  <1> QED
    BY <1>1, <1>2, PTL DEF Spec

-----------------------------------------------------------------------------
(* Servers and those who refer to them.                                    *)

\* A row or a cleanup never refers to the server of another job, unless a client
\* named that server in a PATCH; what a provisioner records is always its own,
\* and no pass of the reconciler goes after a server that is not there.
CreatedFor(s, j) == s \in Servers /\ Used(s) /\ label[s] = j
Known(s, j) == CreatedFor(s, j) \/ s \in PatchServers
KnownServers ==
  /\ \A j \in Jobs : serverId[j] # None => Known(serverId[j], j)
  /\ \A a \in Activities :
       /\ act[a].pc = "record" => CreatedFor(act[a].srv, act[a].job)
       /\ act[a].pc = "delete" => Known(act[a].srv, act[a].job)
  /\ \A r \in Reconcilers, s \in Servers :
       s \in rec[r].list \/ s = rec[r].victim => Used(s)

\* A server that was created keeps its label and is never unused again.
ServersKept == \A s \in Servers : Used(s) => Used(s)' /\ label'[s] = label[s]

\* References are known as long as servers are kept and no reference is new.
LEMMA KeptKnown ==
  ASSUME KnownServers, ServersKept,
         \A j \in Jobs : serverId'[j] # None => serverId'[j] = serverId[j],
         \A a \in Activities :
           act'[a].pc \in {"record", "delete"} => act'[a] = act[a],
         \A r \in Reconcilers, s \in Servers :
           s \in rec'[r].list \/ s = rec'[r].victim
             => s \in rec[r].list \/ s = rec[r].victim
  PROVE  KnownServers'
  <1>1. \A j \in Jobs : serverId'[j] # None => Known(serverId[j], j)'
    BY DEF KnownServers, ServersKept, Known, CreatedFor
  <1>2. \A a \in Activities :
          act'[a].pc = "record" => CreatedFor(act[a].srv, act[a].job)'
    BY DEF KnownServers, ServersKept, CreatedFor
  <1>3. \A a \in Activities :
          act'[a].pc = "delete" => Known(act[a].srv, act[a].job)'
    BY DEF KnownServers, ServersKept, Known, CreatedFor
  <1>4. \A r \in Reconcilers, s \in Servers :
          s \in rec'[r].list \/ s = rec'[r].victim => Used(s)'
    BY DEF KnownServers, ServersKept
  <1> QED
    BY <1>1, <1>2, <1>3, <1>4 DEF KnownServers

\* No new reference in a row, in an activity, in a pass.
NoNewRef == \A j \in Jobs : serverId'[j] # None => serverId'[j] = serverId[j]
NoNewHolder ==
  \A a \in Activities : act'[a].pc \in {"record", "delete"} => act'[a] = act[a]
NoNewTarget ==
  \A r \in Reconcilers, s \in Servers :
    s \in rec'[r].list \/ s = rec'[r].victim => s \in rec[r].list \/ s = rec[r].victim

\* What a step leaves alone brings nothing new.
LEMMA UnchangedKnown ==
  /\ UNCHANGED vpsVars => ServersKept
  /\ UNCHANGED serverId => NoNewRef
  /\ UNCHANGED act => NoNewHolder
  /\ UNCHANGED rec => NoNewTarget
  BY DEF vpsVars, ServersKept, NoNewRef, NoNewHolder, NoNewTarget, Used

\* An activity that moves to another await learns of no server.
LEMMA GotoKnown ==
  ASSUME TypeOK, NEW a \in Activities, NEW pc, Goto(a, pc),
         pc \notin {"record", "delete"}
  PROVE  NoNewHolder
  BY DEF TypeOK, ActOK, InFlight, Goto, NoNewHolder

\* An activity that ends holds no server.
LEMMA DoneKnown ==
  ASSUME TypeOK, NEW a \in Activities, Done(a)
  PROVE  NoNewHolder
  BY DEF TypeOK, ActOK, Done, Idle, NoNewHolder

\* What drainDownloadQueue finds is only what it tries to claim next.
LEMMA FindOnly ==
  ASSUME TypeOK, NEW a \in Activities, DrainFind(a)
  PROVE  /\ \A b \in Activities : b # a => act'[b] = act[b]
         /\ act'[a].pc \in {"idle", "grab"}
  <1> DEFINE grab(k) == [Idle EXCEPT !.pc = "grab", !.via = "drain", !.job = k]
  <1>1. \A k \in Jobs : grab(k).pc = "grab"
    BY DEF Idle
  <1>2. CASE Done(a)
    BY <1>2 DEF Done, Idle, TypeOK, ActOK
  <1>3. CASE \E k \in Jobs : act' = [act EXCEPT ![a] = grab(k)]
    BY <1>1, <1>3 DEF TypeOK, ActOK
  <1> QED
    BY <1>2, <1>3 DEF DrainFind

\* A flip starts activities of the queued rows' own, and leaves the others alone.
LEMMA FlipStarts ==
  ASSUME TypeOK, NEW f \in NzbFiles, Flip(f), NEW a \in Activities
  PROVE  \/ act'[a] = act[a]
         \/ act'[a].pc = "read" /\ act'[a].via = "auto"
  <1>1. PICK S \in SUBSET Reviews(f), A \in SUBSET Activities :
          \E who \in [A -> S] : QueueReviews(f, S, who)
    BY DEF Flip
  <1>2. PICK who \in [A -> S] : QueueReviews(f, S, who)
    BY <1>1
  <1>3. act'[a] = act[a] \/ act'[a] = [Idle EXCEPT !.pc = "read", !.job = who[a]]
    BY <1>2 DEF QueueReviews
  <1> QED
    BY <1>3 DEF Idle

\* Servers that stop or are deleted are kept.
LEMMA StopKept ==
  ASSUME TypeOK, NEW s, NEW st \in {"off", "gone"},
         vps' = [vps EXCEPT ![s] = st] \/ vps' = vps, UNCHANGED label
  PROVE  ServersKept
  BY DEF TypeOK, VpsOK, ServersKept, Used

\* A server that is created leaves the others as they are, and carries its job's label.
LEMMA NewServerKept ==
  ASSUME TypeOK, NEW s \in Servers, NEW j, NewServer(s, j)
  PROVE  ServersKept /\ Used(s)' /\ label'[s] = j
  BY DEF TypeOK, VpsOK, ServersKept, Used, NewServer

\* The steps an activity takes by itself.
LEMMA ActivityKnown ==
  ASSUME TypeOK, KnownServers, NEW a \in Activities,
         ActivityStep(a) \/ ActivityFault(a)
  PROVE  KnownServers'
  <1> DEFINE Quiet == ServersKept /\ NoNewRef /\ NoNewHolder /\ NoNewTarget
  <1>0. Quiet => KnownServers'
    BY KeptKnown DEF NoNewRef, NoNewHolder, NoNewTarget
  <1> USE DEF rowVars
  <1>1. CASE ReadJob(a) \/ Gate(a) \/ Claim(a) \/ StoreToken(a) \/ DrainGate(a) \/ DrainGrab(a)
    BY <1>0, <1>1, GotoKnown, DoneKnown, UnchangedKnown
       DEF ReadJob, Gate, Claim, StoreToken, DrainGate, DrainGrab
  <1>2. CASE \E s \in Servers : CreateServer(a, s)
    <2>1. PICK s \in Servers : CreateServer(a, s)
      BY <1>2
    <2>2. ServersKept /\ CreatedFor(s, act[a].job)'
      <3>1. act'[a].job = act[a].job
        BY <2>1 DEF CreateServer, TypeOK, ActOK, InFlight
      <3> QED
        BY <2>1, <3>1, NewServerKept DEF CreateServer, CreatedFor
    <2>3. act'[a].srv = s /\ \A b \in Activities : b # a => act'[b] = act[b]
      BY <2>1 DEF CreateServer, TypeOK, ActOK, InFlight
    <2>4. act'[a].pc = "record"
      BY <2>1 DEF CreateServer, TypeOK, ActOK, InFlight
    <2>5. \A b \in Activities :
            /\ act'[b].pc = "record" => CreatedFor(act[b].srv, act[b].job)'
            /\ act'[b].pc = "delete" => Known(act[b].srv, act[b].job)'
      BY <2>2, <2>3, <2>4 DEF KnownServers, ServersKept, CreatedFor, Known
    <2>6. UNCHANGED <<serverId, rec>>
      BY <2>1 DEF CreateServer
    <2> QED
      BY <2>2, <2>5, <2>6 DEF KnownServers, ServersKept, CreatedFor, Known
  <1>3. CASE Abort(a) \/ ReadJobFails(a) \/ StoreTokenFails(a) \/ CleanupFails(a)
    BY <1>0, <1>3, DoneKnown, UnchangedKnown
       DEF Abort, ReadJobFails, StoreTokenFails, CleanupFails
  <1>4. CASE RecordServer(a)
    <2>1. NoNewHolder /\ ServersKept
      BY <1>4, DoneKnown, UnchangedKnown DEF RecordServer
    <2>2. CreatedFor(act[a].srv, act[a].job)
      BY <1>4 DEF RecordServer, At, KnownServers
    <2>3. \A j \in Jobs : serverId'[j] # None => Known(serverId'[j], j)
      BY <1>4, <2>2 DEF RecordServer, KnownServers, Known, TypeOK, RowsOK
    <2>4. /\ \A j \in Jobs : serverId'[j] # None => Known(serverId[j], j)'
          /\ \A b \in Activities :
               /\ act'[b].pc = "record" => CreatedFor(act[b].srv, act[b].job)'
               /\ act'[b].pc = "delete" => Known(act[b].srv, act[b].job)'
      BY <2>1, <2>3 DEF KnownServers, ServersKept, CreatedFor, Known, NoNewHolder
    <2>5. \A r \in Reconcilers, s \in Servers :
            s \in rec'[r].list \/ s = rec'[r].victim => Used(s)'
      BY <1>4, <2>1 DEF RecordServer, KnownServers, ServersKept
    <2> QED
      BY <2>4, <2>5 DEF KnownServers
  <1>5. CASE CleanupDelete(a)
    BY <1>0, <1>5, GotoKnown, StopKept, UnchangedKnown DEF CleanupDelete
  <1>6. CASE CleanupClear(a)
    <2>1. NoNewRef
      BY <1>6 DEF CleanupClear, NoNewRef, TypeOK, RowsOK
    <2> QED
      BY <1>0, <1>6, <2>1, GotoKnown, DoneKnown, UnchangedKnown DEF CleanupClear
  <1>7. CASE DrainFind(a)
    <2>1. NoNewHolder
      BY <1>7, FindOnly DEF NoNewHolder
    <2> QED
      BY <1>0, <1>7, <2>1, UnchangedKnown DEF DrainFind
  <1>8. CASE CreateServerFails(a)
    BY <1>0, <1>8, GotoKnown, NewServerKept, UnchangedKnown DEF CreateServerFails
  <1>9. CASE RecordServerFails(a)
    BY <1>0, <1>9, GotoKnown, DoneKnown, UnchangedKnown DEF RecordServerFails
  <1> QED
    BY <1>1, <1>2, <1>3, <1>4, <1>5, <1>6, <1>7, <1>8, <1>9
       DEF ActivityStep, ActivityFault

\* The requests, the row handlers, the passes and the world.
LEMMA OtherKnown ==
  ASSUME TypeOK, KnownServers,
         \/ \E a \in Activities, j \in Jobs : Request(a, j)
         \/ \E j \in Jobs : DeleteJob(j) \/ PatchRead(j) \/ LinkFindsFileGone(j)
         \/ \E f \in NzbFiles : DeleteNzbFile(f)
         \/ \E q \in patches : PatchWrite(q)
         \/ \E j \in Jobs : RequestReview(j) \/ ExpireReview(j)
         \/ \E f \in NzbFiles : Flip(f) \/ LibraryEmptied(f) \/ SetFileStatus(f)
         \/ \E s \in Servers : ServerStops(s) \/ ServerVanishes(s)
         \/ \E j \in Jobs : RowAges(j) \/ SnapshotAges(j)
         \/ Crash
  PROVE  KnownServers'
  <1> DEFINE Quiet == ServersKept /\ NoNewRef /\ NoNewHolder /\ NoNewTarget
  <1>0. Quiet => KnownServers'
    BY KeptKnown DEF NoNewRef, NoNewHolder, NoNewTarget
  <1> USE DEF rowVars, memVars
  <1>1. ASSUME NEW a \in Activities, NEW j \in Jobs, Request(a, j)
        PROVE  KnownServers'
    <2>1. CASE CreateJob(a, j) \/ ManualProvision(a, j)
      <3>1. NoNewHolder
        BY <2>1 DEF CreateJob, ManualProvision, Start, NoNewHolder, TypeOK, ActOK
      <3> QED
        BY <1>0, <2>1, <3>1, UnchangedKnown DEF CreateJob, ManualProvision
    <2>2. CASE Cleanup(a, j)
      <3>1. \A b \in Activities :
              /\ act'[b].pc = "record" => CreatedFor(act'[b].srv, act'[b].job)
              /\ act'[b].pc = "delete" => Known(act'[b].srv, act'[b].job)
        BY <2>2 DEF Cleanup, Start, KnownServers, TypeOK, ActOK
      <3>2. UNCHANGED <<serverId, rec, vps, label>>
        BY <2>2 DEF Cleanup, vpsVars
      <3> QED
        BY <3>1, <3>2 DEF KnownServers, CreatedFor, Known, Used
    <2> QED
      BY <1>1, <2>1, <2>2 DEF Request
  <1>2. ASSUME NEW j \in Jobs, DeleteJob(j) PROVE KnownServers'
    BY <1>0, <1>2, UnchangedKnown DEF DeleteJob, RemoveRows, NoNewRef
  <1>3. ASSUME NEW j \in Jobs, PatchRead(j) \/ LinkFindsFileGone(j)
        PROVE  KnownServers'
    BY <1>0, <1>3, UnchangedKnown DEF PatchRead, LinkFindsFileGone
  <1>4. ASSUME NEW f \in NzbFiles, DeleteNzbFile(f) PROVE KnownServers'
    BY <1>0, <1>4, UnchangedKnown DEF DeleteNzbFile, RemoveRows, NoNewRef
  <1>5. ASSUME NEW q \in patches, PatchWrite(q) PROVE KnownServers'
    <2>1. q.job \in Jobs /\ q.srv \in PatchServers \cup {None}
      BY DEF TypeOK, Requests
    <2>2. \A j \in Jobs : serverId'[j] # None =>
            serverId'[j] = serverId[j] \/ serverId'[j] \in PatchServers
      BY <1>5, <2>1 DEF PatchWrite, TypeOK, RowsOK
    <2>3. UNCHANGED <<act, rec, vps, label>>
      BY <1>5 DEF PatchWrite, vpsVars
    <2> QED
      BY <2>2, <2>3 DEF KnownServers, CreatedFor, Known, Used
  <1>6. ASSUME NEW s \in Servers, ServerStops(s) \/ ServerVanishes(s)
        PROVE  KnownServers'
    BY <1>0, <1>6, StopKept, UnchangedKnown DEF ServerStops, ServerVanishes
  <1>7. ASSUME NEW j \in Jobs, RowAges(j) \/ SnapshotAges(j)
        PROVE  KnownServers'
    BY <1>0, <1>7, UnchangedKnown DEF RowAges, SnapshotAges
  <1>9. ASSUME NEW j \in Jobs, RequestReview(j) \/ ExpireReview(j)
        PROVE  KnownServers'
    BY <1>0, <1>9, UnchangedKnown DEF RequestReview, ExpireReview
  <1>10. ASSUME NEW f \in NzbFiles, LibraryEmptied(f) \/ SetFileStatus(f)
         PROVE  KnownServers'
    BY <1>0, <1>10, UnchangedKnown DEF LibraryEmptied, SetFileStatus
  <1>11. ASSUME NEW f \in NzbFiles, Flip(f) PROVE KnownServers'
    <2>1. NoNewHolder
      BY <1>11, FlipStarts DEF NoNewHolder
    <2> QED
      BY <1>0, <1>11, <2>1, UnchangedKnown DEF Flip, QueueReviews
  <1>8. CASE Crash
    <2>1. NoNewHolder
      BY <1>8 DEF Crash, Idle, NoNewHolder
    <2>2. \A r \in Reconcilers : rec'[r].list = {} /\ rec'[r].victim = None
      BY <1>8 DEF Crash, NoPass
    <2>3. NoNewTarget
      BY <2>2, ConstantsAssumption DEF NoNewTarget
    <2> QED
      BY <1>0, <1>8, <2>1, <2>3, UnchangedKnown DEF Crash
  <1> QED
    BY <1>1, <1>2, <1>3, <1>4, <1>5, <1>6, <1>7, <1>8, <1>9, <1>10, <1>11

\* A pass stores no server, and reaps only servers it has listed.
LEMMA ReconcileKnown ==
  ASSUME TypeOK, KnownServers, NEW r \in Reconcilers,
         ReconcileStep(r) \/ ReconcileReap(r) \/ ReconcileFault(r)
  PROVE  KnownServers'
  <1> DEFINE Quiet == ServersKept /\ NoNewRef /\ NoNewHolder /\ NoNewTarget
  <1>0. Quiet => KnownServers'
    BY KeptKnown DEF NoNewRef, NoNewHolder, NoNewTarget
  <1> USE DEF rowVars
  <1>1. \A p \in Reconcilers : rec[p] \in Passes
    BY DEF TypeOK, PassesOK
  <1>2. CASE ReconcileStart(r)
    <2>1. NoNewTarget
      BY <1>1, <1>2 DEF ReconcileStart, NoNewTarget, Passes, TypeOK, PassesOK
    <2> QED
      BY <1>0, <1>2, <2>1, UnchangedKnown DEF ReconcileStart
  <1>3. CASE \E t \in rec[r].todo, answers \in BOOLEAN : ReconcileJob(r, t, answers)
    <2>1. NoNewTarget
      BY <1>1, <1>3 DEF ReconcileJob, NoNewTarget, Passes, TypeOK, PassesOK
    <2> QED
      BY <1>0, <1>3, <2>1, UnchangedKnown DEF ReconcileJob
  <1>4. CASE ReconcileList(r)
    <2>1. /\ rec'[r].list = {s \in Servers : Alive(s)} /\ rec'[r].victim = None
          /\ \A p \in Reconcilers : p # r => rec'[p] = rec[p]
      BY <1>4 DEF ReconcileList, NoPass, TypeOK, PassesOK
    <2>2. \A p \in Reconcilers, s \in Servers :
            s \in rec'[p].list \/ s = rec'[p].victim => Used(s)
      BY <2>1, ConstantsAssumption DEF KnownServers, Alive, Used
    <2>3. UNCHANGED <<serverId, act, vps, label>>
      BY <1>4 DEF ReconcileList, vpsVars
    <2> QED
      BY <2>2, <2>3 DEF KnownServers, CreatedFor, Known, Used
  <1>5. CASE \E s \in rec[r].list : ReconcileProbe(r, s)
    <2>1. NoNewTarget
      BY <1>1, <1>5 DEF ReconcileProbe, NoNewTarget, Passes, TypeOK, PassesOK
    <2> QED
      BY <1>0, <1>5, <2>1, UnchangedKnown DEF ReconcileProbe
  <1>6. CASE ReconcileReap(r) \/ ReconcileReapFails(r)
    <2>1. NoNewTarget
      BY <1>1, <1>6, ConstantsAssumption
         DEF ReconcileReap, ReconcileReapFails, NoNewTarget, Passes, TypeOK, PassesOK
    <2>2. ServersKept
      BY <1>6, StopKept, UnchangedKnown DEF ReconcileReap, ReconcileReapFails
    <2> QED
      BY <1>0, <1>6, <2>1, <2>2, UnchangedKnown DEF ReconcileReap, ReconcileReapFails
  <1>7. CASE ReconcileEnd(r) \/ ReconcileListFails(r)
    <2>1. NoNewTarget
      BY <1>1, <1>7, ConstantsAssumption
         DEF ReconcileEnd, ReconcileListFails, NoPass, NoNewTarget, TypeOK, PassesOK
    <2> QED
      BY <1>0, <1>7, <2>1, UnchangedKnown DEF ReconcileEnd, ReconcileListFails
  <1> QED
    BY <1>2, <1>3, <1>4, <1>5, <1>6, <1>7 DEF ReconcileStep, ReconcileFault

\* A reference to the server of another job can only come from a client that
\* named it in a PATCH: no interleaving of provisioners, drains, cleanups and
\* crashes mixes up servers, what a provisioner records was created for its
\* job, and what a cleanup deletes late is that or what a client asked for.
THEOREM ServersAreKnown == Spec => []KnownServers
  <1>1. Init => KnownServers
    BY ConstantsAssumption DEF Init, KnownServers, Idle, NoPass
  <1>2. TypeOK /\ KnownServers /\ [Next]_vars => KnownServers'
    <2> SUFFICES ASSUME TypeOK, KnownServers, [Next]_vars PROVE KnownServers'
      OBVIOUS
    <2>1. CASE UNCHANGED vars
      BY <2>1 DEF KnownServers, CreatedFor, Known, Used, vars, rowVars, vpsVars,
         memVars
    <2>2. CASE Next
      BY <2>2, ActivityKnown, OtherKnown, ReconcileKnown DEF Next
    <2> QED
      BY <2>1, <2>2
  <1> QED
    BY <1>1, <1>2, TypeCorrect, PTL DEF Spec

-----------------------------------------------------------------------------
(* At most one server per job.  OneServer is inductive: most steps are      *)
(* quiet, they neither take a claim nor give one back nor create a server.  *)

OneServer == TypeOK /\ KnownServers /\ ClaimsExclude /\ AtMostOneServerPerJob

\* What a step must not do to be quiet.
NoNewOwner ==
  \A a \in Activities :
    /\ Owns(a)' => Owns(a) /\ act'[a].job = act[a].job
    /\ Early(a)' => Early(a)
NoNewServer == \A s \in Servers : Used(s)' => Used(s) /\ label'[s] = label[s]
NoneUnclaimed == \A j \in Jobs : Unclaimed(j)' => Unclaimed(j)
NoRequeue == \A q \in patches' : q.want \in UnclaimedStatuses => q.seen = q.want

\* A step without a new owner, a new server or a way back to the queue keeps both.
LEMMA QuietStep ==
  ASSUME OneServer, NoNewOwner, NoNewServer, NoneUnclaimed, NoRequeue
  PROVE  ClaimsExclude' /\ AtMostOneServerPerJob'
  <1>1. \A a \in Activities : Owns(a) => act[a].job \in Jobs
    BY DEF OneServer, TypeOK, ActOK, Owns, Early, DrainClaim
  <1>2. ASSUME NEW a \in Activities, Owns(a)'
        PROVE  ~Unclaimed(act[a].job)'
    <2>1. Owns(a) /\ act'[a].job = act[a].job /\ act[a].job \in Jobs
      BY <1>1, <1>2 DEF NoNewOwner
    <2> QED
      BY <2>1 DEF OneServer, ClaimsExclude, NoneUnclaimed, Unclaimed
  <1>3. ASSUME NEW a \in Activities, NEW b \in Activities,
               Owns(a)', Owns(b)', (act[a].job = act[b].job)'
        PROVE  a = b
    BY <1>3 DEF OneServer, ClaimsExclude, NoNewOwner
  <1>4. ASSUME NEW s \in Servers, Used(s)'
        PROVE  label'[s] \in Jobs /\ ~Unclaimed(label[s])'
    <2>1. label'[s] = label[s] /\ label[s] \in Jobs /\ ~Unclaimed(label[s])
      BY <1>4 DEF OneServer, ClaimsExclude, NoNewServer
    <2> QED
      BY <2>1 DEF NoneUnclaimed, Unclaimed
  <1>5. ASSUME NEW a \in Activities, NEW s \in Servers, Early(a)', Used(s)'
        PROVE  label'[s] # act'[a].job
    <2>1. Early(a) /\ Used(s) /\ label'[s] = label[s]
      BY <1>5 DEF NoNewOwner, NoNewServer
    <2>2. act'[a].job = act[a].job
      BY <1>5 DEF NoNewOwner, Owns
    <2> QED
      BY <2>1, <2>2 DEF OneServer, ClaimsExclude
  <1>6. ClaimsExclude'
    BY <1>2, <1>3, <1>4, <1>5 DEF ClaimsExclude, NoRequeue
  <1>7. AtMostOneServerPerJob'
    BY DEF OneServer, AtMostOneServerPerJob, NoNewServer, Used
  <1> QED
    BY <1>6, <1>7

\* A claim, a running job and an ended one keep a job out of reach; so nothing
\* is lost when one that nobody claimed stays so.
LEMMA SetStatusQuiet ==
  ASSUME TypeOK, NEW j \in Jobs, NEW st, st \notin UnclaimedStatuses \/ Unclaimed(j),
         SetStatus(j, st)
  PROVE  NoneUnclaimed
  BY DEF TypeOK, RowsOK, SetStatus, NoneUnclaimed, Unclaimed

\* A job that is failed is not put back in the queue.
LEMMA MarkJobFailedQuiet ==
  ASSUME TypeOK, NEW j \in Jobs, NEW st, MarkJobFailed(j, st)
  PROVE  NoneUnclaimed
  BY SetStatusQuiet DEF MarkJobFailed, NoneUnclaimed, Unclaimed, UnclaimedStatuses

\* Rows that are deleted are not put back in the queue.
LEMMA RemoveRowsQuiet ==
  ASSUME TypeOK, NEW S, RemoveRows(S)
  PROVE  NoneUnclaimed
  BY DEF RemoveRows, NoneUnclaimed, Unclaimed, UnclaimedStatuses

\* An activity that moves to a step before its claim or after its last write
\* owns nothing; one that ends owns nothing.
LEMMA GotoQuiet ==
  ASSUME TypeOK, NEW a \in Activities, NEW pc, Goto(a, pc),
         pc \in {"gate", "claim", "clear", "drain", "find", "create", "abort"},
         pc = "create" => Early(a), pc = "abort" => Owns(a)
  PROVE  NoNewOwner
  <1>1. ASSUME NEW b \in Activities, b # a
        PROVE  act'[b] = act[b]
    BY <1>1 DEF TypeOK, ActOK, Goto
  <1>2. act'[a].pc = pc /\ act'[a].via = act[a].via /\ act'[a].job = act[a].job
    BY DEF TypeOK, ActOK, InFlight, Goto
  <1>3. Early(a)' => Early(a)
    BY <1>2 DEF Early, DrainClaim
  <1>4. Owns(a)' => Owns(a)
    BY <1>2 DEF Owns, Early, DrainClaim
  <1>5. ASSUME NEW b \in Activities, b # a
        PROVE  (Owns(b)' => Owns(b) /\ act'[b].job = act[b].job) /\ (Early(b)' => Early(b))
    BY <1>1, <1>5 DEF Owns, Early, DrainClaim
  <1> QED
    BY <1>2, <1>3, <1>4, <1>5 DEF NoNewOwner

\* An activity that ends owns nothing.
LEMMA DoneQuiet ==
  ASSUME TypeOK, NEW a \in Activities, Done(a)
  PROVE  NoNewOwner
  BY DEF TypeOK, ActOK, Done, Idle, NoNewOwner, Owns, Early, DrainClaim

\* A handler that starts owns nothing before its claim.
LEMMA StartQuiet ==
  ASSUME TypeOK, NEW a \in Activities, NEW pc, NEW via, NEW j, NEW s,
         Start(a, pc, via, j, s),
         pc \in {"claim", "delete"} \/ (pc = "read" /\ via = "auto")
  PROVE  NoNewOwner
  BY DEF TypeOK, ActOK, Start, Idle, NoNewOwner, Owns, Early, DrainClaim

\* The three steps that are not quiet.  A claim is taken of an unclaimed job,
\* for which by ClaimsExclude there is neither an owner nor a server.
LEMMA TakeClaim ==
  ASSUME OneServer, NEW a \in Activities, NEW j \in Jobs, act[a].job = j,
         Unclaimed(j), status' = [status EXCEPT ![j] = "provisioning"],
         NEW pc, Goto(a, pc), UNCHANGED <<vps, label, patches>>
  PROVE  ClaimsExclude' /\ AtMostOneServerPerJob'
  <1> USE DEF OneServer
  <1>1. /\ \A b \in Activities : Owns(b) => act[b].job # j
        /\ \A s \in Servers : Used(s) => label[s] # j
    BY DEF ClaimsExclude
  <1>2. \A k \in Jobs : Unclaimed(k)' => Unclaimed(k) /\ k # j
    BY DEF TypeOK, RowsOK, Unclaimed, UnclaimedStatuses
  <1>3. \A b \in Activities : Owns(b) => act[b].job \in Jobs
    BY DEF TypeOK, ActOK, Owns, Early, DrainClaim
  <1>4. /\ \A b \in Activities : b # a => act'[b] = act[b]
        /\ act'[a].job = j
    BY DEF Goto, TypeOK, ActOK, InFlight
  <1>5. \A b \in Activities :
          b # a => (Owns(b)' => Owns(b)) /\ (Early(b)' => Early(b))
    BY <1>4 DEF Owns, Early, DrainClaim
  <1>6. \A s \in Servers : (Used(s)' <=> Used(s)) /\ label'[s] = label[s]
    BY DEF Used
  <1>7. \A b \in Activities : Owns(b)' => ~Unclaimed(act[b].job)'
    BY <1>2, <1>3, <1>4, <1>5 DEF ClaimsExclude, Unclaimed
  <1>8. \A b, c \in Activities :
          Owns(b)' /\ Owns(c)' /\ act'[b].job = act'[c].job => b = c
    BY <1>1, <1>4, <1>5 DEF ClaimsExclude
  <1>9. \A s \in Servers : Used(s)' => label'[s] \in Jobs /\ ~Unclaimed(label[s])'
    BY <1>2, <1>6 DEF ClaimsExclude, Unclaimed
  <1>10. \A b \in Activities, s \in Servers :
           Early(b)' /\ Used(s)' => label'[s] # act'[b].job
    BY <1>1, <1>4, <1>5, <1>6 DEF ClaimsExclude
  <1>11. ClaimsExclude'
    BY <1>7, <1>8, <1>9, <1>10 DEF ClaimsExclude
  <1> QED
    BY <1>11 DEF AtMostOneServerPerJob

\* A server is created by the one owner of a job that has none.
LEMMA FirstServer ==
  ASSUME OneServer, NEW a \in Activities, NEW s \in Servers,
         Early(a), NewServer(s, act[a].job),
         \A b \in Activities : b # a => act'[b] = act[b],
         act'[a].job = act[a].job, act'[a].pc \in {"record", "abort"},
         UNCHANGED <<status, patches>>
  PROVE  ClaimsExclude' /\ AtMostOneServerPerJob'
  <1> DEFINE j == act[a].job
  <1> USE DEF OneServer
  <1>1. Owns(a) /\ j \in Jobs
    BY DEF TypeOK, ActOK, Owns, Early, DrainClaim
  <1>2. ~Unclaimed(j) /\ \A t \in Servers : Used(t) => label[t] # j
    BY <1>1 DEF ClaimsExclude
  <1>3. /\ \A t \in Servers : Used(t)' => Used(t) \/ t = s
        /\ \A t \in Servers : t # s => label'[t] = label[t]
        /\ label'[s] = j
    BY DEF NewServer, Used, TypeOK, VpsOK
  <1>4. ~Early(a)'
    BY DEF Early, DrainClaim
  <1>5. \A b \in Activities :
          /\ (Owns(b)' => Owns(b)) /\ act'[b].job = act[b].job
          /\ Early(b)' => Early(b) /\ b # a
    BY <1>1, <1>4 DEF Owns, Early, DrainClaim
  <1>6. \A b \in Activities : Owns(b)' => ~Unclaimed(act[b].job)'
    BY <1>5 DEF ClaimsExclude, Unclaimed
  <1>7. \A b, c \in Activities :
          Owns(b)' /\ Owns(c)' /\ act'[b].job = act'[c].job => b = c
    BY <1>5 DEF ClaimsExclude
  <1>8. \A t \in Servers : Used(t)' => label'[t] \in Jobs /\ ~Unclaimed(label[t])'
    BY <1>1, <1>2, <1>3 DEF ClaimsExclude, Unclaimed
  <1>9. \A b \in Activities, t \in Servers :
          Early(b)' /\ Used(t)' => label'[t] # act'[b].job
    <2> SUFFICES ASSUME NEW b \in Activities, NEW t \in Servers, Early(b)', Used(t)'
                 PROVE  label'[t] # act'[b].job
      OBVIOUS
    <2>1. Early(b) /\ b # a /\ Owns(b) /\ act'[b].job = act[b].job
      BY <1>5 DEF Owns
    <2>2. act[b].job # j
      BY <1>1, <2>1 DEF ClaimsExclude
    <2> QED
      BY <1>3, <2>1, <2>2 DEF ClaimsExclude
  <1>10. ClaimsExclude'
    BY <1>6, <1>7, <1>8, <1>9 DEF ClaimsExclude
  <1>11. AtMostOneServerPerJob'
    BY <1>2, <1>3 DEF AtMostOneServerPerJob, Used
  <1> QED
    BY <1>10, <1>11

\* A claim is given back by the drain that took it, before any server.
LEMMA GiveBackClaim ==
  ASSUME OneServer, NEW a \in Activities, DrainClaim(a), Done(a),
         status' = [status EXCEPT ![act[a].job] = "queued"],
         UNCHANGED <<vps, label, patches>>
  PROVE  ClaimsExclude' /\ AtMostOneServerPerJob'
  <1> DEFINE j == act[a].job
  <1> USE DEF OneServer
  <1>1. Owns(a) /\ Early(a) /\ j \in Jobs
    BY DEF TypeOK, ActOK, Owns, Early, DrainClaim
  <1>2. /\ \A b \in Activities : Owns(b) /\ b # a => act[b].job # j
        /\ \A s \in Servers : Used(s) => label[s] # j
    BY <1>1 DEF ClaimsExclude
  <1>3. NoNewOwner /\ ~Owns(a)'
    BY DoneQuiet DEF TypeOK, ActOK, Done, Idle, Owns, Early, DrainClaim
  <1>4. \A k \in Jobs : k # j => (Unclaimed(k)' => Unclaimed(k))
    BY DEF TypeOK, RowsOK, Unclaimed
  <1>5. \A b \in Activities :
          Owns(b)' => Owns(b) /\ b # a /\ act'[b].job = act[b].job /\ act[b].job \in Jobs
    BY <1>3 DEF NoNewOwner, TypeOK, ActOK, Owns, Early, DrainClaim
  <1>6. \A b \in Activities : Owns(b)' => ~Unclaimed(act[b].job)'
    BY <1>2, <1>4, <1>5 DEF ClaimsExclude, Unclaimed
  <1>7. \A b, c \in Activities :
          Owns(b)' /\ Owns(c)' /\ act'[b].job = act'[c].job => b = c
    BY <1>5 DEF ClaimsExclude
  <1>8. \A s \in Servers : Used(s)' => label'[s] \in Jobs /\ ~Unclaimed(label[s])'
    BY <1>2, <1>4 DEF ClaimsExclude, Unclaimed, Used
  <1>9. \A b \in Activities, s \in Servers :
          Early(b)' /\ Used(s)' => label'[s] # act'[b].job
    <2> SUFFICES ASSUME NEW b \in Activities, NEW s \in Servers, Early(b)', Used(s)'
                 PROVE  label'[s] # act'[b].job
      OBVIOUS
    <2>1. Early(b) /\ act'[b].job = act[b].job /\ Used(s) /\ label'[s] = label[s]
      BY <1>3, <1>5 DEF NoNewOwner, Owns, Used
    <2> QED
      BY <2>1 DEF ClaimsExclude
  <1>10. ClaimsExclude'
    BY <1>6, <1>7, <1>8, <1>9 DEF ClaimsExclude
  <1> QED
    BY <1>10 DEF AtMostOneServerPerJob

\* What is left alone is quiet.
LEMMA UnchangedQuiet ==
  ASSUME OneServer
  PROVE  /\ (UNCHANGED act => NoNewOwner)
         /\ (UNCHANGED vpsVars => NoNewServer)
         /\ (UNCHANGED status => NoneUnclaimed)
         /\ (UNCHANGED patches => NoRequeue)
  BY DEF OneServer, ClaimsExclude, NoNewOwner, NoNewServer, NoneUnclaimed,
     NoRequeue, Unclaimed, Used, Owns, Early, DrainClaim, vpsVars

\* Servers that stop or are deleted are not new.
LEMMA OldServers ==
  ASSUME TypeOK, NEW s, NEW st, s \in Servers => Used(s),
         vps' = [vps EXCEPT ![s] = st] \/ vps' = vps, UNCHANGED label
  PROVE  NoNewServer
  BY DEF TypeOK, VpsOK, NoNewServer, Used

\* The steps an activity takes by itself.
LEMMA ActivityOneServer ==
  ASSUME OneServer, NEW a \in Activities, ActivityStep(a)
  PROVE  ClaimsExclude' /\ AtMostOneServerPerJob'
  <1> DEFINE j == act[a].job
  <1>0. TypeOK
    BY DEF OneServer
  <1> USE <1>0 DEF rowVars, Pcs
  <1>1. CASE ReadJob(a)
    BY <1>1, GotoQuiet, DoneQuiet, UnchangedQuiet, QuietStep DEF ReadJob
  <1>2. CASE Gate(a)
    BY <1>2, GotoQuiet, DoneQuiet, UnchangedQuiet, QuietStep DEF Gate
  <1>3. CASE Claim(a)
    <2>1. j \in Jobs
      BY <1>3, JobOf DEF Claim
    <2>2. CASE Claimable(j)
      BY <1>3, <2>1, <2>2, TakeClaim
         DEF Claim, Claimable, Unchanged, SetStatus, Unclaimed, UnclaimedStatuses,
             vpsVars
    <2>3. CASE ~Claimable(j)
      BY <1>3, <2>3, DoneQuiet, UnchangedQuiet, QuietStep DEF Claim
    <2> QED
      BY <2>2, <2>3
  <1>4. CASE StoreToken(a)
    <2>1. Early(a)
      BY <1>4 DEF StoreToken, At, Early
    <2>2. NoNewOwner
      BY <1>4, <2>1, GotoQuiet DEF StoreToken
    <2> QED
      BY <1>4, <2>2, UnchangedQuiet, QuietStep DEF StoreToken
  <1>5. CASE \E s \in Servers : CreateServer(a, s)
    <2>1. PICK s \in Servers : CreateServer(a, s)
      BY <1>5
    <2>2. Early(a)
      BY <2>1 DEF CreateServer, At, Early
    <2>3. /\ \A b \in Activities : b # a => act'[b] = act[b]
          /\ act'[a].job = act[a].job /\ act'[a].pc = "record"
      BY <2>1 DEF CreateServer, TypeOK, ActOK, InFlight
    <2> QED
      BY <2>1, <2>2, <2>3, FirstServer DEF CreateServer
  <1>6. CASE Abort(a)
    <2>1. j \in Jobs
      BY <1>6, JobOf DEF Abort
    <2>2. NoneUnclaimed
      BY <1>6, <2>1, SetStatusQuiet, MarkJobFailedQuiet, UnchangedQuiet
         DEF Abort, UnclaimedStatuses
    <2> QED
      BY <1>6, <2>2, DoneQuiet, UnchangedQuiet, QuietStep DEF Abort
  <1>7. CASE RecordServer(a)
    BY <1>7, DoneQuiet, UnchangedQuiet, QuietStep DEF RecordServer
  <1>8. CASE CleanupDelete(a)
    <2>1. NoNewServer
      BY <1>8, OldServers, UnchangedQuiet DEF CleanupDelete, Alive, Used, NoNewServer
    <2> QED
      BY <1>8, <2>1, GotoQuiet, UnchangedQuiet, QuietStep DEF CleanupDelete
  <1>9. CASE CleanupClear(a)
    BY <1>9, GotoQuiet, DoneQuiet, UnchangedQuiet, QuietStep DEF CleanupClear
  <1>10. CASE DrainGate(a)
    BY <1>10, GotoQuiet, DoneQuiet, UnchangedQuiet, QuietStep DEF DrainGate
  <1>11. CASE DrainFind(a)
    <2>1. NoNewOwner
      BY <1>11, FindOnly DEF NoNewOwner, Owns, Early, DrainClaim
    <2> QED
      BY <1>11, <2>1, UnchangedQuiet, QuietStep DEF DrainFind
  <1>12. CASE DrainGrab(a)
    <2>1. j \in Jobs
      BY <1>12, JobOf DEF DrainGrab
    <2>2. CASE Waiting(j)
      BY <1>12, <2>1, <2>2, TakeClaim
         DEF DrainGrab, Waiting, SetStatus, Unclaimed, UnclaimedStatuses, vpsVars
    <2>3. CASE ~Waiting(j)
      BY <1>12, <2>3, DoneQuiet, UnchangedQuiet, QuietStep DEF DrainGrab
    <2> QED
      BY <2>2, <2>3
  <1> QED
    BY <1>1, <1>2, <1>3, <1>4, <1>5, <1>6, <1>7, <1>8, <1>9, <1>10, <1>11,
       <1>12 DEF ActivityStep

\* The calls that fail under an activity.
LEMMA ActivityFaultOneServer ==
  ASSUME OneServer, NEW a \in Activities, ActivityFault(a)
  PROVE  ClaimsExclude' /\ AtMostOneServerPerJob'
  <1> DEFINE j == act[a].job
  <1>0. TypeOK
    BY DEF OneServer
  <1> USE <1>0 DEF rowVars, Pcs
  <1>1. CASE ReadJobFails(a)
    <2>1. CASE act[a].via = "drain" /\ status[j] = "provisioning"
      <3>1. DrainClaim(a)
        BY <1>1, <2>1 DEF ReadJobFails, At, DrainClaim
      <3> QED
        BY <1>1, <2>1, <3>1, GiveBackClaim DEF ReadJobFails, SetStatus, vpsVars
    <2>2. CASE ~(act[a].via = "drain" /\ status[j] = "provisioning")
      BY <1>1, <2>2, DoneQuiet, UnchangedQuiet, QuietStep DEF ReadJobFails
    <2> QED
      BY <2>1, <2>2
  <1>2. CASE StoreTokenFails(a)
    <2>1. j \in Jobs
      BY <1>2, JobOf DEF StoreTokenFails
    <2>2. NoneUnclaimed
      BY <1>2, <2>1, MarkJobFailedQuiet, UnchangedQuiet DEF StoreTokenFails
    <2> QED
      BY <1>2, <2>2, DoneQuiet, UnchangedQuiet, QuietStep DEF StoreTokenFails
  <1>3. CASE CreateServerFails(a)
    <2>1. Early(a)
      BY <1>3 DEF CreateServerFails, At, Early
    <2>2. CASE UNCHANGED vpsVars
      BY <1>3, <2>1, <2>2, GotoQuiet, UnchangedQuiet, QuietStep
         DEF CreateServerFails, Owns
    <2>3. CASE \E s \in Servers : NewServer(s, j)
      <3>1. PICK s \in Servers : NewServer(s, j)
        BY <2>3
      <3>2. /\ \A b \in Activities : b # a => act'[b] = act[b]
            /\ act'[a].job = j /\ act'[a].pc = "abort"
        BY <1>3 DEF CreateServerFails, Goto, TypeOK, ActOK, InFlight
      <3> QED
        BY <1>3, <2>1, <3>1, <3>2, FirstServer DEF CreateServerFails
    <2> QED
      BY <1>3, <2>2, <2>3 DEF CreateServerFails
  <1>4. CASE CleanupFails(a)
    BY <1>4, DoneQuiet, UnchangedQuiet, QuietStep DEF CleanupFails
  <1>5. CASE RecordServerFails(a)
    <2>1. Owns(a)
      BY <1>5 DEF RecordServerFails, At, Owns
    <2>2. NoNewOwner
      BY <1>5, <2>1, GotoQuiet, DoneQuiet DEF RecordServerFails
    <2> QED
      BY <1>5, <2>2, UnchangedQuiet, QuietStep DEF RecordServerFails
  <1> QED
    BY <1>1, <1>2, <1>3, <1>4, <1>5 DEF ActivityFault

\* The requests, the row handlers and the world.
LEMMA OtherOneServer ==
  ASSUME OneServer,
         \/ \E a \in Activities, j \in Jobs : Request(a, j)
         \/ \E j \in Jobs : DeleteJob(j) \/ PatchRead(j) \/ LinkFindsFileGone(j)
         \/ \E f \in NzbFiles : DeleteNzbFile(f)
         \/ \E q \in patches : PatchWrite(q)
         \/ \E j \in Jobs : RequestReview(j) \/ ExpireReview(j)
         \/ \E f \in NzbFiles : Flip(f) \/ LibraryEmptied(f) \/ SetFileStatus(f)
         \/ \E s \in Servers : ServerStops(s) \/ ServerVanishes(s)
         \/ \E j \in Jobs : RowAges(j) \/ SnapshotAges(j)
         \/ Crash
  PROVE  ClaimsExclude' /\ AtMostOneServerPerJob'
  <1>0. TypeOK
    BY DEF OneServer
  <1> USE <1>0, UnchangedQuiet DEF rowVars, memVars
  <1>1. ASSUME NEW a \in Activities, NEW j \in Jobs, Request(a, j)
        PROVE  NoNewOwner /\ NoNewServer /\ NoneUnclaimed /\ NoRequeue
    <2>1. CASE CreateJob(a, j)
      <3>1. NoneUnclaimed
        BY <2>1, SetStatusQuiet DEF CreateJob, Unclaimed, UnclaimedStatuses
      <3> QED
        BY <2>1, <3>1, StartQuiet DEF CreateJob
    <2>2. CASE ManualProvision(a, j) \/ Cleanup(a, j)
      BY <2>2, StartQuiet DEF ManualProvision, Cleanup
    <2> QED
      BY <1>1, <2>1, <2>2 DEF Request
  <1>2. ASSUME NEW j \in Jobs, DeleteJob(j)
        PROVE  NoNewOwner /\ NoNewServer /\ NoneUnclaimed /\ NoRequeue
    BY <1>2, RemoveRowsQuiet DEF DeleteJob
  <1>3. ASSUME NEW j \in Jobs, PatchRead(j)
        PROVE  NoNewOwner /\ NoNewServer /\ NoneUnclaimed /\ NoRequeue
    <2>1. PICK want \in Accepted(status[j]), s \in PatchServers \cup {None} :
            \E p \in ProgressAfter(j, want) :
              patches' = patches \cup {[job |-> j, seen |-> status[j], want |-> want,
                                        progress |-> p, srv |-> s]}
      BY <1>3 DEF PatchRead
    <2>2. status[j] \in Statuses \ {"needs_review"}
      BY <1>3 DEF PatchRead, Exists
    <2>3. want \in UnclaimedStatuses => status[j] = want
      BY <2>1, <2>2 DEF Accepted, STATUS_TRANSITIONS, Statuses, UnclaimedStatuses
    <2>4. NoRequeue
      BY <2>1, <2>3 DEF NoRequeue, OneServer, ClaimsExclude
    <2> QED
      BY <1>3, <2>4 DEF PatchRead
  <1>4. ASSUME NEW j \in Jobs, LinkFindsFileGone(j)
        PROVE  NoNewOwner /\ NoNewServer /\ NoneUnclaimed /\ NoRequeue
    BY <1>4, SetStatusQuiet DEF LinkFindsFileGone, UnclaimedStatuses
  <1>5. ASSUME NEW f \in NzbFiles, DeleteNzbFile(f)
        PROVE  NoNewOwner /\ NoNewServer /\ NoneUnclaimed /\ NoRequeue
    BY <1>5, RemoveRowsQuiet DEF DeleteNzbFile
  <1>6. ASSUME NEW q \in patches, PatchWrite(q)
        PROVE  NoNewOwner /\ NoNewServer /\ NoneUnclaimed /\ NoRequeue
    <2>1. q.job \in Jobs /\ q.want \in Statuses
      BY DEF TypeOK, Requests
    <2>2. q.want \in UnclaimedStatuses => q.seen = q.want
      BY DEF OneServer, ClaimsExclude
    <2>3. NoRequeue
      BY <1>6 DEF PatchWrite, NoRequeue, OneServer, ClaimsExclude
    <2>4. ASSUME SetStatus(q.job, q.want), PatchMatches(q) PROVE NoneUnclaimed
      BY <2>1, <2>2, <2>4, SetStatusQuiet DEF PatchMatches, Unchanged, Unclaimed
    <2>5. NoneUnclaimed
      BY <1>6, <2>1, <2>4, MarkJobFailedQuiet DEF PatchWrite
    <2> QED
      BY <1>6, <2>3, <2>5 DEF PatchWrite
  <1>7. ASSUME NEW s \in Servers, ServerStops(s) \/ ServerVanishes(s)
        PROVE  NoNewOwner /\ NoNewServer /\ NoneUnclaimed /\ NoRequeue
    BY <1>7, OldServers DEF ServerStops, ServerVanishes, Alive, Used
  <1>8. ASSUME NEW j \in Jobs, RowAges(j) \/ SnapshotAges(j)
        PROVE  NoNewOwner /\ NoNewServer /\ NoneUnclaimed /\ NoRequeue
    BY <1>8 DEF RowAges, SnapshotAges
  <1>10. ASSUME NEW j \in Jobs, RequestReview(j) \/ ExpireReview(j)
         PROVE  NoNewOwner /\ NoNewServer /\ NoneUnclaimed /\ NoRequeue
    BY <1>10, SetStatusQuiet DEF RequestReview, ExpireReview, Unclaimed, UnclaimedStatuses
  <1>11. ASSUME NEW f \in NzbFiles, Flip(f)
         PROVE  NoNewOwner /\ NoNewServer /\ NoneUnclaimed /\ NoRequeue
    <2>1. NoNewOwner
      BY <1>11, FlipStarts DEF NoNewOwner, Owns, Early, DrainClaim
    <2>2. NoneUnclaimed
      BY <1>11 DEF Flip, QueueReviews, Reviews, JobsOf, NoneUnclaimed, Unclaimed,
         UnclaimedStatuses
    <2> QED
      BY <1>11, <2>1, <2>2 DEF Flip, QueueReviews
  <1>12. ASSUME NEW f \in NzbFiles, LibraryEmptied(f) \/ SetFileStatus(f)
         PROVE  NoNewOwner /\ NoNewServer /\ NoneUnclaimed /\ NoRequeue
    <2>1. NoneUnclaimed
      BY <1>12 DEF LibraryEmptied, SetFileStatus, NoneUnclaimed, Unclaimed,
         UnclaimedStatuses
    <2> QED
      BY <1>12, <2>1 DEF LibraryEmptied, SetFileStatus
  <1>9. ASSUME Crash
        PROVE  NoNewOwner /\ NoNewServer /\ NoneUnclaimed /\ NoRequeue
    <2>1. NoNewOwner
      BY <1>9 DEF Crash, Idle, NoNewOwner, Owns, Early, DrainClaim
    <2>2. NoRequeue
      BY <1>9 DEF Crash, NoRequeue
    <2> QED
      BY <1>9, <2>1, <2>2 DEF Crash
  <1> QED
    BY <1>1, <1>2, <1>3, <1>4, <1>5, <1>6, <1>7, <1>8, <1>9, <1>10, <1>11, <1>12,
       QuietStep

\* A pass of the reconciler takes no claim and creates no server.
LEMMA ReconcileOneServer ==
  ASSUME OneServer, NEW r \in Reconcilers,
         ReconcileStep(r) \/ ReconcileReap(r) \/ ReconcileFault(r)
  PROVE  ClaimsExclude' /\ AtMostOneServerPerJob'
  <1>0. TypeOK
    BY DEF OneServer
  <1> USE <1>0, UnchangedQuiet DEF rowVars
  <1>1. ASSUME NEW t \in rec[r].todo, NEW answers \in BOOLEAN,
               ReconcileJob(r, t, answers)
        PROVE  NoNewOwner /\ NoNewServer /\ NoneUnclaimed /\ NoRequeue
    <2>1. t.job \in Jobs
      BY DEF TypeOK, PassesOK, Passes, Snapshots
    <2>2. NoneUnclaimed
      BY <1>1, <2>1, MarkJobFailedQuiet DEF ReconcileJob
    <2> QED
      BY <1>1, <2>2 DEF ReconcileJob
  <1>2. CASE ReconcileReap(r)
    <2>1. NoNewServer
      BY <1>2, OldServers DEF ReconcileReap, OneServer, KnownServers
    <2> QED
      BY <1>2, <2>1, QuietStep DEF ReconcileReap
  <1>3. ASSUME NEW s \in rec[r].list, ReconcileProbe(r, s)
        PROVE  NoNewOwner /\ NoNewServer /\ NoneUnclaimed /\ NoRequeue
    BY <1>3 DEF ReconcileProbe
  <1>4. CASE ReconcileStart(r) \/ ReconcileList(r) \/ ReconcileEnd(r) \/ ReconcileFault(r)
    BY <1>4, QuietStep
       DEF ReconcileStart, ReconcileList, ReconcileEnd, ReconcileFault,
           ReconcileListFails, ReconcileReapFails
  <1> QED
    BY <1>1, <1>2, <1>3, <1>4, QuietStep DEF ReconcileStep

\* However claims, drains, retries, failures and restarts interleave, at most
\* one server is ever created for a job, and no two handlers hold its claim.
THEOREM OneServerPerJob == Spec => [](AtMostOneServerPerJob /\ ClaimsExclude)
  <1>1. Init => ClaimsExclude /\ AtMostOneServerPerJob
    BY DEF Init, ClaimsExclude, AtMostOneServerPerJob, Owns, Early, DrainClaim,
       Used, Idle
  <1>2. /\ TypeOK /\ KnownServers /\ ClaimsExclude /\ AtMostOneServerPerJob
        /\ [Next]_vars
        => (ClaimsExclude /\ AtMostOneServerPerJob)'
    <2> SUFFICES ASSUME OneServer, [Next]_vars
                 PROVE  ClaimsExclude' /\ AtMostOneServerPerJob'
      BY DEF OneServer
    <2>1. CASE UNCHANGED vars
      BY <2>1, UnchangedQuiet, QuietStep DEF vars, rowVars, vpsVars, memVars
    <2>2. CASE Next
      BY <2>2, ActivityOneServer, ActivityFaultOneServer, OtherOneServer,
         ReconcileOneServer DEF Next
    <2> QED
      BY <2>1, <2>2
  <1> QED
    BY <1>1, <1>2, TypeCorrect, ServersAreKnown, PTL DEF Spec

\* No two actors hold a job at once, and a job on offer has neither an owner
\* nor a server.
THEOREM ClaimsKeepApart == Spec => []ClaimsExclude
  BY OneServerPerJob, PTL

=============================================================================
