----------------------------- MODULE ServerFleet -----------------------------
(***************************************************************************)
(* The servers of download and upload jobs as a fleet: the gate            *)
(* (canProvision in src/lib/vps-config.ts), the search for a place         *)
(* (createServer in src/lib/hetzner.ts), and the scan for servers nobody   *)
(* needs any more (src/lib/job-reconciler.ts).  DownloadJobs and           *)
(* UploadJobs have the rest of the life of a job.                          *)
(*                                                                         *)
(* The gate counts the jobs whose row has a server; the row gets it only   *)
(* when the server has been created.  Two routes do not ask it: the manual *)
(* POST /jobs/:id/provision and the upload that a completed download       *)
(* triggers (src/routes/downloads.ts).                                     *)
(***************************************************************************)
EXTENDS Naturals, FiniteSets

CONSTANTS
  DownloadQueue, UploadQueue,  \* the jobs that want a server
  Provisioners,                \* bound: provisioning runs in flight
  Locations, ServerTypes,      \* how many the administrator lists, in order of preference
  globalLimit, maxUploadVps,   \* getVpsLimits
  NoJob

VARIABLES
  holding,   \* jobs whose row has a server and that are active
  running,   \* jobs that have a server which carries their label
  provision, \* the provisioning runs
  made,      \* history: the servers a run has made for its job
  ungated    \* history: jobs whose last run did not ask the gate

fleetVars == <<holding, running, provision, made, ungated>>

Queue == DownloadQueue \cup UploadQueue

\* getVpsLimits clamps the limit of uploads to the global one.
FleetAssumption ==
  /\ IsFiniteSet(Provisioners) /\ Provisioners # {}
  /\ Locations \in Nat \ {0} /\ ServerTypes \in Nat \ {0}
  /\ globalLimit \in Nat /\ maxUploadVps \in 0 .. globalLimit
  /\ NoJob \notin Queue

\* The combinations of the nested loops: every server type at a location,
\* then the next location.
Combinations == Locations * ServerTypes

Rest == [pc |-> "idle", job |-> NoJob, try |-> 1]

FleetTypeOK ==
  /\ holding \subseteq Queue
  /\ running \subseteq Queue
  /\ provision \in [Provisioners -> [pc: {"idle", "gate", "create", "record"},
                                     job: Queue \cup {NoJob}, try: 1 .. Combinations]]
  /\ made \in [Provisioners -> 0 .. Combinations]
  /\ ungated \subseteq Queue

FleetInit ==
  /\ holding = {} /\ running = {}
  /\ provision = [p \in Provisioners |-> Rest]
  /\ made = [p \in Provisioners |-> 0]
  /\ ungated = {}

InHand == {provision[p].job : p \in Provisioners} \ {NoJob}

-----------------------------------------------------------------------------

Start(p, j, pc) ==
  /\ provision[p].pc = "idle" /\ j \notin holding \cup InHand
  /\ provision' = [provision EXCEPT ![p] = [pc |-> pc, job |-> j, try |-> 1]]
  /\ made' = [made EXCEPT ![p] = 0]
  /\ UNCHANGED <<holding, running>>

\* A run of the provisioner or of the queue drain works on a job.
Claim(p, j) == Start(p, j, "gate") /\ ungated' = ungated \ {j}

\* A user starts the server of a download, or a completed download triggers an
\* upload: straight to Hetzner, whatever the limits.
ProvisionUngated(p, j) == Start(p, j, "create") /\ ungated' = ungated \cup {j}

\* The global limit, the limit of uploads, and for downloads what uploads
\* leave over.  The first form compares with "more than".
Allowed_OffByOne(j) ==
  /\ Cardinality(holding) <= globalLimit
  /\ j \in UploadQueue => Cardinality(holding \cap UploadQueue) <= maxUploadVps
  /\ j \in DownloadQueue =>
       Cardinality(holding \cap DownloadQueue) <= globalLimit - maxUploadVps
Allowed(j) ==
  /\ Cardinality(holding) < globalLimit
  /\ j \in UploadQueue => Cardinality(holding \cap UploadQueue) < maxUploadVps
  /\ j \in DownloadQueue => Cardinality(holding \cap DownloadQueue) < globalLimit - maxUploadVps

Gate(p) ==
  /\ provision[p].pc = "gate"
  /\ provision' = [provision EXCEPT ![p] =
       IF Allowed(@.job) THEN [@ EXCEPT !.pc = "create"] ELSE Rest]
  /\ UNCHANGED <<holding, running, made, ungated>>

Make(p) == /\ running' = running \cup {provision[p].job}
           /\ made' = [made EXCEPT ![p] = @ + 1]

Created(p) ==
  /\ provision[p].pc = "create"
  /\ Make(p)
  /\ provision' = [provision EXCEPT ![p].pc = "record"]
  /\ UNCHANGED <<holding, ungated>>

\* What follows an attempt that failed for want of capacity, and any other
\* failure.
NextTry(p) == IF provision[p].try = Combinations THEN Rest
              ELSE [provision[p] EXCEPT !.try = @ + 1]
GiveUp_TriesOn(p) == NextTry(p)
GiveUp(p) == Rest

\* 412, or an error code that means the place is full or the type unknown.
NoCapacity(p) ==
  /\ provision[p].pc = "create"
  /\ provision' = [provision EXCEPT ![p] = NextTry(p)]
  /\ UNCHANGED <<holding, running, made, ungated>>

\* Any other answer ends the search, and so does a call that is aborted after
\* the timeout or whose answer is lost, with the server created or not.
CreateFails(p) ==
  /\ provision[p].pc = "create"
  /\ Make(p) \/ UNCHANGED <<running, made>>
  /\ provision' = [provision EXCEPT ![p] = GiveUp(p)]
  /\ UNCHANGED <<holding, ungated>>

Record(p) ==
  /\ provision[p].pc = "record"
  /\ holding' = holding \cup {provision[p].job}
  /\ provision' = [provision EXCEPT ![p] = Rest]
  /\ made' = [made EXCEPT ![p] = 0]
  /\ UNCHANGED <<running, ungated>>

\* The row cannot be written or the job has ended: the server is deleted, if
\* that works.
RecordFails(p) ==
  /\ provision[p].pc = "record"
  /\ running' \in {running, running \ {provision[p].job}}
  /\ provision' = [provision EXCEPT ![p] = Rest]
  /\ made' = [made EXCEPT ![p] = 0]
  /\ UNCHANGED <<holding, ungated>>

\* The job ends, and its server is deleted, if that works.
JobEnds(j) ==
  /\ j \in holding
  /\ holding' = holding \ {j}
  /\ running' \in {running, running \ {j}}
  /\ UNCHANGED <<provision, made, ungated>>

\* Servers that carry the label of a job that has ended.
ZombieDeleted(j) ==
  /\ j \in running \ (holding \cup InHand)
  /\ running' = running \ {j}
  /\ UNCHANGED <<holding, provision, made, ungated>>

FleetNext ==
  \/ \E p \in Provisioners :
       \/ \E j \in Queue : Claim(p, j) \/ ProvisionUngated(p, j)
       \/ Gate(p) \/ Created(p) \/ NoCapacity(p) \/ CreateFails(p) \/ Record(p) \/ RecordFails(p)
  \/ \E j \in Queue : JobEnds(j) \/ ZombieDeleted(j)

FleetSpec == FleetInit /\ [][FleetNext]_fleetVars

-----------------------------------------------------------------------------
(* Properties                                                              *)

\* The gate is passed before the server counts, so runs at the same time pass
\* it together: the servers that went through it exceed the limits of
\* getVpsLimits, but by no more than the runs in flight besides the one that
\* was entitled to pass.  The routes that do not ask it add servers without any
\* bound, yet never help a run through the gate: it counts their servers too.
OverrunBounded ==
  LET over == Cardinality(Provisioners) - 1
      gated == holding \ ungated
  IN /\ Cardinality(gated) <= globalLimit + over
     /\ Cardinality(gated \cap UploadQueue) <= maxUploadVps + over
     /\ Cardinality(gated \cap DownloadQueue) <= (globalLimit - maxUploadVps) + over

\* A run makes at most one server, also when the answer of the call that made
\* it was lost: only a refusal for want of capacity is tried elsewhere.
OneServerPerRun == \A p \in Provisioners : made[p] <= 1
==============================================================================
