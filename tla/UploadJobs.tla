----------------------------- MODULE UploadJobs -----------------------------
(***************************************************************************)
(* Upload jobs and the Hetzner servers that run them: the handlers of      *)
(* src/routes/uploads.ts, the upload half of drainQueue                    *)
(* (src/lib/queue-drain.ts), the re-upload a completed download triggers   *)
(* (src/routes/downloads.ts) and the scan for upload servers without a job *)
(* (src/lib/job-reconciler.ts).                                            *)
(*                                                                         *)
(* As in DownloadJobs every await ends an action, the process may restart  *)
(* and lose what was in flight, and a server reports as long as its token  *)
(* has a row.  Unlike there, no status is written by compare-and-swap      *)
(* except the drain's claim and its return.                                *)
(*                                                                         *)
(* That a download server also takes one of the slots is the subject of    *)
(* ServerFleet: here the gate may refuse at any time for that reason.      *)
(***************************************************************************)
EXTENDS Naturals, FiniteSets

CONSTANTS
  MaxJobs,        \* bound: UploadJob rows, in the order of createdAt
  NzbFiles,       \* NzbFile rows with an s3Key
  MaxServers,     \* bound: attempts to get a server; each uses the next id,
                  \* and the token written before it is known by the same id
  Activities,     \* bound: handlers, drains and requests in flight
  maxUploadVps,
  MaxCrashes,     \* bound: restarts, and database failures that are only logged
  Faults,         \* whether calls to Hetzner and the database may fail
  UserCalls,      \* whether users call PATCH and cleanup, as a login allows
  PatchServers,   \* server ids that callers name in the body of a PATCH
  None

Jobs == 1 .. MaxJobs
Servers == 1 .. MaxServers
NextOf(S) == {x \in S : \A y \in S : x <= y}

ASSUME ConstantsAssumption ==
  /\ MaxJobs \in Nat /\ MaxServers \in Nat /\ maxUploadVps \in Nat /\ MaxCrashes \in Nat
  /\ None \notin Nat \cup NzbFiles
  /\ Faults \in BOOLEAN /\ UserCalls \in BOOLEAN
  /\ PatchServers \subseteq Servers

VARIABLES
  status,     \* UploadJob.status, "absent" or "deleted"
  nzbFile,    \* UploadJob.nzbFileId
  serverId,   \* UploadJob.hetznerServerId
  files,      \* the files that still have a row
  own,        \* the files whose movie has a healthy version with source "own"
  tokens,     \* rows of ServiceToken
  vps,        \* "unused", "asked", "running", "off" or "gone"
  label,      \* the uploadJobId label
  act,        \* what is in flight
  reap,       \* servers a reconciler pass has judged and not yet deleted
  crashes     \* restarts and lost writes so far

rowVars == <<status, nzbFile, serverId, files, own>>
vpsVars == <<tokens, vps, label>>
vars == <<rowVars, vpsVars, act, reap, crashes>>

-----------------------------------------------------------------------------
(* A job the drain has claimed has a status the transition table does not  *)
(* know.                                                                   *)
STATUS_TRANSITIONS ==
  [queued |-> {"running", "failed"}, running |-> {"completed", "failed"},
   completed |-> {}, failed |-> {}]
Rows == DOMAIN STATUS_TRANSITIONS \cup {"provisioning"}
Allowed(st) == IF st \in DOMAIN STATUS_TRANSITIONS THEN STATUS_TRANSITIONS[st] ELSE {}

Exists(j) == status[j] \in Rows
Ended(st) == st \in {"completed", "failed"}
Alive(s) == vps[s] \in {"running", "off"}

Pcs == {"idle", "insert", "gate", "find", "claim", "token", "create", "record",
        "abort", "write", "kill", "clear"}
Vias == {"post", "auto", "drain", "patch", "cleanup"}
Idle == [pc |-> "idle", via |-> "post", job |-> 0, file |-> None, srv |-> None,
         want |-> "queued"]

RowsOK ==
  /\ status \in [Jobs -> Rows \cup {"absent", "deleted"}]
  /\ nzbFile \in [Jobs -> NzbFiles \cup {None}]
  /\ serverId \in [Jobs -> Servers \cup {None}]
  /\ files \subseteq NzbFiles /\ own \subseteq NzbFiles
\* The foreign key of the rows, and a row's server is one that was made for it
\* or one that a caller named.
ReferencesOK ==
  \A j \in Jobs : /\ Exists(j) => nzbFile[j] \in files
                  /\ serverId[j] # None =>
                       label[serverId[j]] = j \/ serverId[j] \in PatchServers
VpsOK ==
  /\ tokens \subseteq Servers
  /\ vps \in [Servers -> {"unused", "asked", "running", "off", "gone"}]
  /\ label \in [Servers -> Jobs \cup {0}]
ActOK ==
  act \in [Activities -> [pc: Pcs, via: Vias, job: Jobs \cup {0},
                          file: NzbFiles \cup {None}, srv: Servers \cup {None},
                          want: Rows]]
\* Every row, server and handler has a state of its kind, a job's file exists
\* (the cascade of NzbFile), and a job knows another job's server only if a
\* caller of PATCH named it: the process itself never mixes servers up.
TypeOK ==
  /\ RowsOK /\ VpsOK /\ ActOK /\ ReferencesOK
  /\ reap \subseteq Servers
  /\ crashes \in 0 .. MaxCrashes

Init ==
  /\ status = [j \in Jobs |-> "absent"]
  /\ nzbFile = [j \in Jobs |-> None]
  /\ serverId = [j \in Jobs |-> None]
  /\ files = NzbFiles /\ own = {}
  /\ tokens = {}
  /\ vps = [s \in Servers |-> "unused"]
  /\ label = [s \in Servers |-> 0]
  /\ act = [a \in Activities |-> Idle]
  /\ reap = {}
  /\ crashes = 0

-----------------------------------------------------------------------------
(* Creating a job                                                          *)

Doing(a, pc) == act[a].pc = pc
Goto(a, pc) == act' = [act EXCEPT ![a].pc = pc]
Done(a) == act' = [act EXCEPT ![a] = Idle]
NoChange == UNCHANGED <<reap, crashes>>

\* An upload of the file is under way.  The query of POST and of the
\* re-upload knows two statuses; a job the drain has claimed is not seen.
Uploading(f) == {j \in Jobs : nzbFile[j] = f /\ status[j] \in {"queued", "running"}}

\* Bound: there is a row for every request that is about to insert one.
RoomForJob ==
  Cardinality({a \in Activities : act[a].pc = "insert"})
    < Cardinality({j \in Jobs : status[j] = "absent"})

\* The reads of the transaction that creates a job, at READ COMMITTED.
\* POST refuses a file that has an upload; the re-upload also one whose
\* movie has a healthy version of its own.
CheckUpload(a, f, via) ==
  /\ Doing(a, "idle")
  /\ f \in files /\ Uploading(f) = {} /\ RoomForJob
  /\ via = "auto" => f \notin own
  /\ act' = [act EXCEPT ![a] = [Idle EXCEPT !.pc = "insert", !.via = via, !.file = f]]
  /\ UNCHANGED <<rowVars, vpsVars>> /\ NoChange

\* Its insert.  POST asks the gate before it goes on, the re-upload does not.
InsertUpload(a) ==
  /\ Doing(a, "insert")
  /\ IF act[a].file \in files
     THEN \E j \in NextOf({k \in Jobs : status[k] = "absent"}) :
            /\ status' = [status EXCEPT ![j] = "queued"]
            /\ nzbFile' = [nzbFile EXCEPT ![j] = act[a].file]
            /\ act' = [act EXCEPT ![a].job = j,
                         ![a].pc = IF act[a].via = "auto" THEN "token" ELSE "gate"]
     ELSE Done(a) /\ UNCHANGED <<status, nzbFile>>
  /\ UNCHANGED <<serverId, files, own, vpsVars>> /\ NoChange

-----------------------------------------------------------------------------
(* The gate and the drain                                                  *)

\* getActiveVpsCounts: a job is counted once it has a server.
Counted == {j \in Jobs : serverId[j] # None /\ status[j] \in {"queued", "running"}}

\* canProvision("upload").
Gate(a) ==
  /\ Doing(a, "gate")
  /\ Cardinality(Counted) < maxUploadVps
  /\ Goto(a, IF act[a].via = "post" THEN "token" ELSE "find")
  /\ UNCHANGED <<rowVars, vpsVars>> /\ NoChange

\* The upload limit is reached, or the global one: the job stays queued.
GateCloses(a) ==
  /\ Doing(a, "gate")
  /\ Done(a)
  /\ UNCHANGED <<rowVars, vpsVars>> /\ NoChange

\* drainQueue from a cleanup of a download.
StartDrain(a) ==
  /\ Doing(a, "idle")
  /\ act' = [act EXCEPT ![a] = [Idle EXCEPT !.pc = "gate", !.via = "drain"]]
  /\ UNCHANGED <<rowVars, vpsVars>> /\ NoChange

Waiting(j) == status[j] = "queued" /\ serverId[j] = None

\* The oldest job that waits.
FindWaiting(a) ==
  /\ Doing(a, "find")
  /\ \/ \E j \in NextOf({k \in Jobs : Waiting(k)}) :
          act' = [act EXCEPT ![a].job = j, ![a].pc = "claim"]
     \/ (\A j \in Jobs : ~Waiting(j)) /\ Done(a)
  /\ UNCHANGED <<rowVars, vpsVars>> /\ NoChange

\* The compare-and-swap of the claim.  The first form forgets its condition.
Claimable_IfExists(j) == Exists(j)
Claimable(j) == Waiting(j)
ClaimUpload(a) ==
  LET j == act[a].job IN
  /\ Doing(a, "claim")
  /\ IF Claimable(j)
     THEN status' = [status EXCEPT ![j] = "provisioning"] /\ Goto(a, "token")
     ELSE Done(a) /\ UNCHANGED status
  /\ UNCHANGED <<nzbFile, serverId, files, own, vpsVars>> /\ NoChange

-----------------------------------------------------------------------------
(* An attempt to get a server                                              *)

\* deleteServiceTokens(jobId)
TokensWithout(j) == {s \in tokens : label[s] # j}

\* resetToQueued: only a claim is returned.  The first form returns whatever
\* became of it.
GivenBack_AnyStatus(a) ==
  IF act[a].via = "drain" /\ Exists(act[a].job)
  THEN [status EXCEPT ![act[a].job] = "queued"] ELSE status
GivenBack(a) ==
  IF act[a].via = "drain" /\ status[act[a].job] = "provisioning"
  THEN [status EXCEPT ![act[a].job] = "queued"] ELSE status

\* The database refuses one of the writes whose failure is only logged: what
\* it leaves behind is what a restart leaves, and it is counted as one.
Lost ==
  /\ Faults /\ crashes < MaxCrashes
  /\ crashes' = crashes + 1

ReturnClaim(a) ==
  \/ status' = GivenBack(a) /\ UNCHANGED crashes
  \/ Lost /\ UNCHANGED status

DropTokens(j) ==
  \/ tokens' = TokensWithout(j) /\ UNCHANGED crashes
  \/ Lost /\ UNCHANGED tokens

\* The end of a failed attempt: the tokens go, then the claim.
GiveUp(a) ==
  \/ /\ tokens' = TokensWithout(act[a].job) /\ status' = GivenBack(a)
     /\ UNCHANGED crashes
  \/ /\ Lost
     /\ tokens' \in {tokens, TokensWithout(act[a].job)}
     /\ status' \in {status, GivenBack(a)}

\* The configuration lacks a key, or the file its s3Key: nothing was created.
\* The first form does not return the claim.
ConfigMissing_Forgets(a) ==
  /\ Doing(a, "token") /\ Done(a)
  /\ UNCHANGED <<rowVars, vpsVars>> /\ NoChange
ConfigMissing(a) ==
  /\ Doing(a, "token")
  /\ ReturnClaim(a)
  /\ Done(a)
  /\ UNCHANGED <<nzbFile, serverId, files, own, vpsVars, reap>>

StoreToken(a) ==
  /\ Doing(a, "token")
  /\ \E s \in NextOf({t \in Servers : vps[t] = "unused"}) :
       /\ vps' = [vps EXCEPT ![s] = "asked"]
       /\ label' = [label EXCEPT ![s] = act[a].job]
       /\ tokens' = tokens \cup {s}
       /\ act' = [act EXCEPT ![a].srv = s, ![a].pc = "create"]
  /\ UNCHANGED rowVars /\ NoChange

CreateServer(a) ==
  /\ Doing(a, "create")
  /\ vps' = [vps EXCEPT ![act[a].srv] = "running"]
  /\ Goto(a, "record")
  /\ UNCHANGED <<rowVars, tokens, label>> /\ NoChange

\* No server, or an answer that was lost: the handler knows of no server.
CreateServerFails(a) ==
  /\ Faults /\ Doing(a, "create")
  /\ \E st \in {"gone", "running"} : vps' = [vps EXCEPT ![act[a].srv] = st]
  /\ act' = [act EXCEPT ![a].srv = None, ![a].pc = "abort"]
  /\ UNCHANGED <<rowVars, tokens, label>> /\ NoChange

\* The row gets its server and is running, whatever happened to it since.
RecordServer(a) ==
  LET j == act[a].job IN
  /\ Doing(a, "record") /\ Exists(j)
  /\ status' = [status EXCEPT ![j] = "running"]
  /\ serverId' = [serverId EXCEPT ![j] = act[a].srv]
  /\ Done(a)
  /\ UNCHANGED <<nzbFile, files, own, vpsVars>> /\ NoChange

\* The row is gone, or the database fails.
RecordServerFails(a) ==
  /\ Doing(a, "record") /\ (Faults \/ ~Exists(act[a].job))
  /\ Goto(a, "abort")
  /\ UNCHANGED <<rowVars, vpsVars>> /\ NoChange

\* POST and the drain delete the server they could not record; the re-upload
\* leaves it running.  All tokens of the job go, those of other attempts too.
Abort(a) ==
  LET s == act[a].srv IN
  /\ Doing(a, "abort")
  /\ vps' = IF s # None /\ act[a].via # "auto" THEN [vps EXCEPT ![s] = "gone"] ELSE vps
  /\ GiveUp(a)
  /\ Done(a)
  /\ UNCHANGED <<nzbFile, serverId, files, own, label, reap>>

\* The server it could not record cannot be deleted either: it runs on.
AbortLosesServer(a) ==
  /\ Faults /\ Doing(a, "abort") /\ act[a].srv # None
  /\ GiveUp(a)
  /\ Done(a)
  /\ UNCHANGED <<nzbFile, serverId, files, own, vps, label, reap>>

-----------------------------------------------------------------------------
(* PATCH /uploads/:id and POST /uploads/:id/cleanup                        *)

\* A server with a token reports; a user may too.
Reports(j) == UserCalls \/ \E s \in tokens : label[s] = j /\ vps[s] = "running"

\* The row is read, and the transition from what was read is checked.
PatchRead(a, j, want) ==
  /\ Doing(a, "idle") /\ Exists(j) /\ Reports(j)
  /\ want \in Allowed(status[j])
  /\ act' = [act EXCEPT ![a] = [Idle EXCEPT !.pc = "write", !.via = "patch", !.job = j,
                                            !.srv = serverId[j], !.want = want]]
  /\ UNCHANGED <<rowVars, vpsVars>> /\ NoChange

\* hetznerServerId of the body, when it names one.
NamedIn(j) == {serverId} \cup {[serverId EXCEPT ![j] = s] : s \in PatchServers}

\* The write has no condition.  A completed upload brings the movie a version
\* of its own; an ended one is followed by the deletion of the server that
\* was read with the row, not of the one the body names.
PatchWrite(a) ==
  LET j == act[a].job  want == act[a].want IN
  /\ Doing(a, "write")
  /\ IF Exists(j)
     THEN /\ status' = [status EXCEPT ![j] = want]
          /\ serverId' \in NamedIn(j)
          /\ own' = IF want = "completed" THEN own \cup {nzbFile[j]} ELSE own
          /\ IF Ended(want) /\ act[a].srv # None
             THEN act' = [act EXCEPT ![a].pc = "kill", ![a].want = "queued"]
             ELSE Done(a)
     ELSE Done(a) /\ UNCHANGED <<status, serverId, own>>
  /\ UNCHANGED <<nzbFile, files, vpsVars>> /\ NoChange

\* A PATCH that names a server and no status is checked against nothing.
PatchServer(j) ==
  /\ Exists(j) /\ Reports(j)
  /\ serverId' \in NamedIn(j) \ {serverId}
  /\ UNCHANGED <<status, nzbFile, files, own, vpsVars, act>> /\ NoChange

\* The cleanup reads the row and the server it has.
Cleanup(a, j) ==
  /\ Doing(a, "idle") /\ Exists(j) /\ Reports(j) /\ serverId[j] # None
  /\ act' = [act EXCEPT ![a] = [Idle EXCEPT !.pc = "kill", !.via = "cleanup", !.job = j,
                                            !.srv = serverId[j]]]
  /\ UNCHANGED <<rowVars, vpsVars>> /\ NoChange

\* A server Hetzner does not know counts as deleted.
Deleted(s) == IF Alive(s) THEN [vps EXCEPT ![s] = "gone"] ELSE vps

DeleteServer(a) ==
  /\ Doing(a, "kill")
  /\ vps' = Deleted(act[a].srv)
  /\ Goto(a, "clear")
  /\ UNCHANGED <<rowVars, tokens, label>> /\ NoChange

\* A failed deletion ends a cleanup; a PATCH goes on as if, without the drain.
DeleteServerFails(a) ==
  /\ Faults /\ Doing(a, "kill")
  /\ IF act[a].via = "cleanup" THEN Done(a)
     ELSE act' = [act EXCEPT ![a].srv = None, ![a].pc = "clear"]
  /\ UNCHANGED <<rowVars, vpsVars>> /\ NoChange

\* The row forgets its server, then the job's tokens go, then the next job
\* that waits gets its turn.
Clear(a) ==
  /\ Doing(a, "clear") /\ Exists(act[a].job)
  /\ serverId' = [serverId EXCEPT ![act[a].job] = None]
  /\ DropTokens(act[a].job)
  /\ act' = [act EXCEPT ![a] = IF act[a].srv # None
                               THEN [Idle EXCEPT !.pc = "gate", !.via = "drain"] ELSE Idle]
  /\ UNCHANGED <<status, nzbFile, files, own, vps, label, reap>>

\* The row is gone, or the database fails: the handler ends there.
ClearFails(a) ==
  /\ Doing(a, "clear") /\ (Faults \/ ~Exists(act[a].job))
  /\ Done(a)
  /\ UNCHANGED <<rowVars, vpsVars>> /\ NoChange

-----------------------------------------------------------------------------
(* The reconciler, the servers, the catalogue, crashes                     *)

\* A server whose job has ended or is gone.  The first form asks for a row.
JobGone_RowRequired(j) == Exists(j) /\ Ended(status[j])
JobGone(j) == ~Exists(j) \/ Ended(status[j])

ZombieProbe(s) ==
  /\ Alive(s) /\ s \notin reap /\ JobGone(label[s])
  /\ reap' = reap \cup {s}
  /\ UNCHANGED <<rowVars, vpsVars, act, crashes>>

ZombieReap(s) ==
  /\ s \in reap
  /\ reap' = reap \ {s}
  /\ vps' = Deleted(s)
  /\ IF Alive(s) THEN DropTokens(label[s]) ELSE UNCHANGED <<tokens, crashes>>
  /\ UNCHANGED <<rowVars, label, act>>

\* Hetzner refuses: the server and its tokens stay until another pass.
ZombieReapFails(s) ==
  /\ Faults /\ s \in reap
  /\ reap' = reap \ {s}
  /\ UNCHANGED <<rowVars, vpsVars, act, crashes>>

\* A server stops by itself, or its host dies.
ServerStops(s) ==
  /\ vps[s] = "running"
  /\ vps' = [vps EXCEPT ![s] = "off"]
  /\ UNCHANGED <<rowVars, tokens, label, act>> /\ NoChange

\* onDelete: Cascade.  The first form keeps the jobs a server works on.
Cascade_KeepsRunning(f) ==
  [j \in Jobs |-> IF status[j] = "queued" /\ nzbFile[j] = f THEN "deleted" ELSE status[j]]
Cascade(f) ==
  [j \in Jobs |-> IF Exists(j) /\ nzbFile[j] = f THEN "deleted" ELSE status[j]]

\* DELETE of a file or its movie takes the upload jobs with it.
DeleteNzbFile(f) ==
  /\ f \in files
  /\ files' = files \ {f}
  /\ status' = Cascade(f)
  /\ UNCHANGED <<nzbFile, serverId, own, vpsVars, act>> /\ NoChange

Crash ==
  /\ crashes < MaxCrashes
  /\ crashes' = crashes + 1
  /\ act' = [a \in Activities |-> Idle]
  /\ reap' = {}
  /\ UNCHANGED <<rowVars, vpsVars>>

\* The steps a handler takes once it was called.
Step(a) ==
  \/ InsertUpload(a) \/ Gate(a) \/ GateCloses(a) \/ FindWaiting(a) \/ ClaimUpload(a)
  \/ ConfigMissing(a) \/ StoreToken(a) \/ CreateServer(a) \/ CreateServerFails(a)
  \/ RecordServer(a) \/ RecordServerFails(a) \/ Abort(a) \/ AbortLosesServer(a)
  \/ PatchWrite(a) \/ DeleteServer(a) \/ DeleteServerFails(a) \/ Clear(a)
  \/ ClearFails(a)

Call(a) ==
  \/ \E f \in NzbFiles, via \in {"post", "auto"} : CheckUpload(a, f, via)
  \/ StartDrain(a)
  \/ \E j \in Jobs : Cleanup(a, j) \/ \E want \in Rows : PatchRead(a, j, want)

Reconcile == \E s \in Servers : ZombieProbe(s) \/ ZombieReap(s) \/ ZombieReapFails(s)

Next ==
  \/ \E a \in Activities : Step(a) \/ Call(a)
  \/ Reconcile
  \/ \E j \in Jobs : PatchServer(j)
  \/ \E s \in Servers : ServerStops(s)
  \/ \E f \in NzbFiles : DeleteNzbFile(f)
  \/ Crash

Spec == Init /\ [][Next]_vars

\* The reconciler keeps scanning, every five minutes, and Hetzner does not
\* refuse for ever a deletion that is asked for again and again.  Nothing makes
\* a server report, a user ask or a drain start, and no handler needs to finish.
FairSpec ==
  /\ Spec
  /\ WF_vars(\E s \in Servers : ZombieProbe(s))
  /\ SF_vars(\E s \in Servers : ZombieReap(s))

-----------------------------------------------------------------------------
(* Properties                                                              *)

\* The attempts of drains that hold a job: from the claim to the record.
Attempting == {"token", "create", "record", "abort"}
Drains(j) == {a \in Activities : act[a].via = "drain" /\ act[a].job = j
                                   /\ act[a].pc \in Attempting}

\* Two drains never work on the same upload, however many run at once and
\* whatever PATCH, cleanup and POST write meanwhile: the claim is a
\* compare-and-swap, and only the drain that holds a job returns it.
DrainsExclude == \A j \in Jobs : Cardinality(Drains(j)) <= 1

\* A claimed upload has a drain that works on it, unless a restart lost the
\* drain or the database refused to take the claim back: every way out of
\* drainUploadQueue records a server, returns the job to the queue or finds
\* that it was deleted.
ClaimHeld ==
  crashes = 0 => \A j \in Jobs : status[j] = "provisioning" => Drains(j) # {}

\* An upload that has ended is never queued or claimed again, so that no drain
\* pays for a second server: a drain that fails returns its claim only, not a
\* job a PATCH has failed under its hands.  (A late PATCH or a late record may
\* still write "running" over the end.)
EndedNotRequeued ==
  [][\A j \in Jobs : Ended(status[j]) => status'[j] \notin {"queued", "provisioning"}]_vars

\* A server whose upload has ended or was deleted does not run for ever:
\* the scan for zombies finds it, also when the row that knew it is gone,
\* unless a late record makes the upload running again.
Orphan(s) == Alive(s) /\ (Exists(label[s]) => Ended(status[label[s]]))
EndedServersGo == \A s \in Servers : Orphan(s) ~> ~Orphan(s)

\* What the comment above the transaction of POST /uploads says: the check
\* and the insert are atomic, parallel requests do not race.
OneUploadPerFile == \A f \in NzbFiles : Cardinality(Uploading(f)) <= 1
=============================================================================
