-------------------------- MODULE UploadJobsProofs --------------------------
(***************************************************************************)
(* What holds of upload jobs for every number of jobs, files, servers,     *)
(* handlers and restarts: the kinds of the state and the references in it, *)
(* that drains exclude each other, and that a claimed job is held.         *)
(*                                                                         *)
(* The argument about drains is not about their claims alone: a job that a *)
(* drain holds must not become "queued" again while it does.  Only three   *)
(* places write "queued": the insert of a row that did not exist, the drain *)
(* that gives up (which then holds nothing), and a PATCH, whose transition *)
(* table leads nowhere to "queued".                                        *)
(***************************************************************************)
EXTENDS UploadJobs, FiniteSetTheorems, TLAPS

ActStates == [pc: Pcs, via: Vias, job: Jobs \cup {0}, file: NzbFiles \cup {None},
              srv: Servers \cup {None}, want: Rows]

\* A handler knows the job it works on, and a server that was asked for.
HandlersKnow ==
  \A a \in Activities :
    /\ act[a].pc \in {"claim", "token", "create", "record", "abort", "write", "kill", "clear"}
         => act[a].job \in Jobs
    /\ act[a].pc = "gate" /\ act[a].via = "post" => act[a].job \in Jobs
    /\ act[a].pc = "insert" => act[a].file \in NzbFiles
    /\ act[a].pc \in {"create", "record"} =>
         /\ act[a].srv \in Servers /\ label[act[a].srv] = act[a].job
         /\ vps[act[a].srv] # "unused"
    /\ act[a].pc = "kill" => act[a].srv \in Servers

\* The server of a row was asked for, so its label never changes, unless a
\* caller named it.
RowsKnow ==
  \A j \in Jobs : serverId[j] # None =>
    vps[serverId[j]] # "unused" \/ serverId[j] \in PatchServers

KindsInv == TypeOK /\ HandlersKnow /\ RowsKnow

Holds(a) == act[a].via = "drain" /\ act[a].pc \in Attempting

\* A job that a drain holds is not queued, and no other drain holds it.
HoldsInv ==
  /\ \A a \in Activities : Holds(a) => status[act[a].job] \notin {"queued", "absent"}
  /\ \A a, b \in Activities : Holds(a) /\ Holds(b) /\ act[a].job = act[b].job => a = b
  /\ \A a \in Activities : act[a].pc = "claim" => status[act[a].job] # "absent"
  /\ \A a \in Activities : /\ act[a].pc = "insert" => act[a].via \in {"post", "auto"}
                           /\ act[a].pc = "gate" => act[a].via \in {"post", "drain"}
                           /\ act[a].pc \in {"find", "claim"} => act[a].via = "drain"
  /\ \A a \in Activities : act[a].pc = "write" => act[a].want \in {"running", "completed", "failed"}

-----------------------------------------------------------------------------
(* Kinds and references                                                    *)

\* Before the first job everything has its kind.
LEMMA InitKinds == Init => KindsInv
  BY ConstantsAssumption DEF Init, KindsInv, TypeOK, RowsOK, ReferencesOK, VpsOK, ActOK,
     HandlersKnow, RowsKnow, Idle, Exists, Rows, STATUS_TRANSITIONS, Pcs, Vias

\* A handler that moves to x is the only one that moves.
LEMMA Moves ==
  ASSUME KindsInv, NEW a \in Activities, NEW x \in ActStates, act' = [act EXCEPT ![a] = x]
  PROVE  /\ act' \in [Activities -> ActStates]
         /\ act'[a] = x /\ \A b \in Activities \ {a} : act'[b] = act[b]
  BY DEF KindsInv, TypeOK, ActOK, ActStates

\* What the insert of a job leaves: a new row, and a handler that goes on.
LEMMA Inserted ==
  ASSUME KindsInv, NEW a \in Activities, InsertUpload(a)
  PROVE  \/ Done(a) /\ UNCHANGED <<status, nzbFile>>
         \/ \E j \in Jobs, x \in ActStates :
              /\ status[j] = "absent" /\ act[a].file \in files
              /\ status' = [status EXCEPT ![j] = "queued"]
              /\ nzbFile' = [nzbFile EXCEPT ![j] = act[a].file]
              /\ act' = [act EXCEPT ![a] = x]
              /\ x.pc \in {"token", "gate"} /\ x.job = j /\ x.srv = act[a].srv
              /\ x.via = act[a].via /\ (x.pc = "token" <=> x.via = "auto")
  <1> SUFFICES ASSUME act[a].file \in files
               PROVE  \E j \in Jobs, x \in ActStates :
                        /\ status[j] = "absent" /\ act[a].file \in files
                        /\ status' = [status EXCEPT ![j] = "queued"]
                        /\ nzbFile' = [nzbFile EXCEPT ![j] = act[a].file]
                        /\ act' = [act EXCEPT ![a] = x]
                        /\ x.pc \in {"token", "gate"} /\ x.job = j /\ x.srv = act[a].srv
                        /\ x.via = act[a].via /\ (x.pc = "token" <=> x.via = "auto")
    BY DEF InsertUpload
  <1> DEFINE pc == IF act[a].via = "auto" THEN "token" ELSE "gate"
  <1>1. PICK j \in Jobs : /\ status[j] = "absent"
                          /\ status' = [status EXCEPT ![j] = "queued"]
                          /\ nzbFile' = [nzbFile EXCEPT ![j] = act[a].file]
                          /\ act' = [act EXCEPT ![a].job = j, ![a].pc = pc]
    BY DEF InsertUpload, NextOf
  <1> DEFINE x == [act[a] EXCEPT !.job = j, !.pc = pc]
  <1>2. pc \in {"token", "gate"} /\ (pc = "token" <=> act[a].via = "auto") /\ act[a] \in ActStates
    BY DEF KindsInv, TypeOK, ActOK, ActStates
  <1>3. act' = [act EXCEPT ![a] = x]
    BY <1>1
  <1> HIDE DEF pc
  <1>4. /\ x \in ActStates /\ x.pc = pc /\ x.job = j /\ x.srv = act[a].srv /\ x.via = act[a].via
    BY <1>2 DEF ActStates, Pcs
  <1> HIDE DEF x
  <1> QED
    BY <1>1, <1>2, <1>3, <1>4

\* What the search for a waiting job leaves.
LEMMA Found ==
  ASSUME KindsInv, NEW a \in Activities, FindWaiting(a)
  PROVE  \/ Done(a)
         \/ \E j \in Jobs, x \in ActStates :
              /\ Waiting(j) /\ act' = [act EXCEPT ![a] = x]
              /\ x.pc = "claim" /\ x.job = j /\ x.srv = act[a].srv /\ x.via = act[a].via
  <1> SUFFICES ASSUME ~Done(a)
               PROVE  \E j \in Jobs, x \in ActStates :
                        /\ Waiting(j) /\ act' = [act EXCEPT ![a] = x]
                        /\ x.pc = "claim" /\ x.job = j /\ x.srv = act[a].srv /\ x.via = act[a].via
    OBVIOUS
  <1>0. PICK j \in Jobs : Waiting(j) /\ act' = [act EXCEPT ![a].job = j, ![a].pc = "claim"]
    BY DEF FindWaiting, NextOf
  <1> DEFINE x == [act[a] EXCEPT !.job = j, !.pc = "claim"]
  <1>1. act' = [act EXCEPT ![a] = x] /\ act[a] \in ActStates
    BY <1>0 DEF KindsInv, TypeOK, ActOK, ActStates
  <1>2. x \in ActStates /\ x.pc = "claim" /\ x.job = j /\ x.srv = act[a].srv /\ x.via = act[a].via
    BY <1>1 DEF ActStates, Pcs
  <1> QED
    BY <1>0, <1>1, <1>2

\* What a PATCH makes of the servers of the rows.
LEMMA Named ==
  ASSUME KindsInv, NEW j \in Jobs, serverId' \in NamedIn(j)
  PROVE  /\ serverId' \in [Jobs -> Servers \cup {None}]
         /\ \A k \in Jobs : serverId'[k] = serverId[k] \/ serverId'[k] \in PatchServers
  BY ConstantsAssumption DEF NamedIn, KindsInv, TypeOK, RowsOK

\* A PATCH that goes on to delete a server.
LEMMA ToKill ==
  ASSUME NEW y \in ActStates
  PROVE  LET x == [y EXCEPT !.pc = "kill", !.want = "queued"]
         IN x \in ActStates /\ x.pc = "kill" /\ x.job = y.job /\ x.srv = y.srv
  BY DEF ActStates, Pcs, Rows, STATUS_TRANSITIONS

\* A handler that ends leaves the kinds as they are.
LEMMA KindsDone ==
  ASSUME KindsInv, NEW a \in Activities, Done(a), UNCHANGED <<rowVars, vpsVars, reap, crashes>>
  PROVE  KindsInv'
  <1>1. Idle \in ActStates /\ Idle.pc = "idle"
    BY ConstantsAssumption DEF Idle, ActStates, Pcs, Vias, Rows, STATUS_TRANSITIONS
  <1>2. /\ act' \in [Activities -> ActStates]
        /\ act'[a] = Idle /\ \A b \in Activities \ {a} : act'[b] = act[b]
    BY <1>1, Moves DEF Done
  <1> QED
    BY <1>1, <1>2 DEF KindsInv, TypeOK, RowsOK, ReferencesOK, VpsOK, ActOK, ActStates,
       HandlersKnow, RowsKnow, Exists, rowVars, vpsVars

\* The steps of a handler.
LEMMA KindsStep ==
  ASSUME KindsInv, NEW a \in Activities, Step(a)
  PROVE  KindsInv'
  <1> USE ConstantsAssumption DEF KindsInv, TypeOK, RowsOK, ReferencesOK, VpsOK, ActOK,
     HandlersKnow, RowsKnow, Exists, Doing, Goto, Done, NoChange, rowVars, vpsVars, Idle
  <1> USE DEF Rows, STATUS_TRANSITIONS, Pcs, Vias
  <1>1. CASE InsertUpload(a)
    <2>1. ASSUME NEW j \in Jobs, NEW x \in ActStates,
                 status[j] = "absent", act[a].file \in files,
                 status' = [status EXCEPT ![j] = "queued"],
                 nzbFile' = [nzbFile EXCEPT ![j] = act[a].file],
                 act' = [act EXCEPT ![a] = x],
                 x.pc \in {"token", "gate"}, x.job = j, x.srv = act[a].srv
          PROVE  KindsInv'
      <3>0. /\ act' \in [Activities -> ActStates]
            /\ act'[a] = x /\ \A b \in Activities \ {a} : act'[b] = act[b]
        BY <2>1, Moves
      <3>a. UNCHANGED <<vps, label>>
        BY <1>1 DEF InsertUpload
      <3>1. HandlersKnow'
        BY <2>1, <3>0, <3>a
      <3>2. RowsOK' /\ ReferencesOK' /\ RowsKnow'
        BY <1>1, <2>1 DEF InsertUpload
      <3> QED
        BY <1>1, <2>1, <3>0, <3>1, <3>2 DEF InsertUpload, ActStates
    <2>2. CASE Done(a) /\ UNCHANGED <<status, nzbFile>>
      BY <1>1, <2>2 DEF InsertUpload
    <2> QED
      BY <1>1, <2>1, <2>2, Inserted
  <1>2. CASE Gate(a)
    <2>1. PICK pc \in {"token", "find"} : /\ act' = [act EXCEPT ![a].pc = pc]
                                         /\ pc = "token" => act[a].via = "post"
      BY <1>2 DEF Gate
    <2> QED
      BY <1>2, <2>1 DEF Gate
  <1>3. CASE GateCloses(a)
    BY <1>3 DEF GateCloses
  <1>4. CASE FindWaiting(a)
    <2>1. ASSUME NEW j \in Jobs, NEW x \in ActStates, act' = [act EXCEPT ![a] = x],
                 x.pc = "claim", x.job = j, x.srv = act[a].srv
          PROVE  KindsInv'
      <3>1. /\ act' \in [Activities -> ActStates]
            /\ act'[a] = x /\ \A b \in Activities \ {a} : act'[b] = act[b]
        BY <2>1, Moves
      <3>2. UNCHANGED <<rowVars, vpsVars, reap, crashes>>
        BY <1>4 DEF FindWaiting
      <3> QED
        BY <2>1, <3>1, <3>2 DEF ActStates
    <2>2. CASE Done(a)
      BY <1>4, <2>2 DEF FindWaiting
    <2> QED
      BY <1>4, <2>1, <2>2, Found
  <1>5. CASE ClaimUpload(a)
    BY <1>5 DEF ClaimUpload, Claimable, Waiting
  <1>6. CASE ConfigMissing(a)
    BY <1>6 DEF ConfigMissing, ReturnClaim, GivenBack, Lost
  <1>7. CASE StoreToken(a)
    BY <1>7 DEF StoreToken, NextOf
  <1>8. CASE CreateServer(a)
    BY <1>8 DEF CreateServer
  <1>9. CASE CreateServerFails(a)
    BY <1>9 DEF CreateServerFails
  <1>10. CASE RecordServer(a)
    BY <1>10 DEF RecordServer, Exists
  <1>11. CASE RecordServerFails(a)
    <2>1. act' = [act EXCEPT ![a] = [act[a] EXCEPT !.pc = "abort"]] /\ act[a].pc = "record"
      BY <1>11 DEF RecordServerFails
    <2>2. UNCHANGED <<rowVars, vpsVars, reap, crashes>>
      BY <1>11 DEF RecordServerFails
    <2>3. RowsOK' /\ ReferencesOK' /\ VpsOK' /\ RowsKnow'
      BY <2>2
    <2> QED
      BY <2>1, <2>2, <2>3
  <1>12. CASE Abort(a)
    BY <1>12 DEF Abort, GiveUp, GivenBack, Lost, TokensWithout
  <1>13. CASE AbortLosesServer(a)
    BY <1>13 DEF AbortLosesServer, GiveUp, GivenBack, Lost, TokensWithout
  <1>14. CASE PatchWrite(a)
    <2>0. CASE Exists(act[a].job)
      <3>1. /\ act[a].job \in Jobs /\ nzbFile[act[a].job] \in files
            /\ act[a].want \in Rows /\ act[a].srv \in Servers \cup {None}
        BY <1>14, <2>0 DEF PatchWrite
      <3>2. /\ serverId' \in [Jobs -> Servers \cup {None}]
            /\ \A j \in Jobs : serverId'[j] = serverId[j] \/ serverId'[j] \in PatchServers
        BY <1>14, <2>0, <3>1, Named DEF PatchWrite
      <3>3. /\ status' = [status EXCEPT ![act[a].job] = act[a].want]
            /\ own' \subseteq NzbFiles
            /\ UNCHANGED <<nzbFile, files, tokens, vps, label, reap, crashes>>
        BY <1>14, <2>0, <3>1 DEF PatchWrite
      <3>4. RowsOK' /\ ReferencesOK' /\ RowsKnow'
        BY <2>0, <3>1, <3>2, <3>3
      <3>5. PICK x \in ActStates : /\ act' = [act EXCEPT ![a] = x]
                                   /\ x.pc \in {"kill", "idle"}
                                   /\ x.pc = "kill" => x.job \in Jobs /\ x.srv \in Servers
        <4>1. CASE Ended(act[a].want) /\ act[a].srv # None
          <5> DEFINE x == [act[a] EXCEPT !.pc = "kill", !.want = "queued"]
          <5>1. act' = [act EXCEPT ![a] = x] /\ act[a] \in ActStates
            BY <1>14, <2>0, <4>1 DEF PatchWrite, ActStates
          <5>2. x \in ActStates /\ x.pc = "kill" /\ x.job = act[a].job /\ x.srv = act[a].srv
            BY <5>1, ToKill
          <5> HIDE DEF x
          <5> QED
            BY <3>1, <4>1, <5>1, <5>2
        <4>2. CASE ~(Ended(act[a].want) /\ act[a].srv # None)
          BY <1>14, <2>0, <4>2 DEF PatchWrite, ActStates
        <4> QED
          BY <4>1, <4>2
      <3>6. ActOK' /\ HandlersKnow'
        <4>1. /\ act' \in [Activities -> ActStates]
              /\ act'[a] = x /\ \A b \in Activities \ {a} : act'[b] = act[b]
          BY <3>5, Moves
        <4> QED
          BY <3>3, <3>5, <4>1 DEF ActStates
      <3> QED
        BY <3>3, <3>4, <3>6
    <2>3. CASE ~Exists(act[a].job)
      BY <1>14, <2>3, KindsDone DEF PatchWrite
    <2> QED
      BY <2>0, <2>3
  <1>15. CASE DeleteServer(a)
    BY <1>15 DEF DeleteServer, Deleted, Alive
  <1>16. CASE DeleteServerFails(a)
    BY <1>16 DEF DeleteServerFails
  <1>17. CASE Clear(a)
    <2>1. PICK x \in {[Idle EXCEPT !.pc = "gate", !.via = "drain"], Idle} : act' = [act EXCEPT ![a] = x]
      BY <1>17 DEF Clear
    <2>2. tokens' \subseteq tokens /\ crashes' \in 0 .. MaxCrashes
      BY <1>17 DEF Clear, DropTokens, TokensWithout, Lost
    <2>3. x \in ActStates /\ x.srv = None /\ x.pc \in {"gate", "idle"} /\ (x.pc = "gate" => x.via = "drain")
      <3>1. Idle \in ActStates /\ Idle.srv = None /\ Idle.pc = "idle"
        BY DEF ActStates
      <3>2. CASE x = Idle
        BY <3>1, <3>2
      <3>3. CASE x = [Idle EXCEPT !.pc = "gate", !.via = "drain"]
        BY <3>3 DEF ActStates
      <3> QED
        BY <2>1, <3>2, <3>3
    <2>4. act' \in [Activities -> ActStates] /\ act'[a] = x /\ \A b \in Activities \ {a} : act'[b] = act[b]
      BY <2>1, <2>3 DEF ActStates
    <2>5. HandlersKnow'
      BY <1>17, <2>3, <2>4 DEF Clear
    <2>6. RowsOK' /\ ReferencesOK' /\ RowsKnow'
      BY <1>17 DEF Clear
    <2> QED
      BY <1>17, <2>2, <2>4, <2>5, <2>6 DEF Clear, ActStates
  <1>18. CASE ClearFails(a)
    BY <1>18 DEF ClearFails, Exists
  <1> QED
    BY <1>1, <1>2, <1>3, <1>4, <1>5, <1>6, <1>7, <1>8, <1>9, <1>10, <1>11, <1>12, <1>13, <1>14,
       <1>15, <1>16, <1>17, <1>18 DEF Step

\* The calls of handlers, the reconciler, the servers, the catalogue, restarts.
LEMMA KindsOthers ==
  ASSUME KindsInv,
         \/ \E a \in Activities : Call(a)
         \/ Reconcile \/ Crash \/ UNCHANGED vars
         \/ \E j \in Jobs : PatchServer(j)
         \/ \E s \in Servers : ServerStops(s)
         \/ \E f \in NzbFiles : DeleteNzbFile(f)
  PROVE  KindsInv'
  <1> USE ConstantsAssumption
      DEF KindsInv, TypeOK, RowsOK, ReferencesOK, VpsOK, ActOK, HandlersKnow, RowsKnow, Exists,
          Doing, Goto, Done, NoChange, rowVars, vpsVars, Idle, Rows, STATUS_TRANSITIONS, Pcs, Vias
  <1>1. ASSUME NEW a \in Activities, NEW f \in NzbFiles, NEW via \in {"post", "auto"},
               CheckUpload(a, f, via)
        PROVE  KindsInv'
    BY <1>1 DEF CheckUpload
  <1>2. ASSUME NEW a \in Activities, StartDrain(a) PROVE KindsInv'
    BY <1>2 DEF StartDrain
  <1>3. ASSUME NEW a \in Activities, NEW j \in Jobs, Cleanup(a, j) PROVE KindsInv'
    <2> DEFINE x == [Idle EXCEPT !.pc = "kill", !.via = "cleanup", !.job = j, !.srv = serverId[j]]
    <2>1. act' = [act EXCEPT ![a] = x] /\ serverId[j] \in Servers
      BY <1>3 DEF Cleanup
    <2>2. x \in ActStates /\ x.pc = "kill" /\ x.job = j /\ x.srv = serverId[j]
      BY <2>1 DEF ActStates
    <2> HIDE DEF x
    <2> QED
      BY <1>3, <2>1, <2>2, Moves DEF Cleanup, ActStates
  <1>4. ASSUME NEW a \in Activities, NEW j \in Jobs, NEW want \in Rows, PatchRead(a, j, want)
        PROVE  KindsInv'
    <2> DEFINE x == [Idle EXCEPT !.pc = "write", !.via = "patch", !.job = j,
                                 !.srv = serverId[j], !.want = want]
    <2>1. act' = [act EXCEPT ![a] = x] /\ serverId[j] \in Servers \cup {None}
      BY <1>4 DEF PatchRead
    <2>2. x \in ActStates /\ x.pc = "write" /\ x.job = j
      BY <2>1 DEF ActStates
    <2> HIDE DEF x
    <2>3. /\ act' \in [Activities -> ActStates]
          /\ act'[a] = x /\ \A b \in Activities \ {a} : act'[b] = act[b]
      BY <2>1, <2>2, Moves
    <2>4. UNCHANGED <<rowVars, vpsVars, reap, crashes>>
      BY <1>4 DEF PatchRead
    <2> QED
      BY <2>2, <2>3, <2>4 DEF ActStates
  <1>5. CASE Reconcile
    BY <1>5 DEF Reconcile, ZombieProbe, ZombieReap, ZombieReapFails, Deleted, Alive, DropTokens,
       TokensWithout, Lost
  <1>6. CASE Crash
    BY <1>6 DEF Crash
  <1>7. CASE UNCHANGED vars
    BY <1>7 DEF vars
  <1>8. CASE \E s \in Servers : ServerStops(s)
    BY <1>8 DEF ServerStops
  <1>9. CASE \E f \in NzbFiles : DeleteNzbFile(f)
    BY <1>9 DEF DeleteNzbFile, Cascade
  <1>10. ASSUME NEW j \in Jobs, PatchServer(j) PROVE KindsInv'
    <2>1. serverId' \in NamedIn(j)
      BY <1>10 DEF PatchServer
    <2>2. UNCHANGED <<status, nzbFile, files, own, tokens, vps, label, act, reap, crashes>>
      BY <1>10 DEF PatchServer
    <2> QED
      BY <2>1, <2>2, Named
  <1> HIDE DEF KindsInv, TypeOK, RowsOK, ReferencesOK, VpsOK, ActOK, HandlersKnow, RowsKnow, Exists,
          Doing, Goto, Done, NoChange, rowVars, vpsVars, Idle, Rows, STATUS_TRANSITIONS, Pcs, Vias
  <1> QED
    BY <1>1, <1>2, <1>3, <1>4, <1>5, <1>6, <1>7, <1>8, <1>9, <1>10 DEF Call

\* Every step keeps kinds and references.
LEMMA KindsKept == KindsInv /\ [Next]_vars => KindsInv'
  BY KindsStep, KindsOthers DEF Next

\* Rows, servers and handlers have states of their kinds, a job's file exists,
\* and a job knows another job's server only if a caller of PATCH named it,
\* whatever is lost or restarted.
THEOREM UploadTypeOK == Spec => []TypeOK
  <1>1. KindsInv => TypeOK
    BY DEF KindsInv
  <1> QED
    BY <1>1, InitKinds, KindsKept, PTL DEF Spec

-----------------------------------------------------------------------------
(* The drains                                                              *)

\* A handler that ends holds nothing any more.
LEMMA HoldsDone ==
  ASSUME KindsInv, HoldsInv, NEW a \in Activities, Done(a), UNCHANGED status
  PROVE  HoldsInv'
  <1>1. Idle \in ActStates /\ Idle.pc = "idle"
    BY ConstantsAssumption DEF Idle, ActStates, Pcs, Vias, Rows, STATUS_TRANSITIONS
  <1>2. act'[a] = Idle /\ \A b \in Activities \ {a} : act'[b] = act[b]
    BY <1>1, Moves DEF Done
  <1> QED
    BY <1>1, <1>2 DEF HoldsInv, Holds, Attempting

\* Only a claim makes a drain hold a job, and only the drain that holds one
\* writes "queued" to it, as it lets it go.
LEMMA HoldsStep ==
  ASSUME KindsInv, HoldsInv,
         NEW a \in Activities, Step(a)
  PROVE  HoldsInv'
  <1> USE ConstantsAssumption DEF KindsInv, TypeOK, RowsOK, ActOK, HandlersKnow, HoldsInv, Holds,
     Attempting,
          Doing, Goto, Done, NoChange, rowVars, vpsVars, Idle
  <1>1. CASE InsertUpload(a)
    <2>1. ASSUME NEW j \in Jobs, NEW x \in ActStates, status[j] = "absent",
                 status' = [status EXCEPT ![j] = "queued"], act' = [act EXCEPT ![a] = x],
                 x.pc \in {"token", "gate"}, x.via = act[a].via, x.pc = "token" <=> x.via = "auto", x.job = j
          PROVE  HoldsInv'
      <3>1. act'[a] = x /\ \A b \in Activities \ {a} : act'[b] = act[b]
        BY <2>1, Moves
      <3>2. crashes' = crashes /\ act[a].pc = "insert"
        BY <1>1 DEF InsertUpload
      <3> QED
        BY <2>1, <3>1, <3>2
    <2>2. CASE Done(a) /\ UNCHANGED <<status, nzbFile>>
      BY <1>1, <2>2, HoldsDone DEF InsertUpload
    <2> QED
      BY <1>1, <2>1, <2>2, Inserted
  <1>2. CASE Gate(a)
    BY <1>2 DEF Gate
  <1>3. CASE GateCloses(a)
    BY <1>3 DEF GateCloses
  <1>4. CASE FindWaiting(a)
    <2>1. ASSUME NEW j \in Jobs, NEW x \in ActStates, Waiting(j), act' = [act EXCEPT ![a] = x],
                 x.pc = "claim", x.job = j, x.via = act[a].via
          PROVE  HoldsInv'
      <3>1. act'[a] = x /\ \A b \in Activities \ {a} : act'[b] = act[b]
        BY <2>1, Moves
      <3>2. crashes' = crashes /\ status' = status /\ status[j] = "queued"
        BY <1>4, <2>1 DEF FindWaiting, Waiting
      <3>3. act[a].pc = "find"
        BY <1>4 DEF FindWaiting
      <3> QED
        BY <2>1, <3>1, <3>2, <3>3
    <2>2. CASE Done(a)
      BY <1>4, <2>2, HoldsDone DEF FindWaiting
    <2> QED
      BY <1>4, <2>1, <2>2, Found
  <1>5. CASE ClaimUpload(a)
    <2>1. act[a].pc = "claim" /\ act[a].via = "drain" /\ act[a].job \in Jobs
      BY <1>5 DEF ClaimUpload
    <2>2. CASE Claimable(act[a].job)
      <3>1. /\ status[act[a].job] = "queued"
            /\ status' = [status EXCEPT ![act[a].job] = "provisioning"]
            /\ act' = [act EXCEPT ![a].pc = "token"]
        BY <1>5, <2>2 DEF ClaimUpload, Claimable, Waiting
      <3>2. \A b \in Activities : Holds(b) => act[b].job # act[a].job
        BY <3>1
      <3>3. \A b \in Activities \ {a} : act'[b] = act[b]
        BY <3>1
      <3>4. act'[a].pc = "token" /\ act'[a].via = "drain" /\ act'[a].job = act[a].job
        BY <2>1, <3>1
      <3> QED
        BY <2>1, <3>1, <3>2, <3>3, <3>4
    <2>3. CASE ~Claimable(act[a].job)
      BY <1>5, <2>3, HoldsDone DEF ClaimUpload
    <2> QED
      BY <2>2, <2>3
  <1>6. CASE ConfigMissing(a)
    BY <1>6 DEF ConfigMissing, ReturnClaim, GivenBack, Lost
  <1>7. CASE StoreToken(a)
    BY <1>7 DEF StoreToken, NextOf
  <1>8. CASE CreateServer(a)
    BY <1>8 DEF CreateServer
  <1>9. CASE CreateServerFails(a)
    BY <1>9 DEF CreateServerFails
  <1>10. CASE RecordServer(a)
    BY <1>10 DEF RecordServer, Exists
  <1>11. CASE RecordServerFails(a)
    BY <1>11 DEF RecordServerFails, Exists
  <1>12. CASE Abort(a)
    BY <1>12 DEF Abort, GiveUp, GivenBack, Lost, TokensWithout
  <1>13. CASE AbortLosesServer(a)
    BY <1>13 DEF AbortLosesServer, GiveUp, GivenBack, Lost, TokensWithout
  <1>14. CASE PatchWrite(a)
    <2>1. act[a].want \in {"running", "completed", "failed"} /\ act[a].job \in Jobs
      BY <1>14 DEF PatchWrite, HoldsInv
    <2>2. status' = status \/ status' = [status EXCEPT ![act[a].job] = act[a].want]
      BY <1>14 DEF PatchWrite
    <2>3. act'[a].pc \in {"kill", "idle"} /\ \A b \in Activities \ {a} : act'[b] = act[b]
      BY <1>14 DEF PatchWrite
    <2>4. crashes' = crashes /\ act[a].pc = "write"
      BY <1>14 DEF PatchWrite
    <2> QED
      BY <2>1, <2>2, <2>3, <2>4
  <1>15. CASE DeleteServer(a)
    BY <1>15 DEF DeleteServer
  <1>16. CASE DeleteServerFails(a)
    <2>1. status' = status /\ act[a].pc = "kill"
      BY <1>16 DEF DeleteServerFails
    <2>2. CASE Done(a)
      BY <2>1, <2>2, HoldsDone
    <2>3. CASE act' = [act EXCEPT ![a].srv = None, ![a].pc = "clear"]
      <3>1. act'[a].pc = "clear" /\ \A b \in Activities \ {a} : act'[b] = act[b]
        BY <2>3
      <3> QED
        BY <2>1, <3>1
    <2> QED
      BY <1>16, <2>2, <2>3 DEF DeleteServerFails
  <1>17. CASE Clear(a)
    BY <1>17 DEF Clear, DropTokens, TokensWithout, Lost
  <1>18. CASE ClearFails(a)
    BY <1>18 DEF ClearFails, Exists
  <1> QED
    BY <1>1, <1>2, <1>3, <1>4, <1>5, <1>6, <1>7, <1>8, <1>9,
       <1>10, <1>11, <1>12, <1>13, <1>14, <1>15, <1>16, <1>17, <1>18 DEF Step

\* A handler that holds nothing may move, as long as no job becomes claimed.
LEMMA HeldMove ==
  ASSUME ClaimHeld, NEW a \in Activities, ~Holds(a), crashes' = crashes,
         \A b \in Activities \ {a} : act'[b] = act[b],
         \A k \in Jobs : status'[k] = "provisioning" => status[k] = "provisioning"
  PROVE  ClaimHeld'
  <1> SUFFICES ASSUME crashes = 0, NEW k \in Jobs, status[k] = "provisioning" PROVE Drains(k)' # {}
    BY DEF ClaimHeld
  <1>1. PICK b \in Activities : act[b].via = "drain" /\ act[b].job = k /\ act[b].pc \in Attempting
    BY DEF ClaimHeld, Drains
  <1>2. act'[b] = act[b]
    BY <1>1 DEF Holds
  <1> QED
    BY <1>1, <1>2 DEF Drains

\* It may also end.
LEMMA HeldDone ==
  ASSUME KindsInv, ClaimHeld, NEW a \in Activities, Done(a), ~Holds(a), crashes' = crashes, status' = status
  PROVE  ClaimHeld'
  BY HeldMove DEF Done, KindsInv, TypeOK, ActOK

\* A drain leaves a claimed job only after it is no longer claimed, or after a
\* write that was lost and counted.
LEMMA HeldStep ==
  ASSUME KindsInv, HoldsInv, ClaimHeld,
         NEW a \in Activities, Step(a)
  PROVE  ClaimHeld'
  <1> USE ConstantsAssumption DEF KindsInv, TypeOK, RowsOK, ActOK, HandlersKnow, ClaimHeld,
     Drains, Attempting,
          Doing, Goto, Done, NoChange, rowVars, vpsVars, Idle
  <1>1. CASE InsertUpload(a)
    <2>1. ASSUME NEW j \in Jobs, NEW x \in ActStates, status[j] = "absent",
                 status' = [status EXCEPT ![j] = "queued"], act' = [act EXCEPT ![a] = x],
                 x.pc \in {"token", "gate"}, x.via = act[a].via, x.pc = "token" <=> x.via = "auto", x.job = j
          PROVE  ClaimHeld'
      <3>1. act'[a] = x /\ \A b \in Activities \ {a} : act'[b] = act[b]
        BY <2>1, Moves
      <3>2. crashes' = crashes /\ act[a].pc = "insert"
        BY <1>1 DEF InsertUpload
      <3>3. ~Holds(a) /\ \A k \in Jobs : status'[k] = "provisioning" => status[k] = "provisioning"
        BY <2>1, <3>1, <3>2 DEF Holds
      <3> QED
        BY <3>1, <3>2, <3>3, HeldMove
    <2>2. CASE Done(a) /\ UNCHANGED <<status, nzbFile>>
      <3>1. ~Holds(a) /\ crashes' = crashes /\ status' = status
        BY <1>1, <2>2 DEF InsertUpload, Holds
      <3> QED
        BY <2>2, <3>1, HeldDone
    <2> QED
      BY <1>1, <2>1, <2>2, Inserted
  <1>2. CASE Gate(a)
    BY <1>2 DEF Gate
  <1>3. CASE GateCloses(a)
    BY <1>3 DEF GateCloses
  <1>4. CASE FindWaiting(a)
    <2>1. ASSUME NEW j \in Jobs, NEW x \in ActStates, Waiting(j), act' = [act EXCEPT ![a] = x],
                 x.pc = "claim", x.job = j, x.via = act[a].via
          PROVE  ClaimHeld'
      <3>1. act'[a] = x /\ \A b \in Activities \ {a} : act'[b] = act[b]
        BY <2>1, Moves
      <3>2. crashes' = crashes /\ status' = status /\ status[j] = "queued"
        BY <1>4, <2>1 DEF FindWaiting, Waiting
      <3>3. act[a].pc = "find"
        BY <1>4 DEF FindWaiting
      <3>4. ~Holds(a) /\ \A k \in Jobs : status'[k] = "provisioning" => status[k] = "provisioning"
        BY <2>1, <3>1, <3>2, <3>3 DEF Holds
      <3> QED
        BY <3>1, <3>2, <3>4, HeldMove
    <2>2. CASE Done(a)
      <3>1. ~Holds(a) /\ crashes' = crashes /\ status' = status
        BY <1>4, <2>2 DEF FindWaiting, Holds
      <3> QED
        BY <2>2, <3>1, HeldDone
    <2> QED
      BY <1>4, <2>1, <2>2, Found
  <1>5. CASE ClaimUpload(a)
    <2>1. CASE Claimable(act[a].job)
      <3>1. act' = [act EXCEPT ![a].pc = "token"] /\ act[a].job \in Jobs /\ act[a].via = "drain"
        BY <1>5, <2>1 DEF ClaimUpload, HoldsInv
      <3>2. act'[a].job = act[a].job /\ act'[a].via = act[a].via /\ act'[a].pc = "token"
        BY <3>1
      <3> QED
        BY <1>5, <2>1, <3>1, <3>2 DEF ClaimUpload, Claimable, Waiting
    <2>2. CASE ~Claimable(act[a].job)
      BY <1>5, <2>2 DEF ClaimUpload
    <2> QED
      BY <2>1, <2>2
  <1>6. CASE ConfigMissing(a)
    BY <1>6 DEF ConfigMissing, ReturnClaim, GivenBack, Lost
  <1>7. CASE StoreToken(a)
    BY <1>7 DEF StoreToken, NextOf
  <1>8. CASE CreateServer(a)
    BY <1>8 DEF CreateServer
  <1>9. CASE CreateServerFails(a)
    BY <1>9 DEF CreateServerFails
  <1>10. CASE RecordServer(a)
    BY <1>10 DEF RecordServer, Exists
  <1>11. CASE RecordServerFails(a)
    BY <1>11 DEF RecordServerFails, Exists
  <1>12. CASE Abort(a)
    BY <1>12 DEF Abort, GiveUp, GivenBack, Lost, TokensWithout
  <1>13. CASE AbortLosesServer(a)
    BY <1>13 DEF AbortLosesServer, GiveUp, GivenBack, Lost, TokensWithout
  <1>14. CASE PatchWrite(a)
    <2>1. act[a].want \in {"running", "completed", "failed"} /\ act[a].job \in Jobs
      BY <1>14 DEF PatchWrite, HoldsInv
    <2>2. status' = status \/ status' = [status EXCEPT ![act[a].job] = act[a].want]
      BY <1>14 DEF PatchWrite
    <2>3. act'[a].pc \in {"kill", "idle"} /\ \A b \in Activities \ {a} : act'[b] = act[b]
      BY <1>14 DEF PatchWrite
    <2>4. crashes' = crashes /\ act[a].pc = "write"
      BY <1>14 DEF PatchWrite
    <2> QED
      BY <2>1, <2>2, <2>3, <2>4
  <1>15. CASE DeleteServer(a)
    BY <1>15 DEF DeleteServer
  <1>16. CASE DeleteServerFails(a)
    <2>1. /\ status' = status /\ crashes' = crashes /\ act[a].pc = "kill"
          /\ \A b \in Activities \ {a} : act'[b] = act[b]
      BY <1>16 DEF DeleteServerFails
    <2> QED
      BY <2>1, HeldMove DEF Holds
  <1>17. CASE Clear(a)
    BY <1>17 DEF Clear, DropTokens, TokensWithout, Lost
  <1>18. CASE ClearFails(a)
    BY <1>18 DEF ClearFails, Exists
  <1> QED
    BY <1>1, <1>2, <1>3, <1>4, <1>5, <1>6, <1>7, <1>8, <1>9,
       <1>10, <1>11, <1>12, <1>13, <1>14, <1>15, <1>16, <1>17, <1>18 DEF Step

\* The calls of handlers, the reconciler, the servers, the catalogue, restarts.
LEMMA DrainsOthers ==
  ASSUME KindsInv, HoldsInv, ClaimHeld,
         \/ \E a \in Activities : Call(a)
         \/ Reconcile \/ Crash \/ UNCHANGED vars
         \/ \E j \in Jobs : PatchServer(j)
         \/ \E s \in Servers : ServerStops(s)
         \/ \E f \in NzbFiles : DeleteNzbFile(f)
  PROVE  HoldsInv' /\ ClaimHeld'
  <1> USE ConstantsAssumption
      DEF KindsInv, TypeOK, RowsOK, ActOK, HandlersKnow, HoldsInv, Holds, ClaimHeld, Drains,
          Attempting, Doing, NoChange, rowVars, vpsVars, Idle, Exists, Rows
  <1>1. ASSUME NEW a \in Activities, NEW f \in NzbFiles, NEW via \in {"post", "auto"},
               CheckUpload(a, f, via)
        PROVE  HoldsInv' /\ ClaimHeld'
    BY <1>1 DEF CheckUpload
  <1>2. ASSUME NEW a \in Activities, StartDrain(a) PROVE HoldsInv' /\ ClaimHeld'
    BY <1>2 DEF StartDrain
  <1>3. ASSUME NEW a \in Activities, NEW j \in Jobs, Cleanup(a, j) PROVE HoldsInv' /\ ClaimHeld'
    BY <1>3 DEF Cleanup
  <1>4. ASSUME NEW a \in Activities, NEW j \in Jobs, NEW want \in Rows, PatchRead(a, j, want)
        PROVE  HoldsInv' /\ ClaimHeld'
    <2>1. want \in {"running", "completed", "failed"}
      BY <1>4 DEF PatchRead, Allowed, STATUS_TRANSITIONS
    <2> QED
      BY <1>4, <2>1 DEF PatchRead
  <1>5. CASE Reconcile
    BY <1>5 DEF Reconcile, ZombieProbe, ZombieReap, ZombieReapFails, DropTokens, Lost
  <1>6. CASE Crash
    BY <1>6 DEF Crash
  <1>7. CASE UNCHANGED vars
    BY <1>7 DEF vars
  <1>8. CASE \E s \in Servers : ServerStops(s)
    BY <1>8 DEF ServerStops
  <1>9. CASE \E f \in NzbFiles : DeleteNzbFile(f)
    BY <1>9 DEF DeleteNzbFile, Cascade
  <1>10. ASSUME NEW j \in Jobs, PatchServer(j) PROVE HoldsInv' /\ ClaimHeld'
    BY <1>10 DEF PatchServer
  <1> HIDE DEF KindsInv, TypeOK, RowsOK, ActOK, HandlersKnow, HoldsInv, Holds, ClaimHeld, Drains,
          Attempting, Doing, NoChange, rowVars, vpsVars, Idle, Exists, Rows
  <1> QED
    BY <1>1, <1>2, <1>3, <1>4, <1>5, <1>6, <1>7, <1>8, <1>9, <1>10 DEF Call

DrainsInv == KindsInv /\ HoldsInv /\ ClaimHeld

\* No drain holds a job at the start, and none is claimed.
LEMMA InitDrains == Init => DrainsInv
  <1> SUFFICES ASSUME Init PROVE HoldsInv /\ ClaimHeld
    BY InitKinds DEF DrainsInv
  <1> QED
    BY DEF Init, HoldsInv, Holds, ClaimHeld, Idle, Attempting

\* Every step keeps what is said of drains.
LEMMA DrainsKept == DrainsInv /\ [Next]_vars => DrainsInv'
  BY KindsKept, HoldsStep, HeldStep, DrainsOthers DEF DrainsInv, Next

\* A set of handlers no two of which differ has at most one element.
LEMMA AtMostOne ==
  ASSUME NEW S, \A a, b \in S : a = b
  PROVE  Cardinality(S) <= 1
  <1>1. CASE S = {}
    BY <1>1, FS_EmptySet
  <1>2. CASE S # {}
    <2>1. PICK a : S = {a}
      BY <1>2
    <2> QED
      BY <2>1, FS_Singleton
  <1> QED
    BY <1>1, <1>2

\* However many drains run at once, and whatever PATCH, cleanup, POST and
\* restarts do meanwhile, two of them never get a server for the same upload.
THEOREM UploadDrainsExclude == Spec => []DrainsExclude
  <1>1. DrainsInv => DrainsExclude
    <2> SUFFICES ASSUME DrainsInv, NEW j \in Jobs PROVE Cardinality(Drains(j)) <= 1
      BY DEF DrainsExclude
    <2>1. \A a, b \in Drains(j) : a = b
      BY DEF DrainsInv, HoldsInv, Holds, Drains
    <2> QED
      BY <2>1, AtMostOne
  <1> QED
    BY <1>1, InitDrains, DrainsKept, PTL DEF Spec

\* Unless a restart or a lost write is to blame, a claimed upload has a drain
\* that works on it: it does not stay claimed for ever.
THEOREM UploadClaimHeld == Spec => []ClaimHeld
  <1>1. DrainsInv => ClaimHeld
    BY DEF DrainsInv
  <1> QED
    BY <1>1, InitDrains, DrainsKept, PTL DEF Spec

\* What a step of a handler can write over the end of a job.
LEMMA EndedStep ==
  ASSUME KindsInv, HoldsInv, NEW a \in Activities, Step(a), NEW j \in Jobs, Ended(status[j])
  PROVE  status'[j] \notin {"queued", "provisioning"}
  <1> USE DEF Ended, Doing, Done, Goto, NoChange, rowVars
  <1>0. status \in [Jobs -> Rows \cup {"absent", "deleted"}]
    BY DEF KindsInv, TypeOK, RowsOK
  <1>1. CASE InsertUpload(a)
    BY <1>0, <1>1, Inserted DEF InsertUpload
  <1>2. CASE ClaimUpload(a)
    BY <1>0, <1>2 DEF ClaimUpload, Claimable, Waiting
  <1>3. CASE ConfigMissing(a) \/ Abort(a) \/ AbortLosesServer(a)
    <2>1. status' \in {status, GivenBack(a)}
      BY <1>3 DEF ConfigMissing, ReturnClaim, Abort, AbortLosesServer, GiveUp, Lost
    <2> QED
      BY <1>0, <2>1 DEF GivenBack
  <1>4. CASE RecordServer(a)
    BY <1>0, <1>4 DEF RecordServer
  <1>5. CASE PatchWrite(a)
    <2>1. act[a].want \in {"running", "completed", "failed"}
      BY <1>5 DEF PatchWrite, HoldsInv
    <2> QED
      BY <1>0, <1>5, <2>1 DEF PatchWrite
  <1>6. CASE Gate(a) \/ GateCloses(a) \/ FindWaiting(a) \/ StoreToken(a) \/ CreateServer(a)
    BY <1>6 DEF Gate, GateCloses, FindWaiting, StoreToken, CreateServer
  <1>7. CASE \/ CreateServerFails(a) \/ RecordServerFails(a) \/ DeleteServer(a)
             \/ DeleteServerFails(a) \/ Clear(a) \/ ClearFails(a)
    BY <1>7 DEF CreateServerFails, RecordServerFails, DeleteServer, DeleteServerFails, Clear, ClearFails
  <1> QED
    BY <1>1, <1>2, <1>3, <1>4, <1>5, <1>6, <1>7 DEF Step

\* An upload that has ended is never queued or claimed again, whatever drains,
\* PATCH and restarts do at once: the drain that fails returns a claim only, and
\* the transitions a PATCH validates lead nowhere back.
THEOREM UploadEndedNotRequeued == Spec => EndedNotRequeued
  <1>1. DrainsInv /\ [Next]_vars =>
          [\A j \in Jobs : Ended(status[j]) => status'[j] \notin {"queued", "provisioning"}]_vars
    <2> SUFFICES ASSUME DrainsInv, Next, NEW j \in Jobs, Ended(status[j])
                 PROVE  status'[j] \notin {"queued", "provisioning"}
      OBVIOUS
    <2>1. CASE \E a \in Activities : Step(a)
      BY <2>1, EndedStep DEF DrainsInv
    <2>2. CASE \E f \in NzbFiles : DeleteNzbFile(f)
      BY <2>2 DEF DeleteNzbFile, Cascade, Ended, Exists
    <2>3. CASE \/ \E a \in Activities : Call(a)
               \/ Reconcile \/ Crash
               \/ \E k \in Jobs : PatchServer(k)
               \/ \E s \in Servers : ServerStops(s)
      BY <2>3 DEF Call, CheckUpload, StartDrain, Cleanup, PatchRead, Reconcile, ZombieProbe,
         ZombieReap, ZombieReapFails, Crash, PatchServer, ServerStops, rowVars, Ended
    <2> QED
      BY <2>1, <2>2, <2>3 DEF Next
  <1> QED
    BY <1>1, InitDrains, DrainsKept, PTL DEF Spec, EndedNotRequeued
=============================================================================
