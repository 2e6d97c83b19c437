------------------------------ MODULE ProxyMap -------------------------------
(***************************************************************************)
(* The map from the names of download servers to their private addresses   *)
(* (src/lib/caddy-mapping.ts): a file the API rewrites and Caddy reads     *)
(* when it is told to reload.  Calls queue behind a mutex in the order in  *)
(* which they are made; each reads and rewrites the file without a pause,  *)
(* then waits for the reload, whose failure is only logged.  A write that  *)
(* fails has truncated the file before.  addMapping is called by the       *)
(* provisioner, removeMapping by clean-ups, deletions and the reconciler.  *)
(***************************************************************************)
EXTENDS Naturals, Sequences

CONSTANTS
  Names,      \* the names of servers, dl-<job>
  Addresses,  \* private addresses
  NoBackend,
  MaxQueue    \* bound: calls that wait for the mutex

VARIABLES
  mapFile,   \* the file
  served,    \* what Caddy serves
  waiting,   \* the calls that wait for the mutex, first come first
  reloading, \* the mutex is held until the reload has ended
  stale,     \* history: the last reload failed, or a failed write was not reloaded
  wanted     \* history: what the calls so far ask for, in the order they were
             \* made; where a call failed, what it left

proxyVars == <<mapFile, served, waiting, reloading, stale, wanted>>

ProxyAssumption == MaxQueue \in Nat

Backends == Addresses \cup {NoBackend}
Calls == [name: Names, backend: Backends]
Map == [Names -> Backends]

ProxyTypeOK ==
  /\ mapFile \in Map /\ served \in Map /\ wanted \in Map
  /\ waiting \in Seq(Calls) /\ Len(waiting) <= MaxQueue
  /\ reloading \in BOOLEAN /\ stale \in BOOLEAN

ProxyInit ==
  /\ mapFile = [n \in Names |-> NoBackend]
  /\ served = mapFile /\ wanted = mapFile
  /\ waiting = <<>> /\ reloading = FALSE /\ stale = FALSE

\* withMutex chains the call behind all that were made before it.  The first
\* form lets a call in front of those that wait.
Chained_InFront(call) == <<call>> \o waiting
Chained(call) == Append(waiting, call)

\* addMapping, and removeMapping with NoBackend.
MapCall(call) ==
  /\ Len(waiting) < MaxQueue
  /\ waiting' = Chained(call)
  /\ wanted' = [wanted EXCEPT ![call.name] = call.backend]
  /\ UNCHANGED <<mapFile, served, reloading, stale>>

\* The removal of a name that is not in the file writes and reloads nothing.
NothingToDo(call) == call.backend = NoBackend /\ mapFile[call.name] = NoBackend

Rewritten(call) == [mapFile EXCEPT ![call.name] = call.backend]

Apply ==
  /\ waiting # <<>> /\ ~reloading
  /\ LET call == Head(waiting) IN
       /\ mapFile' = Rewritten(call)
       /\ reloading' = ~NothingToDo(call)
  /\ waiting' = Tail(waiting)
  /\ UNCHANGED <<served, stale, wanted>>

\* The names calls ask for that still wait behind the first.
AskedAgain == {waiting[i].name : i \in 2 .. Len(waiting)}

\* A call that throws, which its callers log: for the names no later call asks
\* for, what it leaves is what there is.
Throws ==
  /\ waiting # <<>> /\ ~reloading
  /\ wanted' = [n \in Names |-> IF n \in AskedAgain THEN wanted[n] ELSE mapFile'[n]]
  /\ waiting' = Tail(waiting)
  /\ UNCHANGED <<served, reloading>>

\* The file cannot be read or opened.
ApplyFails == UNCHANGED <<mapFile, stale>> /\ Throws

\* writeFileSync truncates the file, then fails: only some lines are there, and
\* Caddy is not told.
WriteFails ==
  /\ waiting # <<>> /\ ~NothingToDo(Head(waiting))
  /\ \E kept \in SUBSET Names :
       mapFile' = [n \in Names |-> IF n \in kept THEN Rewritten(Head(waiting))[n] ELSE NoBackend]
  /\ stale' = TRUE
  /\ Throws

\* caddy reload, within ten seconds or not.
Reload ==
  /\ reloading
  /\ \/ served' = mapFile /\ stale' = FALSE
     \/ served' = served /\ stale' = TRUE
  /\ reloading' = FALSE
  /\ UNCHANGED <<mapFile, waiting, wanted>>

\* Caddy reads the file when it starts.
CaddyRestarts ==
  /\ served' = mapFile /\ stale' = FALSE
  /\ UNCHANGED <<mapFile, waiting, reloading, wanted>>

\* The API restarts: calls that wait are lost.
ApiRestarts ==
  /\ waiting' = <<>> /\ reloading' = FALSE
  /\ stale' = (stale \/ reloading)
  /\ wanted' = mapFile
  /\ UNCHANGED <<mapFile, served>>

ProxyNext ==
  \/ \E call \in Calls : MapCall(call)
  \/ Apply \/ ApplyFails \/ WriteFails \/ Reload \/ CaddyRestarts \/ ApiRestarts

ProxySpec == ProxyInit /\ [][ProxyNext]_proxyVars

-----------------------------------------------------------------------------
(* Properties                                                              *)

\* Calls of different handlers take effect in the order in which they were
\* made: when none is under way, the file holds for every name what the last
\* call asked for, or what a call that failed after it has left, and Caddy
\* serves it unless the last reload or write failed.  That the removal of a
\* mapping is called after its addition is for the callers to see to.
LastCallWins ==
  waiting = <<>> /\ ~reloading => mapFile = wanted /\ (stale \/ served = mapFile)
=============================================================================
