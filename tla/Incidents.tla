------------------------------ MODULE Incidents ------------------------------
(***************************************************************************)
(* The bookkeeping of outages (src/lib/incidents.ts) for one service and   *)
(* operation: every call of storeNzbInService (src/lib/nzb-service.ts)     *)
(* that fails is recorded, every one that succeeds resolves what is open.  *)
(* recordIncident finds the open incident, and then updates it or creates  *)
(* one, without a transaction; its database errors are swallowed.          *)
(***************************************************************************)
EXTENDS Naturals, FiniteSets

CONSTANTS
  Callers,        \* bound: calls of the service in flight
  MaxIncidents,   \* bound: rows ever created
  MaxFailures     \* bound: failed calls

VARIABLES
  incident,   \* the rows, in the order of firstSeenAt
  caller,     \* where each call is
  failures,   \* history: calls that failed
  unrecorded  \* history: those whose record is not written (yet)

incidentVars == <<incident, caller, failures, unrecorded>>

IncidentAssumption == MaxIncidents \in Nat /\ MaxFailures \in Nat /\ IsFiniteSet(Callers)

Rows == 1 .. MaxIncidents
NotCalling == [pc |-> "idle", row |-> 0, seen |-> 0]

IncidentTypeOK ==
  /\ incident \in [Rows -> [status: {"none", "open", "resolved"}, occurrences: 0 .. MaxFailures]]
  /\ caller \in [Callers -> [pc: {"idle", "find", "update", "create", "resolve"},
                             row: 0 .. MaxIncidents, seen: 0 .. MaxFailures]]
  /\ failures \in 0 .. MaxFailures
  /\ unrecorded \in 0 .. failures

IncidentInit ==
  /\ incident = [r \in Rows |-> [status |-> "none", occurrences |-> 0]]
  /\ caller = [c \in Callers |-> NotCalling]
  /\ failures = 0 /\ unrecorded = 0

Open == {r \in Rows : incident[r].status = "open"}
Unused == {r \in Rows : incident[r].status = "none"}

\* storeNzbInService fails: HEAD, PUT, the network or a missing token.
CallFails(c) ==
  /\ caller[c].pc = "idle" /\ failures < MaxFailures
  /\ caller' = [caller EXCEPT ![c].pc = "find"]
  /\ failures' = failures + 1 /\ unrecorded' = unrecorded + 1
  /\ UNCHANGED incident

CallSucceeds(c) ==
  /\ caller[c].pc = "idle" /\ failures > 0
  /\ caller' = [caller EXCEPT ![c].pc = "resolve"]
  /\ UNCHANGED <<incident, failures, unrecorded>>

\* findFirst: the open incident that was seen first most recently.  The first
\* form looks at those that are resolved.
Known_Resolved == {r \in Rows : incident[r].status = "resolved"}
Known == {r \in Rows : incident[r].status = "open"}

FindOpen(c) ==
  /\ caller[c].pc = "find"
  /\ \/ /\ Known = {}
        /\ caller' = [caller EXCEPT ![c] = [NotCalling EXCEPT !.pc = "create"]]
     \/ \E r \in Known :
          /\ \A s \in Known : s <= r
          /\ caller' = [caller EXCEPT ![c] =
               [pc |-> "update", row |-> r, seen |-> incident[r].occurrences]]
  /\ UNCHANGED <<incident, failures, unrecorded>>

\* The database adds one to what the row holds now.  The first form writes
\* one more than the number that was read.
Counted_FromRead(c) == caller[c].seen + 1
Counted(c) == incident[caller[c].row].occurrences + 1

\* The row may have been resolved since it was found; it is counted there.
Increment(c) ==
  /\ caller[c].pc = "update"
  /\ incident' = [incident EXCEPT ![caller[c].row].occurrences = Counted(c)]
  /\ caller' = [caller EXCEPT ![c] = NotCalling]
  /\ unrecorded' = unrecorded - 1
  /\ UNCHANGED failures

Create(c) ==
  /\ caller[c].pc = "create"
  /\ \E r \in Unused :
       /\ \A s \in Unused : r <= s
       /\ incident' = [incident EXCEPT ![r] = [status |-> "open", occurrences |-> 1]]
  /\ caller' = [caller EXCEPT ![c] = NotCalling]
  /\ unrecorded' = unrecorded - 1
  /\ UNCHANGED failures

\* A database error is logged; the call goes on.
RecordLost(c) ==
  /\ caller[c].pc \in {"find", "update", "create", "resolve"}
  /\ caller' = [caller EXCEPT ![c] = NotCalling]
  /\ UNCHANGED <<incident, failures, unrecorded>>

ResolveOpen(c) ==
  /\ caller[c].pc = "resolve"
  /\ incident' = [r \in Rows |-> IF r \in Open THEN [incident[r] EXCEPT !.status = "resolved"]
                                               ELSE incident[r]]
  /\ caller' = [caller EXCEPT ![c] = NotCalling]
  /\ UNCHANGED <<failures, unrecorded>>

IncidentNext == \E c \in Callers :
  \/ CallFails(c) \/ CallSucceeds(c) \/ FindOpen(c) \/ Increment(c) \/ Create(c)
  \/ RecordLost(c) \/ ResolveOpen(c)

IncidentSpec == IncidentInit /\ [][IncidentNext]_incidentVars

-----------------------------------------------------------------------------
(* Properties                                                              *)

\* Failures that are recorded at the same time do not overwrite each other:
\* the occurrences of all incidents are the failures, less those whose record
\* is under way or was lost to the database.
Recorded == {e \in Rows \X (1 .. MaxFailures) : e[2] <= incident[e[1]].occurrences}
FailuresCounted == Cardinality(Recorded) = failures - unrecorded

\* Calls that fail at the same time may open an incident each, but never more
\* than there are calls in flight: later failures find one that is open.
\* (incidents.ts means to keep one open incident for a service and operation.)
DuplicatesBounded == Cardinality(Open) <= Cardinality(Callers)
=============================================================================
