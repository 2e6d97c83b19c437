---------------------------- MODULE S3Retention ----------------------------
(***************************************************************************)
(* How long a downloaded film stays in the object storage: the libraries   *)
(* of the users (src/routes/library.ts), the clean-up cycle                *)
(* (src/lib/s3-lifecycle.ts), the reports that complete a download and the *)
(* links that find a film gone (src/routes/downloads.ts, jellyfin.ts), and *)
(* the deletion by key (src/routes/storage.ts).                            *)
(*                                                                         *)
(* An object is named after the hash of its file, so a film that is        *)
(* downloaded again has the key it had before.  It stands for both         *)
(* versions of the film.  Transactions are READ COMMITTED: their reads see *)
(* what is committed, and a row they have updated is locked until they     *)
(* commit.                                                                 *)
(***************************************************************************)
EXTENDS Naturals, FiniteSets

CONSTANTS
  Users, Files,
  Handlers,     \* bound: requests and clean-up cycles in flight
  Threshold,    \* the number of films at which the bucket is 70 % full
  GraceDays,    \* DELETION_GRACE_DAYS
  None

RetentionAssumption ==
  /\ Threshold \in Nat /\ GraceDays \in Nat
  /\ None \notin Users \cup Files

VARIABLES
  ref,      \* the files whose row has an s3Key
  object,   \* the files whose key exists in the bucket
  marked,   \* the files with a scheduledDeletionAt
  days,     \* the days left until then
  lib,      \* the users that keep a file: UserLibrary with removedAt = null
  job,      \* the latest download job of a file
  owner,    \* its userId
  act,      \* what is in flight
  owed      \* history: files somebody has kept since they were stored, and
            \* whose removal no fault has interrupted

storeVars == <<ref, object, marked, days>>
userVars == <<lib, job, owner>>
retentionVars == <<storeVars, userVars, act, owed>>

Pcs == {"idle", "upsert", "count", "lock", "drop", "commit", "add",
        "mark", "check", "cancel", "clear", "delete", "goneLink", "goneStream"}
Idle == [pc |-> "idle", file |-> None, user |-> None, todo |-> {}]

RetentionTypeOK ==
  /\ ref \subseteq Files /\ object \subseteq Files /\ marked \subseteq Files
  /\ days \in [Files -> 0 .. GraceDays]
  /\ lib \in [Files -> SUBSET Users]
  /\ job \in [Files -> {"none", "active", "completed", "failed"}]
  /\ owner \in [Files -> Users \cup {None}]
  /\ act \in [Handlers -> [pc: Pcs, file: Files \cup {None}, user: Users \cup {None},
                           todo: SUBSET Files]]
  /\ owed \subseteq Files

RetentionInit ==
  /\ ref = {} /\ object = {} /\ marked = {}
  /\ days = [f \in Files |-> 0]
  /\ lib = [f \in Files |-> {}]
  /\ job = [f \in Files |-> "none"]
  /\ owner = [f \in Files |-> None]
  /\ act = [h \in Handlers |-> Idle]
  /\ owed = {}

At(h, pc) == act[h].pc = pc
Goto(h, pc) == act' = [act EXCEPT ![h].pc = pc]
Done(h) == act' = [act EXCEPT ![h] = Idle]

\* The row of the file is locked by a transaction that has updated it.
Locked(f) == \E h \in Handlers : act[h].file = f /\ act[h].pc \in {"drop", "commit"}

\* A user keeps the file from now on.
Keep(u, f) ==
  /\ lib' = [lib EXCEPT ![f] = @ \cup {u}]
  /\ owed' = owed \cup {f}

-----------------------------------------------------------------------------
(* Downloads                                                               *)

\* POST /downloads/request of a film that is not in the bucket: a reference
\* to a missing object is reset and a job starts.  ReviewFlow has the detail.
Request(u, f) ==
  /\ job[f] # "active" /\ ~(f \in ref /\ f \in object) /\ ~Locked(f)
  /\ ref' = ref \ {f}
  /\ job' = [job EXCEPT ![f] = "active"]
  /\ owner' = [owner EXCEPT ![f] = u]
  /\ UNCHANGED <<object, marked, days, lib, act, owed>>

\* The download server writes the object before it reports.
Upload(f) ==
  /\ job[f] = "active"
  /\ object' = object \cup {f}
  /\ UNCHANGED <<ref, marked, days, userVars, act, owed>>

\* PATCH "completed": job and reference in one transaction.  A date of
\* deletion the row has from before stays.
Complete(h, f) ==
  /\ At(h, "idle") /\ job[f] = "active" /\ f \in object /\ ~Locked(f)
  /\ job' = [job EXCEPT ![f] = "completed"]
  /\ ref' = ref \cup {f}
  /\ owed' = IF lib[f] = {} THEN owed \ {f} ELSE owed
  /\ act' = [act EXCEPT ![h] = [Idle EXCEPT !.pc = "add", !.file = f, !.user = owner[f]]]
  /\ UNCHANGED <<object, marked, days, lib, owner>>

\* Then the film is added to the library of the job's user.
AutoAdd(h) ==
  /\ At(h, "add")
  /\ Keep(act[h].user, act[h].file)
  /\ Done(h)
  /\ UNCHANGED <<storeVars, job, owner>>

\* The write fails; the report is answered as if it had not.
AutoAddFails(h) ==
  /\ At(h, "add")
  /\ Done(h)
  /\ UNCHANGED <<storeVars, userVars, owed>>

-----------------------------------------------------------------------------
(* The library                                                             *)

\* POST /library reads the file and then writes the entry.
AddRead(h, u, f) ==
  /\ At(h, "idle") /\ f \in ref
  /\ act' = [act EXCEPT ![h] = [Idle EXCEPT !.pc = "upsert", !.file = f, !.user = u]]
  /\ UNCHANGED <<storeVars, userVars, owed>>

AddWrite(h) ==
  /\ At(h, "upsert")
  /\ Keep(act[h].user, act[h].file)
  /\ Done(h)
  /\ UNCHANGED <<storeVars, job, owner>>

\* DELETE /library/:nzbFileId removes the entry at once.
Remove(h, u, f) ==
  /\ At(h, "idle") /\ u \in lib[f]
  /\ lib' = [lib EXCEPT ![f] = @ \ {u}]
  /\ act' = [act EXCEPT ![h] = [Idle EXCEPT !.pc = "count", !.file = f, !.user = u]]
  /\ UNCHANGED <<storeVars, job, owner, owed>>

\* Then, in a transaction, the users that still keep it are counted.  The
\* first form counts the user that leaves as well.
Keepers_WithLeaver(h) == lib[act[h].file] \cup {act[h].user}
Keepers(h) == lib[act[h].file]

Count(h) ==
  /\ At(h, "count")
  /\ IF Keepers(h) = {} /\ act[h].file \in ref THEN Goto(h, "lock") ELSE Done(h)
  /\ UNCHANGED <<storeVars, userVars, owed>>

\* The update of the row waits for transactions that have updated it.
TakeLock(h) ==
  /\ At(h, "lock") /\ ~Locked(act[h].file)
  /\ Goto(h, "drop")
  /\ UNCHANGED <<storeVars, userVars, owed>>

\* The object is deleted before the commit; if that fails it stays behind.
DropObject(h) ==
  /\ At(h, "drop")
  /\ object' \in {object, object \ {act[h].file}}
  /\ Goto(h, "commit")
  /\ UNCHANGED <<ref, marked, days, userVars, owed>>

Commit(h) ==
  LET f == act[h].file IN
  /\ At(h, "commit")
  /\ ref' = ref \ {f} /\ marked' = marked \ {f}
  /\ job' = [job EXCEPT ![f] = IF @ = "completed" THEN "failed" ELSE @]
  /\ Done(h)
  /\ UNCHANGED <<object, days, lib, owner, owed>>

\* The transaction times out or is lost with its connection.
Interrupted(h) ==
  /\ act[h].pc \in {"count", "lock", "drop", "commit"}
  /\ owed' = owed \ {act[h].file}
  /\ Done(h)
  /\ UNCHANGED <<storeVars, userVars>>

-----------------------------------------------------------------------------
(* runCleanupCycle                                                         *)

\* Over the threshold: the least recently used films nobody keeps.
Candidates ==
  IF Cardinality(ref) >= Threshold THEN {f \in ref \ marked : lib[f] = {}} ELSE {}

CycleStart(h) ==
  /\ At(h, "idle")
  /\ \E todo \in SUBSET Candidates :
       act' = [act EXCEPT ![h] = [Idle EXCEPT !.pc = "mark", !.todo = todo]]
  /\ UNCHANGED <<storeVars, userVars, owed>>

\* markForDeletion: one conditional update for each of them.
Mark(h, f) ==
  /\ At(h, "mark") /\ f \in act[h].todo /\ ~Locked(f)
  /\ IF f \notin marked /\ lib[f] = {}
     THEN marked' = marked \cup {f} /\ days' = [days EXCEPT ![f] = GraceDays]
     ELSE UNCHANGED <<marked, days>>
  /\ act' = [act EXCEPT ![h].todo = @ \ {f}]
  /\ UNCHANGED <<ref, object, userVars, owed>>

\* executePendingDeletions lists the films whose time has come ...
ListPending(h) ==
  /\ At(h, "mark") /\ act[h].todo = {}
  /\ act' = [act EXCEPT ![h].pc = "check",
                        ![h].todo = {f \in ref \cap marked : days[f] = 0}]
  /\ UNCHANGED <<storeVars, userVars, owed>>

\* ... and asks once more for each whether somebody keeps it.
Recheck(h, f) ==
  /\ At(h, "check") /\ f \in act[h].todo
  /\ act' = [act EXCEPT ![h].file = f, ![h].todo = @ \ {f},
                        ![h].pc = IF lib[f] = {} THEN "clear" ELSE "cancel"]
  /\ UNCHANGED <<storeVars, userVars, owed>>

Cancel(h) ==
  /\ At(h, "cancel") /\ ~Locked(act[h].file)
  /\ marked' = marked \ {act[h].file}
  /\ Goto(h, "check")
  /\ UNCHANGED <<ref, object, days, userVars, owed>>

\* First the reference, then the object: what fails in between leaves an
\* object nobody refers to.
Clear(h) ==
  /\ At(h, "clear") /\ ~Locked(act[h].file)
  /\ ref' = ref \ {act[h].file} /\ marked' = marked \ {act[h].file}
  /\ Goto(h, "delete")
  /\ UNCHANGED <<object, days, userVars, owed>>

Delete(h) ==
  /\ At(h, "delete")
  /\ object' \in {object, object \ {act[h].file}}
  /\ Goto(h, "check")
  /\ UNCHANGED <<ref, marked, days, userVars, owed>>

CycleEnd(h) ==
  /\ At(h, "check") /\ act[h].todo = {}
  /\ Done(h)
  /\ UNCHANGED <<storeVars, userVars, owed>>

-----------------------------------------------------------------------------
(* Links to films that are gone, and the world outside                     *)

\* The HEAD before a link, by a job's link or by a stream of the library.
FindGone(h, f) ==
  /\ At(h, "idle") /\ f \in ref /\ f \notin object
  /\ \/ job[f] = "completed" /\ act' = [act EXCEPT ![h] = [Idle EXCEPT !.pc = "goneLink", !.file = f]]
     \/ lib[f] # {} /\ act' = [act EXCEPT ![h] = [Idle EXCEPT !.pc = "goneStream", !.file = f]]
  /\ UNCHANGED <<storeVars, userVars, owed>>

\* The job fails with the reference; a date of deletion stays.
GoneLink(h) ==
  /\ At(h, "goneLink") /\ ~Locked(act[h].file)
  /\ ref' = ref \ {act[h].file}
  /\ job' = [job EXCEPT ![act[h].file] = "failed"]
  /\ Done(h)
  /\ UNCHANGED <<object, marked, days, lib, owner, owed>>

\* The job stays completed.
GoneStream(h) ==
  /\ At(h, "goneStream") /\ ~Locked(act[h].file)
  /\ ref' = ref \ {act[h].file} /\ marked' = marked \ {act[h].file}
  /\ Done(h)
  /\ UNCHANGED <<object, days, userVars, owed>>

\* DELETE /storage/files/:key knows the bucket only.
DeleteByKey(f) ==
  /\ f \in object
  /\ object' = object \ {f}
  /\ UNCHANGED <<ref, marked, days, userVars, act, owed>>

DayPasses ==
  /\ \E f \in marked : days[f] > 0
  /\ days' = [f \in Files |-> IF days[f] > 0 THEN days[f] - 1 ELSE 0]
  /\ UNCHANGED <<ref, object, marked, userVars, act, owed>>

RetentionNext ==
  \/ \E h \in Handlers :
       \/ AutoAdd(h) \/ AutoAddFails(h) \/ AddWrite(h)
       \/ Count(h) \/ TakeLock(h) \/ DropObject(h) \/ Commit(h) \/ Interrupted(h)
       \/ CycleStart(h) \/ ListPending(h) \/ Cancel(h) \/ Clear(h) \/ Delete(h)
       \/ CycleEnd(h) \/ GoneLink(h) \/ GoneStream(h)
       \/ \E f \in Files : Complete(h, f) \/ Mark(h, f) \/ Recheck(h, f) \/ FindGone(h, f)
       \/ \E f \in Files, u \in Users : AddRead(h, u, f) \/ Remove(h, u, f)
  \/ \E f \in Files, u \in Users : Request(u, f)
  \/ \E f \in Files : Upload(f) \/ DeleteByKey(f)
  \/ DayPasses

RetentionSpec == RetentionInit /\ [][RetentionNext]_retentionVars

-----------------------------------------------------------------------------
(* Properties                                                              *)

Removing(f) == {h \in Handlers : act[h].file = f
                                   /\ act[h].pc \in {"count", "lock", "drop", "commit"}}

\* Users who remove a film at the same time do not leave it to each other:
\* when nobody keeps a stored film any more, one of the removals is still
\* going to delete it.  (DELETE /library commits the removal before it counts.)
LastRemovalDeletes ==
  \A f \in Files : f \in ref \cap owed /\ lib[f] = {} => Removing(f) # {}

\* What the comments of DELETE /library and of the cycle say: that nobody
\* keeps the film is checked with the deletion ("to prevent TOCTOU", "double-
\* checks"), so a film that some user keeps does not lose its reference to them.
KeptFilmSurvives ==
  [][\A h \in Handlers :
       /\ act[h].pc \in {"commit", "clear"} /\ act'[h].pc # act[h].pc
       /\ act[h].file \notin ref'
      => lib[act[h].file] = {}]_retentionVars
=============================================================================
