---------------------------- MODULE StoresProofs -----------------------------
(***************************************************************************)
(* Theorems about what the API keeps, for every value of the constants:    *)
(* films and libraries (S3Retention), the configuration (ConfigStore), API *)
(* tokens (ApiTokens), searches (SearchHistory), outages (Incidents) and   *)
(* the caches of the plugin (PluginDelivery).                              *)
(***************************************************************************)
EXTENDS S3Retention, ConfigStore, ApiTokens, SearchHistory, Incidents, PluginDelivery,
        FiniteSetTheorems, TLAPS

-----------------------------------------------------------------------------
(* Films and libraries: type correctness                                   *)

\* What is in flight.
Handling == [pc: Pcs, file: Files \cup {None}, user: Users \cup {None}, todo: SUBSET Files]

\* An entry of the library.
LEMMA KeepOK ==
  ASSUME RetentionTypeOK, NEW f \in Files, NEW u \in Users, Keep(u, f)
  PROVE  lib' \in [Files -> SUBSET Users] /\ owed' \subseteq Files
  BY DEF RetentionTypeOK, Keep

\* A handler that works on one film has a file, one that adds an entry has a
\* user, and a job that runs has an owner, whom its completion will add.
WellNamed(x) ==
  /\ x \in Handling
  /\ x.pc \notin {"idle", "mark", "check"} => x.file \in Files
  /\ x.pc \in {"upsert", "add"} => x.user \in Users
Named == \A h \in Handlers : WellNamed(act[h])
Owned == \A f \in Files : job[f] = "active" => owner[f] \in Users

RetentionInv == RetentionTypeOK /\ Named /\ Owned

\* A handler that becomes x.
LEMMA BecomesOK ==
  ASSUME RetentionInv, NEW h \in Handlers, NEW x, WellNamed(x),
         act' = [act EXCEPT ![h] = x]
  PROVE  act' \in [Handlers -> Handling] /\ Named'
  BY DEF RetentionInv, RetentionTypeOK, Named, WellNamed

\* A handler of one film that goes on with it.
LEMMA ContinuesOK ==
  ASSUME RetentionInv, NEW h \in Handlers, NEW pc \in Pcs \ {"upsert", "add"},
         act[h].pc \notin {"idle", "mark", "check"}, Goto(h, pc)
  PROVE  act' \in [Handlers -> Handling] /\ Named'
  <1> DEFINE x == [act[h] EXCEPT !.pc = pc]
  <1>1. WellNamed(act[h])
    BY DEF RetentionInv, Named
  <1>2. WellNamed(x)
    BY <1>1 DEF WellNamed, Handling
  <1> QED
    BY <1>2, BecomesOK DEF Goto

\* A handler that ends.
LEMMA EndsOK ==
  ASSUME RetentionInv, NEW h \in Handlers, Done(h)
  PROVE  act' \in [Handlers -> Handling] /\ Named'
  <1>1. WellNamed(Idle)
    BY DEF WellNamed, Handling, Idle, Pcs
  <1> QED
    BY <1>1, BecomesOK DEF Done

\* A call that starts on one film.
LEMMA StartNamed ==
  ASSUME NEW pc \in Pcs, NEW f \in Files, NEW u \in Users \cup {None},
         pc \in {"upsert", "add"} => u \in Users
  PROVE  /\ WellNamed([Idle EXCEPT !.pc = pc, !.file = f, !.user = u])
         /\ u = None => WellNamed([Idle EXCEPT !.pc = pc, !.file = f])
  BY DEF WellNamed, Handling, Idle

\* The handlers of downloads and of the library.
LEMMA LibraryStepOK ==
  ASSUME RetentionInv, NEW h \in Handlers,
         \/ AutoAdd(h) \/ AutoAddFails(h) \/ AddWrite(h) \/ Count(h) \/ TakeLock(h)
         \/ DropObject(h) \/ Commit(h) \/ Interrupted(h)
         \/ \E f \in Files : Complete(h, f)
         \/ \E f \in Files, u \in Users : AddRead(h, u, f) \/ Remove(h, u, f)
  PROVE  RetentionInv'
  <1> USE DEF RetentionTypeOK, Owned, storeVars, userVars, At, Handling
  <1>0. RetentionInv /\ RetentionTypeOK /\ Owned /\ WellNamed(act[h])
    BY DEF RetentionInv, Named
  <1>1. CASE AutoAdd(h)
    BY <1>0, <1>1, EndsOK, KeepOK DEF AutoAdd, RetentionInv, WellNamed
  <1>2. CASE AutoAddFails(h)
    BY <1>0, <1>2, EndsOK DEF AutoAddFails, RetentionInv
  <1>3. CASE AddWrite(h)
    BY <1>0, <1>3, EndsOK, KeepOK DEF AddWrite, RetentionInv, WellNamed
  <1>4. CASE Count(h)
    BY <1>0, <1>4, EndsOK, ContinuesOK DEF Count, RetentionInv, Pcs
  <1>5. CASE TakeLock(h)
    BY <1>0, <1>5, ContinuesOK DEF TakeLock, RetentionInv, Pcs
  <1>6. CASE DropObject(h)
    BY <1>0, <1>6, ContinuesOK DEF DropObject, RetentionInv, Pcs
  <1>7. CASE Commit(h)
    BY <1>0, <1>7, EndsOK DEF Commit, RetentionInv
  <1>8. CASE Interrupted(h)
    BY <1>0, <1>8, EndsOK DEF Interrupted, RetentionInv
  <1>9. CASE \E f \in Files : Complete(h, f)
    <2>1. PICK f \in Files : Complete(h, f)
      BY <1>9
    <2>2. owner[f] \in Users
      BY <1>0, <2>1 DEF Complete
    <2>3. act' \in [Handlers -> Handling] /\ Named'
      BY <1>0, <2>1, <2>2, StartNamed, BecomesOK DEF Complete, Pcs
    <2> QED
      BY <1>0, <2>1, <2>3 DEF Complete, RetentionInv
  <1>10. CASE \E f \in Files, u \in Users : AddRead(h, u, f)
    <2>1. PICK f \in Files, u \in Users : AddRead(h, u, f)
      BY <1>10
    <2>2. act' \in [Handlers -> Handling] /\ Named'
      BY <1>0, <2>1, StartNamed, BecomesOK DEF AddRead, Pcs
    <2> QED
      BY <1>0, <2>1, <2>2 DEF AddRead, RetentionInv
  <1>11. CASE \E f \in Files, u \in Users : Remove(h, u, f)
    <2>1. PICK f \in Files, u \in Users : Remove(h, u, f)
      BY <1>11
    <2> DEFINE x == [Idle EXCEPT !.pc = "count", !.file = f, !.user = u]
    <2>a. WellNamed(x) /\ act' = [act EXCEPT ![h] = x]
      BY <2>1, StartNamed DEF Remove, Pcs
    <2>2. act' \in [Handlers -> Handling] /\ Named'
      BY <1>0, <2>a, BecomesOK
    <2>3. lib' \in [Files -> SUBSET Users]
      BY <1>0, <2>1 DEF Remove
    <2>4. UNCHANGED <<ref, object, marked, days, job, owner, owed>>
      BY <2>1 DEF Remove
    <2>5. RetentionTypeOK' /\ Owned'
      BY <1>0, <2>2, <2>3, <2>4
    <2> QED
      BY <2>2, <2>5 DEF RetentionInv
  <1> QED
    BY <1>1, <1>2, <1>3, <1>4, <1>5, <1>6, <1>7, <1>8, <1>9, <1>10, <1>11

\* The clean-up cycle and the handlers that find a film gone.
LEMMA CycleStepOK ==
  ASSUME RetentionAssumption, RetentionInv, NEW h \in Handlers,
         \/ CycleStart(h) \/ ListPending(h) \/ Cancel(h) \/ Clear(h) \/ Delete(h)
         \/ CycleEnd(h) \/ GoneLink(h) \/ GoneStream(h)
         \/ \E f \in Files : Mark(h, f) \/ Recheck(h, f) \/ FindGone(h, f)
  PROVE  RetentionInv'
  <1> USE DEF RetentionTypeOK, Owned, storeVars, userVars, At, Handling
  <1>0. RetentionInv /\ RetentionTypeOK /\ Owned /\ WellNamed(act[h])
    BY DEF RetentionInv, Named
  <1>1. CASE CycleStart(h)
    <2>1. PICK todo \in SUBSET Candidates :
            act' = [act EXCEPT ![h] = [Idle EXCEPT !.pc = "mark", !.todo = todo]]
      BY <1>1 DEF CycleStart
    <2>2. todo \subseteq Files
      BY <1>0 DEF Candidates
    <2>3. WellNamed([Idle EXCEPT !.pc = "mark", !.todo = todo])
      BY <2>2 DEF WellNamed, Idle, Pcs
    <2> QED
      BY <1>0, <1>1, <2>1, <2>3, BecomesOK DEF CycleStart, RetentionInv
  <1>2. CASE ListPending(h)
    <2> DEFINE x == [act[h] EXCEPT !.pc = "check", !.todo = {f \in ref \cap marked : days[f] = 0}]
    <2>1. WellNamed(x)
      BY <1>0 DEF WellNamed, Pcs
    <2>2. act' = [act EXCEPT ![h] = x]
      BY <1>2 DEF ListPending
    <2> HIDE DEF x
    <2> QED
      BY <1>0, <1>2, <2>1, <2>2, BecomesOK DEF ListPending, RetentionInv
  <1>3. CASE Cancel(h)
    BY <1>0, <1>3, ContinuesOK DEF Cancel, RetentionInv, Pcs
  <1>4. CASE Clear(h)
    BY <1>0, <1>4, ContinuesOK DEF Clear, RetentionInv, Pcs
  <1>5. CASE Delete(h)
    BY <1>0, <1>5, ContinuesOK DEF Delete, RetentionInv, Pcs
  <1>6. CASE CycleEnd(h)
    BY <1>0, <1>6, EndsOK DEF CycleEnd, RetentionInv
  <1>7. CASE GoneLink(h)
    BY <1>0, <1>7, EndsOK DEF GoneLink, RetentionInv
  <1>8. CASE GoneStream(h)
    BY <1>0, <1>8, EndsOK DEF GoneStream, RetentionInv
  <1>9. CASE \E f \in Files : Mark(h, f)
    <2>1. PICK f \in Files : Mark(h, f)
      BY <1>9
    <2> DEFINE x == [act[h] EXCEPT !.todo = @ \ {f}]
    <2>2. WellNamed(x)
      BY <1>0 DEF WellNamed
    <2>3. act' = [act EXCEPT ![h] = x]
      BY <2>1 DEF Mark
    <2> HIDE DEF x
    <2>4. act' \in [Handlers -> Handling] /\ Named'
      BY <1>0, <2>2, <2>3, BecomesOK
    <2> QED
      BY <1>0, <2>1, <2>4 DEF Mark, RetentionInv, RetentionAssumption
  <1>10. CASE \E f \in Files : Recheck(h, f)
    <2>1. PICK f \in Files : Recheck(h, f)
      BY <1>10
    <2> DEFINE x == [act[h] EXCEPT !.file = f, !.todo = @ \ {f},
                                   !.pc = IF lib[f] = {} THEN "clear" ELSE "cancel"]
    <2>2. WellNamed(x)
      BY <1>0 DEF WellNamed, Pcs
    <2>3. act' = [act EXCEPT ![h] = x]
      BY <2>1 DEF Recheck
    <2> HIDE DEF x
    <2> QED
      BY <1>0, <2>1, <2>2, <2>3, BecomesOK DEF Recheck, RetentionInv
  <1>11. CASE \E f \in Files : FindGone(h, f)
    <2>1. PICK f \in Files : FindGone(h, f)
      BY <1>11
    <2>2. act' \in [Handlers -> Handling] /\ Named'
      BY <1>0, <2>1, StartNamed, BecomesOK DEF FindGone, Pcs
    <2> QED
      BY <1>0, <2>1, <2>2 DEF FindGone, RetentionInv
  <1> QED
    BY <1>1, <1>2, <1>3, <1>4, <1>5, <1>6, <1>7, <1>8, <1>9, <1>10, <1>11

\* Requests, and what happens outside the API.
LEMMA OutsideStepOK ==
  ASSUME RetentionAssumption, RetentionInv,
         \/ \E f \in Files, u \in Users : Request(u, f)
         \/ \E f \in Files : Upload(f) \/ DeleteByKey(f)
         \/ DayPasses
  PROVE  RetentionInv'
  <1> USE DEF RetentionInv, RetentionTypeOK, Named, Owned, storeVars, userVars
  <1>1. CASE \E f \in Files, u \in Users : Request(u, f)
    BY <1>1 DEF Request
  <1>2. CASE \E f \in Files : Upload(f)
    BY <1>2 DEF Upload
  <1>3. CASE \E f \in Files : DeleteByKey(f)
    BY <1>3 DEF DeleteByKey
  <1>4. CASE DayPasses
    BY <1>4 DEF DayPasses, RetentionAssumption
  <1> QED
    BY <1>1, <1>2, <1>3, <1>4

\* Every step keeps the rows well typed and the handlers well named.
LEMMA RetentionStep ==
  ASSUME RetentionAssumption, RetentionInv, [RetentionNext]_retentionVars
  PROVE  RetentionInv'
  <1>1. CASE RetentionNext
    BY <1>1, LibraryStepOK, CycleStepOK, OutsideStepOK DEF RetentionNext
  <1>2. CASE UNCHANGED retentionVars
    BY <1>2 DEF retentionVars, storeVars, userVars, RetentionInv, RetentionTypeOK, Named, Owned
  <1> QED
    BY <1>1, <1>2

\* At first no film is stored and nothing is in flight.
LEMMA InitRetentionInv == RetentionAssumption /\ RetentionInit => RetentionInv
  BY DEF RetentionAssumption, RetentionInit, RetentionInv, RetentionTypeOK, Named, Owned, WellNamed, Handling,
     Idle, Pcs

\* Rows, libraries, jobs and handlers have values of their kinds, whoever
\* downloads, keeps, leaves or cleans up.
THEOREM RetentionTypeCorrect == RetentionAssumption => (RetentionSpec => []RetentionTypeOK)
  <1> SUFFICES ASSUME RetentionAssumption PROVE RetentionSpec => []RetentionTypeOK
    OBVIOUS
  <1>1. RetentionInit => RetentionInv
    BY InitRetentionInv
  <1>2. RetentionInv /\ [RetentionNext]_retentionVars => RetentionInv'
    BY RetentionStep
  <1>3. RetentionInv => RetentionTypeOK
    BY DEF RetentionInv
  <1> QED
    BY <1>1, <1>2, <1>3, PTL DEF RetentionSpec

-----------------------------------------------------------------------------
(* The last removal deletes                                                *)

RemovalPcs == {"count", "lock", "drop", "commit"}

\* A step that makes no film one to delete, and does not disturb a removal,
\* leaves the removals in charge.  h is the handler that moves.
LEMMA RemovalsGoOn ==
  ASSUME RetentionInv, LastRemovalDeletes,
         \A f \in Files : f \in ref' \cap owed' /\ lib'[f] = {} => f \in ref \cap owed /\ lib[f] = {},
         \A h \in Handlers : act[h].pc \in RemovalPcs =>
           \/ act'[h].file = act[h].file /\ act'[h].pc \in RemovalPcs
           \/ act[h].file \notin ref' \cap owed' \/ lib'[act[h].file] # {}
  PROVE  LastRemovalDeletes'
  <1> SUFFICES ASSUME NEW f \in Files, f \in ref' \cap owed', lib'[f] = {}
               PROVE  Removing(f)' # {}
    BY DEF LastRemovalDeletes
  <1>1. PICK h \in Handlers : act[h].file = f /\ act[h].pc \in RemovalPcs
    BY DEF LastRemovalDeletes, Removing, RemovalPcs
  <1>2. act'[h].file = f /\ act'[h].pc \in RemovalPcs
    BY <1>1
  <1> QED
    BY <1>2 DEF Removing, RemovalPcs

\* A handler that moves is the only one that does.
LEMMA OthersStay ==
  ASSUME RetentionInv, NEW h \in Handlers, NEW x, act' = [act EXCEPT ![h] = x]
  PROVE  act'[h] = x /\ \A k \in Handlers \ {h} : act'[k] = act[k]
  BY DEF RetentionInv, RetentionTypeOK

\* The handlers of downloads and of the library.
LEMMA LibraryStepDeletes ==
  ASSUME RetentionInv, LastRemovalDeletes, NEW h \in Handlers,
         \/ AutoAdd(h) \/ AutoAddFails(h) \/ AddWrite(h) \/ Count(h) \/ TakeLock(h)
         \/ DropObject(h) \/ Commit(h) \/ Interrupted(h)
         \/ \E f \in Files : Complete(h, f)
         \/ \E f \in Files, u \in Users : AddRead(h, u, f) \/ Remove(h, u, f)
  PROVE  LastRemovalDeletes'
  <1> USE DEF storeVars, userVars, At, Goto, Done, Keep, RemovalPcs
  <1>0. RetentionTypeOK /\ WellNamed(act[h])
    BY DEF RetentionInv, Named
  <1>1. CASE AutoAdd(h)
    BY <1>0, <1>1, OthersStay, RemovalsGoOn DEF AutoAdd, RetentionTypeOK, WellNamed
  <1>2. CASE AutoAddFails(h)
    BY <1>0, <1>2, OthersStay, RemovalsGoOn DEF AutoAddFails, RetentionTypeOK, WellNamed
  <1>3. CASE AddWrite(h)
    BY <1>0, <1>3, OthersStay, RemovalsGoOn DEF AddWrite, RetentionTypeOK, WellNamed
  <1>4. CASE Count(h)
    BY <1>0, <1>4, OthersStay, RemovalsGoOn DEF Count, RetentionTypeOK, WellNamed, Keepers
  <1>5. CASE TakeLock(h)
    BY <1>0, <1>5, OthersStay, RemovalsGoOn DEF TakeLock, RetentionTypeOK, WellNamed
  <1>6. CASE DropObject(h)
    BY <1>0, <1>6, OthersStay, RemovalsGoOn DEF DropObject, RetentionTypeOK, WellNamed
  <1>7. CASE Commit(h)
    BY <1>0, <1>7, OthersStay, RemovalsGoOn DEF Commit, RetentionTypeOK, WellNamed
  <1>8. CASE Interrupted(h)
    BY <1>0, <1>8, OthersStay, RemovalsGoOn DEF Interrupted, RetentionTypeOK, WellNamed
  <1>9. CASE \E f \in Files : Complete(h, f)
    <2>1. PICK f \in Files : Complete(h, f)
      BY <1>9
    <2>2. \A k \in Handlers : act[k].pc \in RemovalPcs => act'[k] = act[k]
      BY <2>1, OthersStay DEF Complete
    <2>3. \A g \in Files : g \in ref' \cap owed' /\ lib'[g] = {} => g \in ref \cap owed /\ lib[g] = {}
      BY <2>1 DEF Complete
    <2> QED
      BY <2>2, <2>3, RemovalsGoOn
  <1>10. CASE \E f \in Files, u \in Users : AddRead(h, u, f)
    BY <1>0, <1>10, OthersStay, RemovalsGoOn DEF AddRead
  <1>11. CASE \E f \in Files, u \in Users : Remove(h, u, f)
    <2>1. PICK f \in Files, u \in Users : Remove(h, u, f)
      BY <1>11
    <2>2. h \in Removing(f)'
      BY <1>0, <2>1 DEF Remove, Removing, RetentionTypeOK, Idle
    <2>3. ASSUME NEW g \in Files \ {f}, g \in ref' \cap owed', lib'[g] = {}
          PROVE  Removing(g)' # {}
      <3>0. g \in ref \cap owed /\ lib[g] = {}
        BY <1>0, <2>1, <2>3 DEF Remove, RetentionTypeOK
      <3>1. PICK k \in Handlers : act[k].file = g /\ act[k].pc \in RemovalPcs
        BY <3>0 DEF LastRemovalDeletes, Removing
      <3>2. act'[k] = act[k]
        BY <1>0, <2>1, <3>1 DEF Remove, RetentionTypeOK
      <3> QED
        BY <3>1, <3>2 DEF Removing
    <2> QED
      BY <2>2, <2>3 DEF LastRemovalDeletes
  <1> QED
    BY <1>1, <1>2, <1>3, <1>4, <1>5, <1>6, <1>7, <1>8, <1>9, <1>10, <1>11

\* The clean-up cycle and the handlers that find a film gone.
LEMMA CycleStepDeletes ==
  ASSUME RetentionInv, LastRemovalDeletes, NEW h \in Handlers,
         \/ CycleStart(h) \/ ListPending(h) \/ Cancel(h) \/ Clear(h) \/ Delete(h)
         \/ CycleEnd(h) \/ GoneLink(h) \/ GoneStream(h)
         \/ \E f \in Files : Mark(h, f) \/ Recheck(h, f) \/ FindGone(h, f)
  PROVE  LastRemovalDeletes'
  <1> USE DEF storeVars, userVars, At, Goto, Done, RemovalPcs
  <1>1. CASE CycleStart(h)
    BY <1>1, OthersStay, RemovalsGoOn DEF CycleStart
  <1>2. CASE ListPending(h)
    <2>1. PICK x : act' = [act EXCEPT ![h] = x]
      BY <1>2 DEF ListPending
    <2>2. act[h].pc \notin RemovalPcs
      BY <1>2 DEF ListPending
    <2> QED
      BY <1>2, <2>1, <2>2, OthersStay, RemovalsGoOn DEF ListPending
  <1>3. CASE Cancel(h)
    BY <1>3, OthersStay, RemovalsGoOn DEF Cancel
  <1>4. CASE Clear(h)
    BY <1>4, OthersStay, RemovalsGoOn DEF Clear
  <1>5. CASE Delete(h)
    BY <1>5, OthersStay, RemovalsGoOn DEF Delete
  <1>6. CASE CycleEnd(h)
    BY <1>6, OthersStay, RemovalsGoOn DEF CycleEnd
  <1>7. CASE GoneLink(h)
    BY <1>7, OthersStay, RemovalsGoOn DEF GoneLink
  <1>8. CASE GoneStream(h)
    BY <1>8, OthersStay, RemovalsGoOn DEF GoneStream
  <1>9. CASE \E f \in Files : Mark(h, f)
    <2>1. PICK f \in Files : Mark(h, f)
      BY <1>9
    <2>2. PICK x : act' = [act EXCEPT ![h] = x]
      BY <2>1 DEF Mark
    <2>3. act[h].pc \notin RemovalPcs
      BY <2>1 DEF Mark
    <2> QED
      BY <2>1, <2>2, <2>3, OthersStay, RemovalsGoOn DEF Mark
  <1>10. CASE \E f \in Files : Recheck(h, f)
    <2>1. PICK f \in Files : Recheck(h, f)
      BY <1>10
    <2>2. PICK x : act' = [act EXCEPT ![h] = x]
      <3> DEFINE x == [act[h] EXCEPT !.file = f, !.todo = @ \ {f},
                                     !.pc = IF lib[f] = {} THEN "clear" ELSE "cancel"]
      <3>1. act' = [act EXCEPT ![h] = x]
        BY <2>1 DEF Recheck
      <3> QED
        BY <3>1
    <2>3. act[h].pc \notin RemovalPcs
      BY <2>1 DEF Recheck
    <2>4. UNCHANGED <<ref, lib, owed>>
      BY <2>1 DEF Recheck
    <2>5. \A k \in Handlers : act[k].pc \in RemovalPcs => act'[k] = act[k]
      BY <2>2, <2>3, OthersStay
    <2>6. /\ \A g \in Files : g \in ref' \cap owed' /\ lib'[g] = {}
                           => g \in ref \cap owed /\ lib[g] = {}
          /\ \A k \in Handlers : act[k].pc \in RemovalPcs =>
               act'[k].file = act[k].file /\ act'[k].pc \in RemovalPcs
      BY <2>4, <2>5
    <2> QED
      BY <2>6, RemovalsGoOn
  <1>11. CASE \E f \in Files : FindGone(h, f)
    <2>1. PICK f \in Files : FindGone(h, f)
      BY <1>11
    <2>2. PICK x : act' = [act EXCEPT ![h] = x]
      BY <2>1 DEF FindGone
    <2>3. act[h].pc \notin RemovalPcs /\ UNCHANGED <<ref, lib, owed>>
      BY <2>1 DEF FindGone
    <2>4. \A k \in Handlers : act[k].pc \in RemovalPcs => act'[k] = act[k]
      BY <2>2, <2>3, OthersStay
    <2>5. /\ \A g \in Files : g \in ref' \cap owed' /\ lib'[g] = {}
                           => g \in ref \cap owed /\ lib[g] = {}
          /\ \A k \in Handlers : act[k].pc \in RemovalPcs =>
               act'[k].file = act[k].file /\ act'[k].pc \in RemovalPcs
      BY <2>3, <2>4
    <2> QED
      BY <2>5, RemovalsGoOn
  <1> QED
    BY <1>1, <1>2, <1>3, <1>4, <1>5, <1>6, <1>7, <1>8, <1>9, <1>10, <1>11

\* Users who remove a film at the same time do not leave its deletion to each
\* other: each removal is committed before its count, so the last one counts
\* none.  Only a fault, which takes the film from owed, may lose it.
THEOREM RemovalsDelete == RetentionAssumption => (RetentionSpec => []LastRemovalDeletes)
  <1> SUFFICES ASSUME RetentionAssumption PROVE RetentionSpec => []LastRemovalDeletes
    OBVIOUS
  <1>1. RetentionInit => RetentionInv /\ LastRemovalDeletes
    BY InitRetentionInv DEF RetentionInit, LastRemovalDeletes
  <1>2. RetentionInv /\ LastRemovalDeletes /\ [RetentionNext]_retentionVars => RetentionInv' /\ LastRemovalDeletes'
    <2> SUFFICES ASSUME RetentionInv, LastRemovalDeletes, [RetentionNext]_retentionVars
                 PROVE  LastRemovalDeletes'
      BY RetentionStep
    <2>1. CASE \/ \E f \in Files, u \in Users : Request(u, f)
               \/ \E f \in Files : Upload(f) \/ DeleteByKey(f)
               \/ DayPasses
      BY <2>1, RemovalsGoOn DEF Request, Upload, DeleteByKey, DayPasses, userVars
    <2>2. CASE UNCHANGED retentionVars
      BY <2>2, RemovalsGoOn DEF retentionVars, storeVars, userVars
    <2> QED
      BY <2>1, <2>2, LibraryStepDeletes, CycleStepDeletes DEF RetentionNext
  <1> QED
    BY <1>1, <1>2, PTL DEF RetentionSpec

-----------------------------------------------------------------------------
(***************************************************************************)
(* What holds of an entry and its audit trail for every number of values,  *)
(* requests in flight and changes.                                         *)
(*                                                                         *)
(* A secret stays hidden because every row that is held anywhere, in the   *)
(* store or in a request that has read it, says itself whether its value   *)
(* is secret: neither the request nor the row that replaces it is asked.   *)
(***************************************************************************)

Marks == Values \cup {Absent, Masked}
Changes == [old: Marks, new: Marks]
Busy == {"commit", "commitErase"}
EditStates == [pc: {"idle", "write", "commit", "erase", "commitErase"}, input: RowsOf,
             keeps: BOOLEAN, seen: RowsOf, id: 0 .. MaxChanges, row: RowsOf]

\* A change that is to commit holds the row alone, and there is room for it.
Alone ==
  /\ \A a, b \in Editors : editor[a].pc \in Busy /\ editor[b].pc \in Busy => a = b
  /\ \A a \in Editors : editor[a].pc \in Busy => Len(trail) < MaxChanges
  /\ version <= Len(trail)

RowSealed(row) == row.value \in Secrets => row.encrypted
RowsSealed ==
  /\ RowSealed(entry)
  /\ \A a \in Editors : RowSealed(editor[a].seen) /\ RowSealed(editor[a].row)

StoreInv == StoreTypeOK /\ Alone /\ RowsSealed /\ SecretsStayHidden /\ HistoryTellsValue

\* Rows are rows, and what is shown of one is a value or a mark, but no secret
\* if the row is sealed.
LEMMA ShownOfRow ==
  ASSUME StoreAssumption, NEW row \in RowsOf, RowSealed(row)
  PROVE  Shown(row) \in Marks /\ Shown(row) \notin Secrets
  BY DEF StoreAssumption, RowsOf, RowSealed, Shown, Marks

\* The empty row and the request that is not there.
LEMMA Nothing ==
  ASSUME StoreAssumption
  PROVE  /\ NoRow \in RowsOf /\ RowSealed(NoRow) /\ NoRow.value = Absent /\ Shown(NoRow) = Absent
         /\ Away \in EditStates /\ Away.pc = "idle" /\ Away.seen = NoRow /\ Away.row = NoRow
  <1>1. NoRow \in RowsOf /\ RowSealed(NoRow) /\ NoRow.value = Absent /\ Shown(NoRow) = Absent
    BY DEF StoreAssumption, NoRow, Row, RowsOf, RowSealed, Shown
  <1> QED
    BY <1>1 DEF StoreAssumption, Away, EditStates

\* At first there is no entry, no trail and no request.
LEMMA InitStore == StoreAssumption /\ StoreInit => StoreInv
  <1> SUFFICES ASSUME StoreAssumption, StoreInit PROVE StoreInv
    OBVIOUS
  <1>1. StoreTypeOK
    BY Nothing DEF StoreInit, StoreTypeOK, EditStates, StoreAssumption
  <1>2. Alone /\ RowsSealed
    BY Nothing DEF StoreInit, Alone, RowsSealed, Busy
  <1>3. SecretsStayHidden /\ HistoryTellsValue
    BY Nothing DEF StoreInit, SecretsStayHidden, HistoryTellsValue, Exists, StoreAssumption
  <1> QED
    BY <1>1, <1>2, <1>3 DEF StoreInv

\* A request that moves without a commit.
LEMMA Moves ==
  ASSUME StoreAssumption, StoreInv, NEW a \in Editors, NEW x \in EditStates,
         editor' = [editor EXCEPT ![a] = x], UNCHANGED <<entry, version, trail>>,
         x.pc \in Busy => ~RowLocked /\ Len(trail) < MaxChanges,
         RowSealed(x.seen), RowSealed(x.row)
  PROVE  StoreInv'
  <1>1. /\ editor' \in [Editors -> EditStates] /\ editor'[a] = x
        /\ \A b \in Editors \ {a} : editor'[b] = editor[b]
    BY DEF StoreInv, StoreTypeOK, EditStates
  <1>2. StoreTypeOK'
    BY <1>1 DEF StoreInv, StoreTypeOK, EditStates
  <1>3. Alone'
    BY <1>1 DEF StoreInv, Alone, RowLocked, Busy
  <1>4. RowsSealed'
    BY <1>1 DEF StoreInv, RowsSealed, RowSealed
  <1>5. SecretsStayHidden' /\ HistoryTellsValue'
    BY DEF StoreInv, SecretsStayHidden, HistoryTellsValue, Exists
  <1> QED
    BY <1>2, <1>3, <1>4, <1>5 DEF StoreInv

\* A commit: the entry becomes the row, and the trail grows by what is shown.
LEMMA Commits ==
  ASSUME StoreAssumption, StoreInv, NEW a \in Editors, editor[a].pc \in Busy,
         NEW row \in RowsOf, RowSealed(row), entry' = row,
         version' \in {version, version + 1},
         trail' = Append(trail, [old |-> Shown(editor[a].seen), new |-> Shown(row)]),
         editor' = [editor EXCEPT ![a] = Away]
  PROVE  StoreInv'
  <1> DEFINE change == [old |-> Shown(editor[a].seen), new |-> Shown(row)]
  <1>1. /\ editor' \in [Editors -> EditStates] /\ editor'[a] = Away
        /\ \A b \in Editors \ {a} : editor'[b] = editor[b]
    BY Nothing DEF StoreInv, StoreTypeOK, EditStates
  <1>2. editor[a].seen \in RowsOf /\ RowSealed(editor[a].seen)
    BY DEF StoreInv, StoreTypeOK, RowsSealed
  <1>3. /\ change \in Changes /\ change.new = Shown(row)
        /\ change.old \notin Secrets /\ change.new \notin Secrets
    BY <1>2, ShownOfRow DEF Changes
  <1>4. trail \in Seq(Changes) /\ trail' = Append(trail, change)
    BY DEF StoreInv, StoreTypeOK, Changes, Marks
  <1> HIDE DEF change
  <1>5. /\ trail' \in Seq(Changes) /\ Len(trail') = Len(trail) + 1 /\ trail' # <<>>
        /\ trail'[Len(trail')] = change
        /\ \A i \in DOMAIN trail' : trail'[i] = change \/ (i \in DOMAIN trail /\ trail'[i] = trail[i])
    BY <1>3, <1>4
  <1>6. Len(trail) \in Nat /\ Len(trail) < MaxChanges /\ MaxChanges \in Nat
        /\ version \in 0 .. MaxChanges /\ version <= Len(trail)
    BY <1>4 DEF StoreInv, Alone, StoreTypeOK, StoreAssumption
  <1>7. Len(trail') <= MaxChanges /\ version' \in 0 .. MaxChanges /\ version' <= Len(trail')
    BY <1>5, <1>6
  <1>8. StoreTypeOK'
    BY <1>1, <1>5, <1>7 DEF StoreTypeOK, EditStates, Changes, Marks
  <1>9. Alone'
    BY <1>1, <1>7, Nothing DEF StoreInv, Alone, Busy
  <1>10. RowsSealed'
    BY <1>1, Nothing DEF StoreInv, RowsSealed, RowSealed
  <1>11. SecretsStayHidden'
    BY <1>3, <1>5 DEF StoreInv, SecretsStayHidden, RowSealed
  <1>12. HistoryTellsValue'
    BY <1>3, <1>5 DEF HistoryTellsValue
  <1> QED
    BY <1>8, <1>9, <1>10, <1>11, <1>12 DEF StoreInv

\* The steps of a request.
LEMMA EditorKept ==
  ASSUME StoreAssumption, StoreInv, NEW a \in Editors,
         \/ \E v \in Values, e, keeps \in BOOLEAN : Find(a, v, e, keeps)
         \/ Write(a) \/ CommitChange(a) \/ FindToDelete(a) \/ Erase(a) \/ CommitErase(a) \/ Rollback(a)
  PROVE  StoreInv'
  <1>0. /\ editor[a] \in EditStates /\ RowSealed(editor[a].seen) /\ RowSealed(editor[a].row)
        /\ entry \in RowsOf /\ RowSealed(entry) /\ version \in 0 .. MaxChanges
    BY DEF StoreInv, StoreTypeOK, RowsSealed, EditStates
  <1>1. ASSUME NEW v \in Values, NEW e \in BOOLEAN, NEW keeps \in BOOLEAN, Find(a, v, e, keeps)
        PROVE  StoreInv'
    <2> DEFINE hidden == IF keeps THEN entry.encrypted ELSE e
               input == Row(v, e)
               row == Row(v, hidden)
               x == [pc |-> "write", input |-> input, keeps |-> keeps, seen |-> entry,
                     id |-> version, row |-> row]
    <2>1. hidden \in BOOLEAN
      BY <1>0 DEF RowsOf
    <2>2. v \in Secrets => hidden
      BY <1>1, Zenon DEF Find
    <2>3. editor' = [editor EXCEPT ![a] = x] /\ UNCHANGED <<entry, version, trail>>
      BY <1>1 DEF Find
    <2> HIDE DEF hidden
    <2>4. input \in RowsOf /\ row \in RowsOf /\ row.value = v /\ row.encrypted = hidden
      BY <2>1 DEF RowsOf, Row
    <2> HIDE DEF input, row
    <2>5. x \in EditStates /\ x.pc = "write" /\ x.seen = entry /\ x.row = row
      BY <1>0, <2>4 DEF EditStates
    <2>6. RowSealed(row)
      BY <2>2, <2>4 DEF RowSealed
    <2> HIDE DEF x
    <2> QED
      BY <1>0, <2>3, <2>5, <2>6, Moves DEF Busy
  <1>2. CASE Write(a)
    <2> DEFINE x == [editor[a] EXCEPT !.pc = "commit"]
    <2>1. x \in EditStates /\ x.seen = editor[a].seen /\ x.row = editor[a].row
      BY <1>0 DEF EditStates
    <2>2. /\ editor' = [editor EXCEPT ![a] = x] /\ UNCHANGED <<entry, version, trail>>
          /\ ~RowLocked /\ Len(trail) < MaxChanges
      BY <1>2 DEF Write
    <2> HIDE DEF x
    <2> QED
      BY <1>0, <2>1, <2>2, Moves
  <1>3. CASE CommitChange(a)
    <2>1. editor[a].row \in RowsOf /\ editor[a].pc \in Busy
      BY <1>0, <1>3 DEF CommitChange, EditorAt, Busy, EditStates
    <2> QED
      BY <1>0, <1>3, <2>1, Commits DEF CommitChange, OldShown, NewShown
  <1>4. CASE FindToDelete(a)
    <2> DEFINE x == [Away EXCEPT !.pc = "erase", !.seen = entry, !.id = version]
    <2>1. x \in EditStates /\ x.pc = "erase" /\ x.seen = entry /\ x.row = NoRow
      BY <1>0, Nothing DEF EditStates
    <2>2. editor' = [editor EXCEPT ![a] = x] /\ UNCHANGED <<entry, version, trail>>
      BY <1>4 DEF FindToDelete
    <2> HIDE DEF x
    <2> QED
      BY <1>0, <2>1, <2>2, Moves, Nothing DEF Busy
  <1>5. CASE Erase(a)
    <2> DEFINE x == [editor[a] EXCEPT !.pc = "commitErase"]
    <2>1. x \in EditStates /\ x.seen = editor[a].seen /\ x.row = editor[a].row
      BY <1>0 DEF EditStates
    <2>2. /\ editor' = [editor EXCEPT ![a] = x] /\ UNCHANGED <<entry, version, trail>>
          /\ ~RowLocked /\ Len(trail) < MaxChanges
      BY <1>5 DEF Erase
    <2> HIDE DEF x
    <2> QED
      BY <1>0, <2>1, <2>2, Moves
  <1>6. CASE CommitErase(a)
    <2>1. editor[a].pc \in Busy
      BY <1>6 DEF CommitErase, EditorAt, Busy
    <2>2. /\ entry' = NoRow /\ version' = version /\ editor' = [editor EXCEPT ![a] = Away]
          /\ trail' = Append(trail, [old |-> Shown(editor[a].seen), new |-> Shown(NoRow)])
      BY <1>6, Nothing DEF CommitErase
    <2> QED
      BY <2>1, <2>2, Commits, Nothing
  <1>7. CASE Rollback(a)
    <2>1. editor' = [editor EXCEPT ![a] = Away] /\ UNCHANGED <<entry, version, trail>>
      BY <1>7 DEF Rollback
    <2> QED
      BY <2>1, Moves, Nothing DEF Busy
  <1> QED
    BY <1>1, <1>2, <1>3, <1>4, <1>5, <1>6, <1>7

\* Every step of a request keeps what the theorems need.
LEMMA StoreKept == StoreAssumption /\ StoreInv /\ [StoreNext]_configVars => StoreInv'
  <1>1. StoreInv /\ UNCHANGED configVars => StoreInv'
    BY DEF configVars, StoreInv, StoreTypeOK, Alone, RowsSealed, SecretsStayHidden, HistoryTellsValue, Exists
  <1> QED
    BY <1>1, EditorKept DEF StoreNext

\* The kinds of the entry, the trail and the requests, and that the trail does
\* not outgrow its bound.
THEOREM StoreTypeCorrect == StoreAssumption => (StoreSpec => []StoreTypeOK)
  <1> SUFFICES ASSUME StoreAssumption PROVE StoreSpec => []StoreTypeOK
    OBVIOUS
  <1>1. StoreInit => StoreInv
    BY InitStore
  <1>2. StoreInv /\ [StoreNext]_configVars => StoreInv'
    BY StoreKept
  <1>3. StoreInv => StoreTypeOK
    BY DEF StoreInv
  <1> QED
    BY <1>1, <1>2, <1>3, PTL DEF StoreSpec

\* However changes and deletions overlap, fail or are rolled back, what the
\* trail says last is what the entry holds.
THEOREM TrailTellsValue == StoreAssumption => (StoreSpec => []HistoryTellsValue)
  <1> SUFFICES ASSUME StoreAssumption PROVE StoreSpec => []HistoryTellsValue
    OBVIOUS
  <1>1. StoreInit => StoreInv
    BY InitStore
  <1>2. StoreInv /\ [StoreNext]_configVars => StoreInv'
    BY StoreKept
  <1>3. StoreInv => HistoryTellsValue
    BY DEF StoreInv
  <1> QED
    BY <1>1, <1>2, <1>3, PTL DEF StoreSpec

\* No secret is ever in the clear, in the entry or in the trail, whichever row
\* replaces it and whatever the request says about encryption.
THEOREM NoSecretShown == StoreAssumption => (StoreSpec => []SecretsStayHidden)
  <1> SUFFICES ASSUME StoreAssumption PROVE StoreSpec => []SecretsStayHidden
    OBVIOUS
  <1>1. StoreInit => StoreInv
    BY InitStore
  <1>2. StoreInv /\ [StoreNext]_configVars => StoreInv'
    BY StoreKept
  <1>3. StoreInv => SecretsStayHidden
    BY DEF StoreInv
  <1> QED
    BY <1>1, <1>2, <1>3, PTL DEF StoreSpec

-----------------------------------------------------------------------------
(* API tokens                                                              *)

\* The requests that have counted the tokens and are to create one.
InFlight == {r \in Requests : creating[r] # "no"}

\* A request that counts finds fewer tokens than the limit, and at worst all
\* requests have counted before the first creates its token.
TokensAndRequests ==
  Cardinality(Unrevoked) + Cardinality(InFlight) <= MAX_TOKENS_PER_USER + Cardinality(Requests) - 1

TokenInv == TokenTypeOK /\ TokensAndRequests

LEMMA TokenSets ==
  ASSUME TokenAssumption
  PROVE  /\ IsFiniteSet(Unrevoked) /\ Cardinality(Unrevoked) \in Nat
         /\ IsFiniteSet(InFlight) /\ Cardinality(InFlight) \in Nat
         /\ Cardinality(Requests) \in Nat /\ Cardinality(InFlight) <= Cardinality(Requests)
         /\ MAX_TOKENS_PER_USER \in Nat \ {0}
<1>1. Unrevoked \in SUBSET Tokens /\ InFlight \in SUBSET Requests
  BY DEF Unrevoked, InFlight
<1> QED
  BY <1>1, FS_Subset, FS_CardinalityType DEF TokenAssumption

LEMMA InitTokens ==
  ASSUME TokenAssumption, TokenInit
  PROVE  TokenInv
<1>1. TokenTypeOK
  BY DEF TokenInit, TokenTypeOK
<1>2. Unrevoked = {} /\ InFlight = {}
  BY DEF TokenInit, Unrevoked, InFlight
<1>3. Cardinality(Unrevoked) = 0 /\ Cardinality(InFlight) = 0
  BY <1>2, FS_EmptySet
<1> QED
  BY <1>1, <1>3, TokenSets DEF TokenInv, TokensAndRequests

LEMMA StepTokens ==
  ASSUME TokenAssumption, TokenInv, [TokenNext]_tokenVars
  PROVE  TokenInv'
<1> USE DEF TokenInv
<1>0. /\ token \in [Tokens -> [made: BOOLEAN, revoked: BOOLEAN, expired: BOOLEAN]]
      /\ plugin \subseteq Tokens /\ setupDue \in BOOLEAN
      /\ creating \in [Requests -> {"no", "token", "setup"}]
  BY DEF TokenTypeOK
<1>1. ASSUME NEW r \in Requests, CountTokens(r)
      PROVE  TokenInv'
  <2>1. Cardinality(Unrevoked) < MAX_TOKENS_PER_USER /\ UNCHANGED <<token, plugin, setupDue>>
    BY <1>1 DEF CountTokens, RoomForToken
  <2>2. TokenTypeOK'
    BY <1>0, <1>1 DEF CountTokens, TokenTypeOK
  <2>3. Unrevoked' = Unrevoked
    BY <2>1 DEF Unrevoked
  <2>4. Cardinality(InFlight') <= Cardinality(Requests) /\ Cardinality(InFlight') \in Nat
    <3>1. InFlight' \in SUBSET Requests
      BY DEF InFlight
    <3> QED
      BY <3>1, FS_Subset, FS_CardinalityType DEF TokenAssumption
  <2> QED
    BY <2>1, <2>2, <2>3, <2>4, TokenSets DEF TokensAndRequests
<1>2. ASSUME NEW r \in Requests, creating[r] # "no", creating' = [creating EXCEPT ![r] = "no"]
      PROVE  Cardinality(InFlight') = Cardinality(InFlight) - 1
  <2>1. InFlight' = InFlight \ {r} /\ r \in InFlight
    BY <1>0, <1>2 DEF InFlight
  <2> QED
    BY <2>1, TokenSets, FS_RemoveElement
<1>3. ASSUME NEW r \in Requests, CreateToken(r)
      PROVE  TokenInv'
  <2>1. PICK t \in Tokens : /\ ~token[t].made
                            /\ token' = [token EXCEPT ![t].made = TRUE]
                            /\ plugin' = IF creating[r] = "setup" THEN plugin \cup {t} ELSE plugin
    BY <1>3 DEF CreateToken
  <2>2. Cardinality(InFlight') = Cardinality(InFlight) - 1
    BY <1>2, <1>3 DEF CreateToken
  <2>3. Unrevoked' \in SUBSET (Unrevoked \cup {t})
    BY <1>0, <2>1 DEF Unrevoked
  <2>4. Cardinality(Unrevoked') <= Cardinality(Unrevoked) + 1 /\ Cardinality(Unrevoked') \in Nat
    <3>0. IsFiniteSet(Unrevoked) /\ Cardinality(Unrevoked) \in Nat
      BY TokenSets
    <3>1. /\ IsFiniteSet(Unrevoked \cup {t}) /\ Cardinality(Unrevoked \cup {t}) \in Nat
          /\ Cardinality(Unrevoked \cup {t}) <= Cardinality(Unrevoked) + 1
      BY <3>0, FS_AddElement
    <3>2. IsFiniteSet(Unrevoked') /\ Cardinality(Unrevoked') <= Cardinality(Unrevoked \cup {t})
      BY <2>3, <3>1, FS_Subset
    <3> QED
      BY <3>1, <3>2, TokenSets, FS_CardinalityType
  <2>5. TokenTypeOK'
    BY <1>0, <1>3, <2>1 DEF CreateToken, TokenTypeOK
  <2> QED
    BY <2>2, <2>4, <2>5, TokenSets DEF TokensAndRequests
<1>4. ASSUME NEW r \in Requests, TokenFails(r)
      PROVE  TokenInv'
  <2>1. Cardinality(InFlight') = Cardinality(InFlight) - 1
    BY <1>2, <1>4 DEF TokenFails
  <2>2. TokenTypeOK' /\ Unrevoked' = Unrevoked
    BY <1>0, <1>4 DEF TokenFails, TokenTypeOK, Unrevoked
  <2> QED
    BY <2>1, <2>2, TokenSets DEF TokensAndRequests
<1>5. ASSUME NEW t \in Tokens, Revoke(t) \/ Expire(t)
      PROVE  TokenInv'
  <2>1. /\ token' \in [Tokens -> [made: BOOLEAN, revoked: BOOLEAN, expired: BOOLEAN]]
        /\ UNCHANGED <<plugin, setupDue, creating>>
        /\ \A s \in Tokens : token'[s].made = token[s].made
        /\ \A s \in Tokens : token[s].revoked => token'[s].revoked
    <3>1. CASE Revoke(t)
      BY <1>0, <3>1 DEF Revoke
    <3>2. CASE Expire(t)
      BY <1>0, <3>2 DEF Expire
    <3> QED
      BY <1>5, <3>1, <3>2
  <2>3. Unrevoked' \in SUBSET Unrevoked /\ InFlight' = InFlight
    BY <2>1 DEF Unrevoked, InFlight
  <2>2. Cardinality(Unrevoked') <= Cardinality(Unrevoked) /\ Cardinality(Unrevoked') \in Nat
    BY <2>3, TokenSets, FS_Subset, FS_CardinalityType
  <2>4. TokenTypeOK'
    BY <1>0, <2>1 DEF TokenTypeOK
  <2> QED
    BY <2>2, <2>3, <2>4, TokenSets DEF TokensAndRequests
<1>6. CASE MinutePasses
  BY <1>0, <1>6 DEF MinutePasses, TokenTypeOK, TokensAndRequests, Unrevoked, InFlight
<1>7. CASE UNCHANGED tokenVars
  BY <1>0, <1>7 DEF tokenVars, TokenTypeOK, TokensAndRequests, Unrevoked, InFlight
<1> QED
  BY <1>1, <1>3, <1>4, <1>5, <1>6, <1>7 DEF TokenNext

\* The rows of tokens keep to their types (src/routes/auth.ts).
THEOREM TokenTypeCorrect == TokenAssumption => (TokenSpec => []TokenTypeOK)
<1> SUFFICES ASSUME TokenAssumption PROVE TokenSpec => []TokenTypeOK
  OBVIOUS
<1>1. TokenInv => TokenTypeOK
  BY DEF TokenInv
<1> QED
  BY <1>1, InitTokens, StepTokens, PTL DEF TokenSpec

\* Requests that count at the same time exceed the limit of api-token.ts by no
\* more than the other requests in flight (POST /auth/api-tokens).
THEOREM TokensNearLimit == TokenAssumption => (TokenSpec => []TokensBounded)
<1> SUFFICES ASSUME TokenAssumption PROVE TokenSpec => []TokensBounded
  OBVIOUS
<1>1. TokenInv => TokensBounded
  BY TokenSets DEF TokenInv, TokensAndRequests, TokensBounded
<1> QED
  BY <1>1, InitTokens, StepTokens, PTL DEF TokenSpec
-----------------------------------------------------------------------------
(* The search history                                                      *)

AdderStates == [pc: {"idle", "count", "find", "delete"},
                excess: 0 .. Cardinality(Films), doomed: SUBSET Films]

\* An addition that will bring the history back within its limit: it has not
\* counted yet, or what it counted or looked up is enough for what there is.
Trims(a) ==
  \/ adder[a].pc = "count"
  \/ adder[a].pc = "find" /\ Cardinality(history) <= MAX_HISTORY_SIZE + adder[a].excess
  \/ adder[a].pc = "delete" /\ Cardinality(history \ adder[a].doomed) <= MAX_HISTORY_SIZE
SomeoneTrims ==
  trimFailed \/ Cardinality(history) <= MAX_HISTORY_SIZE \/ \E a \in Adders : Trims(a)

HistoryInv == HistoryTypeOK /\ SomeoneTrims

LEMMA HistorySets ==
  ASSUME HistoryAssumption, HistoryTypeOK
  PROVE  /\ IsFiniteSet(history) /\ Cardinality(history) \in Nat
         /\ Cardinality(history) <= Cardinality(Films) /\ Cardinality(Films) \in Nat
         /\ MAX_HISTORY_SIZE \in Nat
  BY FS_Subset, FS_CardinalityType DEF HistoryAssumption, HistoryTypeOK

\* An addition that moves.
LEMMA AdderMoves ==
  ASSUME HistoryTypeOK, NEW a \in Adders, NEW x \in AdderStates, adder' = [adder EXCEPT ![a] = x]
  PROVE  /\ adder' \in [Adders -> AdderStates] /\ adder'[a] = x
         /\ \A b \in Adders : b # a => adder'[b] = adder[b]
  BY DEF HistoryTypeOK, AdderStates

\* The film that was added is the latest, the others keep their order.
LEMMA UpsertedInOrder ==
  ASSUME HistoryTypeOK, NEW f \in Films, history' = history \cup {f}, earlier' = Upserted(f)
  PROVE  earlier' \subseteq history' \X history' /\ InOrder'
<1>0. earlier \subseteq history \X history /\ InOrder
  BY DEF HistoryTypeOK
<1>1. ASSUME NEW g \in history', NEW h \in history'
      PROVE  <<g, h>> \in earlier' <=> IF h = f THEN g # f
                                       ELSE <<g, h>> \in earlier /\ g # f
  BY <1>0, <1>1 DEF Upserted
<1>2. earlier' \subseteq history' \X history'
  BY <1>0 DEF Upserted
<1>3. ASSUME NEW g \in history', NEW h \in history', g # h
      PROVE  <<g, h>> \in earlier' <=> <<h, g>> \notin earlier'
  <2>1. CASE g = f \/ h = f
    BY <1>1, <1>3, <2>1
  <2>2. CASE g # f /\ h # f
    <3>1. g \in history /\ h \in history
      BY <2>2
    <3> QED
      BY <1>0, <1>1, <1>3, <2>2, <3>1 DEF InOrder
  <2> QED
    BY <2>1, <2>2
<1>4. ASSUME NEW g \in history', NEW h \in history', NEW k \in history',
             <<g, h>> \in earlier', <<h, k>> \in earlier'
      PROVE  <<g, k>> \in earlier'
  <2>1. h # f /\ g # f /\ <<g, h>> \in earlier
    BY <1>1, <1>4
  <2>2. CASE k = f
    BY <1>1, <2>1, <2>2
  <2>3. CASE k # f
    <3>1. g \in history /\ h \in history /\ k \in history /\ <<h, k>> \in earlier
      BY <1>1, <1>4, <2>1, <2>3
    <3>2. <<g, k>> \in earlier
      BY <1>0, <2>1, <3>1 DEF InOrder
    <3> QED
      BY <1>1, <2>1, <2>3, <3>2
  <2> QED
    BY <2>2, <2>3
<1> QED
  BY <1>2, <1>3, <1>4 DEF InOrder

\* Entries that leave do not disturb the order of the others, nor do they keep
\* an addition from trimming enough.
LEMMA StrikeKeeps ==
  ASSUME HistoryAssumption, HistoryTypeOK, NEW films \in SUBSET Films, Strike(films),
         NEW a \in Adders, adder'[a] = [adder[a] EXCEPT !.doomed = @ \ films], Trims(a)
  PROVE  Trims(a)'
<1>1. adder[a] \in AdderStates
  BY DEF HistoryTypeOK, AdderStates
<1>2. /\ adder'[a].pc = adder[a].pc /\ adder'[a].excess = adder[a].excess
      /\ adder'[a].doomed = adder[a].doomed \ films /\ history' = history \ films
  BY <1>1 DEF AdderStates, Strike
<1>3. IsFiniteSet(history) /\ Cardinality(history) \in Nat /\ MAX_HISTORY_SIZE \in Nat
  BY HistorySets
<1>4. CASE adder[a].pc = "count"
  BY <1>2, <1>4 DEF Trims
<1>5. CASE adder[a].pc = "find" /\ Cardinality(history) <= MAX_HISTORY_SIZE + adder[a].excess
  <2>1. Cardinality(history') <= Cardinality(history) /\ Cardinality(history') \in Nat
    BY <1>2, <1>3, FS_Subset, FS_CardinalityType
  <2>2. adder[a].excess \in Nat
    BY <1>1, HistorySets DEF AdderStates
  <2> QED
    BY <1>2, <1>3, <1>5, <2>1, <2>2 DEF Trims
<1>6. CASE adder[a].pc = "delete" /\ Cardinality(history \ adder[a].doomed) <= MAX_HISTORY_SIZE
  <2>1. /\ IsFiniteSet(history \ adder[a].doomed)
        /\ Cardinality(history \ adder[a].doomed) \in Nat
    BY <1>3, FS_Subset, FS_CardinalityType
  <2>2. history' \ adder'[a].doomed \in SUBSET (history \ adder[a].doomed)
    BY <1>2
  <2>3. /\ Cardinality(history' \ adder'[a].doomed) <= Cardinality(history \ adder[a].doomed)
        /\ Cardinality(history' \ adder'[a].doomed) \in Nat
    BY <2>1, <2>2, FS_Subset, FS_CardinalityType
  <2> QED
    BY <1>2, <1>3, <1>6, <2>1, <2>3 DEF Trims
<1> QED
  BY <1>4, <1>5, <1>6 DEF Trims

LEMMA StrikeOK ==
  ASSUME HistoryAssumption, HistoryTypeOK, NEW films \in SUBSET Films, Strike(films)
  PROVE  /\ history' \subseteq Films /\ earlier' \subseteq history' \X history' /\ InOrder'
         /\ Spared(films) \in [Adders -> AdderStates]
         /\ Cardinality(history') \in Nat /\ Cardinality(history') <= Cardinality(history)
<1>1. history' = history \ films /\ earlier' = earlier \cap (history' \X history')
  BY DEF Strike
<1>2. InOrder'
  BY <1>1 DEF HistoryTypeOK, InOrder
<1>3. Spared(films) \in [Adders -> AdderStates]
  BY DEF HistoryTypeOK, AdderStates, Spared
<1>4. Cardinality(history') \in Nat /\ Cardinality(history') <= Cardinality(history)
  BY <1>1, HistorySets, FS_Subset, FS_CardinalityType
<1> QED
  BY <1>1, <1>2, <1>3, <1>4 DEF HistoryTypeOK

LEMMA InitHistory == HistoryAssumption /\ HistoryInit => HistoryInv
<1> SUFFICES ASSUME HistoryAssumption, HistoryInit PROVE HistoryInv
  OBVIOUS
<1>1. Cardinality(Films) \in Nat /\ Cardinality(history) = 0 /\ MAX_HISTORY_SIZE \in Nat
  BY FS_EmptySet, FS_CardinalityType DEF HistoryAssumption, HistoryInit
<1>2. HistoryTypeOK
  <2>1. Gone \in AdderStates
    BY <1>1 DEF Gone, AdderStates
  <2>2. adder \in [Adders -> AdderStates]
    BY <2>1 DEF HistoryInit
  <2> QED
    BY <2>2 DEF HistoryInit, HistoryTypeOK, InOrder, AdderStates
<1> QED
  BY <1>1, <1>2 DEF HistoryInv, SomeoneTrims

LEMMA StepHistory ==
  ASSUME HistoryAssumption, HistoryInv, [HistoryNext]_historyVars
  PROVE  HistoryInv'
<1> USE DEF HistoryInv
<1>0. /\ history \subseteq Films /\ earlier \subseteq history \X history /\ InOrder
      /\ adder \in [Adders -> AdderStates] /\ trimFailed \in BOOLEAN
  BY DEF HistoryTypeOK, AdderStates
<1>00. Gone \in AdderStates /\ Gone.pc = "idle"
  BY HistorySets DEF Gone, AdderStates
<1>1. ASSUME NEW a \in Adders, NEW f \in Films, AddFilm(a, f)
      PROVE  HistoryInv'
  <2>1. adder' \in [Adders -> AdderStates] /\ adder'[a].pc = "count"
    BY <1>0, <1>1 DEF AddFilm, AdderStates
  <2>2. history' \subseteq Films /\ earlier' \subseteq history' \X history' /\ InOrder'
    BY <1>0, <1>1, UpsertedInOrder DEF AddFilm
  <2> QED
    BY <1>0, <1>1, <2>1, <2>2 DEF AddFilm, HistoryTypeOK, AdderStates, SomeoneTrims, Trims
<1>2. ASSUME NEW a \in Adders, NEW x \in AdderStates, adder' = [adder EXCEPT ![a] = x],
             UNCHANGED <<history, earlier>>, trimFailed' \in BOOLEAN, trimFailed => trimFailed',
             Trims(a) => trimFailed' \/ Trims(a)' \/ Cardinality(history) <= MAX_HISTORY_SIZE
      PROVE  HistoryInv'
  <2>1. /\ adder' \in [Adders -> AdderStates] /\ adder'[a] = x
        /\ \A b \in Adders : b # a => adder'[b] = adder[b]
    BY <1>2, AdderMoves
  <2>2. HistoryTypeOK'
    BY <1>0, <1>2, <2>1 DEF HistoryTypeOK, InOrder, AdderStates
  <2>3. \A b \in Adders : b # a /\ Trims(b) => Trims(b)'
    BY <1>2, <2>1 DEF Trims
  <2> QED
    BY <1>2, <2>2, <2>3 DEF SomeoneTrims
<1>3. ASSUME NEW a \in Adders, CountFilms(a)
      PROVE  HistoryInv'
  <2> DEFINE n == Cardinality(history)
             x == IF Excess(n) = 0 THEN Gone ELSE [Gone EXCEPT !.pc = "find", !.excess = Excess(n)]
  <2>1. n \in Nat /\ n <= Cardinality(Films) /\ Cardinality(Films) \in Nat /\ MAX_HISTORY_SIZE \in Nat
    BY HistorySets
  <2>2. /\ Excess(n) \in 0 .. Cardinality(Films) /\ n <= MAX_HISTORY_SIZE + Excess(n)
        /\ Excess(n) = 0 => n <= MAX_HISTORY_SIZE
    BY <2>1 DEF Excess
  <2> HIDE DEF n
  <2>3. x \in AdderStates /\ (Excess(n) # 0 => x.pc = "find" /\ x.excess = Excess(n))
    BY <1>00, <2>2 DEF AdderStates, Gone
  <2>4. adder' = [adder EXCEPT ![a] = x] /\ UNCHANGED <<history, earlier, trimFailed>>
    BY <1>3 DEF CountFilms, n
  <2> HIDE DEF x
  <2>5. adder'[a] = x
    BY <2>3, <2>4, AdderMoves
  <2>6. Trims(a)' \/ Cardinality(history) <= MAX_HISTORY_SIZE
    BY <2>2, <2>3, <2>4, <2>5 DEF Trims, n
  <2> QED
    BY <1>0, <1>2, <2>3, <2>4, <2>6
<1>4. ASSUME NEW a \in Adders, FindOldest(a)
      PROVE  HistoryInv'
  <2>1. PICK films \in SUBSET history :
          /\ Oldest(films, adder[a].excess)
          /\ adder' = [adder EXCEPT ![a] = [Gone EXCEPT !.pc = "delete", !.doomed = films]]
    BY <1>4 DEF FindOldest
  <2> DEFINE x == [Gone EXCEPT !.pc = "delete", !.doomed = films]
  <2>2. x \in AdderStates /\ x.pc = "delete" /\ x.doomed = films
    BY <1>0, <1>00, <2>1 DEF AdderStates, Gone
  <2>3. adder' = [adder EXCEPT ![a] = x] /\ UNCHANGED <<history, earlier, trimFailed>> /\ adder[a].pc = "find"
    BY <1>4, <2>1 DEF FindOldest
  <2> HIDE DEF x
  <2>4. adder'[a] = x
    BY <2>2, <2>3, AdderMoves
  <2>5. ASSUME Trims(a)
        PROVE  Cardinality(history \ films) <= MAX_HISTORY_SIZE
    <3>1. Cardinality(history) <= MAX_HISTORY_SIZE + adder[a].excess
      BY <2>3, <2>5 DEF Trims
    <3>2. /\ IsFiniteSet(history) /\ Cardinality(history) \in Nat /\ MAX_HISTORY_SIZE \in Nat
          /\ adder[a].excess \in Nat
      BY <1>0, HistorySets DEF AdderStates
    <3>3. CASE films = history
      <4>1. history \ films = {}
        BY <3>3
      <4> QED
        BY <3>2, <4>1, FS_EmptySet
    <3>4. CASE Cardinality(films) = adder[a].excess
      <4>1. history \cap films = films
        BY <2>1
      <4>2. Cardinality(history \ films) = Cardinality(history) - Cardinality(films)
        BY <3>2, <4>1, FS_Difference
      <4> QED
        BY <3>1, <3>2, <3>4, <4>2
    <3> QED
      BY <2>1, <3>3, <3>4 DEF Oldest
  <2>6. Trims(a) => Trims(a)'
    BY <2>2, <2>3, <2>4, <2>5 DEF Trims
  <2> QED
    BY <1>0, <1>2, <2>2, <2>3, <2>6
<1>5. ASSUME NEW a \in Adders, TrimFails(a)
      PROVE  HistoryInv'
  BY <1>00, <1>2, <1>5 DEF TrimFails
<1>6. ASSUME NEW a \in Adders, DeleteOldest(a)
      PROVE  HistoryInv'
  <2> DEFINE films == adder[a].doomed
  <2>1. films \in SUBSET Films /\ Strike(films) /\ trimFailed' = trimFailed
    BY <1>0, <1>6 DEF DeleteOldest, AdderStates
  <2>2. /\ adder' = [Spared(films) EXCEPT ![a] = Gone] /\ adder[a].pc = "delete"
    BY <1>6 DEF DeleteOldest
  <2> HIDE DEF films
  <2>3. /\ Spared(films) \in [Adders -> AdderStates]
        /\ history' \subseteq Films /\ earlier' \subseteq history' \X history' /\ InOrder'
        /\ Cardinality(history') \in Nat /\ Cardinality(history') <= Cardinality(history)
    BY <2>1, StrikeOK
  <2>4. HistoryTypeOK'
    <3>1. adder' \in [Adders -> AdderStates]
      BY <1>00, <2>2, <2>3
    <3> QED
      BY <1>0, <2>1, <2>3, <3>1 DEF HistoryTypeOK, AdderStates
  <2>5. ASSUME NEW b \in Adders, b # a, Trims(b)
        PROVE  Trims(b)'
    <3>1. adder'[b] = [adder[b] EXCEPT !.doomed = @ \ films]
      BY <2>2, <2>3, <2>5 DEF Spared
    <3> QED
      BY <2>1, <2>5, <3>1, StrikeKeeps
  <2>6. Trims(a) => Cardinality(history') <= MAX_HISTORY_SIZE
    BY <2>1, <2>2 DEF Trims, Strike, films
  <2> QED
    BY <2>1, <2>3, <2>4, <2>5, <2>6, HistorySets DEF SomeoneTrims
<1>7. ASSUME NEW films \in SUBSET Films, Forget(films)
      PROVE  HistoryInv'
  <2>1. Strike(films) /\ trimFailed' = trimFailed /\ adder' = Spared(films)
    BY <1>7 DEF Forget
  <2>2. /\ Spared(films) \in [Adders -> AdderStates]
        /\ history' \subseteq Films /\ earlier' \subseteq history' \X history' /\ InOrder'
        /\ Cardinality(history') \in Nat /\ Cardinality(history') <= Cardinality(history)
    BY <2>1, StrikeOK
  <2>3. HistoryTypeOK'
    BY <1>0, <2>1, <2>2 DEF HistoryTypeOK, AdderStates
  <2>4. ASSUME NEW b \in Adders, Trims(b)
        PROVE  Trims(b)'
    <3>1. adder'[b] = [adder[b] EXCEPT !.doomed = @ \ films]
      BY <2>1 DEF Spared
    <3> QED
      BY <2>1, <2>4, <3>1, StrikeKeeps
  <2> QED
    BY <2>1, <2>2, <2>3, <2>4, HistorySets DEF SomeoneTrims
<1>8. CASE UNCHANGED historyVars
  BY <1>0, <1>8 DEF historyVars, HistoryTypeOK, InOrder, SomeoneTrims, Trims
<1>9. /\ Films \in SUBSET Films /\ \A f \in Films : {f} \in SUBSET Films
  OBVIOUS
<1> QED
  BY <1>1, <1>3, <1>4, <1>5, <1>6, <1>7, <1>8, <1>9 DEF HistoryNext

\* The entries of a user are in the order of their times, whatever additions,
\* trims and removals overlap (src/routes/search-history.ts).
THEOREM HistoryTypeCorrect == HistoryAssumption => (HistorySpec => []HistoryTypeOK)
<1> SUFFICES ASSUME HistoryAssumption PROVE HistorySpec => []HistoryTypeOK
  OBVIOUS
<1>1. HistoryInv => HistoryTypeOK
  BY DEF HistoryInv
<1> QED
  BY <1>1, InitHistory, StepHistory, PTL DEF HistorySpec

\* When all additions have ended, none by an error, the history is within its
\* limit (POST /search-history in src/routes/search-history.ts).
THEOREM HistoryWithinLimit == HistoryAssumption => (HistorySpec => []HistorySettles)
<1> SUFFICES ASSUME HistoryAssumption PROVE HistorySpec => []HistorySettles
  OBVIOUS
<1>1. HistoryInv => HistorySettles
  BY DEF HistoryInv, SomeoneTrims, Trims, HistorySettles, AdderIdle
<1> QED
  BY <1>1, InitHistory, StepHistory, PTL DEF HistorySpec

-----------------------------------------------------------------------------
(* Outages                                                                 *)

CallPcs == {"idle", "find", "update", "create", "resolve"}
CallStates == [pc: CallPcs, row: 0 .. MaxIncidents, seen: 0 .. MaxFailures]

\* The calls whose failure recordIncident is about to write, and those of them
\* that found no open incident.
Pending == {c \in Callers : caller[c].pc \in {"find", "update", "create"}}
Creating == {c \in Callers : caller[c].pc = "create"}

\* A row that is not there has counted nothing, and nobody updates one.
RowsMade ==
  /\ \A r \in Rows : incident[r].status = "none" => incident[r].occurrences = 0
  /\ \A c \in Callers : caller[c].pc = "update" =>
       caller[c].row \in Rows /\ incident[caller[c].row].status # "none"
PendingIsDue == Cardinality(Pending) <= unrecorded
RoomToCreate == Cardinality(Open) + Cardinality(Creating) <= Cardinality(Callers)

IncidentInv == IncidentTypeOK /\ RowsMade /\ PendingIsDue /\ FailuresCounted /\ RoomToCreate

LEMMA IncidentSets ==
  ASSUME IncidentAssumption
  PROVE  /\ IsFiniteSet(Pending) /\ IsFiniteSet(Creating) /\ IsFiniteSet(Open) /\ IsFiniteSet(Recorded)
         /\ Cardinality(Pending) \in Nat /\ Cardinality(Creating) \in Nat
         /\ Cardinality(Open) \in Nat /\ Cardinality(Recorded) \in Nat
         /\ Cardinality(Creating) <= Cardinality(Callers) /\ Cardinality(Callers) \in Nat
<1>1. IsFiniteSet(Rows) /\ IsFiniteSet(1 .. MaxFailures)
  BY FS_Interval DEF IncidentAssumption, Rows
<1>2. IsFiniteSet(Rows \X (1 .. MaxFailures))
  BY <1>1, FS_Product
<1>3. /\ Pending \in SUBSET Callers /\ Creating \in SUBSET Callers /\ Open \in SUBSET Rows
      /\ Recorded \in SUBSET (Rows \X (1 .. MaxFailures))
  BY DEF Pending, Creating, Open, Recorded
<1>4. /\ IsFiniteSet(Pending) /\ IsFiniteSet(Creating) /\ IsFiniteSet(Open) /\ IsFiniteSet(Recorded)
      /\ Cardinality(Creating) <= Cardinality(Callers)
  BY <1>1, <1>2, <1>3, FS_Subset DEF IncidentAssumption
<1> QED
  BY <1>4, FS_CardinalityType DEF IncidentAssumption

\* A step of one call that leaves the incidents alone, or only marks them.
LEMMA RecordedKept ==
  ASSUME \A r \in Rows : incident'[r].occurrences = incident[r].occurrences
  PROVE  Recorded' = Recorded
  BY DEF Recorded

\* Each number that a row reaches is recorded once.
LEMMA RecordedOneMore ==
  ASSUME IncidentAssumption, IncidentTypeOK, NEW r \in Rows,
         incident[r].occurrences < MaxFailures,
         incident'[r].occurrences = incident[r].occurrences + 1,
         \A s \in Rows : s # r => incident'[s].occurrences = incident[s].occurrences
  PROVE  Cardinality(Recorded') = Cardinality(Recorded) + 1
<1> DEFINE n == incident[r].occurrences + 1
<1>1. n \in 1 .. MaxFailures /\ \A s \in Rows : incident[s].occurrences \in 0 .. MaxFailures
  BY DEF IncidentTypeOK, IncidentAssumption
<1>2. ASSUME NEW e \in Rows \X (1 .. MaxFailures)
      PROVE  e \in Recorded' <=> (e \in Recorded \/ e = <<r, n>>)
  <2>1. PICK s \in Rows, m \in 1 .. MaxFailures : e = <<s, m>>
    OBVIOUS
  <2>2. e \in Recorded' <=> m <= incident'[s].occurrences
    BY <2>1 DEF Recorded
  <2>3. e \in Recorded <=> m <= incident[s].occurrences
    BY <2>1 DEF Recorded
  <2>4. CASE s = r
    BY <1>1, <2>1, <2>2, <2>3, <2>4
  <2>5. CASE s # r
    BY <2>1, <2>2, <2>3, <2>5
  <2> QED
    BY <2>4, <2>5
<1>3. Recorded' = Recorded \cup {<<r, n>>}
  BY <1>1, <1>2 DEF Recorded
<1>4. <<r, n>> \notin Recorded
  BY <1>1 DEF Recorded
<1> QED
  BY <1>3, <1>4, IncidentSets, FS_AddElement

\* A row holds no more than all rows do.
LEMMA RowWithinAll ==
  ASSUME IncidentAssumption, IncidentTypeOK, NEW r \in Rows
  PROVE  incident[r].occurrences <= Cardinality(Recorded)
<1> DEFINE n == incident[r].occurrences
           f == [m \in 1 .. n |-> <<r, m>>]
<1>1. n \in 0 .. MaxFailures /\ MaxFailures \in Nat
  BY DEF IncidentTypeOK, IncidentAssumption
<1>2. \A m \in 1 .. n : <<r, m>> \in Recorded
  BY <1>1 DEF Recorded
<1>3. f \in Injection(1 .. n, Recorded)
  BY <1>2 DEF Injection, IsInjective
<1>4. Cardinality(1 .. n) <= Cardinality(Recorded)
  BY <1>3, IncidentSets, FS_Injection
<1>5. Cardinality(1 .. n) = n
  BY <1>1, FS_Interval
<1> QED
  BY <1>4, <1>5

\* A call that moves.
LEMMA CallMoves ==
  ASSUME IncidentTypeOK, NEW c \in Callers, NEW x \in CallStates, caller' = [caller EXCEPT ![c] = x]
  PROVE  /\ caller' \in [Callers -> CallStates] /\ caller'[c] = x
         /\ \A d \in Callers : d # c => caller'[d] = caller[d]
  BY DEF IncidentTypeOK, CallStates, CallPcs

\* What a call's move means for those that are about to write.
LEMMA PendingMoves ==
  ASSUME IncidentAssumption, IncidentTypeOK, NEW c \in Callers,
         \A d \in Callers : d # c => caller'[d] = caller[d]
  PROVE  /\ caller[c].pc \in {"find", "update", "create"} /\ caller'[c].pc = "idle" =>
              /\ Cardinality(Pending') = Cardinality(Pending) - 1
              /\ Cardinality(Pending) >= 1
         /\ caller[c].pc = "create" /\ caller'[c].pc = "idle" =>
              Cardinality(Creating') = Cardinality(Creating) - 1
         /\ (caller[c].pc \in {"find", "update", "create"} <=> caller'[c].pc \in {"find", "update", "create"})
              => Pending' = Pending
         /\ caller[c].pc # "create" /\ caller'[c].pc # "create" => Creating' = Creating
<1>1. ASSUME caller[c].pc \in {"find", "update", "create"}, caller'[c].pc = "idle"
      PROVE  Cardinality(Pending') = Cardinality(Pending) - 1 /\ Cardinality(Pending) >= 1
  <2>1. Pending' = Pending \ {c} /\ c \in Pending
    BY <1>1 DEF Pending
  <2>2. Pending # {} /\ IsFiniteSet(Pending) /\ Cardinality(Pending) \in Nat
    BY <2>1, IncidentSets
  <2>3. Cardinality(Pending) # 0
    BY <2>2, FS_EmptySet
  <2>4. Cardinality(Pending \ {c}) = Cardinality(Pending) - 1
    BY <2>1, <2>2, FS_RemoveElement
  <2>5. Cardinality(Pending) >= 1
    BY <2>2, <2>3
  <2> QED
    BY <2>1, <2>4, <2>5
<1>2. ASSUME caller[c].pc = "create", caller'[c].pc = "idle"
      PROVE  Cardinality(Creating') = Cardinality(Creating) - 1
  <2>1. Creating' = Creating \ {c} /\ c \in Creating
    BY <1>2 DEF Creating
  <2>2. IsFiniteSet(Creating)
    BY IncidentSets
  <2>3. Cardinality(Creating \ {c}) = Cardinality(Creating) - 1
    BY <2>1, <2>2, FS_RemoveElement
  <2> QED
    BY <2>1, <2>3
<1>3. ASSUME caller[c].pc \in {"find", "update", "create"} <=> caller'[c].pc \in {"find", "update", "create"}
      PROVE  Pending' = Pending
  BY <1>3 DEF Pending
<1>4. ASSUME caller[c].pc # "create", caller'[c].pc # "create"
      PROVE  Creating' = Creating
  BY <1>4 DEF Creating
<1> QED
  BY <1>1, <1>2, <1>3, <1>4

LEMMA InitIncident == IncidentAssumption /\ IncidentInit => IncidentInv
<1> SUFFICES ASSUME IncidentAssumption, IncidentInit PROVE IncidentInv
  OBVIOUS
<1>1. IncidentTypeOK
  BY DEF IncidentInit, IncidentTypeOK, IncidentAssumption, NotCalling
<1>2. Pending = {} /\ Creating = {} /\ Open = {} /\ RowsMade
  BY DEF IncidentInit, NotCalling, Pending, Creating, Open, RowsMade
<1>3. Recorded = {}
  BY DEF IncidentInit, Recorded
<1> QED
  BY <1>1, <1>2, <1>3, IncidentSets, FS_EmptySet
     DEF IncidentInv, IncidentInit, PendingIsDue, RoomToCreate, FailuresCounted

LEMMA StepIncident ==
  ASSUME IncidentAssumption, IncidentInv, [IncidentNext]_incidentVars
  PROVE  IncidentInv'
<1> USE DEF IncidentInv
<1>0. /\ incident \in [Rows -> [status: {"none", "open", "resolved"}, occurrences: 0 .. MaxFailures]]
      /\ caller \in [Callers -> CallStates] /\ failures \in 0 .. MaxFailures /\ unrecorded \in 0 .. failures
      /\ MaxFailures \in Nat /\ MaxIncidents \in Nat
  BY DEF IncidentTypeOK, IncidentAssumption, CallStates, CallPcs
<1>00. NotCalling \in CallStates /\ NotCalling.pc = "idle" /\ [NotCalling EXCEPT !.pc = "create"] \in CallStates
  BY <1>0 DEF NotCalling, CallStates, CallPcs
<1>1. ASSUME NEW c \in Callers, CallFails(c)
      PROVE  IncidentInv'
  <2>1. /\ caller'[c] = [caller[c] EXCEPT !.pc = "find"] /\ caller' \in [Callers -> CallStates]
        /\ caller[c].pc = "idle"
        /\ \A d \in Callers : d # c => caller'[d] = caller[d]
    BY <1>0, <1>1 DEF CallFails, CallStates, CallPcs
  <2>2. Pending' = Pending \cup {c} /\ c \notin Pending /\ Creating' = Creating
    BY <2>1 DEF Pending, Creating, CallStates
  <2>3. Cardinality(Pending') = Cardinality(Pending) + 1
    BY <2>2, IncidentSets, FS_AddElement
  <2>4. IncidentTypeOK'
    BY <1>0, <1>1, <2>1 DEF CallFails, IncidentTypeOK, CallStates, CallPcs
  <2>5. RowsMade'
    BY <1>1, <2>1 DEF CallFails, RowsMade, CallStates
  <2>6. PendingIsDue'
    BY <1>0, <1>1, <2>3, IncidentSets DEF CallFails, PendingIsDue
  <2>7. Recorded' = Recorded /\ Open' = Open
    BY <1>1 DEF CallFails, Recorded, Open
  <2>8. FailuresCounted'
    BY <1>0, <1>1, <2>7 DEF CallFails, FailuresCounted
  <2> QED
    BY <2>2, <2>4, <2>5, <2>6, <2>7, <2>8 DEF RoomToCreate
<1>2. ASSUME NEW c \in Callers, NEW x \in CallStates, caller' = [caller EXCEPT ![c] = x],
             UNCHANGED <<incident, failures, unrecorded>>,
             x.pc = "update" => x.row \in Rows /\ incident[x.row].status # "none",
             Cardinality(Pending') <= unrecorded,
             Cardinality(Open) + Cardinality(Creating') <= Cardinality(Callers)
      PROVE  IncidentInv'
  <2>1. /\ caller' \in [Callers -> CallStates] /\ caller'[c] = x
        /\ \A d \in Callers : d # c => caller'[d] = caller[d]
    BY <1>2, CallMoves
  <2>2. IncidentTypeOK'
    BY <1>0, <1>2, <2>1 DEF IncidentTypeOK, CallStates, CallPcs
  <2>3. RowsMade'
    BY <1>2, <2>1 DEF RowsMade
  <2>4. Recorded' = Recorded /\ Open' = Open
    BY <1>2 DEF Recorded, Open
  <2> QED
    BY <1>2, <2>2, <2>3, <2>4 DEF PendingIsDue, RoomToCreate, FailuresCounted
<1>3. ASSUME NEW c \in Callers, CallSucceeds(c)
      PROVE  IncidentInv'
  <2> DEFINE x == [caller[c] EXCEPT !.pc = "resolve"]
  <2>1. x \in CallStates /\ x.pc = "resolve" /\ caller[c].pc = "idle" /\ caller' = [caller EXCEPT ![c] = x]
    BY <1>0, <1>3 DEF CallSucceeds, CallStates, CallPcs
  <2>2. caller'[c] = x /\ \A d \in Callers : d # c => caller'[d] = caller[d]
    BY <2>1, CallMoves
  <2>3. Pending' = Pending /\ Creating' = Creating
    BY <2>1, <2>2, PendingMoves
  <2> QED
    BY <1>2, <1>3, <2>1, <2>3 DEF CallSucceeds, PendingIsDue, RoomToCreate
<1>4. ASSUME NEW c \in Callers, FindOpen(c)
      PROVE  IncidentInv'
  <2>1. caller[c].pc = "find" /\ UNCHANGED <<incident, failures, unrecorded>>
    BY <1>4 DEF FindOpen
  <2>2. CASE Known = {} /\ caller' = [caller EXCEPT ![c] = [NotCalling EXCEPT !.pc = "create"]]
    <3> DEFINE x == [NotCalling EXCEPT !.pc = "create"]
    <3>1. x \in CallStates /\ x.pc = "create"
      BY <1>00 DEF NotCalling
    <3>2. caller'[c] = x /\ \A d \in Callers : d # c => caller'[d] = caller[d]
      BY <2>2, <3>1, CallMoves
    <3>3. Pending' = Pending
      BY <2>1, <3>1, <3>2, PendingMoves
    <3>4. Cardinality(Open) = 0
      BY <2>2, FS_EmptySet DEF Open, Known
    <3>5. /\ Cardinality(Creating') \in Nat
          /\ Cardinality(Creating') <= Cardinality(Callers)
      <4>1. Creating' \in SUBSET Callers
        BY DEF Creating
      <4> QED
        BY <4>1, FS_Subset, FS_CardinalityType DEF IncidentAssumption
    <3>6. /\ Cardinality(Pending') <= unrecorded
          /\ Cardinality(Open) + Cardinality(Creating') <= Cardinality(Callers)
      BY <3>3, <3>4, <3>5, IncidentSets DEF PendingIsDue
    <3> HIDE DEF x
    <3> QED
      BY <1>2, <2>1, <2>2, <3>1, <3>6 DEF x
  <2>3. ASSUME NEW r \in Known,
               caller' = [caller EXCEPT ![c] = [pc |-> "update", row |-> r, seen |-> incident[r].occurrences]]
        PROVE  IncidentInv'
    <3> DEFINE x == [pc |-> "update", row |-> r, seen |-> incident[r].occurrences]
    <3>1. x \in CallStates /\ x.pc = "update" /\ x.row \in Rows /\ incident[x.row].status # "none"
      BY <1>0, <2>3 DEF Known, CallStates, CallPcs, Rows
    <3>2. caller'[c] = x /\ \A d \in Callers : d # c => caller'[d] = caller[d]
      BY <2>3, <3>1, CallMoves
    <3>3. Pending' = Pending /\ Creating' = Creating
      BY <2>1, <3>1, <3>2, PendingMoves
    <3> QED
      BY <1>2, <2>1, <2>3, <3>1, <3>3 DEF PendingIsDue, RoomToCreate
  <2> QED
    BY <1>4, <2>2, <2>3 DEF FindOpen
<1>5. ASSUME NEW c \in Callers, RecordLost(c)
      PROVE  IncidentInv'
  <2>1. /\ caller'[c] = NotCalling /\ \A d \in Callers : d # c => caller'[d] = caller[d]
        /\ caller' = [caller EXCEPT ![c] = NotCalling] /\ UNCHANGED <<incident, failures, unrecorded>>
    BY <1>5, <1>00, CallMoves DEF RecordLost
  <2>2. Pending' \in SUBSET Pending /\ Creating' \in SUBSET Creating
    BY <1>00, <2>1 DEF Pending, Creating
  <2>3. /\ Cardinality(Pending') <= Cardinality(Pending) /\ Cardinality(Creating') <= Cardinality(Creating)
        /\ Cardinality(Pending') \in Nat /\ Cardinality(Creating') \in Nat
    BY <2>2, IncidentSets, FS_Subset, FS_CardinalityType
  <2>4. /\ Cardinality(Pending') <= unrecorded
        /\ Cardinality(Open) + Cardinality(Creating') <= Cardinality(Callers)
    BY <1>0, <2>3, IncidentSets DEF PendingIsDue, RoomToCreate
  <2> QED
    BY <1>2, <1>00, <2>1, <2>4
<1>6. ASSUME NEW c \in Callers, Increment(c)
      PROVE  IncidentInv'
  <2> DEFINE r == caller[c].row
  <2>1. /\ caller'[c] = NotCalling /\ \A d \in Callers : d # c => caller'[d] = caller[d]
        /\ caller' \in [Callers -> CallStates] /\ caller[c].pc = "update"
    BY <1>6, <1>00, CallMoves DEF Increment
  <2>2. r \in Rows /\ incident[r].status # "none"
    BY <2>1 DEF RowsMade
  <2>3. /\ Cardinality(Pending') = Cardinality(Pending) - 1 /\ Cardinality(Pending) >= 1
        /\ Creating' = Creating
    BY <1>00, <2>1, PendingMoves
  <2>4. unrecorded >= 1 /\ unrecorded' = unrecorded - 1 /\ failures' = failures
    BY <1>0, <1>6, <2>3, IncidentSets DEF Increment, PendingIsDue
  <2>5. incident[r].occurrences <= Cardinality(Recorded) /\ Cardinality(Recorded) = failures - unrecorded
    BY <2>2, RowWithinAll DEF FailuresCounted
  <2>6. incident[r].occurrences \in 0 .. MaxFailures /\ incident[r].occurrences < MaxFailures
    BY <1>0, <2>2, <2>4, <2>5, IncidentSets
  <2>7. /\ incident' \in [Rows -> [status: {"none", "open", "resolved"}, occurrences: 0 .. MaxFailures]]
        /\ incident'[r].occurrences = incident[r].occurrences + 1
        /\ \A s \in Rows : s # r => incident'[s] = incident[s]
        /\ \A s \in Rows : incident'[s].status = incident[s].status
    BY <1>0, <1>6, <2>2, <2>6 DEF Increment, Counted
  <2>8. Cardinality(Recorded') = Cardinality(Recorded) + 1
    BY <2>2, <2>6, <2>7, RecordedOneMore
  <2>9. IncidentTypeOK'
    BY <1>0, <2>1, <2>4, <2>7 DEF IncidentTypeOK, CallStates, CallPcs
  <2>10. RowsMade'
    BY <1>00, <2>1, <2>2, <2>7 DEF RowsMade
  <2>11. Open' = Open
    BY <2>7 DEF Open
  <2>12. PendingIsDue' /\ FailuresCounted'
    BY <1>0, <2>3, <2>4, <2>5, <2>8, IncidentSets DEF PendingIsDue, FailuresCounted
  <2> QED
    BY <2>3, <2>9, <2>10, <2>11, <2>12 DEF RoomToCreate
<1>7. ASSUME NEW c \in Callers, Create(c)
      PROVE  IncidentInv'
  <2>0. PICK r \in Unused : incident' = [incident EXCEPT ![r] = [status |-> "open", occurrences |-> 1]]
    BY <1>7 DEF Create
  <2>1. /\ caller'[c] = NotCalling /\ \A d \in Callers : d # c => caller'[d] = caller[d]
        /\ caller' \in [Callers -> CallStates] /\ caller[c].pc = "create"
    BY <1>7, <1>00, CallMoves DEF Create
  <2>2. r \in Rows /\ incident[r].status = "none" /\ incident[r].occurrences = 0
    BY <2>0 DEF RowsMade, Unused
  <2>3. /\ Cardinality(Pending') = Cardinality(Pending) - 1 /\ Cardinality(Pending) >= 1
        /\ Cardinality(Creating') = Cardinality(Creating) - 1
    BY <1>00, <2>1, PendingMoves
  <2>4. unrecorded >= 1 /\ unrecorded' = unrecorded - 1 /\ failures' = failures /\ 1 \in 0 .. MaxFailures
    BY <1>0, <1>7, <2>3, IncidentSets DEF Create, PendingIsDue
  <2>7. /\ incident' \in [Rows -> [status: {"none", "open", "resolved"}, occurrences: 0 .. MaxFailures]]
        /\ incident'[r].occurrences = 1 /\ incident'[r].status = "open"
        /\ \A s \in Rows : s # r => incident'[s] = incident[s]
    BY <1>0, <2>0, <2>2, <2>4
  <2>8. Cardinality(Recorded') = Cardinality(Recorded) + 1
    BY <1>0, <2>2, <2>4, <2>7, RecordedOneMore
  <2>9. IncidentTypeOK'
    BY <1>0, <2>1, <2>4, <2>7 DEF IncidentTypeOK, CallStates, CallPcs
  <2>10. RowsMade'
    BY <1>00, <2>1, <2>2, <2>7 DEF RowsMade
  <2>11. Open' = Open \cup {r} /\ r \notin Open
    BY <2>2, <2>7 DEF Open
  <2>12. Cardinality(Open') = Cardinality(Open) + 1
    BY <2>11, IncidentSets, FS_AddElement
  <2>13. PendingIsDue' /\ FailuresCounted'
    BY <1>0, <2>3, <2>4, <2>8, IncidentSets DEF PendingIsDue, FailuresCounted
  <2>14. RoomToCreate'
    BY <2>3, <2>12, IncidentSets DEF RoomToCreate
  <2> QED
    BY <2>9, <2>10, <2>13, <2>14
<1>8. ASSUME NEW c \in Callers, ResolveOpen(c)
      PROVE  IncidentInv'
  <2>1. /\ caller'[c] = NotCalling /\ \A d \in Callers : d # c => caller'[d] = caller[d]
        /\ caller' \in [Callers -> CallStates] /\ caller[c].pc = "resolve" /\ UNCHANGED <<failures, unrecorded>>
    BY <1>8, <1>00, CallMoves DEF ResolveOpen
  <2>2. Pending' = Pending /\ Creating' = Creating
    BY <1>00, <2>1, PendingMoves
  <2>3. ASSUME NEW r \in Rows
        PROVE  /\ incident'[r] \in [status: {"none", "open", "resolved"}, occurrences: 0 .. MaxFailures]
               /\ incident'[r].occurrences = incident[r].occurrences
               /\ incident'[r].status # "open"
               /\ incident'[r].status = "none" <=> incident[r].status = "none"
    <3>1. incident[r] \in [status: {"none", "open", "resolved"}, occurrences: 0 .. MaxFailures]
      BY <1>0
    <3>2. incident'[r] = IF r \in Open THEN [incident[r] EXCEPT !.status = "resolved"] ELSE incident[r]
      BY <1>8 DEF ResolveOpen
    <3>3. CASE r \in Open
      BY <3>1, <3>2, <3>3 DEF Open
    <3>4. CASE r \notin Open
      BY <3>1, <3>2, <3>4 DEF Open
    <3> QED
      BY <3>3, <3>4
  <2>4. IncidentTypeOK'
    <3>1. incident' \in [Rows -> [status: {"none", "open", "resolved"}, occurrences: 0 .. MaxFailures]]
      BY <1>8, <2>3 DEF ResolveOpen
    <3> QED
      BY <1>0, <2>1, <3>1 DEF IncidentTypeOK, CallStates, CallPcs
  <2>5. RowsMade'
    BY <1>00, <2>1, <2>3 DEF RowsMade
  <2>6. Recorded' = Recorded /\ Open' = {}
    BY <2>3, RecordedKept DEF Open
  <2>7. RoomToCreate'
    BY <2>2, <2>6, IncidentSets, FS_EmptySet DEF RoomToCreate
  <2> QED
    BY <2>1, <2>2, <2>4, <2>5, <2>6, <2>7 DEF PendingIsDue, FailuresCounted
<1>9. CASE UNCHANGED incidentVars
  BY <1>9 DEF incidentVars, IncidentTypeOK, RowsMade, PendingIsDue, FailuresCounted, RoomToCreate,
              Pending, Creating, Open, Recorded
<1> QED
  BY <1>1, <1>3, <1>4, <1>5, <1>6, <1>7, <1>8, <1>9 DEF IncidentNext

\* The steps of recordIncident and resolveIncident keep the invariant.
THEOREM IncidentInvariant == ASSUME IncidentAssumption PROVE IncidentSpec => []IncidentInv
  BY InitIncident, StepIncident, PTL DEF IncidentSpec

\* The rows of incidents keep to their types (src/lib/incidents.ts).
THEOREM IncidentTypeCorrect == ASSUME IncidentAssumption PROVE IncidentSpec => []IncidentTypeOK
<1>1. IncidentInv => IncidentTypeOK
  BY DEF IncidentInv
<1> QED
  BY <1>1, IncidentInvariant, PTL

\* Failures that are recorded at the same time do not overwrite each other
\* (the atomic increment of recordIncident in src/lib/incidents.ts).
THEOREM NoFailureLost == ASSUME IncidentAssumption PROVE IncidentSpec => []FailuresCounted
<1>1. IncidentInv => FailuresCounted
  BY DEF IncidentInv
<1> QED
  BY <1>1, IncidentInvariant, PTL

\* There are never more open incidents than calls in flight (findFirst and
\* create of recordIncident in src/lib/incidents.ts).
THEOREM FewDuplicates == ASSUME IncidentAssumption PROVE IncidentSpec => []DuplicatesBounded
<1>1. IncidentAssumption /\ IncidentInv => DuplicatesBounded
  BY IncidentSets DEF IncidentInv, RoomToCreate, DuplicatesBounded
<1> QED
  BY <1>1, IncidentInvariant, PTL

-----------------------------------------------------------------------------
(* The plugin                                                              *)

LEMMA Horizons ==
  ASSUME PluginAssumption
  PROVE  /\ Horizon \in Nat /\ SuccessTtl < Horizon /\ ErrorTtl \in Nat /\ SuccessTtl \in Nat
         /\ 1 \in Versions /\ \A v \in Versions : v \in 0 .. MaxVersion
         /\ \A n \in 0 .. Horizon : Older(n) \in 0 .. Horizon
  BY DEF PluginAssumption, Horizon, Versions, Older

LEMMA EntriesMade ==
  ASSUME PluginAssumption
  PROVE  /\ NoEntry \in Entries /\ Bad \in Entries
         /\ \A v \in 0 .. MaxVersion : Good(v) \in Entries
  BY Horizons DEF NoEntry, Bad, Good, Entries, PluginAssumption

LEMMA ClientMoves ==
  ASSUME PluginAssumption, PluginTypeOK, NEW c \in Clients, NEW pc, NEW v, NEW zip \in BOOLEAN,
         pc \in {"idle", "fetch", "download", "repack", "served", "refused"},
         v \in 0 .. MaxVersion, To(c, pc, v, zip)
  PROVE  /\ client' \in [Clients -> [pc: {"idle", "fetch", "download", "repack", "served", "refused"},
                                     zip: BOOLEAN, version: 0 .. MaxVersion, ticks: 0 .. MaxFlight]]
         /\ client'[c].pc = pc /\ client'[c].version = v /\ client'[c].ticks = client[c].ticks
         /\ \A d \in Clients : d # c => client'[d] = client[d]
  BY DEF To, PluginTypeOK

\* Nothing but the source, the delivery and the requests changes by a refusal.
LEMMA Refusals ==
  ASSUME PluginAssumption, PluginTypeOK, NEW c \in Clients, NEW zip \in BOOLEAN, Refuse(c, zip)
  PROVE  /\ client' \in [Clients -> [pc: {"idle", "fetch", "download", "repack", "served", "refused"},
                                     zip: BOOLEAN, version: 0 .. MaxVersion, ticks: 0 .. MaxFlight]]
         /\ client'[c].pc = "refused" /\ client'[c].ticks = client[c].ticks
         /\ \A d \in Clients : d # c => client'[d] = client[d]
         /\ delivery' \in Entries /\ delivery' \in {delivery, Bad}
<1>1. To(c, "refused", 0, zip) /\ 0 \in 0 .. MaxVersion
  BY DEF Refuse, PluginAssumption
<1>2. delivery' \in Entries /\ delivery' \in {delivery, Bad}
  BY EntriesMade DEF Refuse, PluginTypeOK
<1> QED
  BY <1>1, <1>2, ClientMoves

\* The caches of the plugin keep to their types
\* (src/lib/jellyfin-plugin-source.ts and src/routes/jellyfin.ts).
THEOREM PluginTypeCorrect == ASSUME PluginAssumption PROVE PluginSpec => []PluginTypeOK
<1> DEFINE PluginRequests == [Clients -> [pc: {"idle", "fetch", "download", "repack", "served", "refused"},
                                    zip: BOOLEAN, version: 0 .. MaxVersion, ticks: 0 .. MaxFlight]]
<1>1. [c \in Clients |-> Resting] \in PluginRequests
  BY DEF Resting, MaxFlight, PluginAssumption
<1>2. PluginInit => PluginTypeOK
  BY <1>1, Horizons, EntriesMade DEF PluginInit, PluginTypeOK
<1>3. ASSUME PluginTypeOK, [PluginNext]_pluginVars
      PROVE  PluginTypeOK'
  <2> USE PluginTypeOK
  <2>0. /\ latest \in Versions /\ gone \in [Versions -> 0 .. Horizon] /\ source \in Entries
        /\ delivery \in Entries /\ client \in PluginRequests /\ trouble \in 0 .. Horizon
        /\ 0 \in 0 .. Horizon /\ 0 \in 0 .. MaxVersion
    BY Horizons DEF PluginTypeOK, PluginAssumption
  <2>00. \A c \in Clients : client[c].version \in 0 .. MaxVersion /\ client[c].zip \in BOOLEAN
    BY <2>0
  <2>000. source.version \in 0 .. MaxVersion /\ delivery.version \in 0 .. MaxVersion
    BY <2>0 DEF Entries
  <2>1. ASSUME NEW c \in Clients, Manifest(c)
        PROVE  PluginTypeOK'
    <3>1. client' \in PluginRequests
      BY <2>1, <2>000, ClientMoves DEF Manifest
    <3> QED
      BY <2>0, <2>1, <3>1 DEF Manifest, PluginTypeOK
  <2>2. ASSUME NEW c \in Clients, NEW zip \in BOOLEAN, Build(c, zip)
        PROVE  PluginTypeOK'
    <3>1. latest' = latest /\ gone' = gone /\ trouble' = trouble
      BY <2>2 DEF Build
    <3>2. CASE To(c, "fetch", 0, zip) /\ UNCHANGED <<source, delivery>>
      <4>1. client' \in PluginRequests
        BY <2>0, <3>2, ClientMoves
      <4> QED
        BY <2>0, <3>1, <3>2, <4>1 DEF PluginTypeOK
    <3>3. CASE Refuse(c, zip) /\ UNCHANGED source
      <4>1. client' \in PluginRequests /\ delivery' \in Entries
        BY <3>3, Refusals
      <4> QED
        BY <2>0, <3>1, <3>3, <4>1 DEF PluginTypeOK
    <3>4. CASE To(c, "repack", source.version, zip) /\ source' = AfterHit /\ UNCHANGED delivery
      <4>1. client' \in PluginRequests
        BY <2>000, <3>4, ClientMoves
      <4> QED
        BY <2>0, <3>1, <3>4, <4>1 DEF PluginTypeOK, AfterHit
    <3> QED
      BY <2>2, <3>2, <3>3, <3>4 DEF Build
  <2>3. ASSUME NEW c \in Clients, Resolve(c)
        PROVE  PluginTypeOK'
    <3>1. client' \in PluginRequests
      BY <2>0, <2>00, <2>3, Horizons, ClientMoves DEF Resolve
    <3> QED
      BY <2>0, <2>3, <3>1 DEF Resolve, PluginTypeOK
  <2>4. ASSUME NEW c \in Clients, Fetched(c)
        PROVE  PluginTypeOK'
    <3>1. client' \in PluginRequests
      BY <2>00, <2>4, ClientMoves DEF Fetched
    <3>2. source' \in Entries
      BY <2>00, <2>4, EntriesMade DEF Fetched
    <3> QED
      BY <2>0, <2>4, <3>1, <3>2 DEF Fetched, PluginTypeOK
  <2>5. ASSUME NEW c \in Clients, FetchFails(c)
        PROVE  PluginTypeOK'
    <3>1. client' \in PluginRequests /\ delivery' \in Entries
      BY <2>00, <2>5, Refusals DEF FetchFails
    <3> QED
      BY <2>0, <2>5, <3>1, EntriesMade DEF FetchFails, PluginTypeOK
  <2>6. ASSUME NEW c \in Clients, Repacked(c)
        PROVE  PluginTypeOK'
    <3>1. client' \in PluginRequests
      BY <2>00, <2>6, ClientMoves DEF Repacked
    <3>2. delivery' \in Entries
      BY <2>00, <2>6, EntriesMade DEF Repacked
    <3> QED
      BY <2>0, <2>6, <3>1, <3>2 DEF Repacked, PluginTypeOK
  <2>7. ASSUME NEW c \in Clients, RepackFails(c)
        PROVE  PluginTypeOK'
    <3>1. client' \in PluginRequests /\ delivery' \in Entries
      BY <2>00, <2>7, Refusals DEF RepackFails
    <3> QED
      BY <2>0, <2>7, <3>1 DEF RepackFails, PluginTypeOK
  <2>8. ASSUME NEW c \in Clients, Answer(c)
        PROVE  PluginTypeOK'
    <3>1. Resting \in [pc: {"idle", "fetch", "download", "repack", "served", "refused"},
                       zip: BOOLEAN, version: 0 .. MaxVersion, ticks: 0 .. MaxFlight]
      BY DEF Resting, MaxFlight, PluginAssumption
    <3> QED
      BY <2>0, <2>8, <3>1 DEF Answer, PluginTypeOK
  <2>9. CASE Release
    <3>1. latest' \in Versions
      BY <2>0, <2>9 DEF Release, Versions, PluginAssumption
    <3> QED
      BY <2>0, <2>9, <3>1 DEF Release, PluginTypeOK
  <2>10. CASE Tick
    <3>1. gone' \in [Versions -> 0 .. Horizon] /\ trouble' \in 0 .. Horizon
      BY <2>0, <2>10, Horizons DEF Tick
    <3>2. source' \in Entries /\ delivery' \in Entries
      BY <2>0, <2>10, Horizons DEF Tick, Entries
    <3>3. client' \in PluginRequests
      <4>1. \A c \in Clients : client[c].ticks < MaxFlight /\ client[c].ticks \in 0 .. MaxFlight
        BY <2>0, <2>10 DEF Tick
      <4>2. \A c \in Clients : client[c].ticks + 1 \in 0 .. MaxFlight
        BY <4>1 DEF MaxFlight
      <4> QED
        BY <2>0, <2>10, <4>2 DEF Tick
    <3> QED
      BY <2>0, <2>10, <3>1, <3>2, <3>3 DEF Tick, PluginTypeOK
  <2>11. CASE Restart
    BY <1>1, <2>0, <2>11, EntriesMade DEF Restart, PluginTypeOK
  <2>12. CASE UNCHANGED pluginVars
    BY <2>0, <2>12 DEF pluginVars, PluginTypeOK
  <2> QED
    BY <1>3, <2>1, <2>2, <2>3, <2>4, <2>5, <2>6, <2>7, <2>8, <2>9, <2>10, <2>11, <2>12 DEF PluginNext
<1> QED
  BY <1>2, <1>3, PTL DEF PluginSpec
\* How old what the caches and the requests hold can be
\* (getPluginSourceZip and getCachedDeliveryMeta).
LatestIsNew == \A v \in Versions : v >= latest => gone[v] = 0
SourceRecent == ~source.error =>
  \/ source.version = 0 /\ source.age = Horizon
  \/ source.version \in Versions /\ gone[source.version] <= source.age + 1
DeliveryRecent == ~delivery.error =>
  \/ delivery.version = 0 /\ delivery.age = Horizon
  \/ delivery.version \in Versions /\ gone[delivery.version] <= SuccessTtl + 1 + delivery.age
RequestRecent(c) ==
  /\ client[c].pc = "idle" => client[c].ticks = 0
  /\ client[c].pc \in {"download", "repack", "served"} => client[c].version \in Versions
  /\ client[c].pc = "download" => gone[client[c].version] <= client[c].ticks
  /\ client[c].pc = "repack" => gone[client[c].version] <= SuccessTtl + client[c].ticks
  /\ client[c].pc = "served" => gone[client[c].version] <= 2 * SuccessTtl
RequestsRecent == \A c \in Clients : RequestRecent(c)

AgeInv == PluginTypeOK /\ LatestIsNew /\ SourceRecent /\ DeliveryRecent /\ RequestsRecent

\* How long ago a failure can be that the caches still hold.
SourceTrouble == source.error => trouble <= source.age
DeliveryTrouble == delivery.error => trouble < delivery.age + ErrorTtl

TroubleInv == PluginTypeOK /\ SourceTrouble /\ DeliveryTrouble /\ OutageEndsSoon

\* The step of one request leaves the others as recent as they were.
LEMMA OthersRecent ==
  ASSUME RequestsRecent, NEW c \in Clients, gone' = gone, RequestRecent(c)',
         \A d \in Clients : d # c => client'[d] = client[d]
  PROVE  RequestsRecent'
<1> SUFFICES ASSUME NEW d \in Clients PROVE RequestRecent(d)'
  BY DEF RequestsRecent
<1> QED
  BY DEF RequestsRecent, RequestRecent

LEMMA AddsUp ==
  ASSUME PluginAssumption, PluginTypeOK
  PROVE  /\ \A v \in Versions : gone[v] \in 0 .. Horizon
         /\ \A c \in Clients : client[c].ticks \in 0 .. 1 /\ client[c].version \in 0 .. MaxVersion
         /\ \A c \in Clients : client[c].zip \in BOOLEAN
         /\ source.age \in 0 .. Horizon /\ delivery.age \in 0 .. Horizon
         /\ source.error \in BOOLEAN /\ delivery.error \in BOOLEAN
         /\ latest \in Versions /\ trouble \in 0 .. Horizon
         /\ SuccessTtl \in Nat \ {0} /\ ErrorTtl \in Nat \ {0} /\ Horizon = 2 * SuccessTtl + 2
         /\ source.version \in 0 .. MaxVersion /\ delivery.version \in 0 .. MaxVersion
  BY DEF PluginTypeOK, PluginAssumption, Horizon, MaxFlight, Entries

\* Whatever is served was the latest release no longer ago than the hours of
\* both caches, however the requests that miss them overlap
\* (getPluginSourceZip, getCachedDeliveryMeta).
THEOREM ServedIsRecent == ASSUME PluginAssumption PROVE PluginSpec => []RecentEnough
<1>1. PluginInit => AgeInv
  <2> SUFFICES ASSUME PluginInit PROVE LatestIsNew /\ SourceRecent /\ DeliveryRecent /\ RequestsRecent /\ PluginTypeOK
    BY DEF AgeInv
  <2>1. RequestsRecent
    BY DEF PluginInit, RequestsRecent, RequestRecent, Resting
  <2>2. PluginTypeOK
    <3>1. [c \in Clients |-> Resting] \in
             [Clients -> [pc: {"idle", "fetch", "download", "repack", "served", "refused"},
                          zip: BOOLEAN, version: 0 .. MaxVersion, ticks: 0 .. MaxFlight]]
      BY DEF Resting, MaxFlight, PluginAssumption
    <3> QED
      BY <3>1, Horizons, EntriesMade DEF PluginInit, PluginTypeOK
  <2>3. LatestIsNew /\ SourceRecent /\ DeliveryRecent
    BY DEF PluginInit, LatestIsNew, SourceRecent, DeliveryRecent, NoEntry
  <2> QED
    BY <2>1, <2>2, <2>3
<1>2. ASSUME AgeInv, PluginTypeOK', [PluginNext]_pluginVars
      PROVE  AgeInv'
  <2> USE AgeInv, PluginTypeOK' DEF AgeInv
  <2>0. PluginTypeOK /\ LatestIsNew /\ SourceRecent /\ DeliveryRecent /\ RequestsRecent
    OBVIOUS
  <2>1. ASSUME NEW c \in Clients, Manifest(c)
        PROVE  AgeInv'
    <3> DEFINE pc == IF delivery.error THEN "refused" ELSE "served"
    <3>1. /\ client'[c].pc = pc /\ client'[c].version = delivery.version
          /\ \A d \in Clients : d # c => client'[d] = client[d]
      BY <2>1, AddsUp, ClientMoves DEF Manifest
    <3>2. ~delivery.error => delivery.age < SuccessTtl
      BY <2>1 DEF Manifest, Fresh, Ttl
    <3>3. ~delivery.error => /\ delivery.version \in Versions
                             /\ gone[delivery.version] <= 2 * SuccessTtl
      BY <3>2, AddsUp DEF DeliveryRecent
    <3>4. RequestRecent(c)'
      BY <2>1, <3>1, <3>3 DEF RequestRecent, Manifest
    <3>5. RequestsRecent'
      BY <2>1, <3>1, <3>4, OthersRecent DEF Manifest
    <3> QED
      BY <2>1, <3>5 DEF Manifest, LatestIsNew, SourceRecent, DeliveryRecent
  <2>2. ASSUME NEW c \in Clients, NEW zip \in BOOLEAN, Build(c, zip)
        PROVE  AgeInv'
    <3>1. latest' = latest /\ gone' = gone /\ client[c].pc = "idle" /\ client[c].ticks = 0 /\ LatestIsNew'
      BY <2>2 DEF Build, RequestsRecent, RequestRecent, LatestIsNew
    <3>2. CASE To(c, "fetch", 0, zip) /\ UNCHANGED <<source, delivery>>
      <4>1. client'[c].pc = "fetch" /\ \A d \in Clients : d # c => client'[d] = client[d]
        BY <3>2, ClientMoves, 0 \in 0 .. MaxVersion DEF PluginAssumption
      <4>2. RequestsRecent'
        BY <3>1, <4>1, OthersRecent DEF RequestRecent
      <4> QED
        BY <3>1, <3>2, <4>2 DEF SourceRecent, DeliveryRecent
    <3>3. CASE Refuse(c, zip) /\ UNCHANGED source
      <4>1. /\ client'[c].pc = "refused" /\ delivery' \in {delivery, Bad}
            /\ \A d \in Clients : d # c => client'[d] = client[d]
        BY <3>3, Refusals
      <4>2. RequestsRecent'
        BY <3>1, <4>1, OthersRecent DEF RequestRecent
      <4> QED
        BY <3>1, <3>3, <4>1, <4>2 DEF SourceRecent, DeliveryRecent, Bad
    <3>4. CASE /\ Fresh(source) /\ ~source.error
               /\ To(c, "repack", source.version, zip) /\ source' = AfterHit /\ UNCHANGED delivery
      <4>1. /\ client'[c].pc = "repack" /\ client'[c].version = source.version
            /\ client'[c].ticks = client[c].ticks
            /\ \A d \in Clients : d # c => client'[d] = client[d]
        BY <3>4, AddsUp, ClientMoves
      <4>2. source.age < SuccessTtl
        BY <3>4 DEF Fresh, Ttl
      <4>3. source.version \in Versions /\ gone[source.version] <= SuccessTtl + 0
        BY <3>4, <4>2, AddsUp DEF SourceRecent
      <4>4. RequestRecent(c)'
        BY <3>1, <4>1, <4>3 DEF RequestRecent
      <4>5. RequestsRecent'
        BY <3>1, <4>1, <4>4, OthersRecent
      <4> QED
        BY <3>1, <3>4, <4>5 DEF SourceRecent, DeliveryRecent, AfterHit
    <3> QED
      BY <2>2, <3>2, <3>3, <3>4 DEF Build
  <2>3. ASSUME NEW c \in Clients, Resolve(c)
        PROVE  AgeInv'
    <3>1. /\ client'[c].pc = "download" /\ client'[c].version = latest
          /\ client'[c].ticks = client[c].ticks
          /\ \A d \in Clients : d # c => client'[d] = client[d]
      BY <2>3, Horizons, AddsUp, ClientMoves DEF Resolve
    <3>2. latest \in Versions /\ gone[latest] = 0 /\ client[c].ticks >= 0
      BY AddsUp DEF LatestIsNew, Versions
    <3>3. RequestRecent(c)'
      BY <2>3, <3>1, <3>2 DEF RequestRecent, Resolve
    <3>4. RequestsRecent'
      BY <2>3, <3>1, <3>3, OthersRecent DEF Resolve
    <3> QED
      BY <2>3, <3>4 DEF Resolve, LatestIsNew, SourceRecent, DeliveryRecent
  <2>4. ASSUME NEW c \in Clients, Fetched(c)
        PROVE  AgeInv'
    <3>1. /\ client'[c].pc = "repack" /\ client'[c].version = client[c].version
          /\ client'[c].ticks = client[c].ticks
          /\ \A d \in Clients : d # c => client'[d] = client[d]
      BY <2>4, AddsUp, ClientMoves DEF Fetched
    <3>2. /\ client[c].version \in Versions /\ gone[client[c].version] <= client[c].ticks
          /\ client[c].ticks \in 0 .. 1 /\ gone' = gone
      BY <2>4, AddsUp DEF Fetched, RequestsRecent, RequestRecent
    <3>3. gone[client[c].version] <= SuccessTtl + client[c].ticks /\ gone[client[c].version] <= 0 + 1
      BY <3>2, AddsUp
    <3>4. RequestsRecent'
      <4>1. RequestRecent(c)'
        BY <3>1, <3>2, <3>3 DEF RequestRecent
      <4> QED
        BY <3>1, <3>2, <4>1, OthersRecent
    <3>5. SourceRecent'
      BY <2>4, <3>2, <3>3 DEF Fetched, SourceRecent, Good
    <3> QED
      BY <2>4, <3>4, <3>5 DEF Fetched, LatestIsNew, DeliveryRecent
  <2>5. ASSUME NEW c \in Clients, FetchFails(c)
        PROVE  AgeInv'
    <3>1. /\ client'[c].pc = "refused" /\ delivery' \in {delivery, Bad}
          /\ \A d \in Clients : d # c => client'[d] = client[d]
      BY <2>5, AddsUp, Refusals DEF FetchFails
    <3>2. RequestsRecent'
      BY <2>5, <3>1, OthersRecent DEF RequestRecent, FetchFails
    <3> QED
      BY <2>5, <3>1, <3>2 DEF FetchFails, LatestIsNew, SourceRecent, DeliveryRecent, Bad
  <2>6. ASSUME NEW c \in Clients, Repacked(c)
        PROVE  AgeInv'
    <3>1. /\ client'[c].pc = "served" /\ client'[c].version = client[c].version
          /\ \A d \in Clients : d # c => client'[d] = client[d]
      BY <2>6, AddsUp, ClientMoves DEF Repacked
    <3>2. /\ client[c].version \in Versions /\ gone[client[c].version] <= SuccessTtl + client[c].ticks
          /\ gone' = gone
      BY <2>6 DEF Repacked, RequestsRecent, RequestRecent
    <3>3. gone[client[c].version] <= 2 * SuccessTtl /\ gone[client[c].version] <= SuccessTtl + 1 + 0
      BY <3>2, AddsUp
    <3>4. RequestsRecent'
      <4>1. RequestRecent(c)'
        BY <3>1, <3>2, <3>3 DEF RequestRecent
      <4> QED
        BY <3>1, <3>2, <4>1, OthersRecent
    <3>5. DeliveryRecent'
      BY <2>6, <3>2, <3>3 DEF Repacked, DeliveryRecent, Good
    <3> QED
      BY <2>6, <3>4, <3>5 DEF Repacked, LatestIsNew, SourceRecent
  <2>7. ASSUME NEW c \in Clients, RepackFails(c)
        PROVE  AgeInv'
    <3>1. /\ client'[c].pc = "refused" /\ delivery' \in {delivery, Bad}
          /\ \A d \in Clients : d # c => client'[d] = client[d]
      BY <2>7, AddsUp, Refusals DEF RepackFails
    <3>2. RequestsRecent'
      BY <2>7, <3>1, OthersRecent DEF RequestRecent, RepackFails
    <3> QED
      BY <2>7, <3>1, <3>2 DEF RepackFails, LatestIsNew, SourceRecent, DeliveryRecent, Bad
  <2>8. ASSUME NEW c \in Clients, Answer(c)
        PROVE  AgeInv'
    <3>1. client'[c] = Resting /\ \A d \in Clients : d # c => client'[d] = client[d]
      BY <2>8 DEF Answer, PluginTypeOK
    <3>2. RequestsRecent'
      <4>1. RequestRecent(c)'
        BY <3>1 DEF RequestRecent, Resting
      <4> QED
        BY <2>8, <3>1, <4>1, OthersRecent DEF Answer
    <3> QED
      BY <2>8, <3>2 DEF Answer, LatestIsNew, SourceRecent, DeliveryRecent
  <2>9. CASE Release
    <3>1. LatestIsNew'
      BY <2>9, AddsUp DEF Release, LatestIsNew, Versions
    <3>2. RequestsRecent'
      BY <2>9 DEF Release, RequestsRecent, RequestRecent
    <3> QED
      BY <2>9, <3>1, <3>2 DEF Release, SourceRecent, DeliveryRecent
  <2>10. CASE Tick
    <3>1. \A v \in Versions : gone'[v] <= gone[v] + 1 /\ gone'[v] \in 0 .. Horizon
      BY <2>10, AddsUp DEF Tick, Older
    <3>2. LatestIsNew'
      BY <2>10, AddsUp DEF Tick, LatestIsNew, Versions
    <3>3. /\ source'.error = source.error /\ source'.version = source.version
          /\ source'.age = Older(source.age)
          /\ delivery'.error = delivery.error /\ delivery'.version = delivery.version
          /\ delivery'.age = Older(delivery.age)
      BY <2>10 DEF Tick, PluginTypeOK, Entries
    <3>4. SourceRecent'
      BY <3>1, <3>3, AddsUp DEF SourceRecent, Older
    <3>5. DeliveryRecent'
      BY <3>1, <3>3, AddsUp DEF DeliveryRecent, Older
    <3>6. ASSUME NEW c \in Clients
          PROVE  RequestRecent(c)'
      <4>1. RequestRecent(c) /\ client[c].pc \notin {"served", "refused"}
        BY <2>10 DEF Tick, RequestsRecent
      <4>2. CASE client[c].pc = "idle"
        <5>1. client'[c] = client[c]
          BY <2>10, <4>2 DEF Tick
        <5> QED
          BY <4>1, <4>2, <5>1 DEF RequestRecent
      <4>3. CASE client[c].pc # "idle"
        <5>1. /\ client'[c].pc = client[c].pc /\ client'[c].version = client[c].version
              /\ client'[c].ticks = client[c].ticks + 1
          BY <2>10, <4>3 DEF Tick, PluginTypeOK
        <5> QED
          BY <3>1, <4>1, <4>3, <5>1, AddsUp DEF RequestRecent
      <4> QED
        BY <4>2, <4>3
    <3> QED
      BY <3>2, <3>4, <3>5, <3>6 DEF RequestsRecent
  <2>11. CASE Restart
    <3>1. RequestsRecent'
      BY <2>11 DEF Restart, RequestsRecent, RequestRecent, Resting
    <3> QED
      BY <2>11, <3>1 DEF Restart, LatestIsNew, SourceRecent, DeliveryRecent, NoEntry
  <2>12. CASE UNCHANGED pluginVars
    BY <2>12 DEF pluginVars, LatestIsNew, SourceRecent, DeliveryRecent, RequestsRecent, RequestRecent
  <2> QED
    BY <1>2, <2>1, <2>2, <2>3, <2>4, <2>5, <2>6, <2>7, <2>8, <2>9, <2>10, <2>11, <2>12 DEF PluginNext
<1>3. AgeInv => RecentEnough
  BY DEF AgeInv, RequestsRecent, RequestRecent, RecentEnough
<1> QED
  BY <1>1, <1>2, <1>3, PluginTypeCorrect, PTL DEF PluginSpec
\* An answer is refused only if an attempt failed within the times for errors
\* of both caches (ERROR_TTL in the same two files).
THEOREM RefusedAfterTrouble == ASSUME PluginAssumption PROVE PluginSpec => []OutageEndsSoon
<1>1. PluginInit => TroubleInv
  <2> SUFFICES ASSUME PluginInit PROVE TroubleInv
    OBVIOUS
  <2>1. PluginTypeOK
    <3>1. [c \in Clients |-> Resting] \in
             [Clients -> [pc: {"idle", "fetch", "download", "repack", "served", "refused"},
                          zip: BOOLEAN, version: 0 .. MaxVersion, ticks: 0 .. MaxFlight]]
      BY DEF Resting, MaxFlight, PluginAssumption
    <3> QED
      BY <3>1, Horizons, EntriesMade DEF PluginInit, PluginTypeOK
  <2> QED
    BY <2>1 DEF PluginInit, TroubleInv, SourceTrouble, DeliveryTrouble, OutageEndsSoon, NoEntry, Resting
<1>2. ASSUME TroubleInv, PluginTypeOK', [PluginNext]_pluginVars
      PROVE  TroubleInv'
  <2> USE TroubleInv, PluginTypeOK' DEF TroubleInv
  <2>0. PluginTypeOK /\ SourceTrouble /\ DeliveryTrouble /\ OutageEndsSoon
    OBVIOUS
  <2>1. ASSUME NEW c \in Clients, Manifest(c)
        PROVE  TroubleInv'
    <3>1. /\ client'[c].pc = IF delivery.error THEN "refused" ELSE "served"
          /\ \A d \in Clients : d # c => client'[d] = client[d]
      BY <2>1, AddsUp, ClientMoves DEF Manifest
    <3>2. delivery.error => delivery.age < ErrorTtl
      BY <2>1 DEF Manifest, Fresh, Ttl
    <3>3. delivery.error => trouble < 2 * ErrorTtl
      BY <3>2, AddsUp DEF DeliveryTrouble
    <3> QED
      BY <2>1, <3>1, <3>3 DEF Manifest, SourceTrouble, DeliveryTrouble, OutageEndsSoon
  <2>2. ASSUME NEW c \in Clients, NEW zip \in BOOLEAN, Build(c, zip)
        PROVE  TroubleInv'
    <3>1. trouble' = trouble
      BY <2>2 DEF Build
    <3>2. CASE To(c, "fetch", 0, zip) /\ UNCHANGED <<source, delivery>>
      <4>1. client'[c].pc = "fetch" /\ \A d \in Clients : d # c => client'[d] = client[d]
        BY <3>2, ClientMoves, 0 \in 0 .. MaxVersion DEF PluginAssumption
      <4> QED
        BY <3>1, <3>2, <4>1 DEF SourceTrouble, DeliveryTrouble, OutageEndsSoon
    <3>3. CASE Fresh(source) /\ source.error /\ Refuse(c, zip) /\ UNCHANGED source
      <4>1. /\ client'[c].pc = "refused" /\ delivery' \in {delivery, Bad}
            /\ \A d \in Clients : d # c => client'[d] = client[d]
        BY <3>3, Refusals
      <4>2. source.age < ErrorTtl
        BY <3>3 DEF Fresh, Ttl
      <4>3. trouble < 0 + ErrorTtl /\ trouble < 2 * ErrorTtl
        BY <3>3, <4>2, AddsUp DEF SourceTrouble
      <4> QED
        BY <3>1, <3>3, <4>1, <4>3 DEF SourceTrouble, DeliveryTrouble, OutageEndsSoon, Bad
    <3>4. CASE To(c, "repack", source.version, zip) /\ source' = AfterHit /\ UNCHANGED delivery
      <4>1. client'[c].pc = "repack" /\ \A d \in Clients : d # c => client'[d] = client[d]
        BY <3>4, AddsUp, ClientMoves
      <4> QED
        BY <3>1, <3>4, <4>1 DEF SourceTrouble, DeliveryTrouble, OutageEndsSoon, AfterHit
    <3> QED
      BY <2>2, <3>2, <3>3, <3>4 DEF Build
  <2>3. ASSUME NEW c \in Clients, Resolve(c)
        PROVE  TroubleInv'
    <3>1. client'[c].pc = "download" /\ \A d \in Clients : d # c => client'[d] = client[d]
      BY <2>3, Horizons, AddsUp, ClientMoves DEF Resolve
    <3> QED
      BY <2>3, <3>1 DEF Resolve, SourceTrouble, DeliveryTrouble, OutageEndsSoon
  <2>4. ASSUME NEW c \in Clients, Fetched(c)
        PROVE  TroubleInv'
    <3>1. client'[c].pc = "repack" /\ \A d \in Clients : d # c => client'[d] = client[d]
      BY <2>4, AddsUp, ClientMoves DEF Fetched
    <3> QED
      BY <2>4, <3>1 DEF Fetched, SourceTrouble, DeliveryTrouble, OutageEndsSoon, Good
  <2>5. ASSUME NEW c \in Clients, FetchFails(c) \/ RepackFails(c)
        PROVE  TroubleInv'
    <3>1. trouble' = 0 /\ source' \in {source, Bad} /\ delivery' \in {delivery, Bad}
      BY <2>5, AddsUp, Refusals DEF FetchFails, RepackFails
    <3>2. /\ 0 <= source.age /\ 0 < delivery.age + ErrorTtl /\ 0 < 0 + ErrorTtl
          /\ 0 < 2 * ErrorTtl
      BY AddsUp
    <3> QED
      BY <3>1, <3>2 DEF SourceTrouble, DeliveryTrouble, OutageEndsSoon, Bad
  <2>6. ASSUME NEW c \in Clients, Repacked(c)
        PROVE  TroubleInv'
    <3>1. client'[c].pc = "served" /\ \A d \in Clients : d # c => client'[d] = client[d]
      BY <2>6, AddsUp, ClientMoves DEF Repacked
    <3> QED
      BY <2>6, <3>1 DEF Repacked, SourceTrouble, DeliveryTrouble, OutageEndsSoon, Good
  <2>8. ASSUME NEW c \in Clients, Answer(c)
        PROVE  TroubleInv'
    <3>1. client'[c] = Resting /\ \A d \in Clients : d # c => client'[d] = client[d]
      BY <2>8 DEF Answer, PluginTypeOK
    <3> QED
      BY <2>8, <3>1 DEF Answer, Resting, SourceTrouble, DeliveryTrouble, OutageEndsSoon
  <2>9. CASE Release
    BY <2>9 DEF Release, SourceTrouble, DeliveryTrouble, OutageEndsSoon
  <2>10. CASE Tick
    <3>1. /\ source'.error = source.error /\ source'.age = Older(source.age)
          /\ delivery'.error = delivery.error /\ delivery'.age = Older(delivery.age)
          /\ trouble' = Older(trouble)
      BY <2>10 DEF Tick, PluginTypeOK, Entries
    <3>2. SourceTrouble' /\ DeliveryTrouble'
      BY <3>1, AddsUp DEF SourceTrouble, DeliveryTrouble, Older
    <3>3. \A c \in Clients : client'[c].pc # "refused"
      BY <2>10 DEF Tick, PluginTypeOK
    <3> QED
      BY <3>2, <3>3 DEF OutageEndsSoon
  <2>11. CASE Restart
    BY <2>11 DEF Restart, SourceTrouble, DeliveryTrouble, OutageEndsSoon, NoEntry, Resting
  <2>12. CASE UNCHANGED pluginVars
    BY <2>12 DEF pluginVars, SourceTrouble, DeliveryTrouble, OutageEndsSoon
  <2> QED
    BY <1>2, <2>1, <2>2, <2>3, <2>4, <2>5, <2>6, <2>8, <2>9, <2>10, <2>11, <2>12 DEF PluginNext
<1>3. TroubleInv => OutageEndsSoon
  BY DEF TroubleInv
<1> QED
  BY <1>1, <1>2, <1>3, PluginTypeCorrect, PTL DEF PluginSpec
==============================================================================
