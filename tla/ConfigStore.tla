----------------------------- MODULE ConfigStore -----------------------------
(***************************************************************************)
(* One entry of the configuration store and its audit trail: upsertEntry,  *)
(* deleteEntry (src/lib/config-service.ts) and the administrator's routes  *)
(* to them (src/routes/admin-config.ts).  Both write the entry and a row   *)
(* of ConfigHistory in one READ COMMITTED transaction: a read sees what is *)
(* committed, and a row that has been written is locked until the commit.  *)
(***************************************************************************)
EXTENDS Naturals, Sequences

CONSTANTS
  Editors,    \* bound: requests of administrators in flight
  Values,     \* what they put in
  Secrets,    \* those among them that are always put in with "encrypted: true"
  Absent, Masked,
  MaxChanges  \* bound: changes committed

\* The marks for "no value" and "hidden" are no values.
StoreAssumption ==
  /\ Secrets \subseteq Values /\ Absent \notin Values /\ Masked \notin Values
  /\ MaxChanges \in Nat

VARIABLES
  entry,    \* the committed row: a value and whether it is encrypted
  version,  \* its id: an entry that is deleted and made again is another
  trail,    \* what the history says, in the order of commits
  editor    \* the requests

configVars == <<entry, version, trail, editor>>

Row(v, e) == [value |-> v, encrypted |-> e]
NoRow == Row(Absent, FALSE)
RowsOf == [value: Values \cup {Absent}, encrypted: BOOLEAN]
Away == [pc |-> "idle", input |-> NoRow, keeps |-> FALSE, seen |-> NoRow, id |-> 0, row |-> NoRow]

StoreTypeOK ==
  /\ entry \in RowsOf /\ version \in 0 .. MaxChanges
  /\ trail \in Seq([old: Values \cup {Absent, Masked}, new: Values \cup {Absent, Masked}])
  /\ Len(trail) <= MaxChanges
  /\ editor \in [Editors -> [pc: {"idle", "write", "commit", "erase", "commitErase"},
                             input: RowsOf, keeps: BOOLEAN, seen: RowsOf,
                             id: 0 .. MaxChanges, row: RowsOf]]

StoreInit ==
  /\ entry = NoRow /\ version = 0 /\ trail = <<>>
  /\ editor = [a \in Editors |-> Away]

Exists == entry # NoRow
EditorAt(a, pc) == editor[a].pc = pc
RowLocked == \E a \in Editors : editor[a].pc \in {"commit", "commitErase"}

\* What a row shows of a value.
Shown(row) == IF row.encrypted THEN Masked ELSE row.value

-----------------------------------------------------------------------------

\* PUT /admin/config/entries: the row is read first in the transaction.  A
\* request that does not say "encrypted" keeps what the row was read with.
Find(a, v, e, keeps) ==
  /\ EditorAt(a, "idle")
  /\ v \in Secrets => e /\ ~keeps
  /\ editor' = [editor EXCEPT ![a] =
       [pc |-> "write", input |-> Row(v, e), keeps |-> keeps, seen |-> entry, id |-> version,
        row |-> Row(v, IF keeps THEN entry.encrypted ELSE e)]]
  /\ UNCHANGED <<entry, version, trail>>

\* The upsert looks again: it updates the row that is there, or inserts one.
\* Both wait for whoever holds the row.
Write(a) ==
  /\ EditorAt(a, "write") /\ ~RowLocked /\ Len(trail) < MaxChanges
  /\ editor' = [editor EXCEPT ![a].pc = "commit"]
  /\ UNCHANGED <<entry, version, trail>>

\* What the history keeps of the value that was read before and of the new
\* one.  The first forms go by the new row for both, and by the request.
OldShown_ByNewRow(a) == IF editor[a].row.encrypted THEN Masked ELSE editor[a].seen.value
OldShown(a) == Shown(editor[a].seen)
NewShown_ByInput(a) ==
  IF ~editor[a].keeps /\ editor[a].input.encrypted THEN Masked ELSE editor[a].input.value
NewShown(a) == Shown(editor[a].row)

CommitChange(a) ==
  /\ EditorAt(a, "commit")
  /\ entry' = editor[a].row
  /\ version' = IF Exists THEN version ELSE version + 1
  /\ trail' = Append(trail, [old |-> OldShown(a), new |-> NewShown(a)])
  /\ editor' = [editor EXCEPT ![a] = Away]

\* DELETE /admin/config/entries/...: the row is read outside the transaction.
FindToDelete(a) ==
  /\ EditorAt(a, "idle") /\ Exists
  /\ editor' = [editor EXCEPT ![a] = [Away EXCEPT !.pc = "erase", !.seen = entry, !.id = version]]
  /\ UNCHANGED <<entry, version, trail>>

\* The history row is written, then the entry is deleted by its id.
Erase(a) ==
  /\ EditorAt(a, "erase") /\ ~RowLocked /\ Len(trail) < MaxChanges
  /\ Exists /\ editor[a].id = version
  /\ editor' = [editor EXCEPT ![a].pc = "commitErase"]
  /\ UNCHANGED <<entry, version, trail>>

CommitErase(a) ==
  /\ EditorAt(a, "commitErase")
  /\ entry' = NoRow
  /\ trail' = Append(trail, [old |-> Shown(editor[a].seen), new |-> Absent])
  /\ editor' = [editor EXCEPT ![a] = Away]
  /\ UNCHANGED version

\* The transaction is rolled back: the row is gone (P2025), somebody else has
\* inserted it (P2002), or the connection is lost.
Rollback(a) ==
  /\ ~EditorAt(a, "idle")
  /\ editor' = [editor EXCEPT ![a] = Away]
  /\ UNCHANGED <<entry, version, trail>>

StoreNext == \E a \in Editors :
  \/ \E v \in Values, e, keeps \in BOOLEAN : Find(a, v, e, keeps)
  \/ Write(a) \/ CommitChange(a) \/ FindToDelete(a) \/ Erase(a) \/ CommitErase(a) \/ Rollback(a)

StoreSpec == StoreInit /\ [][StoreNext]_configVars

-----------------------------------------------------------------------------
(* Properties                                                              *)

\* The audit trail and the entry never part, however changes overlap or are
\* rolled back: the change committed last tells what the entry holds now.
HistoryTellsValue ==
  IF trail = <<>> THEN ~Exists ELSE trail[Len(trail)].new = Shown(entry)

\* A value that was put in as a secret is never in the clear, not in the entry
\* and not in the trail, also after the entry has become an ordinary one.
SecretsStayHidden ==
  /\ entry.value \in Secrets => entry.encrypted
  /\ \A i \in DOMAIN trail : trail[i].old \notin Secrets /\ trail[i].new \notin Secrets
=============================================================================
