----------------------------- MODULE JobStatus -----------------------------
(***************************************************************************)
(* The life cycle of a download job's row, as src/routes/downloads.ts      *)
(* documents it: the statuses, the table of allowed transitions, and the   *)
(* groups of statuses the queries of the program are written with.         *)
(*                                                                         *)
(* Two values stand for rows that are not in the table: "absent" for one   *)
(* that was never inserted, "deleted" for one that was removed.  Row ids   *)
(* are never used twice.                                                   *)
(***************************************************************************)

Statuses == {"needs_review", "queued", "provisioning", "downloading",
             "uploading", "completed", "failed", "expired"}

\* The first table is the one a retry of failed jobs would need.
STATUS_TRANSITIONS_WithRetry ==
  [needs_review |-> {"queued", "expired"},
   queued       |-> {"provisioning", "failed"},
   provisioning |-> {"downloading", "failed"},
   downloading  |-> {"uploading", "failed"},
   uploading    |-> {"completed", "failed"},
   completed    |-> {},
   failed       |-> {"queued"},
   expired      |-> {}]
STATUS_TRANSITIONS ==
  [needs_review |-> {"queued", "expired"},
   queued       |-> {"provisioning", "failed"},
   provisioning |-> {"downloading", "failed"},
   downloading  |-> {"uploading", "failed"},
   uploading    |-> {"completed", "failed"},
   completed    |-> {},
   failed       |-> {},
   expired      |-> {}]

\* What a conflict check or the reconciler calls an active job.
ActiveStatuses == {"queued", "provisioning", "downloading", "uploading"}

\* What DELETE /downloads/jobs/:id refuses to delete.
BusyStatuses == {"provisioning", "downloading", "uploading"}

RowStatuses == Statuses \cup {"absent", "deleted"}

Exists(st) == st \in Statuses
=============================================================================
