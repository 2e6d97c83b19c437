---------------------------- MODULE JobLifecycle ----------------------------
(***************************************************************************)
(* What the rest of the system may rely on about download jobs, without    *)
(* saying who makes a step or when: rows are created once, waiting for a   *)
(* server or for a review, move along STATUS_TRANSITIONS, and leave the    *)
(* table for good.  Steps the table does not list, or that several rows    *)
(* make at once, are part of the promise because the code makes them: a    *)
(* claim that was not used is given back, completed jobs are failed when   *)
(* their file is gone, and the reviews of a file are queued together.      *)
(***************************************************************************)
EXTENDS JobStatus

CONSTANT Jobs       \* the ids rows may get

VARIABLE status     \* status[j], the row of job j

Init == status = [j \in Jobs |-> "absent"]

Becomes(j, st) == status' = [status EXCEPT ![j] = st]

\* POST /downloads/jobs, POST /downloads/request: a row starts queued, or waits
\* for its review.
Create(j) ==
  status[j] = "absent" /\ \E st \in {"queued", "needs_review"} : Becomes(j, st)

\* A transition of the table.
Advance(j) ==
  /\ Exists(status[j])
  /\ \E st \in STATUS_TRANSITIONS[status[j]] : Becomes(j, st)

\* The catch block of drainDownloadQueue returns its claim.
GiveBack(j) == status[j] = "provisioning" /\ Becomes(j, "queued")

\* Some rows get one status together.
AllBecome(S, st) == status' = [j \in Jobs |-> IF j \in S THEN st ELSE status[j]]

\* assign-movie and the TMDB retry: the reviews of a file are queued.
QueueAll(S) ==
  (\A j \in S : status[j] = "needs_review") /\ AllBecome(S, "queued")

\* The object in S3 is gone: GET /downloads/jobs/:id/link did not find it, the
\* last user dropped the film, or a provisioning request that had lost track of
\* its server gives up.
LoseResults(S) ==
  (\A j \in S : status[j] = "completed") /\ AllBecome(S, "failed")

\* DELETE of a job, or of the file or movie it belongs to.
Remove(S) == (\A j \in S : Exists(status[j])) /\ AllBecome(S, "deleted")

Next ==
  \/ \E j \in Jobs : Create(j) \/ Advance(j) \/ GiveBack(j)
  \/ \E S \in SUBSET Jobs : QueueAll(S) \/ LoseResults(S) \/ Remove(S)

Spec == Init /\ [][Next]_status
=============================================================================
