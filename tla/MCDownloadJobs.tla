--------------------------- MODULE MCDownloadJobs ---------------------------
(* Small instances of DownloadJobs for TLC. *)
EXTENDS DownloadJobs, TLC

CONSTANTS f1, f2, s1, s2, a1, a2, r1, r2

\* Both jobs are for one file.
OneFile == [j \in Jobs |-> f1]
\* Neighbouring jobs are for different files.
TwoFiles == [j \in Jobs |-> IF j % 2 = 1 THEN f1 ELSE f2]

\* Servers that clients name are told apart from the others.
Symmetry ==
  Permutations(Servers \ PatchServers) \cup Permutations(Activities)
    \cup Permutations(Reconcilers)
=============================================================================
