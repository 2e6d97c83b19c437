---------------------------- MODULE MCUploadJobs ----------------------------
(* Small instances of UploadJobs for TLC. *)
EXTENDS UploadJobs, TLC

CONSTANTS f1, a1, a2

Symmetry == Permutations(Activities)
=============================================================================
