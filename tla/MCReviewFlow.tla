---------------------------- MODULE MCReviewFlow ----------------------------
(* Small instances of ReviewFlow for TLC. *)
EXTENDS ReviewFlow, TLC

CONSTANTS h1, f1, f2, j1, j2, j3, u1, u2, m1, m2, q1, q2, a1, p1

Symmetry ==
  UNION {Permutations(S) : S \in {Users, Movies, Requests, Files, Jobs}}
=============================================================================
