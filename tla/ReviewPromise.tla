--------------------------- MODULE ReviewPromise ---------------------------
(***************************************************************************)
(* What a user who sent an NZB may rely on: the row waits for a review or  *)
(* is settled at once, a waiting row is settled or expires and neither is  *)
(* ever undone, and only a deletion removes a row.  One decision settles   *)
(* every row of a file that waits, hence the sets.                         *)
(***************************************************************************)
CONSTANT Rows

VARIABLE review     \* "absent", "waiting", "settled", "expired" or "deleted"

Init == review = [j \in Rows |-> "absent"]

Set(S, st) == review' = [j \in Rows |-> IF j \in S THEN st ELSE review[j]]

Waiting == {j \in Rows : review[j] = "waiting"}
Present == {j \in Rows : review[j] \in {"waiting", "settled", "expired"}}

Open(j) == review[j] = "absent" /\ \E st \in {"waiting", "settled"} : Set({j}, st)
Settle(S) == S \subseteq Waiting /\ Set(S, "settled")
Expire(j) == j \in Waiting /\ Set({j}, "expired")
Remove(S) == S \subseteq Present /\ Set(S, "deleted")

Next ==
  \/ \E j \in Rows : Open(j) \/ Expire(j)
  \/ \E S \in SUBSET Rows : Settle(S) \/ Remove(S)

Spec == Init /\ [][Next]_review
=============================================================================
