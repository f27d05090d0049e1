---------------------------- MODULE MCWriteBehind ----------------------------
(* Instances of WriteBehind for TLC. *)
EXTENDS WriteBehindInvariant, TLC

CONSTANTS u1, u2, o1, o2, t1, t2, g1, f1, f2

MCModels ==
  [basic |-> [access_type |-> "FREE", free_cost_usd |-> 1, paid_cost_usd |-> 2]]

Command(op, user, paid) ==
  [operation_id |-> op, user_id |-> user, paid_usd |-> paid, bonus_usd |-> 0,
   free_requests |-> 0]

\* Different amounts, so that two histories of the same length differ.
OneUser == {Command(o1, u1, 2), Command(o2, u1, 4)}
EitherUser == OneUser \cup {Command(o1, u2, 2)}

Stored(paid, version) ==
  [free_usd |-> 0, bonus_usd |-> 0, paid_usd |-> paid, free_requests |-> 0,
   version |-> version]

\* A user with a row and, if there is a second user, one without.
Rows == {[u \in Users |-> IF u = u1 THEN Stored(5, 2) ELSE Nil],
         [u \in Users |-> Nil]}

RestartOnly == {"restart"}
BothLosses == {"restart", "evict"}

Symmetry == Permutations(TopUps) \cup Permutations(Flushers)
=============================================================================
