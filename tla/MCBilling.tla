------------------------------- MODULE MCBilling -------------------------------
(* Instances of Billing for TLC.  Prices are a scaled-down catalogue that     *)
(* keeps the order of the real one; one micro is one unit, and bills have     *)
(* halves of it.                                                              *)
EXTENDS BillingAnswers, TLC

CONSTANTS u1, d1, d2, r1, r2, o1, c1, c2, c3, t1, g1, p1

MCModels ==
  [basic |-> [access_type |-> "FREE", free_cost_usd |-> 1, paid_cost_usd |-> 2],
   conditional |-> [access_type |-> "CONDITIONAL_FREE",
                    free_cost_usd |-> 2, paid_cost_usd |-> 3]]

MCTokens == Calls \X (0 .. RESERVE_MAX_ATTEMPTS)

Ask(id, dialog, model) ==
  [user_id |-> u1, dialog_id |-> dialog, client_request_id |-> id,
   model_name |-> model, conditional_free_eligible |-> TRUE]

\* Two generations that compete for one user's money.
TwoRequests == {Ask(r1, d1, "basic"), Ask(r2, d1, "conditional")}

OneRequest == {Ask(r1, d1, "basic")}

\* With the id of the first reused for another dialog, and an unknown model.
AllRequests ==
  TwoRequests \cup {Ask(r1, d2, "basic"), Ask(r2, d1, "unknown")}

TopUp1 == [operation_id |-> o1, user_id |-> u1, paid_usd |-> 2, bonus_usd |-> 0,
           free_requests |-> 1]

OneCommand == {TopUp1}

Amount(free, bonus, paid, requests) ==
  [free_usd |-> free, bonus_usd |-> bonus, paid_usd |-> paid,
   free_requests |-> requests, version |-> 3]

\* Enough for either request but not for both.
ScarceRows == {[u \in Users |-> Amount(1, 1, 0, 2)]}

\* Or for both.
EitherRows == ScarceRows \cup {[u \in Users |-> Amount(1, 1, 1, 2)]}

Symmetry == Permutations(Calls)
=============================================================================
