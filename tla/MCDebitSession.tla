---------------------------- MODULE MCDebitSession ----------------------------
(* The catalogue of domain/generation.py with its prices in cents, and       *)
(* balances on both sides of every price.                                    *)
EXTENDS DebitSession

MCModels ==
  [basic |-> [access_type |-> "FREE", free_cost_usd |-> 5, paid_cost_usd |-> 8],
   premium |-> [access_type |-> "PAID_ONLY",
                free_cost_usd |-> 20, paid_cost_usd |-> 20],
   conditional |-> [access_type |-> "CONDITIONAL_FREE",
                    free_cost_usd |-> 7, paid_cost_usd |-> 12]]

MCBalances ==
  [free_usd : {0, 4}, bonus_usd : {0, 7}, paid_usd : {0, 1, 27},
   free_requests : {0, 1}]

MCRequests ==
  {[model_name |-> "basic", conditional_free_eligible |-> FALSE],
   [model_name |-> "premium", conditional_free_eligible |-> FALSE],
   [model_name |-> "conditional", conditional_free_eligible |-> FALSE],
   [model_name |-> "conditional", conditional_free_eligible |-> TRUE]}

\* Below nothing, nothing, less than a micro, inside, and above every estimate.
MCBills == {-3, 0, 1, 9, 15, 90}
=============================================================================
