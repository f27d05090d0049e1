------------------------------ MODULE DebitPolicy ------------------------------
(***************************************************************************)
(* The pure part of a generation's price: which model costs what, which    *)
(* buckets pay for it (DebitPolicyService), what is charged when the bill  *)
(* arrives and what goes back (surplus_refund).  No state: the other       *)
(* modules call these operators where the code calls the functions.        *)
(*                                                                         *)
(* Money is counted in integer micro-dollars, as the Redis hashes hold it. *)
(* A provider's bill may be finer: it is counted in Grain-ths of a micro.  *)
(***************************************************************************)
EXTENDS Integers, Sequences

CONSTANTS
  MODELS,   \* model name -> access type and the two prices
  Grain     \* steps of a bill per micro-dollar

AccessTypes == {"FREE", "PAID_ONLY", "CONDITIONAL_FREE"}

ASSUME ModelsAssumption ==
  \A name \in DOMAIN MODELS :
    MODELS[name] \in
      [access_type : AccessTypes, free_cost_usd : Nat, paid_cost_usd : Nat]

ASSUME GrainAssumption == Grain \in Nat \ {0}

Buckets == {"free_usd", "bonus_usd", "paid_usd"}

DebitPolicies == {"DEFAULT", "PAID_ONLY", "PAID_THEN_FREE_THEN_BONUS"}

\* A plan, a refund, the amounts of a top-up.
DebitPlans ==
  [free_usd : Nat, bonus_usd : Nat, paid_usd : Nat, free_requests : Nat]

\* The plan can be taken from the balance.
Covers(balance, plan) ==
  /\ \A b \in Buckets : plan[b] <= balance[b]
  /\ plan.free_requests <= balance.free_requests

total_usd(p) == p.free_usd + p.bonus_usd + p.paid_usd

Lesser(a, b) == IF a < b THEN a ELSE b
Greater(a, b) == IF a > b THEN a ELSE b

ChargeOrder(policy) ==
  CASE policy = "PAID_ONLY" -> <<"paid_usd">>
    [] policy = "PAID_THEN_FREE_THEN_BONUS" ->
         <<"paid_usd", "free_usd", "bonus_usd">>
    [] OTHER -> <<"free_usd", "bonus_usd", "paid_usd">>

\* Mutant: the surplus goes back to the first bucket charged.
NotReversed(order) == order

Reversed(order) == [i \in DOMAIN order |-> order[Len(order) + 1 - i]]

(***************************************************************************)
(* The loop shared by _build_plan and surplus_refund: walk the buckets in  *)
(* order and take from each the lesser of what it has and what is still    *)
(* wanted.  Nothing is negative here, so after i buckets what is wanted is *)
(* the amount less all they have; DebitSession checks this against the     *)
(* loop itself.                                                            *)
(***************************************************************************)
Has(available, order, i) ==
  IF i \in DOMAIN order THEN available[order[i]] ELSE 0

FirstBuckets(available, order, i) ==
  (IF i >= 1 THEN Has(available, order, 1) ELSE 0)
    + (IF i >= 2 THEN Has(available, order, 2) ELSE 0)
    + (IF i >= 3 THEN Has(available, order, 3) ELSE 0)

\* Mutant: takes all a bucket has, as if it never had more than is wanted.
WantedUnclamped(available, order, amount, i) ==
  amount - FirstBuckets(available, order, i)

Wanted(available, order, amount, i) ==
  Greater(0, amount - FirstBuckets(available, order, i))

TakenInRound(available, order, amount, i, bucket) ==
  IF i \in DOMAIN order /\ order[i] = bucket
    THEN Wanted(available, order, amount, i - 1) - Wanted(available, order, amount, i)
    ELSE 0

Walk(available, order, amount) ==
  LET taken(b) == TakenInRound(available, order, amount, 1, b)
                    + TakenInRound(available, order, amount, 2, b)
                    + TakenInRound(available, order, amount, 3, b)
  IN  [used |-> [b \in Buckets |-> taken(b)],
       remaining |-> Wanted(available, order, amount, 3)]

PlanOf(used, requests) ==
  [free_usd |-> used["free_usd"], bonus_usd |-> used["bonus_usd"],
   paid_usd |-> used["paid_usd"], free_requests |-> requests]

-----------------------------------------------------------------------------
Refused(error) == [verdict |-> error]

\* The branches of authorize that pick the policy, the price and whether a
\* free request is consumed; no terms when conditional access is denied.
Terms(request, balance) ==
  LET model == MODELS[request.model_name]
      has_paid_balance == balance.paid_usd > 0
      terms(policy, cost, requests) ==
        [debit_policy |-> policy, estimated_cost_usd |-> cost,
         free_requests |-> requests]
  IN  CASE model.access_type = "PAID_ONLY" ->
             terms("PAID_ONLY", model.paid_cost_usd, 0)
        [] model.access_type = "CONDITIONAL_FREE"
             /\ has_paid_balance /\ balance.paid_usd >= model.paid_cost_usd ->
             terms("PAID_ONLY", model.paid_cost_usd, 0)
        [] model.access_type = "CONDITIONAL_FREE"
             /\ ~(has_paid_balance /\ balance.paid_usd >= model.paid_cost_usd) ->
             terms(IF has_paid_balance THEN "PAID_THEN_FREE_THEN_BONUS"
                                       ELSE "DEFAULT",
                   model.free_cost_usd, 1)
        [] model.access_type = "FREE" ->
             IF has_paid_balance
               THEN terms("DEFAULT", model.paid_cost_usd, 0)
               ELSE terms("DEFAULT", model.free_cost_usd, 1)

\* The remaining branch: an ineligible request for conditional access.
ConditionalFreeDenied(request, balance) ==
  LET model == MODELS[request.model_name]
  IN  /\ model.access_type = "CONDITIONAL_FREE"
      /\ ~(balance.paid_usd > 0 /\ balance.paid_usd >= model.paid_cost_usd)
      /\ ~request.conditional_free_eligible

InvalidBalance(balance) ==
  \/ \E b \in Buckets : balance[b] < 0
  \/ balance.free_requests < 0

\* Mutants: the two off-by-ones of the comparison.
NoRequestsBelowZero(terms, balance) ==
  terms.free_requests = 1 /\ balance.free_requests < 0
NoRequestsBelowTwo(terms, balance) ==
  terms.free_requests = 1 /\ balance.free_requests <= 1

NoRequestsLeft(terms, balance) ==
  terms.free_requests = 1 /\ balance.free_requests <= 0

BuildPlan(balance, terms) ==
  Walk(balance, ChargeOrder(terms.debit_policy), terms.estimated_cost_usd)

Authorize(request, balance) ==
  LET terms == Terms(request, balance)
      walk  == BuildPlan(balance, terms)
  IN  IF InvalidBalance(balance) THEN Refused("ValueError")
      ELSE IF ConditionalFreeDenied(request, balance)
        THEN Refused("ConditionalFreeAccessDenied")
      ELSE IF NoRequestsLeft(terms, balance)
        THEN Refused("FreeRequestsExhausted")
      ELSE IF walk.remaining > 0 THEN Refused("InsufficientBalance")
      ELSE [verdict |-> "authorized",
            debit_policy |-> terms.debit_policy,
            estimated_cost_usd |-> terms.estimated_cost_usd,
            debit_plan |-> PlanOf(walk.used, terms.free_requests)]

AccessErrors ==
  {"ConditionalFreeAccessDenied", "FreeRequestsExhausted", "InsufficientBalance"}

Authorizations ==
  [verdict : {"authorized"}, debit_policy : DebitPolicies,
   estimated_cost_usd : Nat, debit_plan : DebitPlans]

Refusals == [verdict : AccessErrors \cup {"ValueError"}]

-----------------------------------------------------------------------------
\* Mutant: rounds to the next micro instead of down.
ChargedRoundedUp(bill, plan) ==
  (Greater(0, Lesser(bill, total_usd(plan) * Grain)) + Grain - 1) \div Grain

\* _settle: the bill is clamped to [0, plan total] and rounded down to a micro.
Charged(bill, plan) ==
  Greater(0, Lesser(bill, total_usd(plan) * Grain)) \div Grain

\* Mutant: the free request goes back with the surplus.
SurplusRefundAll(plan, policy, billed) ==
  LET surplus == total_usd(plan) - Greater(0, Lesser(billed, total_usd(plan)))
  IN  PlanOf(Walk(plan, Reversed(ChargeOrder(policy)), surplus).used,
             plan.free_requests)

\* The unbilled part of the plan, from the last bucket charged back to the
\* first; the consumed free request stays consumed.
SurplusRefund(plan, policy, billed) ==
  LET surplus == total_usd(plan) - Greater(0, Lesser(billed, total_usd(plan)))
  IN  PlanOf(Walk(plan, Reversed(ChargeOrder(policy)), surplus).used, 0)
=============================================================================
