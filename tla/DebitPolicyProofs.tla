--------------------------- MODULE DebitPolicyProofs ---------------------------
(***************************************************************************)
(* What DebitPolicy guarantees whatever the catalogue and the balance: a   *)
(* plan is never negative, never more than the balance holds and never     *)
(* more or less than the price; a refund is never negative, never more     *)
(* than the plan, and with the charge makes up the plan.                   *)
(***************************************************************************)
EXTENDS DebitPolicy, TLAPS

\* The charge orders and their reverses: one bucket, or all three.
OneBucket(order) == DOMAIN order = 1 .. 1 /\ order[1] = "paid_usd"

AllBuckets(order) ==
  /\ DOMAIN order = 1 .. 3
  /\ order[1] \in Buckets /\ order[2] \in Buckets /\ order[3] \in Buckets
  /\ order[1] # order[2] /\ order[1] # order[3] /\ order[2] # order[3]

LEMMA OrderShape ==
  ASSUME NEW policy
  PROVE  /\ OneBucket(ChargeOrder(policy)) \/ AllBuckets(ChargeOrder(policy))
         /\ OneBucket(Reversed(ChargeOrder(policy)))
              \/ AllBuckets(Reversed(ChargeOrder(policy)))
<1>1. CASE ChargeOrder(policy) = <<"paid_usd">>
  BY <1>1 DEF OneBucket, Reversed
<1>2. ASSUME NEW order, AllBuckets(order), Len(order) = 3
      PROVE  AllBuckets(Reversed(order))
  <2>1. /\ DOMAIN Reversed(order) = 1 .. 3
        /\ Reversed(order)[1] = order[3]
        /\ Reversed(order)[2] = order[2]
        /\ Reversed(order)[3] = order[1]
    BY <1>2 DEF Reversed, AllBuckets
  <2>2. QED
    BY <1>2, <2>1 DEF AllBuckets
<1>3. CASE ChargeOrder(policy) = <<"paid_usd", "free_usd", "bonus_usd">>
  BY <1>2, <1>3 DEF AllBuckets, Buckets
<1>4. CASE ChargeOrder(policy) = <<"free_usd", "bonus_usd", "paid_usd">>
  BY <1>2, <1>4 DEF AllBuckets, Buckets
<1>5. QED
  BY <1>1, <1>3, <1>4, Zenon DEF ChargeOrder

\* What a walk is: nothing is taken that is not there or not wanted, and nothing
\* is left in the buckets of the order while anything is wanted.
Taken(walk, available, order, amount) ==
  /\ walk.remaining \in Nat
  /\ walk.used = [b \in Buckets |-> walk.used[b]]
  /\ \A b \in Buckets : walk.used[b] \in 0 .. available[b]
  /\ walk.used["free_usd"] + walk.used["bonus_usd"] + walk.used["paid_usd"]
       + walk.remaining = amount
  /\ walk.remaining > 0 =>
       \A i \in DOMAIN order : walk.used[order[i]] = available[order[i]]

LEMMA WalkTakes ==
  ASSUME NEW available, NEW order, NEW amount \in Nat,
         \A b \in Buckets : available[b] \in Nat,
         OneBucket(order) \/ AllBuckets(order)
  PROVE  Taken(Walk(available, order, amount), available, order, amount)
<1> DEFINE w(i) == Wanted(available, order, amount, i)
           walk == Walk(available, order, amount)
<1>1. CASE OneBucket(order)
  <2> DEFINE a == available["paid_usd"]
  <2>1. a \in Nat
    BY DEF Buckets
  <2>2. /\ FirstBuckets(available, order, 0) = 0
        /\ FirstBuckets(available, order, 1) = 0 + a
        /\ FirstBuckets(available, order, 3) = a
    BY <1>1, <2>1 DEF FirstBuckets, Has, OneBucket
  <2>3. /\ w(0) = amount
        /\ w(1) \in Nat /\ w(3) = w(1)
        /\ w(0) - w(1) \in 0 .. a
        /\ w(3) > 0 => w(0) - w(1) = a
    BY <2>1, <2>2 DEF Wanted, Greater
  <2>4. /\ walk.remaining = w(3)
        /\ walk.used = [b \in Buckets |-> IF b = "paid_usd" THEN w(0) - w(1) ELSE 0]
    <3>1. \A b \in Buckets :
            /\ TakenInRound(available, order, amount, 1, b)
                 = IF b = "paid_usd" THEN w(0) - w(1) ELSE 0
            /\ TakenInRound(available, order, amount, 2, b) = 0
            /\ TakenInRound(available, order, amount, 3, b) = 0
      BY <1>1 DEF TakenInRound, OneBucket
    <3>2. QED
      BY <3>1, <2>3 DEF Walk
  <2>5. QED
    BY <1>1, <2>1, <2>3, <2>4 DEF Taken, Buckets, OneBucket
<1>2. CASE AllBuckets(order)
  <2> DEFINE a1 == available[order[1]]
             a2 == available[order[2]]
             a3 == available[order[3]]
  <2>1. a1 \in Nat /\ a2 \in Nat /\ a3 \in Nat
    BY <1>2 DEF AllBuckets
  <2>2. /\ FirstBuckets(available, order, 0) = 0
        /\ FirstBuckets(available, order, 1) = a1
        /\ FirstBuckets(available, order, 2) = a1 + a2
        /\ FirstBuckets(available, order, 3) = (a1 + a2) + a3
    BY <1>2, <2>1 DEF FirstBuckets, Has, AllBuckets
  <2>3. /\ w(0) = amount
        /\ w(1) \in Nat /\ w(2) \in Nat /\ w(3) \in Nat
        /\ w(0) - w(1) \in 0 .. a1
        /\ w(1) - w(2) \in 0 .. a2
        /\ w(2) - w(3) \in 0 .. a3
        /\ w(3) > 0 => /\ w(0) - w(1) = a1
                       /\ w(1) - w(2) = a2
                       /\ w(2) - w(3) = a3
    <3>1. /\ w(0) = amount /\ w(1) \in Nat /\ w(0) - w(1) \in 0 .. a1
          /\ w(1) > 0 => w(0) - w(1) = a1
      BY <2>1, <2>2 DEF Wanted, Greater
    <3>2. /\ w(2) \in Nat /\ w(1) - w(2) \in 0 .. a2
          /\ w(2) > 0 => w(1) - w(2) = a2
      <4>1. w(1) = Greater(0, amount - a1) /\ w(2) = Greater(0, amount - (a1 + a2))
        BY <2>2 DEF Wanted
      <4> HIDE DEF w, a1, a2
      <4>2. QED
        BY <4>1, <2>1 DEF Greater
    <3>3. /\ w(3) \in Nat /\ w(2) - w(3) \in 0 .. a3
          /\ w(3) > 0 => w(2) - w(3) = a3
      <4>1. a1 + a2 \in Nat
        BY <2>1
      <4>2. /\ w(2) = Greater(0, amount - (a1 + a2))
            /\ w(3) = Greater(0, amount - ((a1 + a2) + a3))
        BY <2>2 DEF Wanted
      <4> HIDE DEF w, a1, a2, a3
      <4>3. QED
        BY <4>1, <4>2, <2>1 DEF Greater
    <3>4. QED
      BY <3>1, <3>2, <3>3
  <2>4. /\ walk.remaining = w(3)
        /\ walk.used = [b \in Buckets |-> IF b = order[1] THEN w(0) - w(1)
                                     ELSE IF b = order[2] THEN w(1) - w(2)
                                     ELSE w(2) - w(3)]
    <3>1. \A b \in Buckets :
            /\ TakenInRound(available, order, amount, 1, b)
                 = IF b = order[1] THEN w(0) - w(1) ELSE 0
            /\ TakenInRound(available, order, amount, 2, b)
                 = IF b = order[2] THEN w(1) - w(2) ELSE 0
            /\ TakenInRound(available, order, amount, 3, b)
                 = IF b = order[3] THEN w(2) - w(3) ELSE 0
      BY <1>2 DEF TakenInRound, AllBuckets
    <3>2. \A b \in Buckets : b = order[1] \/ b = order[2] \/ b = order[3]
      BY <1>2 DEF AllBuckets, Buckets
    <3>3. QED
      BY <1>2, <3>1, <3>2, <2>3 DEF Walk, AllBuckets
  <2>5. QED
    BY <1>2, <2>1, <2>3, <2>4 DEF Taken, Buckets, AllBuckets
<1>3. QED
  BY <1>1, <1>2

-----------------------------------------------------------------------------
\* The plan of a model sold for paid money only.
PaidOnly(plan) == plan.free_usd = 0 /\ plan.bonus_usd = 0

LEMMA PaidOnlyWalk ==
  ASSUME NEW available, NEW amount
  PROVE  LET walk == Walk(available, ChargeOrder("PAID_ONLY"), amount)
         IN  walk.used["free_usd"] = 0 /\ walk.used["bonus_usd"] = 0
<1> DEFINE order == ChargeOrder("PAID_ONLY")
<1>1. order = <<"paid_usd">>
  BY Zenon DEF ChargeOrder
<1>2. \A i \in {1, 2, 3}, b \in {"free_usd", "bonus_usd"} :
        TakenInRound(available, order, amount, i, b) = 0
  BY <1>1 DEF TakenInRound
<1>3. QED
  BY <1>2 DEF Walk, Buckets

\* What authorize answers, whatever else the balance carries.
LEMMA AuthorizeCovers ==
  ASSUME NEW request, request.model_name \in DOMAIN MODELS, NEW balance,
         \A b \in Buckets : balance[b] \in Int, balance.free_requests \in Int
  PROVE  LET auth == Authorize(request, balance)
         IN  /\ auth \in Authorizations \cup Refusals
             /\ auth.verdict = "authorized" =>
                  /\ auth \in Authorizations
                  /\ Covers(balance, auth.debit_plan)
                  /\ total_usd(auth.debit_plan) = auth.estimated_cost_usd
                  /\ auth.debit_policy = "PAID_ONLY" => PaidOnly(auth.debit_plan)
<1> DEFINE terms == Terms(request, balance)
           walk == BuildPlan(balance, terms)
           auth == Authorize(request, balance)
<1>0. balance.paid_usd \in Int
  BY DEF Buckets
<1>1. MODELS[request.model_name] \in
        [access_type : AccessTypes, free_cost_usd : Nat, paid_cost_usd : Nat]
  BY ModelsAssumption
<1>2. /\ terms.debit_policy \in DebitPolicies
      /\ terms.estimated_cost_usd \in Nat
      /\ terms.free_requests \in {0, 1}
  BY <1>0, <1>1 DEF Terms, AccessTypes, DebitPolicies
<1>3. CASE \/ InvalidBalance(balance)
           \/ ConditionalFreeDenied(request, balance)
           \/ NoRequestsLeft(terms, balance)
           \/ walk.remaining > 0
  <2>1. auth \in Refusals
    BY <1>3 DEF Authorize, Refused, Refusals, AccessErrors
  <2>2. auth.verdict # "authorized"
    BY <2>1 DEF Refusals, AccessErrors
  <2>3. QED
    BY <2>1, <2>2
<1>4. CASE /\ ~InvalidBalance(balance)
           /\ ~ConditionalFreeDenied(request, balance)
           /\ ~NoRequestsLeft(terms, balance)
           /\ ~(walk.remaining > 0)
  <2>1. \A b \in Buckets : balance[b] \in Nat
    BY <1>4 DEF InvalidBalance, Buckets
  <2>2. Taken(walk, balance, ChargeOrder(terms.debit_policy),
                  terms.estimated_cost_usd)
    BY <1>2, <2>1, OrderShape, WalkTakes DEF BuildPlan
  <2>3. walk.remaining = 0
    BY <1>4, <2>2 DEF Taken
  <2>4. auth = [verdict |-> "authorized",
                debit_policy |-> terms.debit_policy,
                estimated_cost_usd |-> terms.estimated_cost_usd,
                debit_plan |-> PlanOf(walk.used, terms.free_requests)]
    BY <1>4 DEF Authorize
  <2>5. /\ auth.debit_plan \in DebitPlans
        /\ Covers(balance, auth.debit_plan)
        /\ total_usd(auth.debit_plan) = terms.estimated_cost_usd
    <3>1. /\ walk.used["free_usd"] \in 0 .. balance["free_usd"]
          /\ walk.used["bonus_usd"] \in 0 .. balance["bonus_usd"]
          /\ walk.used["paid_usd"] \in 0 .. balance["paid_usd"]
          /\ walk.used["free_usd"] + walk.used["bonus_usd"] + walk.used["paid_usd"]
               = terms.estimated_cost_usd
      BY <2>1, <2>2, <2>3, <1>2 DEF Taken, Buckets
    <3>2. terms.free_requests <= balance.free_requests
      BY <1>2, <1>4 DEF NoRequestsLeft, InvalidBalance
    <3>3. QED
      BY <3>1, <3>2, <1>2, <2>1, <2>4
      DEF PlanOf, DebitPlans, Covers, Buckets, total_usd
  <2>6. ASSUME terms.debit_policy = "PAID_ONLY" PROVE PaidOnly(auth.debit_plan)
    <3>1. walk.used["free_usd"] = 0 /\ walk.used["bonus_usd"] = 0
      BY <1>2, <2>6, PaidOnlyWalk DEF BuildPlan
    <3>2. QED
      BY <2>4, <3>1 DEF PaidOnly, PlanOf
  <2>7. QED
    BY <1>2, <2>4, <2>5, <2>6 DEF Authorizations
<1>5. QED
  BY <1>3, <1>4

\* authorize answers with an authorization or with a refusal; what it authorizes
\* the balance covers, at exactly the price, and out of the paid bucket alone if
\* the policy says so (_build_plan, _validate_balance).
THEOREM AuthorizeCovered ==
  ASSUME NEW request, request.model_name \in DOMAIN MODELS,
         NEW balance \in [free_usd : Int, bonus_usd : Int, paid_usd : Int,
                          free_requests : Int, version : Int]
  PROVE  LET auth == Authorize(request, balance)
         IN  /\ auth \in Authorizations \cup Refusals
             /\ auth.verdict = "authorized" =>
                  /\ auth \in Authorizations
                  /\ Covers(balance, auth.debit_plan)
                  /\ total_usd(auth.debit_plan) = auth.estimated_cost_usd
                  /\ auth.debit_policy = "PAID_ONLY" => PaidOnly(auth.debit_plan)
<1>1. /\ \A b \in Buckets : balance[b] \in Int
      /\ balance.free_requests \in Int
  BY DEF Buckets
<1>2. QED
  BY <1>1, AuthorizeCovers

-----------------------------------------------------------------------------
\* A bill comes to a charge between nothing and the plan, whatever the provider
\* sent (_settle, quantize_money).
THEOREM ChargedInPlan ==
  ASSUME NEW bill \in Int, NEW plan \in DebitPlans
  PROVE  Charged(bill, plan) \in 0 .. total_usd(plan)
<1> DEFINE total == total_usd(plan)
           clamped == Greater(0, Lesser(bill, total * Grain))
<1>1. total \in Nat /\ Grain \in Nat \ {0}
  BY GrainAssumption DEF total_usd, DebitPlans
<1>2. total * Grain \in Nat
  BY <1>1
<1>3. clamped \in 0 .. total * Grain
  BY <1>2 DEF Greater, Lesser
<1> HIDE DEF clamped, total
<1>4. clamped \div Grain \in 0 .. total
  <2>1. clamped \div Grain \in Int /\ clamped \div Grain >= 0
    BY <1>1, <1>2, <1>3
  <2>2. ~(clamped \div Grain > total)
    BY <1>1, <1>2, <1>3
  <2>3. QED
    BY <2>1, <2>2, <1>1
<1>5. QED
  BY <1>4 DEF Charged, clamped, total

\* Whatever the order, a surplus goes back in amounts that are not negative.
LEMMA RefundTyped ==
  ASSUME NEW plan \in DebitPlans, NEW policy, NEW billed \in Nat
  PROVE  SurplusRefund(plan, policy, billed) \in DebitPlans
<1> DEFINE surplus == total_usd(plan) - Greater(0, Lesser(billed, total_usd(plan)))
           order == Reversed(ChargeOrder(policy))
           walk == Walk(plan, order, surplus)
<1>1. total_usd(plan) \in Nat /\ \A b \in Buckets : plan[b] \in Nat
  BY DEF DebitPlans, total_usd, Buckets
<1>2. surplus \in Nat
  BY <1>1 DEF Greater, Lesser
<1>3. Taken(walk, plan, order, surplus)
  BY <1>1, <1>2, OrderShape, WalkTakes
<1> HIDE DEF surplus, walk
<1>4. \A b \in Buckets : walk.used[b] \in Nat
  BY <1>1, <1>3 DEF Taken
<1>5. SurplusRefund(plan, policy, billed) = PlanOf(walk.used, 0)
  BY DEF SurplusRefund, walk, surplus
<1>6. QED
  BY <1>4, <1>5 DEF PlanOf, DebitPlans, Buckets

\* The surplus is never negative, is no more in any bucket than the plan took
\* from it, and with the charge it makes up the whole plan.
THEOREM RefundAndCharge ==
  ASSUME NEW plan \in DebitPlans, NEW policy \in DebitPolicies,
         policy = "PAID_ONLY" => PaidOnly(plan),
         NEW billed \in 0 .. total_usd(plan)
  PROVE  LET refund == SurplusRefund(plan, policy, billed)
         IN  /\ refund \in DebitPlans
             /\ refund.free_requests = 0
             /\ \A b \in Buckets : refund[b] <= plan[b]
             /\ total_usd(refund) + billed = total_usd(plan)
<1> DEFINE surplus == total_usd(plan) - Greater(0, Lesser(billed, total_usd(plan)))
           order == Reversed(ChargeOrder(policy))
           walk == Walk(plan, order, surplus)
           refund == SurplusRefund(plan, policy, billed)
<1>1. /\ plan["free_usd"] \in Nat /\ plan["bonus_usd"] \in Nat
      /\ plan["paid_usd"] \in Nat
      /\ total_usd(plan) = plan["free_usd"] + plan["bonus_usd"] + plan["paid_usd"]
  BY DEF DebitPlans, total_usd
<1>2. surplus \in Nat /\ surplus + billed = total_usd(plan)
  BY <1>1 DEF Greater, Lesser
<1>3. Taken(walk, plan, order, surplus)
  <2>1. \A b \in Buckets : plan[b] \in Nat
    BY <1>1 DEF Buckets
  <2>2. QED
    BY <1>2, <2>1, OrderShape, WalkTakes
<1> HIDE DEF surplus, walk
<1>4. /\ walk.used["free_usd"] \in 0 .. plan["free_usd"]
      /\ walk.used["bonus_usd"] \in 0 .. plan["bonus_usd"]
      /\ walk.used["paid_usd"] \in 0 .. plan["paid_usd"]
      /\ walk.remaining \in Nat
      /\ walk.used["free_usd"] + walk.used["bonus_usd"] + walk.used["paid_usd"]
           + walk.remaining = surplus
  BY <1>3 DEF Taken, Buckets
<1>5. walk.remaining = 0
  <2>1. SUFFICES ASSUME walk.remaining > 0 PROVE FALSE
    BY <1>4
  <2>2. \A i \in DOMAIN order : walk.used[order[i]] = plan[order[i]]
    BY <1>3, <2>1 DEF Taken
  <2>3. /\ walk.used["paid_usd"] = plan["paid_usd"]
        /\ walk.used["free_usd"] = plan["free_usd"]
        /\ walk.used["bonus_usd"] = plan["bonus_usd"]
    <3>1. CASE policy = "PAID_ONLY"
      <4>1. DOMAIN order = 1 .. 1 /\ order[1] = "paid_usd"
        <5>1. ChargeOrder(policy) = <<"paid_usd">>
          BY <3>1, Zenon DEF ChargeOrder
        <5>2. QED
          BY <5>1 DEF Reversed
      <4>2. plan["free_usd"] = 0 /\ plan["bonus_usd"] = 0
        BY <3>1 DEF PaidOnly
      <4>3. QED
        BY <1>4, <2>2, <4>1, <4>2
    <3>2. CASE policy # "PAID_ONLY"
      <4>1. AllBuckets(order)
        <5>1. \/ ChargeOrder(policy) = <<"paid_usd", "free_usd", "bonus_usd">>
              \/ ChargeOrder(policy) = <<"free_usd", "bonus_usd", "paid_usd">>
          BY <3>2, Zenon DEF ChargeOrder
        <5>2. Len(ChargeOrder(policy)) = 3
          BY <5>1
        <5>3. OneBucket(order) => FALSE
          BY <5>1, <5>2 DEF OneBucket, Reversed
        <5>4. QED
          BY <5>3, OrderShape
      <4>2. QED
        BY <2>2, <4>1 DEF AllBuckets, Buckets
    <3>3. QED
      BY <3>1, <3>2
  <2>4. QED
    BY <1>1, <1>2, <1>4, <2>1, <2>3
<1>6. refund = PlanOf(walk.used, 0)
  BY DEF SurplusRefund, walk, surplus
<1>7. QED
  BY <1>1, <1>2, <1>4, <1>5, <1>6 DEF PlanOf, DebitPlans, Buckets, total_usd
=============================================================================
