--------------------------- MODULE DebitSessionProofs ---------------------------
(***************************************************************************)
(* One user's session, for every catalogue, balance, request and bill: the *)
(* closed form of the debit is the source's loop, a refusal is justified,  *)
(* and reserving an estimate and giving the surplus back is debiting the   *)
(* bill exactly.                                                           *)
(***************************************************************************)
EXTENDS DebitSession, DebitPolicyProofs

(***************************************************************************)
(* The walk in numbers.                                                    *)
(***************************************************************************)

\* What a bucket gives to an amount when the buckets before it hold before.
Share(before, has, amount) ==
  Greater(0, amount - before) - Greater(0, amount - (before + has))

Shares(available, order, amount) ==
  LET one   == available[order[1]]
      two   == available[order[2]]
      three == available[order[3]]
  IN  [b \in Buckets |->
         IF b = order[1] THEN Share(0, one, amount)
         ELSE IF b = order[2] THEN Share(one, two, amount)
         ELSE Share(one + two, three, amount)]

PaidShare(available, amount) ==
  [b \in Buckets |->
     IF b = "paid_usd" THEN Share(0, available["paid_usd"], amount) ELSE 0]

Stock(available) == \A b \in Buckets : available[b] \in Nat

LEMMA ThreeBuckets ==
  ASSUME NEW order, AllBuckets(order)
  PROVE  \A b \in Buckets : b = order[1] \/ b = order[2] \/ b = order[3]
BY DEF AllBuckets, Buckets

LEMMA WalkShares ==
  ASSUME NEW available, Stock(available), NEW order, AllBuckets(order),
         NEW amount \in Nat
  PROVE  /\ Walk(available, order, amount).used = Shares(available, order, amount)
         /\ Walk(available, order, amount).remaining =
              Greater(0, amount - (available[order[1]] + available[order[2]]
                                     + available[order[3]]))
<1> DEFINE a1 == available[order[1]]
           a2 == available[order[2]]
           a3 == available[order[3]]
           w(i) == Wanted(available, order, amount, i)
<1>1. a1 \in Nat /\ a2 \in Nat /\ a3 \in Nat
  BY DEF Stock, AllBuckets
<1>2. /\ Has(available, order, 1) = a1 /\ Has(available, order, 2) = a2
      /\ Has(available, order, 3) = a3
  BY DEF Has, AllBuckets
<1> HIDE DEF a1, a2, a3
<1>3. /\ w(0) = Greater(0, amount - 0)
      /\ w(1) = Greater(0, amount - a1)
      /\ w(2) = Greater(0, amount - (a1 + a2))
      /\ w(3) = Greater(0, amount - (a1 + a2 + a3))
  BY <1>1, <1>2 DEF Wanted, FirstBuckets
<1> HIDE DEF w
<1>4. \A b \in Buckets :
        /\ TakenInRound(available, order, amount, 1, b)
             = IF b = order[1] THEN w(0) - w(1) ELSE 0
        /\ TakenInRound(available, order, amount, 2, b)
             = IF b = order[2] THEN w(1) - w(2) ELSE 0
        /\ TakenInRound(available, order, amount, 3, b)
             = IF b = order[3] THEN w(2) - w(3) ELSE 0
  BY DEF TakenInRound, AllBuckets, w
<1>5. w(0) \in Nat /\ w(1) \in Nat /\ w(2) \in Nat /\ w(3) \in Nat
  BY <1>1, <1>3 DEF Greater
<1>6. \A b \in Buckets :
        TakenInRound(available, order, amount, 1, b)
          + TakenInRound(available, order, amount, 2, b)
          + TakenInRound(available, order, amount, 3, b)
        = IF b = order[1] THEN w(0) - w(1)
          ELSE IF b = order[2] THEN w(1) - w(2) ELSE w(2) - w(3)
  BY <1>4, <1>5, ThreeBuckets DEF AllBuckets
<1>7. /\ Share(0, a1, amount) = w(0) - w(1)
      /\ Share(a1, a2, amount) = w(1) - w(2)
      /\ Share(a1 + a2, a3, amount) = w(2) - w(3)
  BY <1>1, <1>3 DEF Share
<1>8. Walk(available, order, amount).used = Shares(available, order, amount)
  BY <1>6, <1>7 DEF Walk, Shares, a1, a2, a3
<1>9. Walk(available, order, amount).remaining = w(3)
  BY DEF Walk, w
<1>10. QED
  BY <1>3, <1>8, <1>9 DEF a1, a2, a3

LEMMA PaidWalkShares ==
  ASSUME NEW available, Stock(available), NEW order, OneBucket(order),
         NEW amount \in Nat
  PROVE  /\ Walk(available, order, amount).used = PaidShare(available, amount)
         /\ Walk(available, order, amount).remaining =
              Greater(0, amount - available["paid_usd"])
<1> DEFINE a1 == available["paid_usd"]
           w(i) == Wanted(available, order, amount, i)
<1>1. a1 \in Nat
  BY DEF Stock, Buckets
<1>2. /\ Has(available, order, 1) = a1 /\ Has(available, order, 2) = 0
      /\ Has(available, order, 3) = 0
  BY DEF Has, OneBucket
<1> HIDE DEF a1
<1>3. /\ w(0) = Greater(0, amount - 0)
      /\ w(1) = Greater(0, amount - a1)
      /\ w(3) = Greater(0, amount - a1)
  BY <1>1, <1>2 DEF Wanted, FirstBuckets
<1> HIDE DEF w
<1>4. \A b \in Buckets :
        /\ TakenInRound(available, order, amount, 1, b)
             = IF b = "paid_usd" THEN w(0) - w(1) ELSE 0
        /\ TakenInRound(available, order, amount, 2, b) = 0
        /\ TakenInRound(available, order, amount, 3, b) = 0
  BY DEF TakenInRound, OneBucket, w
<1>5. w(0) \in Nat /\ w(1) \in Nat
  BY <1>1, <1>3 DEF Greater
<1>6. \A b \in Buckets :
        TakenInRound(available, order, amount, 1, b)
          + TakenInRound(available, order, amount, 2, b)
          + TakenInRound(available, order, amount, 3, b)
        = IF b = "paid_usd" THEN w(0) - w(1) ELSE 0
  BY <1>4, <1>5
<1>7. Share(0, a1, amount) = w(0) - w(1)
  BY <1>1, <1>3 DEF Share
<1>8. Walk(available, order, amount).used = PaidShare(available, amount)
  BY <1>6, <1>7 DEF Walk, PaidShare, a1
<1>9. Walk(available, order, amount).remaining = w(3)
  BY DEF Walk, w
<1>10. QED
  BY <1>3, <1>8, <1>9 DEF a1

-----------------------------------------------------------------------------
(***************************************************************************)
(* The walk is the loop.                                                   *)
(***************************************************************************)
LEMMA LoopShares ==
  ASSUME NEW available, Stock(available), NEW order, AllBuckets(order),
         NEW amount \in Nat
  PROVE  Loop(available, order, amount) = Walk(available, order, amount)
<1> DEFINE a1 == available[order[1]]
           a2 == available[order[2]]
           a3 == available[order[3]]
           t1 == Lesser(a1, amount)
           t2 == Lesser(a2, amount - t1)
           t3 == Lesser(a3, amount - t1 - t2)
           start == [used |-> [b \in Buckets |-> 0], remaining |-> amount]
           one == Round(available, order, 1, start)
           two == Round(available, order, 2, one)
           three == Round(available, order, 3, two)
<1>1. a1 \in Nat /\ a2 \in Nat /\ a3 \in Nat
  BY DEF Stock, AllBuckets
<1>2. one = [used |-> [start.used EXCEPT ![order[1]] = t1], remaining |-> amount - t1]
  BY DEF Round, Take, AllBuckets
<1>3. /\ one.remaining = amount - t1 /\ DOMAIN one.used = Buckets
      /\ one.used[order[1]] = t1
  BY <1>2 DEF AllBuckets
<1> HIDE DEF one
<1>4. two = [used |-> [one.used EXCEPT ![order[2]] = t2],
             remaining |-> one.remaining - t2]
  BY <1>3 DEF Round, Take, AllBuckets
<1>5. /\ two.remaining = amount - t1 - t2 /\ DOMAIN two.used = Buckets
      /\ two.used[order[1]] = t1 /\ two.used[order[2]] = t2
  BY <1>3, <1>4 DEF AllBuckets
<1> HIDE DEF two
<1>6. three = [used |-> [two.used EXCEPT ![order[3]] = t3],
               remaining |-> two.remaining - t3]
  BY <1>5 DEF Round, Take, AllBuckets
<1>7. /\ three.remaining = amount - t1 - t2 - t3 /\ DOMAIN three.used = Buckets
      /\ three.used[order[1]] = t1 /\ three.used[order[2]] = t2
      /\ three.used[order[3]] = t3
  BY <1>5, <1>6 DEF AllBuckets
<1>8. three.used = [b \in Buckets |-> three.used[b]]
  BY <1>4, <1>5, <1>6, <1>7
<1>9. three = [used |-> three.used, remaining |-> three.remaining]
  BY <1>6
<1>10. Loop(available, order, amount) = three
  BY DEF Loop, one, two
<1> HIDE DEF three, a1, a2, a3
<1>11. /\ t1 = Share(0, a1, amount) /\ t2 = Share(a1, a2, amount)
       /\ t3 = Share(a1 + a2, a3, amount)
       /\ amount - t1 - t2 - t3 = Greater(0, amount - (a1 + a2 + a3))
  BY <1>1 DEF Lesser, Greater, Share
<1> HIDE DEF t1, t2, t3
<1>12. three.used = Shares(available, order, amount)
  BY <1>7, <1>8, <1>11, ThreeBuckets DEF Shares, a1, a2, a3
<1>13. /\ Walk(available, order, amount).used = three.used
       /\ Walk(available, order, amount).remaining = three.remaining
  BY <1>7, <1>11, <1>12, WalkShares DEF a1, a2, a3
<1>14. Walk(available, order, amount)
         = [used |-> Walk(available, order, amount).used,
            remaining |-> Walk(available, order, amount).remaining]
  BY DEF Walk
<1>15. QED
  BY <1>9, <1>10, <1>13, <1>14

LEMMA PaidLoopShares ==
  ASSUME NEW available, Stock(available), NEW order, OneBucket(order),
         NEW amount \in Nat
  PROVE  Loop(available, order, amount) = Walk(available, order, amount)
<1> DEFINE a1 == available["paid_usd"]
           t1 == Lesser(a1, amount)
           start == [used |-> [b \in Buckets |-> 0], remaining |-> amount]
           one == Round(available, order, 1, start)
<1>1. a1 \in Nat
  BY DEF Stock, Buckets
<1>2. one = [used |-> [start.used EXCEPT !["paid_usd"] = t1], remaining |-> amount - t1]
  BY DEF Round, Take, OneBucket
<1>3. Loop(available, order, amount) = one
  BY DEF Loop, Round, OneBucket
<1> HIDE DEF one, a1
<1>4. t1 = Share(0, a1, amount) /\ amount - t1 = Greater(0, amount - a1)
  BY <1>1 DEF Lesser, Greater, Share
<1> HIDE DEF t1
<1>5. one.used = PaidShare(available, amount)
  BY <1>2, <1>4 DEF PaidShare, a1
<1>6. /\ Walk(available, order, amount).used = one.used
      /\ Walk(available, order, amount).remaining = one.remaining
  BY <1>2, <1>4, <1>5, PaidWalkShares DEF a1
<1>7. Walk(available, order, amount)
        = [used |-> Walk(available, order, amount).used,
           remaining |-> Walk(available, order, amount).remaining]
  BY DEF Walk
<1>8. QED
  BY <1>2, <1>3, <1>6, <1>7

\* Along every charge order and its reverse the closed form is the source's loop
\* (_build_plan, surplus_refund).
LEMMA WalkLoops ==
  ASSUME NEW available, Stock(available), NEW policy, NEW amount \in Nat
  PROVE  /\ Walk(available, ChargeOrder(policy), amount)
              = Loop(available, ChargeOrder(policy), amount)
         /\ Walk(available, Reversed(ChargeOrder(policy)), amount)
              = Loop(available, Reversed(ChargeOrder(policy)), amount)
BY OrderShape, LoopShares, PaidLoopShares
-----------------------------------------------------------------------------
(***************************************************************************)
(* Taking an estimate and giving the surplus back is taking the charge.    *)
(***************************************************************************)
Backwards(order, back) ==
  /\ AllBuckets(order) /\ AllBuckets(back)
  /\ back[1] = order[3] /\ back[2] = order[2] /\ back[3] = order[1]

LEMMA ExactShares ==
  ASSUME NEW available, Stock(available), NEW order, NEW back,
         Backwards(order, back), NEW cost \in Nat, NEW charged \in 0 .. cost,
         cost <= available[order[1]] + available[order[2]] + available[order[3]],
         NEW plan,
         \A b \in Buckets : plan[b] = Shares(available, order, cost)[b]
  PROVE  \A b \in Buckets :
           plan[b] - Shares(plan, back, cost - charged)[b]
             = Shares(available, order, charged)[b]
<1> DEFINE a1 == available[order[1]]
           a2 == available[order[2]]
           a3 == available[order[3]]
           p1 == plan[order[1]]
           p2 == plan[order[2]]
           p3 == plan[order[3]]
           s == cost - charged
<1>1. a1 \in Nat /\ a2 \in Nat /\ a3 \in Nat
  BY DEF Stock, Backwards, AllBuckets
<1>2. /\ p1 = Share(0, a1, cost) /\ p2 = Share(a1, a2, cost)
      /\ p3 = Share(a1 + a2, a3, cost)
  BY DEF Shares, Backwards, AllBuckets
<1>3. /\ Shares(available, order, charged)[order[1]] = Share(0, a1, charged)
      /\ Shares(available, order, charged)[order[2]] = Share(a1, a2, charged)
      /\ Shares(available, order, charged)[order[3]] = Share(a1 + a2, a3, charged)
  BY DEF Shares, Backwards, AllBuckets
<1>4. /\ Shares(plan, back, s)[order[3]] = Share(0, p3, s)
      /\ Shares(plan, back, s)[order[2]] = Share(p3, p2, s)
      /\ Shares(plan, back, s)[order[1]] = Share(p3 + p2, p1, s)
  BY DEF Shares, Backwards, AllBuckets
<1>5. cost <= a1 + a2 + a3
  OBVIOUS
<1> HIDE DEF a1, a2, a3, p1, p2, p3
<1>6. /\ p3 - Share(0, p3, s) = Share(a1 + a2, a3, charged)
      /\ p2 - Share(p3, p2, s) = Share(a1, a2, charged)
      /\ p1 - Share(p3 + p2, p1, s) = Share(0, a1, charged)
  BY <1>1, <1>2, <1>5 DEF Share, Greater
<1> HIDE DEF s
<1>7. \A b \in Buckets : b = order[1] \/ b = order[2] \/ b = order[3]
  BY ThreeBuckets DEF Backwards
<1>8. QED
  BY <1>3, <1>4, <1>6, <1>7 DEF p1, p2, p3, s

\* The three orders and their reverses.
LEMMA OrdersBackwards ==
  ASSUME NEW policy, policy # "PAID_ONLY"
  PROVE  Backwards(ChargeOrder(policy), Reversed(ChargeOrder(policy)))
<1>1. \/ ChargeOrder(policy) = <<"paid_usd", "free_usd", "bonus_usd">>
      \/ ChargeOrder(policy) = <<"free_usd", "bonus_usd", "paid_usd">>
  BY Zenon DEF ChargeOrder
<1>2. CASE ChargeOrder(policy) = <<"paid_usd", "free_usd", "bonus_usd">>
  BY <1>2 DEF Backwards, AllBuckets, Buckets, Reversed
<1>3. CASE ChargeOrder(policy) = <<"free_usd", "bonus_usd", "paid_usd">>
  BY <1>3 DEF Backwards, AllBuckets, Buckets, Reversed
<1>4. QED
  BY <1>1, <1>2, <1>3

LEMMA OrderPaidOnly ==
  ASSUME NEW policy, policy = "PAID_ONLY"
  PROVE  OneBucket(ChargeOrder(policy)) /\ OneBucket(Reversed(ChargeOrder(policy)))
<1>1. ChargeOrder(policy) = <<"paid_usd">>
  BY Zenon DEF ChargeOrder
<1>2. QED
  BY <1>1 DEF OneBucket, Reversed

LEMMA ExactPaid ==
  ASSUME NEW a \in Nat, NEW cost \in Nat, cost <= a, NEW charged \in 0 .. cost,
         NEW p, p = Share(0, a, cost)
  PROVE  p \in Nat /\ p - Share(0, p, cost - charged) = Share(0, a, charged)
BY DEF Share, Greater

\* The plan less the surplus is the walk of the charge, bucket by bucket (_settle,
\* surplus_refund).
LEMMA ExactRefund ==
  ASSUME NEW available, Stock(available), NEW policy, NEW cost \in Nat,
         NEW charged \in 0 .. cost, NEW plan, Stock(plan),
         Walk(available, ChargeOrder(policy), cost).remaining = 0,
         \A b \in Buckets :
           plan[b] = Walk(available, ChargeOrder(policy), cost).used[b]
  PROVE  /\ Walk(available, ChargeOrder(policy), charged).remaining = 0
         /\ \A b \in Buckets :
              plan[b] - Walk(plan, Reversed(ChargeOrder(policy)), cost - charged).used[b]
                = Walk(available, ChargeOrder(policy), charged).used[b]
<1> DEFINE order == ChargeOrder(policy)
           back == Reversed(ChargeOrder(policy))
           s == cost - charged
<1>1. s \in Nat /\ charged \in Nat
  OBVIOUS
<1>2. CASE policy = "PAID_ONLY"
  <2> DEFINE a == available["paid_usd"]
             p == plan["paid_usd"]
  <2>1. OneBucket(order) /\ OneBucket(back)
    BY <1>2, OrderPaidOnly
  <2> HIDE DEF order, back, s
  <2>2. a \in Nat
    BY DEF Stock, Buckets
  <2>3. /\ Walk(available, order, cost).used = PaidShare(available, cost)
        /\ Walk(available, order, cost).remaining = Greater(0, cost - a)
        /\ Walk(available, order, charged).used = PaidShare(available, charged)
        /\ Walk(available, order, charged).remaining = Greater(0, charged - a)
        /\ Walk(plan, back, s).used = PaidShare(plan, s)
    BY <1>1, <2>1, PaidWalkShares
  <2>4. cost <= a
    BY <2>2, <2>3 DEF Greater, order
  <2>5. Walk(available, order, charged).remaining = 0
    BY <1>1, <2>2, <2>3, <2>4 DEF Greater
  <2>6. /\ p = Share(0, a, cost)
        /\ \A b \in Buckets \ {"paid_usd"} : plan[b] = 0
    BY <2>3 DEF PaidShare, order, Buckets
  <2>7. p - Share(0, p, s) = Share(0, a, charged)
    <3> HIDE DEF a, p
    <3>1. QED
      BY <2>2, <2>4, <2>6, ExactPaid DEF s
  <2>8. \A b \in Buckets : plan[b] - PaidShare(plan, s)[b] = PaidShare(available, charged)[b]
    BY <2>6, <2>7 DEF PaidShare, Buckets
  <2>9. QED
    BY <2>3, <2>5, <2>8 DEF order, back, s
<1>3. CASE policy # "PAID_ONLY"
  <2> DEFINE a == available[order[1]] + available[order[2]] + available[order[3]]
  <2>1. Backwards(order, back)
    BY <1>3, OrdersBackwards
  <2> HIDE DEF order, back, s
  <2>2. a \in Nat /\ AllBuckets(order) /\ AllBuckets(back)
    BY <2>1 DEF Stock, Backwards, AllBuckets
  <2>3. /\ Walk(available, order, cost).used = Shares(available, order, cost)
        /\ Walk(available, order, cost).remaining = Greater(0, cost - a)
        /\ Walk(available, order, charged).used = Shares(available, order, charged)
        /\ Walk(available, order, charged).remaining = Greater(0, charged - a)
        /\ Walk(plan, back, s).used = Shares(plan, back, s)
    BY <1>1, <2>2, WalkShares
  <2>4. cost <= a
    BY <2>2, <2>3 DEF Greater, order
  <2>5. Walk(available, order, charged).remaining = 0
    BY <1>1, <2>2, <2>3, <2>4 DEF Greater
  <2>6. \A b \in Buckets : plan[b] = Shares(available, order, cost)[b]
    BY <2>3 DEF order
  <2>7. \A b \in Buckets :
          plan[b] - Shares(plan, back, s)[b] = Shares(available, order, charged)[b]
    BY <2>1, <2>4, <2>6, ExactShares DEF s
  <2>8. QED
    BY <2>3, <2>5, <2>7 DEF order, back, s
<1>4. QED
  BY <1>2, <1>3
-----------------------------------------------------------------------------
(***************************************************************************)
(* The steps of a session.                                                 *)
(***************************************************************************)

\* A generation took plan for the estimate of terms and gave refund back.
Took(request, bill, terms, plan, refund) ==
  LET walk == Walk(balance, ChargeOrder(terms.debit_policy), terms.estimated_cost_usd)
  IN  /\ terms = Terms(request, balance) /\ ~NoRequestsLeft(terms, balance)
      /\ walk.remaining = 0
      /\ plan = PlanOf(walk.used, terms.free_requests)
      /\ plan \in DebitPlans /\ Covers(balance, plan)
      /\ total_usd(plan) = terms.estimated_cost_usd
      /\ terms.debit_policy = "PAID_ONLY" => PaidOnly(plan)
      /\ refund = SurplusRefund(plan, terms.debit_policy, Charged(bill, plan))
      /\ balance' = Plus(Minus(balance, plan), refund)
      /\ last' = [verdict |-> "authorized", request |-> request, bill |-> bill,
                  charged |-> Charged(bill, plan),
                  cost |-> terms.estimated_cost_usd,
                  policy |-> terms.debit_policy,
                  free_requests |-> plan.free_requests]

LEMMA TermsTyped ==
  ASSUME balance \in DebitPlans, NEW request \in Requests
  PROVE  /\ Terms(request, balance).debit_policy \in DebitPolicies
         /\ Terms(request, balance).estimated_cost_usd \in Nat
         /\ Terms(request, balance).free_requests \in {0, 1}
         /\ MODELS[request.model_name] \in
              [access_type : AccessTypes, free_cost_usd : Nat, paid_cost_usd : Nat]
         /\ request.model_name \in DOMAIN MODELS
<1>1. /\ MODELS[request.model_name] \in
           [access_type : AccessTypes, free_cost_usd : Nat, paid_cost_usd : Nat]
      /\ request.model_name \in DOMAIN MODELS
  BY ModelsAssumption, SessionAssumption
<1>2. balance.paid_usd \in Nat
  BY DEF DebitPlans
<1>3. QED
  BY <1>1, <1>2 DEF Terms, AccessTypes, DebitPolicies

LEMMA BalanceStocked ==
  ASSUME balance \in DebitPlans
  PROVE  /\ Stock(balance) /\ ~InvalidBalance(balance)
         /\ \A b \in Buckets : balance[b] \in Int
         /\ balance.free_requests \in Nat
BY DEF DebitPlans, Stock, Buckets, InvalidBalance

LEMMA GenerateTakes ==
  ASSUME balance \in DebitPlans, NEW request \in Requests, NEW bill \in Bills,
         Generate(request, bill)
  PROVE  \E terms, plan, refund : Took(request, bill, terms, plan, refund)
<1> DEFINE auth == Authorize(request, balance)
           terms == Terms(request, balance)
           walk == BuildPlan(balance, terms)
           plan == auth.debit_plan
           refund == SurplusRefund(plan, auth.debit_policy, Charged(bill, plan))
<1>1. auth.verdict = "authorized"
  BY DEF Generate
<1>2. /\ plan \in DebitPlans /\ Covers(balance, plan)
      /\ total_usd(plan) = auth.estimated_cost_usd
      /\ auth.debit_policy = "PAID_ONLY" => PaidOnly(plan)
  BY <1>1, TermsTyped, BalanceStocked, AuthorizeCovers DEF Authorizations
<1>3. /\ ~NoRequestsLeft(terms, balance) /\ ~(walk.remaining > 0)
      /\ auth = [verdict |-> "authorized",
                 debit_policy |-> terms.debit_policy,
                 estimated_cost_usd |-> terms.estimated_cost_usd,
                 debit_plan |-> PlanOf(walk.used, terms.free_requests)]
  <2>1. /\ "ValueError" # "authorized"
        /\ "ConditionalFreeAccessDenied" # "authorized"
        /\ "FreeRequestsExhausted" # "authorized"
        /\ "InsufficientBalance" # "authorized"
    OBVIOUS
  <2> HIDE DEF terms, walk
  <2>2. auth = IF InvalidBalance(balance) THEN Refused("ValueError")
               ELSE IF ConditionalFreeDenied(request, balance)
                 THEN Refused("ConditionalFreeAccessDenied")
               ELSE IF NoRequestsLeft(terms, balance)
                 THEN Refused("FreeRequestsExhausted")
               ELSE IF walk.remaining > 0 THEN Refused("InsufficientBalance")
               ELSE [verdict |-> "authorized",
                     debit_policy |-> terms.debit_policy,
                     estimated_cost_usd |-> terms.estimated_cost_usd,
                     debit_plan |-> PlanOf(walk.used, terms.free_requests)]
    BY DEF Authorize, terms, walk
  <2>3. \A error : Refused(error).verdict = error
    BY DEF Refused
  <2> HIDE DEF auth
  <2>4. QED
    BY <1>1, <2>1, <2>2, <2>3
<1>4. walk.remaining = 0
  <2>1. Taken(walk, balance, ChargeOrder(terms.debit_policy), terms.estimated_cost_usd)
    BY TermsTyped, BalanceStocked, OrderShape, WalkTakes DEF BuildPlan, Stock
  <2>2. walk.remaining \in Nat
    BY <2>1 DEF Taken
  <2>3. QED
    BY <1>3, <2>2
<1>5. /\ balance' = Plus(Minus(balance, plan), refund)
      /\ last' = [verdict |-> "authorized", request |-> request, bill |-> bill,
                  charged |-> Charged(bill, plan),
                  cost |-> auth.estimated_cost_usd, policy |-> auth.debit_policy,
                  free_requests |-> plan.free_requests]
  BY DEF Generate
<1>6. /\ auth.debit_policy = terms.debit_policy
      /\ auth.estimated_cost_usd = terms.estimated_cost_usd
      /\ plan = PlanOf(walk.used, terms.free_requests)
  BY <1>3
<1> HIDE DEF auth, plan, refund
<1>7. Took(request, bill, terms, plan, refund)
  BY <1>2, <1>3, <1>4, <1>5, <1>6 DEF Took, BuildPlan, refund
<1>8. QED
  BY <1>7

LEMMA DenyRefuses ==
  ASSUME balance \in DebitPlans, NEW request \in Requests, Deny(request)
  PROVE  /\ balance' = balance
         /\ \E error \in AccessErrors :
              /\ last' = [verdict |-> error, request |-> request]
              /\ CASE error = "ConditionalFreeAccessDenied" ->
                        ConditionalFreeDenied(request, balance)
                   [] error = "FreeRequestsExhausted" ->
                        NoRequestsLeft(Terms(request, balance), balance)
                   [] error = "InsufficientBalance" ->
                        BuildPlan(balance, Terms(request, balance)).remaining > 0
<1> DEFINE auth == Authorize(request, balance)
           terms == Terms(request, balance)
           walk == BuildPlan(balance, terms)
<1>1. auth.verdict # "authorized" /\ balance' = balance
      /\ last' = [verdict |-> auth.verdict, request |-> request]
  BY DEF Deny
<1>2. \/ auth = Refused("ConditionalFreeAccessDenied") /\ ConditionalFreeDenied(request, balance)
      \/ auth = Refused("FreeRequestsExhausted") /\ NoRequestsLeft(terms, balance)
      \/ auth = Refused("InsufficientBalance") /\ walk.remaining > 0
      \/ auth.verdict = "authorized"
  BY BalanceStocked DEF Authorize
<1>3. \A error : Refused(error).verdict = error
  BY DEF Refused
<1> HIDE DEF auth, terms, walk
<1>4. CASE auth = Refused("ConditionalFreeAccessDenied") /\ ConditionalFreeDenied(request, balance)
  BY <1>1, <1>3, <1>4 DEF AccessErrors
<1>5. CASE auth = Refused("FreeRequestsExhausted") /\ NoRequestsLeft(terms, balance)
  BY <1>1, <1>3, <1>5 DEF AccessErrors, terms
<1>6. CASE auth = Refused("InsufficientBalance") /\ walk.remaining > 0
  BY <1>1, <1>3, <1>6 DEF AccessErrors, terms, walk
<1>7. QED
  BY <1>1, <1>2, <1>4, <1>5, <1>6
\* What a generation leaves: every bucket less its part of the plan that did not
\* come back.
LEMMA TookAmounts ==
  ASSUME balance \in DebitPlans, NEW request \in Requests, NEW bill \in Bills,
         NEW terms, NEW plan, NEW refund, Took(request, bill, terms, plan, refund)
  PROVE  /\ last'.charged = Charged(bill, plan)
         /\ last'.charged \in 0 .. terms.estimated_cost_usd
         /\ refund \in DebitPlans /\ refund.free_requests = 0
         /\ \A b \in Buckets : refund[b] <= plan[b]
         /\ total_usd(refund) + last'.charged = terms.estimated_cost_usd
         /\ \A b \in Buckets : balance'[b] = balance[b] - (plan[b] - refund[b])
         /\ balance'.free_requests = balance.free_requests - plan.free_requests
         /\ balance' \in DebitPlans
<1>1. /\ plan \in DebitPlans /\ Covers(balance, plan)
      /\ total_usd(plan) = terms.estimated_cost_usd
      /\ terms.debit_policy \in DebitPolicies
      /\ terms.debit_policy = "PAID_ONLY" => PaidOnly(plan)
      /\ refund = SurplusRefund(plan, terms.debit_policy, Charged(bill, plan))
      /\ balance' = Plus(Minus(balance, plan), refund)
      /\ last'.charged = Charged(bill, plan)
  BY TermsTyped DEF Took
<1>2. Charged(bill, plan) \in 0 .. total_usd(plan)
  BY <1>1, ChargedInPlan, SessionAssumption
<1> DEFINE charged == Charged(bill, plan)
<1> HIDE DEF charged
<1>3. /\ refund \in DebitPlans /\ refund.free_requests = 0
      /\ \A b \in Buckets : refund[b] <= plan[b]
      /\ total_usd(refund) + charged = total_usd(plan)
  <2>1. charged \in 0 .. total_usd(plan)
    BY <1>2 DEF charged
  <2>2. refund = SurplusRefund(plan, terms.debit_policy, charged)
    BY <1>1 DEF charged
  <2>3. QED
    BY <1>1, <2>1, <2>2, RefundAndCharge
<1>4. /\ \A b \in Buckets : balance'[b] = balance[b] - (plan[b] - refund[b])
      /\ balance'.free_requests = balance.free_requests - plan.free_requests
      /\ balance' \in DebitPlans
  BY <1>1, <1>3 DEF Plus, Minus, DebitPlans, Covers, Buckets
<1>5. QED
  BY <1>1, <1>2, <1>3, <1>4 DEF charged

LEMMA NextKeepsType == TypeOK /\ [Next]_vars => TypeOK'
<1> SUFFICES ASSUME TypeOK, [Next]_vars PROVE TypeOK'
  OBVIOUS
<1>1. balance \in DebitPlans
  BY DEF TypeOK
<1>2. ASSUME NEW request \in Requests, Deny(request) PROVE TypeOK'
  <2>1. balance' = balance
    BY <1>1, <1>2, DenyRefuses
  <2>2. \E error \in AccessErrors : last' = [verdict |-> error, request |-> request]
    BY <1>1, <1>2, DenyRefuses
  <2>3. QED
    BY <1>1, <2>1, <2>2 DEF TypeOK
<1>3. ASSUME NEW request \in Requests, NEW bill \in Bills, Generate(request, bill)
      PROVE  TypeOK'
  <2>1. PICK terms, plan, refund : Took(request, bill, terms, plan, refund)
    BY <1>1, <1>3, GenerateTakes
  <2>2. balance' \in DebitPlans
    BY <1>1, <2>1, TookAmounts
  <2>3. last'.verdict = "authorized"
    BY <2>1 DEF Took
  <2>4. QED
    BY <2>2, <2>3 DEF TypeOK
<1>4. CASE UNCHANGED vars
  BY <1>4 DEF TypeOK, vars
<1>5. QED
  BY <1>2, <1>3, <1>4 DEF Next

\* A session never leaves a balance the program could not hold, nor answers anything
\* but an authorization or one of the access errors (authorize, surplus_refund).
THEOREM SessionTyped == Spec => []TypeOK
<1>1. Init => TypeOK
  BY SessionAssumption DEF Init, TypeOK, Idle
<1>2. QED
  BY <1>1, NextKeepsType, PTL DEF Spec

\* The closed form the model computes plans and refunds with is the greedy loop of
\* _build_plan and surplus_refund, for every balance, order and part of a price.
THEOREM LoopIsWalked == Spec => []WalkIsLoop
<1>1. TypeOK => WalkIsLoop
  <2> SUFFICES ASSUME TypeOK, NEW policy \in DebitPolicies, NEW name \in DOMAIN MODELS,
                      NEW amount \in 0 .. MODELS[name].paid_cost_usd
               PROVE  /\ Walk(balance, ChargeOrder(policy), amount)
                           = Loop(balance, ChargeOrder(policy), amount)
                      /\ Walk(balance, Reversed(ChargeOrder(policy)), amount)
                           = Loop(balance, Reversed(ChargeOrder(policy)), amount)
    BY DEF WalkIsLoop
  <2>1. amount \in Nat /\ Stock(balance)
    BY ModelsAssumption, BalanceStocked DEF TypeOK
  <2>2. QED
    BY <2>1, WalkLoops
<1>2. QED
  BY <1>1, SessionTyped, PTL
-----------------------------------------------------------------------------
(***************************************************************************)
(* What a step may do.                                                     *)
(***************************************************************************)

\* A step that was authorized took a plan.
LEMMA AuthorizedTook ==
  ASSUME TypeOK, Next, last'.verdict = "authorized"
  PROVE  \E request \in Requests, bill \in Bills : \E terms, plan, refund :
           Took(request, bill, terms, plan, refund)
<1>1. balance \in DebitPlans
  BY DEF TypeOK
<1>2. ASSUME NEW request \in Requests, Deny(request) PROVE FALSE
  <2>1. \E error \in AccessErrors : last' = [verdict |-> error, request |-> request]
    BY <1>1, <1>2, DenyRefuses
  <2>2. QED
    BY <2>1 DEF AccessErrors
<1>3. PICK request \in Requests, bill \in Bills : Generate(request, bill)
  BY <1>2 DEF Next
<1>4. QED
  BY <1>1, <1>3, GenerateTakes

\* A generation's reservation and settlement together debit exactly what one debit of
\* the charge would have, bucket by bucket (_settle, surplus_refund).
THEOREM SettlesExactly == Spec => SettledAsIfExact
<1> DEFINE A == last'.verdict = "authorized" =>
                  LET exact == Walk(balance, ChargeOrder(last'.policy), last'.charged)
                  IN  /\ exact.remaining = 0
                      /\ \A b \in Buckets : balance'[b] = balance[b] - exact.used[b]
<1>1. ASSUME TypeOK, Next PROVE A
  <2> SUFFICES ASSUME last'.verdict = "authorized" PROVE A
    OBVIOUS
  <2>0. PICK request \in Requests, bill \in Bills : \E terms, plan, refund :
          Took(request, bill, terms, plan, refund)
    BY <1>1, AuthorizedTook
  <2>1. PICK terms, plan, refund : Took(request, bill, terms, plan, refund)
    BY <2>0
  <2> DEFINE policy == terms.debit_policy
             cost == terms.estimated_cost_usd
             charged == Charged(bill, plan)
             order == ChargeOrder(policy)
             walk == Walk(balance, order, cost)
  <2>2. balance \in DebitPlans /\ Stock(balance) /\ plan \in DebitPlans
    BY <1>1, <2>1, BalanceStocked DEF TypeOK, Took
  <2>3. /\ last'.charged = charged /\ last'.policy = policy
        /\ walk.remaining = 0 /\ total_usd(plan) = cost
        /\ plan = PlanOf(walk.used, terms.free_requests)
        /\ refund = SurplusRefund(plan, policy, charged)
    BY <2>1 DEF Took
  <2>4. /\ cost \in Nat /\ charged \in 0 .. cost
        /\ \A b \in Buckets : balance'[b] = balance[b] - (plan[b] - refund[b])
    <3>1. charged \in 0 .. cost
      BY <2>1, <2>2, <2>3, TookAmounts
    <3>2. cost \in Nat
      BY <2>1, <2>2, TermsTyped DEF Took
    <3>3. QED
      BY <2>1, <2>2, <3>1, <3>2, TookAmounts
  <2>5. Stock(plan) /\ \A b \in Buckets : plan[b] = walk.used[b]
    BY <2>2, <2>3 DEF Stock, DebitPlans, Buckets, PlanOf
  <2> HIDE DEF policy, cost, charged
  <2>6. /\ Walk(balance, order, charged).remaining = 0
        /\ \A b \in Buckets :
             plan[b] - Walk(plan, Reversed(order), cost - charged).used[b]
               = Walk(balance, order, charged).used[b]
    BY <2>2, <2>3, <2>4, <2>5, ExactRefund
  <2>7. \A b \in Buckets : refund[b] = Walk(plan, Reversed(order), cost - charged).used[b]
    <3>1. total_usd(plan) - Greater(0, Lesser(charged, total_usd(plan))) = cost - charged
      BY <2>3, <2>4 DEF Greater, Lesser
    <3>2. refund = PlanOf(Walk(plan, Reversed(order), cost - charged).used, 0)
      BY <2>3, <3>1 DEF SurplusRefund
    <3> DEFINE back == Walk(plan, Reversed(order), cost - charged)
    <3> HIDE DEF back
    <3>3. \A b \in Buckets : PlanOf(back.used, 0)[b] = back.used[b]
      BY DEF PlanOf, Buckets
    <3>4. QED
      BY <3>2, <3>3 DEF back
  <2>8. QED
    BY <2>3, <2>4, <2>6, <2>7
<1>2. TypeOK /\ [Next]_vars => [A]_vars
  BY <1>1
<1> HIDE DEF A
<1>3. Spec => [][A]_vars
  BY <1>2, SessionTyped, PTL DEF Spec
<1>4. QED
  BY <1>3 DEF A, SettledAsIfExact
LEMMA FloorBounds ==
  ASSUME NEW x \in Nat
  PROVE  (x \div Grain) * Grain <= x /\ x - (x \div Grain) * Grain < Grain
BY GrainAssumption

LEMMA ChargeAndBill ==
  ASSUME NEW bill \in Int, NEW plan \in DebitPlans
  PROVE  /\ bill >= 0 => Charged(bill, plan) * Grain <= bill
         /\ bill < 0 => Charged(bill, plan) = 0
         /\ bill <= total_usd(plan) * Grain => bill - Charged(bill, plan) * Grain < Grain
<1> DEFINE most == total_usd(plan) * Grain
           clamped == Greater(0, Lesser(bill, most))
<1>1. Grain \in Nat \ {0} /\ most \in Nat
  BY GrainAssumption DEF total_usd, DebitPlans
<1>2. Charged(bill, plan) = clamped \div Grain
  BY DEF Charged
<1> HIDE DEF most
<1>3. /\ clamped \in Nat
      /\ bill >= 0 => clamped <= bill
      /\ bill < 0 => clamped = 0
      /\ bill <= most => bill <= clamped
  BY <1>1 DEF Greater, Lesser
<1> HIDE DEF clamped
<1>4. /\ (clamped \div Grain) * Grain <= clamped
      /\ clamped - (clamped \div Grain) * Grain < Grain
  BY <1>3, FloorBounds
<1>5. clamped \div Grain \in Int /\ (clamped = 0 => clamped \div Grain = 0)
  BY <1>1, <1>3
<1>6. (clamped \div Grain) * Grain \in Int
  BY <1>1, <1>5
<1> DEFINE back == (clamped \div Grain) * Grain
<1>7. /\ bill >= 0 => back <= bill
      /\ bill <= most => bill - back < Grain
  <2> HIDE DEF back
  <2>1. back <= clamped /\ clamped - back < Grain /\ back \in Int
    BY <1>4, <1>6 DEF back
  <2>2. QED
    BY <1>1, <1>3, <2>1
<1>8. QED
  BY <1>2, <1>3, <1>5, <1>7 DEF most

\* What leaves the balance is the charge: within the estimate, within the bill, and
\* less than a micro below it when the estimate allows it (_settle, quantize_money).
THEOREM BillsAreCeilings == Spec => BillIsCeiling
<1> DEFINE A == last'.verdict = "authorized" =>
                  LET paid == total_usd(balance) - total_usd(balance')
                  IN  /\ paid = last'.charged
                      /\ paid \in 0 .. last'.cost
                      /\ last'.bill >= 0 => paid * Grain <= last'.bill
                      /\ last'.bill < 0 => paid = 0
                      /\ last'.bill <= last'.cost * Grain =>
                           last'.bill - paid * Grain < Grain
<1>1. ASSUME TypeOK, Next PROVE A
  <2> SUFFICES ASSUME last'.verdict = "authorized" PROVE A
    OBVIOUS
  <2>0. PICK request \in Requests, bill \in Bills : \E terms, plan, refund :
          Took(request, bill, terms, plan, refund)
    BY <1>1, AuthorizedTook
  <2>1. PICK terms, plan, refund : Took(request, bill, terms, plan, refund)
    BY <2>0
  <2> DEFINE cost == terms.estimated_cost_usd
             charged == Charged(bill, plan)
  <2>2. balance \in DebitPlans /\ plan \in DebitPlans /\ bill \in Int
    BY <1>1, <2>1, SessionAssumption DEF TypeOK, Took
  <2>3. /\ last'.charged = charged /\ last'.cost = cost /\ last'.bill = bill
        /\ total_usd(plan) = cost
    BY <2>1 DEF Took
  <2>4. /\ charged \in 0 .. cost /\ refund \in DebitPlans
        /\ total_usd(refund) + charged = cost /\ balance' \in DebitPlans
        /\ \A b \in Buckets : balance'[b] = balance[b] - (plan[b] - refund[b])
    <3>1. /\ last'.charged \in 0 .. cost /\ refund \in DebitPlans
          /\ total_usd(refund) + last'.charged = cost /\ balance' \in DebitPlans
          /\ \A b \in Buckets : balance'[b] = balance[b] - (plan[b] - refund[b])
      BY <2>1, <2>2, TookAmounts
    <3>2. QED
      BY <2>3, <3>1
  <2>5. total_usd(balance) - total_usd(balance') = total_usd(plan) - total_usd(refund)
    <3>1. /\ balance'["free_usd"]
                = balance["free_usd"] - (plan["free_usd"] - refund["free_usd"])
          /\ balance'["bonus_usd"]
                = balance["bonus_usd"] - (plan["bonus_usd"] - refund["bonus_usd"])
          /\ balance'["paid_usd"]
                = balance["paid_usd"] - (plan["paid_usd"] - refund["paid_usd"])
      BY <2>4 DEF Buckets
    <3>2. QED
      BY <2>2, <2>4, <3>1 DEF total_usd, DebitPlans
  <2>6. /\ bill >= 0 => charged * Grain <= bill
        /\ bill < 0 => charged = 0
        /\ bill <= total_usd(plan) * Grain => bill - charged * Grain < Grain
    BY <2>2, ChargeAndBill
  <2>7. total_usd(plan) - total_usd(refund) = charged
    <3>1. total_usd(plan) \in Nat /\ total_usd(refund) \in Nat
      BY <2>2, <2>4 DEF total_usd, DebitPlans
    <3> HIDE DEF charged, cost
    <3>2. QED
      BY <2>3, <2>4, <3>1
  <2> HIDE DEF charged, cost
  <2>8. QED
    BY <2>3, <2>4, <2>5, <2>6, <2>7
<1>2. TypeOK /\ [Next]_vars => [A]_vars
  BY <1>1
<1> HIDE DEF A
<1>3. Spec => [][A]_vars
  BY <1>2, SessionTyped, PTL DEF Spec
<1>4. QED
  BY <1>3 DEF A, BillIsCeiling

\* A free request is used up exactly where the free price is charged, the free price is
\* charged exactly to those the paid one did not apply to, and who pays the paid price
\* of a model that is not FREE pays it from the paid bucket (authorize).
THEOREM PaidStaysPaid == Spec => PaidOnlyIsPaid
<1> DEFINE A == last'.verdict = "authorized" =>
                  LET model == MODELS[last'.request.model_name]
                      free  == SoldFree(balance, model)
                      taken == balance.free_requests - balance'.free_requests
                  IN  /\ taken = IF free THEN 1 ELSE 0
                      /\ last'.cost = IF free THEN model.free_cost_usd
                                              ELSE model.paid_cost_usd
                      /\ ~free /\ model.access_type # "FREE" =>
                           /\ balance'.free_usd = balance.free_usd
                           /\ balance'.bonus_usd = balance.bonus_usd
<1>1. ASSUME TypeOK, Next PROVE A
  <2> SUFFICES ASSUME last'.verdict = "authorized" PROVE A
    OBVIOUS
  <2>0. PICK request \in Requests, bill \in Bills : \E terms, plan, refund :
          Took(request, bill, terms, plan, refund)
    BY <1>1, AuthorizedTook
  <2>1. PICK terms, plan, refund : Took(request, bill, terms, plan, refund)
    BY <2>0
  <2> DEFINE model == MODELS[request.model_name]
  <2>2. /\ balance \in DebitPlans /\ plan \in DebitPlans
        /\ terms.free_requests \in {0, 1}
        /\ model \in [access_type : AccessTypes, free_cost_usd : Nat, paid_cost_usd : Nat]
    BY <1>1, <2>1, TermsTyped DEF TypeOK, Took
  <2>3. /\ last'.request = request /\ last'.cost = terms.estimated_cost_usd
        /\ terms = Terms(request, balance)
        /\ plan.free_requests = terms.free_requests
        /\ terms.debit_policy = "PAID_ONLY" => PaidOnly(plan)
    BY <2>1 DEF Took, PlanOf
  <2>4. /\ refund \in DebitPlans
        /\ \A b \in Buckets : refund[b] <= plan[b]
        /\ \A b \in Buckets : balance'[b] = balance[b] - (plan[b] - refund[b])
        /\ balance'.free_requests = balance.free_requests - plan.free_requests
    BY <2>1, <2>2, TookAmounts
  <2>5. balance.free_requests - balance'.free_requests = terms.free_requests
    <3>1. balance.free_requests \in Nat
      BY <2>2 DEF DebitPlans
    <3>2. QED
      BY <2>2, <2>3, <2>4, <3>1
  <2>6. /\ terms.free_requests = IF SoldFree(balance, model) THEN 1 ELSE 0
        /\ terms.estimated_cost_usd
             = IF SoldFree(balance, model) THEN model.free_cost_usd
                                           ELSE model.paid_cost_usd
        /\ ~SoldFree(balance, model) /\ model.access_type # "FREE" =>
             terms.debit_policy = "PAID_ONLY"
    <3>1. balance.paid_usd \in Nat
      BY <2>2 DEF DebitPlans
    <3>2. QED
      BY <2>2, <2>3, <3>1 DEF Terms, SoldFree, NoPaidWay, AccessTypes
  <2>7. terms.debit_policy = "PAID_ONLY" =>
          balance'.free_usd = balance.free_usd /\ balance'.bonus_usd = balance.bonus_usd
    <3> SUFFICES ASSUME terms.debit_policy = "PAID_ONLY"
                 PROVE  /\ balance'["free_usd"] = balance["free_usd"]
                        /\ balance'["bonus_usd"] = balance["bonus_usd"]
      OBVIOUS
    <3>1. plan["free_usd"] = 0 /\ plan["bonus_usd"] = 0
      BY <2>3 DEF PaidOnly
    <3>2. refund["free_usd"] \in Nat /\ refund["bonus_usd"] \in Nat
      BY <2>4 DEF DebitPlans
    <3>3. /\ refund["free_usd"] <= plan["free_usd"]
          /\ refund["bonus_usd"] <= plan["bonus_usd"]
          /\ balance'["free_usd"] = balance["free_usd"] - (plan["free_usd"] - refund["free_usd"])
          /\ balance'["bonus_usd"]
                = balance["bonus_usd"] - (plan["bonus_usd"] - refund["bonus_usd"])
      BY <2>4 DEF Buckets
    <3>4. balance["free_usd"] \in Nat /\ balance["bonus_usd"] \in Nat
      BY <2>2 DEF DebitPlans
    <3>5. QED
      BY <3>1, <3>2, <3>3, <3>4
  <2>8. QED
    BY <2>2, <2>3, <2>5, <2>6, <2>7
<1>2. TypeOK /\ [Next]_vars => [A]_vars
  BY <1>1
<1> HIDE DEF A
<1>3. Spec => [][A]_vars
  BY <1>2, SessionTyped, PTL DEF Spec
<1>4. QED
  BY <1>3 DEF A, PaidOnlyIsPaid

\* Nobody is refused who could have paid: a refusal for money means the buckets the
\* model may draw on hold less than its price, one for requests or eligibility that
\* the paid price did not apply either (authorize, _build_plan).
THEOREM DenialsJustified == Spec => DenialIsJustified
<1> DEFINE A == last'.verdict \in AccessErrors =>
       LET request == last'.request
           model == MODELS[request.model_name]
           paid  == balance.paid_usd
           cheap == \/ model.access_type = "FREE" /\ paid = 0
                    \/ model.access_type = "CONDITIONAL_FREE"
           price == IF cheap THEN model.free_cost_usd ELSE model.paid_cost_usd
           reach == Reach(balance, IF model.access_type = "PAID_ONLY"
                                     THEN "PAID_ONLY" ELSE "DEFAULT")
       IN  CASE last'.verdict = "InsufficientBalance" -> reach < price
             [] last'.verdict = "FreeRequestsExhausted" ->
                  balance.free_requests = 0 /\ NoPaidWay(balance, model)
             [] last'.verdict = "ConditionalFreeAccessDenied" ->
                  ~request.conditional_free_eligible /\ NoPaidWay(balance, model)
<1>1. ASSUME TypeOK, Next PROVE A
  <2> SUFFICES ASSUME last'.verdict \in AccessErrors PROVE A
    OBVIOUS
  <2>1. balance \in DebitPlans
    BY <1>1 DEF TypeOK
  <2>2. ASSUME NEW request \in Requests, NEW bill \in Bills, Generate(request, bill)
        PROVE  FALSE
    BY <2>2 DEF Generate, AccessErrors
  <2>3. PICK request \in Requests : Deny(request)
    BY <1>1, <2>2 DEF Next
  <2>4. PICK error \in AccessErrors :
          /\ last' = [verdict |-> error, request |-> request]
          /\ CASE error = "ConditionalFreeAccessDenied" ->
                    ConditionalFreeDenied(request, balance)
               [] error = "FreeRequestsExhausted" ->
                    NoRequestsLeft(Terms(request, balance), balance)
               [] error = "InsufficientBalance" ->
                    BuildPlan(balance, Terms(request, balance)).remaining > 0
    BY <2>1, <2>3, DenyRefuses
  <2> DEFINE model == MODELS[request.model_name]
             terms == Terms(request, balance)
             cost == terms.estimated_cost_usd
             policy == terms.debit_policy
             free == balance.free_usd
             bonus == balance.bonus_usd
             paid == balance.paid_usd
  <2>5. /\ model \in [access_type : AccessTypes, free_cost_usd : Nat, paid_cost_usd : Nat]
        /\ cost \in Nat /\ policy \in DebitPolicies
        /\ free \in Nat /\ bonus \in Nat /\ paid \in Nat /\ balance.free_requests \in Nat
    BY <2>1, TermsTyped DEF DebitPlans
  <2>6. CASE error = "InsufficientBalance"
    <3>1. Walk(balance, ChargeOrder(policy), cost).remaining > 0
      BY <2>4, <2>6 DEF BuildPlan
    <3>2. policy = "PAID_ONLY" => paid < cost
      <4> SUFFICES ASSUME policy = "PAID_ONLY" PROVE paid < cost
        OBVIOUS
      <4>1. Walk(balance, ChargeOrder(policy), cost).remaining = Greater(0, cost - paid)
        BY <2>1, <2>5, OrderPaidOnly, BalanceStocked, PaidWalkShares
      <4> HIDE DEF policy, cost, paid
      <4>2. QED
        BY <2>5, <3>1, <4>1 DEF Greater
    <3>3. policy # "PAID_ONLY" => free + bonus + paid < cost
      <4> SUFFICES ASSUME policy # "PAID_ONLY" PROVE free + bonus + paid < cost
        OBVIOUS
      <4> DEFINE order == ChargeOrder(policy)
      <4>1. \/ order = <<"paid_usd", "free_usd", "bonus_usd">>
            \/ order = <<"free_usd", "bonus_usd", "paid_usd">>
        BY Zenon DEF ChargeOrder
      <4>2. AllBuckets(order)
        BY OrdersBackwards DEF Backwards
      <4>3. balance[order[1]] + balance[order[2]] + balance[order[3]] = free + bonus + paid
        BY <2>5, <4>1
      <4> HIDE DEF order, policy, cost, free, bonus, paid
      <4>4. Walk(balance, order, cost).remaining =
              Greater(0, cost - (balance[order[1]] + balance[order[2]] + balance[order[3]]))
        BY <2>1, <2>5, <4>2, BalanceStocked, WalkShares
      <4>5. QED
        BY <2>5, <3>1, <4>3, <4>4 DEF Greater, order
    <3>4. /\ model.access_type = "PAID_ONLY" => policy = "PAID_ONLY" /\ cost = model.paid_cost_usd
          /\ model.access_type = "FREE" =>
               /\ policy = "DEFAULT"
               /\ cost = IF paid = 0 THEN model.free_cost_usd ELSE model.paid_cost_usd
          /\ model.access_type = "CONDITIONAL_FREE" =>
               \/ policy = "PAID_ONLY" /\ cost = model.paid_cost_usd /\ paid >= cost
               \/ policy # "PAID_ONLY" /\ cost = model.free_cost_usd
      BY <2>5 DEF Terms
    <3>5. Reach(balance, "PAID_ONLY") = paid /\ Reach(balance, "DEFAULT") = free + bonus + paid
      BY DEF Reach, total_usd
    <3>6. model.access_type \in {"FREE", "PAID_ONLY", "CONDITIONAL_FREE"}
      BY <2>5 DEF AccessTypes
    <3>7. last'.verdict = "InsufficientBalance" /\ last'.request = request
      BY <2>4, <2>6
    <3> HIDE DEF terms, cost, policy, free, bonus
    <3>8. CASE model.access_type = "PAID_ONLY"
      BY <2>5, <3>2, <3>4, <3>5, <3>7, <3>8
    <3>9. CASE model.access_type = "FREE"
      BY <2>5, <3>3, <3>4, <3>5, <3>7, <3>9
    <3>10. CASE model.access_type = "CONDITIONAL_FREE"
      BY <2>5, <3>2, <3>3, <3>4, <3>5, <3>7, <3>10
    <3>11. QED
      BY <3>6, <3>8, <3>9, <3>10
  <2>7. CASE error = "FreeRequestsExhausted"
    <3>1. terms.free_requests = 1 /\ balance.free_requests <= 0
      BY <2>4, <2>7 DEF NoRequestsLeft
    <3>2. balance.free_requests = 0 /\ NoPaidWay(balance, model)
      BY <2>5, <3>1 DEF Terms, NoPaidWay, AccessTypes
    <3>3. QED
      BY <2>4, <2>7, <3>2
  <2>8. CASE error = "ConditionalFreeAccessDenied"
    <3>1. ~request.conditional_free_eligible /\ NoPaidWay(balance, model)
      BY <2>4, <2>5, <2>8 DEF ConditionalFreeDenied, NoPaidWay
    <3>2. QED
      BY <2>4, <2>8, <3>1
  <2>9. QED
    BY <2>6, <2>7, <2>8 DEF AccessErrors
<1>2. TypeOK /\ [Next]_vars => [A]_vars
  BY <1>1
<1> HIDE DEF A
<1>3. Spec => [][A]_vars
  BY <1>2, SessionTyped, PTL DEF Spec
<1>4. QED
  BY <1>3 DEF A, DenialIsJustified
=============================================================================
