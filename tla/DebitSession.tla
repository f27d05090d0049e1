----------------------------- MODULE DebitSession -----------------------------
(***************************************************************************)
(* One user, one request at a time: authorize on the current balance,      *)
(* debit the plan, receive the bill, give the surplus back.  With nothing  *)
(* running in parallel the outcome of a generation is a function of the    *)
(* balance, so this is where the arithmetic of DebitPolicy is checked      *)
(* against what a single, exact debit would have done.                     *)
(***************************************************************************)
EXTENDS DebitPolicy

CONSTANTS
  InitialBalances,   \* balances a session starts from
  Requests,          \* requests a user may send
  Bills              \* bills the provider may send, in Grain-ths

\* A balance is validated before anything is read off it, and a request for a
\* model outside the catalogue is turned away before its balance is looked at.
ASSUME SessionAssumption ==
  /\ InitialBalances \subseteq DebitPlans
  /\ Requests \subseteq
       [model_name : DOMAIN MODELS, conditional_free_eligible : BOOLEAN]
  /\ Bills \subseteq Int

VARIABLES
  balance,   \* the four fields of the user's balance
  last       \* what the latest request came to

Idle == [verdict |-> "none"]

Init ==
  /\ balance \in InitialBalances
  /\ last = Idle

Plus(a, b) ==
  [free_usd |-> a.free_usd + b.free_usd, bonus_usd |-> a.bonus_usd + b.bonus_usd,
   paid_usd |-> a.paid_usd + b.paid_usd,
   free_requests |-> a.free_requests + b.free_requests]

Minus(a, b) ==
  [free_usd |-> a.free_usd - b.free_usd, bonus_usd |-> a.bonus_usd - b.bonus_usd,
   paid_usd |-> a.paid_usd - b.paid_usd,
   free_requests |-> a.free_requests - b.free_requests]

Deny(request) ==
  LET auth == Authorize(request, balance)
  IN  /\ auth.verdict # "authorized"
      /\ last' = [verdict |-> auth.verdict, request |-> request]
      /\ UNCHANGED balance

Generate(request, bill) ==
  LET auth    == Authorize(request, balance)
      charged == Charged(bill, auth.debit_plan)
      refund  == SurplusRefund(auth.debit_plan, auth.debit_policy, charged)
  IN  /\ auth.verdict = "authorized"
      /\ balance' = Plus(Minus(balance, auth.debit_plan), refund)
      /\ last' = [verdict |-> "authorized", request |-> request, bill |-> bill,
                  charged |-> charged, cost |-> auth.estimated_cost_usd,
                  policy |-> auth.debit_policy,
                  free_requests |-> auth.debit_plan.free_requests]

Next ==
  \E request \in Requests :
    Deny(request) \/ \E bill \in Bills : Generate(request, bill)

vars == <<balance, last>>

Spec == Init /\ [][Next]_vars

-----------------------------------------------------------------------------
TypeOK ==
  /\ balance \in DebitPlans
  /\ last.verdict \in AccessErrors \cup {"none", "authorized"}

\* The source's loop, round by round.
Take(available, walk, bucket) ==
  LET taken == Lesser(available[bucket], walk.remaining)
  IN  [used |-> [walk.used EXCEPT ![bucket] = taken],
       remaining |-> walk.remaining - taken]

Round(available, order, i, walk) ==
  IF i \in DOMAIN order THEN Take(available, walk, order[i]) ELSE walk

Loop(available, order, amount) ==
  LET start == [used |-> [b \in Buckets |-> 0], remaining |-> amount]
      one   == Round(available, order, 1, start)
      two   == Round(available, order, 2, one)
  IN  Round(available, order, 3, two)

\* Walk is the greedy loop of _build_plan and surplus_refund, along every order
\* and its reverse, for every price and every part of one.
WalkIsLoop ==
  \A policy \in DebitPolicies, name \in DOMAIN MODELS :
    LET order == ChargeOrder(policy)
        cost  == MODELS[name].paid_cost_usd
    IN  \A amount \in 0 .. cost :
          /\ Walk(balance, order, amount) = Loop(balance, order, amount)
          /\ Walk(balance, Reversed(order), amount)
               = Loop(balance, Reversed(order), amount)

\* What the buckets a policy may draw on hold together.
Reach(b, policy) ==
  IF policy = "PAID_ONLY" THEN b.paid_usd ELSE total_usd(b)

\* The paid price does not apply, or cannot be paid.
NoPaidWay(b, model) == b.paid_usd = 0 \/ b.paid_usd < model.paid_cost_usd

\* A refusal is never spurious: whoever is refused for money could not have
\* paid the price of the model from all the buckets the model may draw on, and
\* whoever is refused for free requests had none left and no paid balance to
\* pay with instead (authorize, _build_plan).
DenialIsJustified ==
  [][last'.verdict \in AccessErrors =>
       LET request == last'.request
           model == MODELS[request.model_name]
           paid  == balance.paid_usd
           cheap == \/ model.access_type = "FREE" /\ paid = 0
                    \/ model.access_type = "CONDITIONAL_FREE"
           price == IF cheap THEN model.free_cost_usd ELSE model.paid_cost_usd
           reach == Reach(balance, IF model.access_type = "PAID_ONLY"
                                     THEN "PAID_ONLY" ELSE "DEFAULT")
       IN  CASE last'.verdict = "InsufficientBalance" -> reach < price
             [] last'.verdict = "FreeRequestsExhausted" ->
                  balance.free_requests = 0 /\ NoPaidWay(balance, model)
             [] last'.verdict = "ConditionalFreeAccessDenied" ->
                  ~request.conditional_free_eligible /\ NoPaidWay(balance, model)
    ]_vars

\* Reserving the estimate and returning the surplus comes to the same balance,
\* bucket by bucket, as debiting the charged amount once would have: the refund
\* undoes exactly the tail of the plan (_settle, surplus_refund).
SettledAsIfExact ==
  [][last'.verdict = "authorized" =>
       LET exact == Walk(balance, ChargeOrder(last'.policy), last'.charged)
       IN  /\ exact.remaining = 0
           /\ \A b \in Buckets : balance'[b] = balance[b] - exact.used[b]
    ]_vars

\* What leaves the balance is the bill, never more than the estimate the user
\* was authorized for, and never more than the provider asked (rounding is in
\* the user's favour by less than a micro).
BillIsCeiling ==
  [][last'.verdict = "authorized" =>
       LET paid == total_usd(balance) - total_usd(balance')
       IN  /\ paid = last'.charged
           /\ paid \in 0 .. last'.cost
           /\ last'.bill >= 0 => paid * Grain <= last'.bill
           /\ last'.bill < 0 => paid = 0
           /\ last'.bill <= last'.cost * Grain => last'.bill - paid * Grain < Grain
    ]_vars

\* Sold at the free price: a FREE model to someone without paid money, a
\* CONDITIONAL_FREE one to someone who cannot pay the paid price.
SoldFree(b, model) ==
  \/ model.access_type = "FREE" /\ b.paid_usd = 0
  \/ model.access_type = "CONDITIONAL_FREE" /\ NoPaidWay(b, model)

\* A generation uses up one free request exactly when it is sold at the free
\* price, and none otherwise; a model that is not sold so and is not FREE is
\* paid from the paid bucket alone, whatever goes back to the buckets later
\* (authorize, surplus_refund).
PaidOnlyIsPaid ==
  [][last'.verdict = "authorized" =>
       LET model == MODELS[last'.request.model_name]
           free  == SoldFree(balance, model)
           taken == balance.free_requests - balance'.free_requests
       IN  /\ taken = IF free THEN 1 ELSE 0
           /\ last'.cost = IF free THEN model.free_cost_usd ELSE model.paid_cost_usd
           /\ ~free /\ model.access_type # "FREE" =>
                /\ balance'.free_usd = balance.free_usd
                /\ balance'.bonus_usd = balance.bonus_usd
    ]_vars
=============================================================================
