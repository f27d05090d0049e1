-------------------------------- MODULE Ledger --------------------------------
(***************************************************************************)
(* What the service promises: one purse per user, and one entry per        *)
(* generation that is held once and then charged or given back, once.      *)
(* There are no caches, versions, retries, deliveries or processes here.   *)
(* BillingLedger shows that Billing implements this.                       *)
(***************************************************************************)
EXTENDS DebitPolicy

CONSTANTS
  Users, RequestIds,
  Requests,     \* the requests a purse may be asked to pay for
  Commands,     \* the top-ups
  Absent        \* the entry of a generation nobody has paid for yet

VARIABLES
  purse,      \* what each user has left
  entry,      \* what became of each generation
  credited    \* the operations that have been credited

ledgerVars == <<purse, entry, credited>>

Amounts ==
  [free_usd : Nat, bonus_usd : Nat, paid_usd : Nat, free_requests : Nat]

Entries ==
  [state : {"held", "charged", "returned"}, user_id : Users, plan : DebitPlans,
   charged : Nat]

Entry(state, user, plan, charged) ==
  [state |-> state, user_id |-> user, plan |-> plan, charged |-> charged]

Plus(amounts, plan) ==
  [free_usd |-> amounts.free_usd + plan.free_usd,
   bonus_usd |-> amounts.bonus_usd + plan.bonus_usd,
   paid_usd |-> amounts.paid_usd + plan.paid_usd,
   free_requests |-> amounts.free_requests + plan.free_requests]

Minus(amounts, plan) ==
  [free_usd |-> amounts.free_usd - plan.free_usd,
   bonus_usd |-> amounts.bonus_usd - plan.bonus_usd,
   paid_usd |-> amounts.paid_usd - plan.paid_usd,
   free_requests |-> amounts.free_requests - plan.free_requests]

\* A micro-dollar of the caller's is Grain of a command's.
Credit(command) ==
  [free_usd |-> 0, bonus_usd |-> command.bonus_usd \div Grain,
   paid_usd |-> command.paid_usd \div Grain,
   free_requests |-> command.free_requests]

\* What may be given back of a charged plan: money only, no more to a bucket
\* than was taken from it.
Surpluses(plan) ==
  [free_usd : 0 .. plan.free_usd, bonus_usd : 0 .. plan.bonus_usd,
   paid_usd : 0 .. plan.paid_usd, free_requests : {0}]

-----------------------------------------------------------------------------
Init ==
  /\ purse \in [Users -> Amounts]
  /\ entry = [id \in RequestIds |-> Absent]
  /\ credited = {}

\* The policy agrees to the purse as it is, and its plan is taken from it.
Hold(request) ==
  LET id   == request.client_request_id
      u    == request.user_id
      auth == Authorize(request, purse[u])
  IN  /\ entry[id] = Absent
      /\ auth.verdict = "authorized"
      /\ purse' = [purse EXCEPT ![u] = Minus(@, auth.debit_plan)]
      /\ entry' = [entry EXCEPT ![id] = Entry("held", u, auth.debit_plan, 0)]
      /\ UNCHANGED credited

Held(id) == entry[id] # Absent /\ entry[id].state = "held"

\* What is charged and what is given back make up the plan.
Charge(id, refund) ==
  /\ Held(id)
  /\ refund \in Surpluses(entry[id].plan)
  /\ purse' = [purse EXCEPT ![entry[id].user_id] = Plus(@, refund)]
  /\ entry' = [entry EXCEPT ![id] =
                 Entry("charged", @.user_id, @.plan,
                       total_usd(@.plan) - total_usd(refund))]
  /\ UNCHANGED credited

\* A generation that failed costs nothing.
Return(id) ==
  /\ Held(id)
  /\ purse' = [purse EXCEPT ![entry[id].user_id] = Plus(@, entry[id].plan)]
  /\ entry' = [entry EXCEPT ![id] = Entry("returned", @.user_id, @.plan, @.charged)]
  /\ UNCHANGED credited

TopUp(command) ==
  /\ command.operation_id \notin credited
  /\ purse' = [purse EXCEPT ![command.user_id] = Plus(@, Credit(command))]
  /\ credited' = credited \cup {command.operation_id}
  /\ UNCHANGED entry

Next ==
  \/ \E request \in Requests : Hold(request)
  \/ \E id \in RequestIds :
       /\ Held(id)
       /\ \/ \E refund \in Surpluses(entry[id].plan) : Charge(id, refund)
          \/ Return(id)
  \/ \E command \in Commands : TopUp(command)

Spec == Init /\ [][Next]_ledgerVars
=============================================================================
