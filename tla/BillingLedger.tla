----------------------------- MODULE BillingLedger -----------------------------
(***************************************************************************)
(* Billing implements Ledger.  A balance, cached or still in PostgreSQL,   *)
(* is a purse whatever its version; a running record is a hold, a done one *)
(* a charge, a failed one a hold given back; the marker of a top-up is its *)
(* credit.  Every script that changes money is one step of the ledger, and *)
(* all the rest (loading, polling, retrying, dying, landing late, reaping  *)
(* what is already over) is none.                                          *)
(***************************************************************************)
EXTENDS BillingInvariant

PurseOf(balance) ==
  [free_usd |-> balance.free_usd, bonus_usd |-> balance.bonus_usd,
   paid_usd |-> balance.paid_usd, free_requests |-> balance.free_requests]

Purse(u) == PurseOf(IF bal[u] = Nil THEN StoredBalance(u) ELSE bal[u])

StateOf(status) ==
  CASE status = "running" -> "held"
    [] status = "done"    -> "charged"
    [] status = "failed"  -> "returned"

EntryOf(record) ==
  IF record = Nil THEN Nil
  ELSE [state |-> StateOf(record.status), user_id |-> record.user_id,
        plan |-> record.plan, charged |-> record.billed_cost_usd]

L == INSTANCE Ledger WITH
       purse <- [u \in Users |-> Purse(u)],
       entry <- [id \in RequestIds |-> EntryOf(gen[id])],
       credited <- topup,
       Absent <- Nil

ASSUME EntriesAssumption == Nil \notin L!Entries

\* However deliveries, retries, late scripts, crashes, loaders and reapers
\* interleave, what happens to the money is what the ledger allows: a generation
\* takes the plan the policy makes of that very purse, once; it ends charged
\* with the rest given back, or given back whole, once; a top-up counts once.
LedgerSpec == L!Spec

-----------------------------------------------------------------------------
(***************************************************************************)
(* Why it does.  The scripts compare a status and nothing else: not the    *)
(* token, not the plan.  That the amounts they are given are those of the  *)
(* reservation they end is left to what their senders carry.               *)
(***************************************************************************)

\* What is given back is the plan of the record that is ended.
Returns(id, user, plan, records) ==
  /\ records[id] # Nil
  /\ records[id].user_id = user
  /\ records[id].plan = plan

\* What is charged and given back makes up the plan of the record that is ended.
Splits(id, user, charged, refund, records) ==
  /\ records[id] # Nil
  /\ records[id].user_id = user
  /\ refund \in L!Surpluses(records[id].plan)
  /\ total_usd(refund) + charged = total_usd(records[id].plan)

\* A RESERVE that still finds the version it was made for takes what the policy
\* makes of the balance it finds.
ReserveFits(inv, balances) ==
  \E request \in Requests :
    /\ request.client_request_id = inv.id
    /\ request.user_id = inv.user_id
    /\ SamePayload(request, NewRecord(inv))
    /\ inv.version = balances[inv.user_id].version =>
         LET auth == Authorize(request, balances[inv.user_id])
         IN  /\ auth.verdict = "authorized"
             /\ auth.debit_plan = inv.plan
             /\ auth.estimated_cost_usd = inv.authorized_cost_usd

\* A TOP_UP carries the amounts of a command.
TopUpFits(inv) ==
  \E command \in Commands :
    /\ command.operation_id = inv.id
    /\ command.user_id = inv.user_id
    /\ CommandAmounts(command) = inv.amounts

InvocationFits(inv, records, balances) ==
  /\ inv.script = "RESERVE" => ReserveFits(inv, balances)
  /\ inv.script = "SETTLE" =>
       Splits(inv.id, inv.user_id, inv.billed_cost_usd, inv.refund, records)
  /\ inv.script = "REFUND" => Returns(inv.id, inv.user_id, inv.plan, records)
  /\ inv.script = "TOP_UP" => TopUpFits(inv)

CallFits(t, records) ==
  /\ t.pc = "reserve" => t.auth = Authorize(t.work, t.snap)
  /\ t.pc \in {"reserve", "provider"} =>
       /\ t.auth \in Authorizations
       /\ t.plan = t.auth.debit_plan
       /\ t.auth.debit_policy = "PAID_ONLY" =>
            t.plan.free_usd = 0 /\ t.plan.bonus_usd = 0
  /\ Where(t) \in {"provider", "settle", "refund"} =>
       Returns(t.id, t.user_id, t.plan, records)
  /\ Where(t) = "settle" => Splits(t.id, t.user_id, t.charged, t.refund, records)

ReaperFits(t, records) ==
  Where(t) = "refund" => Returns(t.id, t.user_id, t.plan, records)

\* A seed is the row.
SeedFits(t, rows) ==
  t.pc = "seed" =>
    t.snap = IF rows[t.user_id] = Nil THEN Zero ELSE rows[t.user_id]

\* A token belongs to one attempt of one call, t.  While the call may still meet
\* it (reserve's OwnRecord) it stands for the plan the call carries.
TokenFits(token, id, user, plan, t) ==
  /\ t.pc # "idle"
  /\ Where(t) \in {"reserve", "denied", "wait"} => token[2] <= t.attempt
  /\ Where(t) = "authorize" => token[2] < t.attempt
  /\ (t.pc = "reserve" /\ token[2] = t.attempt) =>
       id = t.id /\ user = t.user_id /\ plan = t.plan

Attempts == Calls \X (0 .. RESERVE_MAX_ATTEMPTS)

TokensFit ==
  /\ \A id \in RequestIds : gen[id] # Nil =>
       LET token == gen[id].reservation_token
       IN  /\ token \in Attempts
           /\ TokenFits(token, id, gen[id].user_id, gen[id].plan, task[token[1]])
  /\ \A inv \in late : inv.script = "RESERVE" =>
       /\ inv.token \in Attempts
       /\ TokenFits(inv.token, inv.id, inv.user_id, inv.plan, task[inv.token[1]])

\* With IInv: everybody who will end a reservation carries the amounts of that
\* reservation, and a seed is the row.
BInv ==
  /\ IInv
  /\ \A c \in Calls : CallFits(task[c], gen)
  /\ \A r \in Reapers : ReaperFits(task[r], gen)
  /\ \A a \in Tasks : SeedFits(task[a], row)
  /\ \A inv \in late : InvocationFits(inv, gen, bal)
  /\ TokensFit
=============================================================================
