----------------------------- MODULE BillingAnswers -----------------------------
(***************************************************************************)
(* Why clients get the right answers: the invariant behind ProviderOnce,   *)
(* InflightIsRunning, OutcomeIsRecorded and RunningHasOwner.  The token    *)
(* makes a reservation belong to one call; what that call knows of the     *)
(* record it reserved, nobody else changes behind its back.                *)
(* BillingAnswersProofs proves it, MCBilling checks it.                    *)
(***************************************************************************)
EXTENDS BillingLedger

\* A record, or a RESERVE, is for the request that call t was sent.
Belongs(id, payload, t) ==
  /\ t.work \in Requests
  /\ t.work.client_request_id = id
  /\ SamePayload(t.work, payload)

RecordsBelong ==
  /\ \A id \in RequestIds : gen[id] # Nil =>
       Belongs(id, gen[id], task[gen[id].reservation_token[1]])
  /\ \A inv \in late : inv.script = "RESERVE" =>
       Belongs(inv.id, inv, task[inv.token[1]])

\* Nobody has charged a reservation, and no SETTLE is on its way to.
Unsettled(id) ==
  /\ gen[id].status # "done"
  /\ \A inv \in late : inv.script = "SETTLE" => inv.id # id

\* If it is charged, or going to be by a try that was lost, it is this cost.
SettledAs(id, cost) ==
  /\ gen[id].status = "done" => gen[id].billed_cost_usd = cost
  /\ \A inv \in late : (inv.script = "SETTLE" /\ inv.id = id) =>
       inv.billed_cost_usd = cost

EndingPcs == {"provider", "settle", "refund"}

Owned(c) == gen[task[c].id].reservation_token[1] = c

\* A retry that meets its own reservation is the first to call the provider; a
\* call that has called it owns the record, and only it settles it.  It never
\* comes back to load the balance (BalancesStay).
CallKnows(c) ==
  LET t == task[c]
  IN  /\ (At(c, "reserve") /\ OwnRecord(c)) =>
           provider_calls[t.id] = 0 /\ Unsettled(t.id)
      /\ At(c, "wait") => gen[t.id] # Nil /\ SamePayload(t.work, gen[t.id])
      /\ t.pc \in EndingPcs => Owned(c) /\ t.attempt = 0
      /\ t.pc \in {"provider", "refund"} => Unsettled(t.id)
      /\ t.pc = "settle" => SettledAs(t.id, t.charged)
      /\ t.pc = "refund" => t.outcome.kind \in {"GenerationFailed", "cancelled"}
      /\ t.pc \in LoaderPcs => t.ret = "authorize"
      /\ (t.pc = "done" /\ t.outcome.kind \in {"result", "GenerationFailed"}) =>
           t.work \in Requests

\* A record does not go away, and one that has ended stays so: what a reaper
\* decides on an id it has taken from the index is right when it acts on it.
ReaperKnows(r) ==
  /\ Where(task[r]) \in ReaperPcs => \A id \in task[r].work : gen[id] # Nil
  /\ At(r, "forget") => gen[task[r].id] # Nil /\ gen[task[r].id].status # "running"

\* A user with a record has a balance: SETTLE and REFUND do not miss it while
\* Redis keeps its data.
BalancesStay == \A id \in RequestIds : gen[id] # Nil => bal[gen[id].user_id] # Nil

\* RunningHasOwner, by the token.
OwnersStay ==
  faults = 0 =>
    /\ late = {}
    /\ \A id \in inflight :
         LET owner == gen[id].reservation_token[1]
         IN  /\ task[owner].pc \in EndingPcs
             /\ task[owner].id = id

AInv ==
  /\ BInv
  /\ RecordsBelong
  /\ \A c \in Calls : CallKnows(c)
  /\ \A r \in Reapers : ReaperKnows(r)
  /\ BalancesStay
  /\ OwnersStay
  /\ InflightIsRunning
  /\ ProviderOnce
  /\ OutcomeIsRecorded
=============================================================================
