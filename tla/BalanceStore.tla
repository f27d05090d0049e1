----------------------------- MODULE BalanceStore -----------------------------
(***************************************************************************)
(* The hot store: the Redis keys of ImplRedisBalanceStore and the Lua      *)
(* scripts that change them (infra/database/redis/scripts.py), with the    *)
(* PostgreSQL row each balance is loaded from.                             *)
(*                                                                         *)
(* Redis runs a script to its end before it runs another command, so a     *)
(* script is one step.  Its KEYS and ARGV are an invocation record; its    *)
(* reply is a function of the keys before the step.  A caller that loses   *)
(* the connection does not know whether its script ran: the invocation     *)
(* joins the set late, from which it may still reach Redis, once, at any   *)
(* later moment, or never.                                                 *)
(*                                                                         *)
(* Left out: content and error texts, JSON and string conversions (money   *)
(* is already in micros).  The TTLs and started_at are in BillingClock; a  *)
(* record outlives every run here.                                         *)
(***************************************************************************)
EXTENDS DebitPolicy, FiniteSets

CONSTANTS
  Users, RequestIds, OperationIds,
  Dialogs,      \* dialog ids: the part of a payload no model gives a meaning to
  Tokens,       \* reservation tokens
  Nil,          \* an absent key, row or field
  MaxFaults     \* lost replies, crashes and slow lock holders in one behaviour

VARIABLES
  bal,        \* bal:{user_id}: the balance and its version
  gen,        \* gen:{client_request_id}: the generation record
  topup,      \* the operation ids with a topup:{operation_id} marker
  dirty,      \* bal:dirty
  inflight,   \* gen:inflight
  row,        \* the rows of the PostgreSQL table
  late,       \* invocations whose callers no longer wait for a reply
  faults      \* faults so far

redis == <<bal, gen, topup, dirty, inflight>>
network == <<late, faults>>

Snapshots ==
  [free_usd : Int, bonus_usd : Int, paid_usd : Int, free_requests : Int,
   version : Int]

\* What PostgreSQL holds, and a balance nobody overdraws.
Balances ==
  [free_usd : Nat, bonus_usd : Nat, paid_usd : Nat, free_requests : Nat,
   version : Nat]

Statuses == {"running", "done", "failed"}

Records ==
  [status : Statuses, user_id : Users, dialog_id : Dialogs,
   model_name : DOMAIN MODELS, plan : DebitPlans, authorized_cost_usd : Nat,
   reservation_token : Tokens, billed_cost_usd : Nat,
   refunded_surplus_usd : Nat]

ReserveInvocations ==
  [script : {"RESERVE"}, user_id : Users, id : RequestIds, dialog_id : Dialogs,
   model_name : DOMAIN MODELS, version : Int, plan : DebitPlans,
   authorized_cost_usd : Nat, token : Tokens]
SettleInvocations ==
  [script : {"SETTLE"}, user_id : Users, id : RequestIds,
   billed_cost_usd : Nat, refund : DebitPlans]
RefundInvocations ==
  [script : {"REFUND"}, user_id : Users, id : RequestIds, plan : DebitPlans]
TopUpInvocations ==
  [script : {"TOP_UP"}, user_id : Users, id : OperationIds, amounts : DebitPlans]

Invocations ==
  ReserveInvocations \cup SettleInvocations
    \cup RefundInvocations \cup TopUpInvocations

ASSUME NilAssumption ==
  /\ Nil \notin Snapshots \cup Records
  /\ Nil \notin Users \cup RequestIds \cup OperationIds

ASSUME MaxFaultsAssumption == MaxFaults \in Nat

-----------------------------------------------------------------------------
\* Mutant: the version is forgotten.
ZeroUnversioned == [free_usd |-> 0, bonus_usd |-> 0, paid_usd |-> 0, free_requests |-> 0]

Zero == [free_usd |-> 0, bonus_usd |-> 0, paid_usd |-> 0, free_requests |-> 0,
         version |-> 0]

NoAmounts == [free_usd |-> 0, bonus_usd |-> 0, paid_usd |-> 0, free_requests |-> 0]

\* Mutant: a script that moves the balance and not the version.
CreditedUnversioned(balance, amounts) ==
  [free_usd |-> balance.free_usd + amounts.free_usd,
   bonus_usd |-> balance.bonus_usd + amounts.bonus_usd,
   paid_usd |-> balance.paid_usd + amounts.paid_usd,
   free_requests |-> balance.free_requests + amounts.free_requests,
   version |-> balance.version]

\* The HINCRBYs of a script, the one on version included.
Credited(balance, amounts) ==
  [free_usd |-> balance.free_usd + amounts.free_usd,
   bonus_usd |-> balance.bonus_usd + amounts.bonus_usd,
   paid_usd |-> balance.paid_usd + amounts.paid_usd,
   free_requests |-> balance.free_requests + amounts.free_requests,
   version |-> balance.version + 1]

Negated(plan) ==
  [free_usd |-> -plan.free_usd, bonus_usd |-> -plan.bonus_usd,
   paid_usd |-> -plan.paid_usd, free_requests |-> -plan.free_requests]

Debited(balance, plan) == Credited(balance, Negated(plan))

-----------------------------------------------------------------------------
\* ZADD and ZREM gen:inflight, and the mutants that leave them out.
IndexNever(id) == UNCHANGED inflight
Index(id) == inflight' = inflight \cup {id}

UnindexNever(id) == UNCHANGED inflight
Unindex(id) == inflight' = inflight \ {id}

\* Mutant: no compare-and-set.
ReserveReplyUnversioned(inv) ==
  CASE gen[inv.id] # Nil -> "DUP"
    [] gen[inv.id] = Nil /\ bal[inv.user_id] = Nil -> "MISSING"
    [] gen[inv.id] = Nil /\ bal[inv.user_id] # Nil -> "OK"

\* RESERVE: the record decides before the balance does.
ReserveReply(inv) ==
  CASE gen[inv.id] # Nil -> "DUP"
    [] gen[inv.id] = Nil /\ bal[inv.user_id] = Nil -> "MISSING"
    [] gen[inv.id] = Nil /\ bal[inv.user_id] # Nil ->
         IF bal[inv.user_id].version # inv.version THEN "CONFLICT" ELSE "OK"

\* Mutant: the token that tells a lost reply from a duplicate is not written.
NewRecordUntokened(inv) ==
  [status |-> "running", user_id |-> inv.user_id, dialog_id |-> inv.dialog_id,
   model_name |-> inv.model_name, plan |-> inv.plan,
   authorized_cost_usd |-> inv.authorized_cost_usd,
   billed_cost_usd |-> 0, refunded_surplus_usd |-> 0]

NewRecord(inv) ==
  [status |-> "running", user_id |-> inv.user_id, dialog_id |-> inv.dialog_id,
   model_name |-> inv.model_name, plan |-> inv.plan,
   authorized_cost_usd |-> inv.authorized_cost_usd,
   reservation_token |-> inv.token,
   billed_cost_usd |-> 0, refunded_surplus_usd |-> 0]

RESERVE(inv) ==
  IF ReserveReply(inv) = "OK"
    THEN /\ bal' = [bal EXCEPT ![inv.user_id] = Debited(@, inv.plan)]
         /\ gen' = [gen EXCEPT ![inv.id] = NewRecord(inv)]
         /\ Index(inv.id)
         /\ dirty' = dirty \cup {inv.user_id}
         /\ UNCHANGED topup
    ELSE UNCHANGED redis

\* SETTLE touches the balance only when there is a surplus to give back.
HasRefund(inv) ==
  \/ inv.refund.free_usd # 0
  \/ inv.refund.bonus_usd # 0
  \/ inv.refund.paid_usd # 0

\* Mutants: a record that has failed is settled as if it were running; one that
\* has ended in any way counts as settled.
SettleReplyReopening(inv) ==
  CASE gen[inv.id] = Nil -> "STALE"
    [] gen[inv.id] # Nil /\ gen[inv.id].status = "done" -> "DONE"
    [] gen[inv.id] # Nil /\ gen[inv.id].status # "done" ->
         IF HasRefund(inv) /\ bal[inv.user_id] = Nil THEN "MISSING" ELSE "OK"

SettleReplyLenient(inv) ==
  CASE gen[inv.id] = Nil -> "STALE"
    [] gen[inv.id] # Nil /\ gen[inv.id].status # "running" -> "DONE"
    [] gen[inv.id] # Nil /\ gen[inv.id].status = "running" ->
         IF HasRefund(inv) /\ bal[inv.user_id] = Nil THEN "MISSING" ELSE "OK"

SettleReply(inv) ==
  CASE gen[inv.id] = Nil -> "STALE"
    [] gen[inv.id] # Nil /\ gen[inv.id].status = "done" -> "DONE"
    [] gen[inv.id] # Nil /\ gen[inv.id].status = "failed" -> "STALE"
    [] gen[inv.id] # Nil /\ gen[inv.id].status = "running" ->
         IF HasRefund(inv) /\ bal[inv.user_id] = Nil THEN "MISSING" ELSE "OK"

SettledRecord(record, inv) ==
  [record EXCEPT !.status = "done",
                 !.billed_cost_usd = inv.billed_cost_usd,
                 !.refunded_surplus_usd = total_usd(inv.refund)]

SETTLE(inv) ==
  IF SettleReply(inv) = "OK"
    THEN /\ IF HasRefund(inv)
              THEN /\ bal' = [bal EXCEPT ![inv.user_id] = Credited(@, inv.refund)]
                   /\ dirty' = dirty \cup {inv.user_id}
              ELSE UNCHANGED <<bal, dirty>>
         /\ gen' = [gen EXCEPT ![inv.id] = SettledRecord(@, inv)]
         /\ Unindex(inv.id)
         /\ UNCHANGED topup
    ELSE UNCHANGED redis

\* Mutants: a settled record is refunded; a missing balance ends the matter.
RefundReplyReopening(inv) ==
  CASE gen[inv.id] = Nil -> "STALE"
    [] gen[inv.id] # Nil /\ gen[inv.id].status = "failed" -> "STALE"
    [] gen[inv.id] # Nil /\ gen[inv.id].status # "failed" ->
         IF bal[inv.user_id] = Nil THEN "MISSING" ELSE "OK"

RefundReplyResigned(inv) ==
  CASE gen[inv.id] = Nil -> "STALE"
    [] gen[inv.id] # Nil /\ gen[inv.id].status # "running" -> "STALE"
    [] gen[inv.id] # Nil /\ gen[inv.id].status = "running" ->
         IF bal[inv.user_id] = Nil THEN "STALE" ELSE "OK"

RefundReply(inv) ==
  CASE gen[inv.id] = Nil -> "STALE"
    [] gen[inv.id] # Nil /\ gen[inv.id].status # "running" -> "STALE"
    [] gen[inv.id] # Nil /\ gen[inv.id].status = "running" ->
         IF bal[inv.user_id] = Nil THEN "MISSING" ELSE "OK"

REFUND(inv) ==
  IF RefundReply(inv) = "OK"
    THEN /\ bal' = [bal EXCEPT ![inv.user_id] = Credited(@, inv.plan)]
         /\ gen' = [gen EXCEPT ![inv.id].status = "failed"]
         /\ Unindex(inv.id)
         /\ dirty' = dirty \cup {inv.user_id}
         /\ UNCHANGED topup
    ELSE UNCHANGED redis

\* Mutant: the marker of the operation is not looked at.
TopUpReplyUnmarked(inv) == IF bal[inv.user_id] = Nil THEN "MISSING" ELSE "OK"

TopUpReply(inv) ==
  CASE inv.id \in topup -> "DUP"
    [] inv.id \notin topup ->
         IF bal[inv.user_id] = Nil THEN "MISSING" ELSE "OK"

TOP_UP(inv) ==
  IF TopUpReply(inv) = "OK"
    THEN /\ bal' = [bal EXCEPT ![inv.user_id] = Credited(@, inv.amounts)]
         /\ topup' = topup \cup {inv.id}
         /\ dirty' = dirty \cup {inv.user_id}
         /\ UNCHANGED <<gen, inflight>>
    ELSE UNCHANGED redis

Execute(inv) ==
  CASE inv.script = "RESERVE" -> RESERVE(inv)
    [] inv.script = "SETTLE"  -> SETTLE(inv)
    [] inv.script = "REFUND"  -> REFUND(inv)
    [] inv.script = "TOP_UP"  -> TOP_UP(inv)

-----------------------------------------------------------------------------
\* Mutant: HSET without looking.
SEED(user, snapshot) ==
  /\ bal' = [bal EXCEPT ![user] = snapshot]
  /\ UNCHANGED <<gen, topup, dirty, inflight>>

SEED_IF_ABSENT(user, snapshot) ==
  /\ bal' = IF bal[user] = Nil THEN [bal EXCEPT ![user] = snapshot] ELSE bal
  /\ UNCHANGED <<gen, topup, dirty, inflight>>

\* Both compare the version they were given; the flusher is their only caller.
ADVANCE_VERSION(user, expected, to) ==
  /\ IF bal[user] # Nil /\ bal[user].version = expected
       THEN /\ bal' = [bal EXCEPT ![user].version = to]
            /\ dirty' = dirty \cup {user}
       ELSE UNCHANGED <<bal, dirty>>
  /\ UNCHANGED <<gen, topup, inflight>>

\* Mutant: the flag comes off whatever happened since.
CLEAR_DIRTY_ANYWAY(user, version) ==
  /\ dirty' = dirty \ {user}
  /\ UNCHANGED <<bal, gen, topup, inflight>>

CLEAR_DIRTY(user, version) ==
  /\ dirty' = IF bal[user] = Nil \/ bal[user].version = version
                THEN dirty \ {user} ELSE dirty
  /\ UNCHANGED <<bal, gen, topup, inflight>>

\* No script: the balance key is gone, and nothing else.
Evicted(user) ==
  /\ bal[user] # Nil
  /\ bal' = [bal EXCEPT ![user] = Nil]
  /\ UNCHANGED <<gen, topup, dirty, inflight>>

\* ZREM gen:inflight
ForgetInflight(id) ==
  /\ Unindex(id)
  /\ UNCHANGED <<bal, gen, topup, dirty>>

-----------------------------------------------------------------------------
\* get_by_user_id as _load_from_db uses it: a user without a row has nothing.
StoredBalance(user) == IF row[user] = Nil THEN Zero ELSE row[user]

\* The connection broke: the script may have run, may run later, may be lost.
SendAndLose(inv) ==
  /\ faults < MaxFaults
  /\ faults' = faults + 1
  /\ late' = late \cup {inv}
  /\ UNCHANGED redis

Land(inv) ==
  /\ inv \in late
  /\ late' = late \ {inv}
  /\ Execute(inv)
  /\ UNCHANGED <<row, faults>>

StoreInit ==
  /\ gen = [id \in RequestIds |-> Nil]
  /\ topup = {}
  /\ dirty = {}
  /\ inflight = {}
  /\ late = {}
  /\ faults = 0

StoreTypeOK ==
  /\ bal \in [Users -> Snapshots \cup {Nil}]
  /\ gen \in [RequestIds -> Records \cup {Nil}]
  /\ topup \subseteq OperationIds
  /\ dirty \subseteq Users
  /\ inflight \subseteq RequestIds
  /\ row \in [Users -> Snapshots \cup {Nil}]
  /\ late \subseteq Invocations
  /\ faults \in 0 .. MaxFaults
=============================================================================
