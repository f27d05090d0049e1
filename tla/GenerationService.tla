--------------------------- MODULE GenerationService ---------------------------
(***************************************************************************)
(* GenerationService.execute_generation: one task per delivery of a        *)
(* request.  Two deliveries of one client_request_id are two tasks with    *)
(* the same request; a reused id with another payload is a third.          *)
(*                                                                         *)
(*   load ... authorize -> reserve -> provider -> settle -> done           *)
(*              |  ^          |           |                                *)
(*              v  |          v           v                                *)
(*           denied/wait <- duplicate   refund -> done                     *)
(***************************************************************************)
EXTENDS ReservationRefunder

CONSTANTS
  Calls,      \* the tasks that run execute_generation
  Requests,   \* the requests clients send
  Bills       \* what the provider may bill, in Grain-ths of a micro

VARIABLE provider_calls   \* FakeGenerationProvider's count per client_request_id

Request(c) == task[c].work

\* The token is fresh in every reserve(): the call, and which of its attempts.
Token(c) == <<c, task[c].attempt>>

ReserveInvocation(c) ==
  [script |-> "RESERVE", user_id |-> task[c].user_id, id |-> task[c].id,
   dialog_id |-> Request(c).dialog_id, model_name |-> Request(c).model_name,
   version |-> task[c].snap.version, plan |-> task[c].plan,
   authorized_cost_usd |-> task[c].auth.estimated_cost_usd, token |-> Token(c)]

SettleInvocation(c) ==
  [script |-> "SETTLE", user_id |-> task[c].user_id, id |-> task[c].id,
   billed_cost_usd |-> task[c].charged, refund |-> task[c].refund]

-----------------------------------------------------------------------------
ExecuteGeneration(c, request) ==
  /\ At(c, "idle")
  /\ Set(c, LET asked == [task[c] EXCEPT !.work = request]
            IN  IF request.model_name \in DOMAIN MODELS
                  THEN [asked EXCEPT !.pc = "load", !.ret = "authorize",
                                     !.user_id = request.user_id,
                                     !.id = request.client_request_id]
                  ELSE Ended(asked, Raised("InvalidInput")))
  /\ UNCHANGED <<redis, row, network, lock, provider_calls>>

\* The head of _reserve's loop: the policy decides on the snapshot alone.
AuthorizeSnapshot(c) ==
  /\ At(c, "authorize")
  /\ InRange(c)
  /\ LET auth == Authorize(Request(c), task[c].snap)
     IN  Set(c, CASE auth.verdict = "authorized" ->
                       [task[c] EXCEPT !.pc = "reserve", !.auth = auth,
                                       !.plan = auth.debit_plan, !.tries = 0]
                  [] auth.verdict \in AccessErrors ->
                       [task[c] EXCEPT !.pc = "denied", !.auth = auth]
                  [] OTHER -> Ended(task[c], Raised(auth.verdict)))
  /\ UNCHANGED <<redis, row, network, lock, provider_calls>>

\* Mutant: any reservation of the id is taken for the call's own.
AnyRecord(c) == gen[task[c].id] # Nil

OwnRecord(c) ==
  /\ gen[task[c].id] # Nil
  /\ gen[task[c].id].reservation_token = Token(c)

\* Reserved, at the first try or by a try whose reply was lost; no await lies
\* between that answer and the provider's first line.
Reserve(c) ==
  LET inv == ReserveInvocation(c)
  IN  /\ At(c, "reserve")
      /\ \/ ReserveReply(inv) = "OK"
         \/ ReserveReply(inv) = "DUP" /\ OwnRecord(c)
      /\ Execute(inv)
      /\ Set(c, [task[c] EXCEPT !.pc = "provider", !.snap = Nil,
                                !.attempt = 0, !.tries = 0])
      /\ provider_calls' = [provider_calls EXCEPT ![inv.id] = @ + 1]
      /\ UNCHANGED <<row, network, lock>>

ReserveConflict(c) ==
  /\ At(c, "reserve")
  /\ ReserveReply(ReserveInvocation(c)) = "CONFLICT"
  /\ Set(c, [task[c] EXCEPT !.pc = "authorize", !.snap = bal[task[c].user_id],
                            !.attempt = @ + 1])
  /\ UNCHANGED <<redis, row, network, lock, provider_calls>>

ReserveMissing(c) ==
  /\ At(c, "reserve")
  /\ ReserveReply(ReserveInvocation(c)) = "MISSING"
  /\ Set(c, Reload(task[c], "authorize"))
  /\ UNCHANGED <<redis, row, network, lock, provider_calls>>

\* What a redelivery of a done record is told it was billed.
RedeliveredCost(record) ==
  IF record.billed_cost_usd # 0 THEN record.billed_cost_usd
                                ELSE record.authorized_cost_usd

\* One round of _resolve_duplicate's loop: answer from the record, or wait.
FollowRecord(t, record) ==
  CASE record.status = "done" -> Ended(t, Returned(RedeliveredCost(record)))
    [] record.status = "failed" -> Ended(t, Raised("GenerationFailed"))
    [] record.status = "running" -> [t EXCEPT !.pc = "wait"]

\* Mutant: the id alone identifies a request.
SamePayloadById(request, record) == TRUE

SamePayload(request, record) ==
  /\ record.user_id = request.user_id
  /\ record.dialog_id = request.dialog_id
  /\ record.model_name = request.model_name

ResolveDuplicate(c, record) ==
  IF SamePayload(Request(c), record)
    THEN FollowRecord(task[c], record)
    ELSE Ended(task[c], Raised("InvalidInput"))

ReserveDuplicate(c) ==
  /\ At(c, "reserve")
  /\ ReserveReply(ReserveInvocation(c)) = "DUP"
  /\ ~OwnRecord(c)
  /\ Set(c, ResolveDuplicate(c, gen[task[c].id]))
  /\ UNCHANGED <<redis, row, network, lock, provider_calls>>

\* Mutant: a denial stands.
DeniedAtOnce(c) ==
  /\ At(c, "denied")
  /\ Set(c, Ended(task[c], Raised(task[c].auth.verdict)))
  /\ UNCHANGED <<redis, row, network, lock, provider_calls>>

\* _denied_or_duplicate: a denial stands unless the id already has a record.
DeniedOrDuplicate(c) ==
  /\ At(c, "denied")
  /\ Set(c, LET record == gen[task[c].id]
            IN  IF record = Nil THEN Ended(task[c], Raised(task[c].auth.verdict))
                                ELSE ResolveDuplicate(c, record))
  /\ UNCHANGED <<redis, row, network, lock, provider_calls>>

\* A poll that finds the record still running changes nothing.
PollRecord(c) ==
  LET record == gen[task[c].id]
  IN  /\ At(c, "wait")
      /\ IF record = Nil
           THEN Set(c, Reload(task[c], "authorize"))
           ELSE /\ record.status # "running"
                /\ Set(c, FollowRecord(task[c], record))
      /\ UNCHANGED <<redis, row, network, lock, provider_calls>>

WaitTimesOut(c) ==
  /\ At(c, "wait")
  /\ Set(c, Ended(task[c], Raised("GenerationInProgress")))
  /\ UNCHANGED <<redis, row, network, lock, provider_calls>>

-----------------------------------------------------------------------------
\* The head of _settle: the charge, and what of the plan goes back.
ProviderReturns(c, bill) ==
  /\ At(c, "provider")
  /\ LET plan    == task[c].plan
         charged == Charged(bill, plan)
     IN  Set(c, [task[c] EXCEPT
                   !.pc = "settle", !.charged = charged,
                   !.refund = SurplusRefund(plan, task[c].auth.debit_policy, charged)])
  /\ UNCHANGED <<redis, row, network, lock, provider_calls>>

\* except BaseException, and the mutant that lets a cancellation through.
CaughtExceptions == {"GenerationFailed"}
Caught == {"GenerationFailed", "cancelled"}

\* An error, PROVIDER_TIMEOUT_SECONDS, or cancellation: the plan goes back
\* first, then the exception goes on.
ProviderRaises(c, error) ==
  /\ At(c, "provider")
  /\ Set(c, IF error \in Caught
              THEN [task[c] EXCEPT !.pc = "refund", !.outcome = Raised(error)]
              ELSE Ended(task[c], Raised(error)))
  /\ UNCHANGED <<redis, row, network, lock, provider_calls>>

RefundCall(c) ==
  /\ RefundReturns(c, Ended(task[c], task[c].outcome))
  /\ UNCHANGED provider_calls

SettleOutcome(c) == SettleReply(SettleInvocation(c))

\* Applied, or AlreadyApplied by a try whose reply was lost.
Settle(c) ==
  LET inv == SettleInvocation(c)
  IN  /\ At(c, "settle")
      /\ InRange(c)
      /\ SettleOutcome(c) \in {"OK", "DONE"}
      /\ Execute(inv)
      /\ Set(c, Ended(task[c], Returned(inv.billed_cost_usd)))
      /\ UNCHANGED <<row, network, lock, provider_calls>>

\* Somebody refunded the reservation underneath the call: the result is dropped.
SettleStale(c) ==
  /\ At(c, "settle")
  /\ InRange(c)
  /\ SettleOutcome(c) = "STALE"
  /\ Set(c, Ended(task[c], Raised("GenerationFailed")))
  /\ UNCHANGED <<redis, row, network, lock, provider_calls>>

SettleMissing(c) ==
  /\ At(c, "settle")
  /\ InRange(c)
  /\ SettleOutcome(c) = "MISSING"
  /\ Set(c, Reload(task[c], "settle"))
  /\ UNCHANGED <<redis, row, network, lock, provider_calls>>

-----------------------------------------------------------------------------
CallInvocation(c) ==
  CASE At(c, "reserve") -> ReserveInvocation(c)
    [] At(c, "settle")  -> SettleInvocation(c)
    [] At(c, "refund")  -> RefundInvocation(c)

CallSending(c) == task[c].pc \in {"reserve", "settle", "refund"}

CallLosesReply(c) ==
  /\ CallSending(c)
  /\ LoseReply(c, CallInvocation(c))
  /\ UNCHANGED provider_calls

CallAbandoned(c) ==
  /\ Abandon(c, IF CallSending(c) THEN {CallInvocation(c)} ELSE {})
  /\ UNCHANGED provider_calls

\* The steps a call takes by itself, whoever else is running.
CallProgress(c) ==
  \/ AuthorizeSnapshot(c)
  \/ Reserve(c) \/ ReserveConflict(c) \/ ReserveMissing(c) \/ ReserveDuplicate(c)
  \/ DeniedOrDuplicate(c) \/ PollRecord(c) \/ WaitTimesOut(c)
  \/ \E bill \in Bills : ProviderReturns(c, bill)
  \/ \E error \in {"GenerationFailed", "cancelled"} : ProviderRaises(c, error)
  \/ RefundCall(c)
  \/ RefundMissing(c) /\ UNCHANGED provider_calls
  \/ Settle(c) \/ SettleStale(c) \/ SettleMissing(c)
  \/ GiveUp(c) /\ UNCHANGED provider_calls

CallStep(c) ==
  \/ \E request \in Requests : ExecuteGeneration(c, request)
  \/ Ensure(c) /\ UNCHANGED provider_calls
  \/ CallProgress(c)
  \/ CallLosesReply(c)
  \/ CallAbandoned(c)
=============================================================================
