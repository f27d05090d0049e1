-------------------------- MODULE BillingAnswersProofs --------------------------
(***************************************************************************)
(* AInv is an invariant of Spec, for every value of the constants.  With   *)
(* it: the provider is called once, the reaper's index is exact, answers   *)
(* agree with records, and nothing running is without an owner.            *)
(***************************************************************************)
EXTENDS BillingAnswers, BillingLedgerProofs

-----------------------------------------------------------------------------
(***************************************************************************)
(* What AInv says of the keys and of one call.                             *)
(***************************************************************************)
LEMMA Facts ==
  ASSUME AInv
  PROVE  /\ BInv /\ IInv /\ TInv /\ KeysOK /\ DOMAIN task = Tasks
         /\ Calls \subseteq Tasks /\ Reapers \subseteq Tasks
         /\ late \subseteq Invocations /\ faults \in Nat
         /\ provider_calls \in [RequestIds -> Nat]
<1>1. BInv /\ Parts
  BY IInvParts DEF AInv, BInv
<1>2. faults \in Nat
  BY <1>1, MaxFaultsAssumption DEF Parts, Others, TypedOthers
<1>3. QED
  BY <1>1, <1>2, IInvTyped, RolesAssumption DEF BInv, Parts, Others, TypedOthers

LEMMA CallHas ==
  ASSUME AInv, NEW c \in Calls
  PROVE  /\ c \in Tasks /\ task[c] \in CallRecords /\ CallShape(task[c])
         /\ CallFits(task[c], gen) /\ CallKnows(c)
BY Facts, CallFacts DEF AInv, BInv

\* In its own code.
LEMMA CallOwnCode ==
  ASSUME AInv, NEW c \in Calls, task[c].pc \in CallPcs
  PROVE  /\ Where(task[c]) = task[c].pc
         /\ task[c].work \in Requests
         /\ task[c].id = task[c].work.client_request_id /\ task[c].id \in RequestIds
BY IInvTyped, Facts, CallWorks DEF Request

LEMMA CallRecord ==
  ASSUME AInv, NEW c \in Calls, task[c].pc \in EndingPcs
  PROVE  /\ gen[task[c].id] # Nil /\ gen[task[c].id] \in Records
         /\ gen[task[c].id].user_id = task[c].user_id
         /\ task[c].id \in RequestIds
<1>1. task[c].pc \in CallPcs
  BY DEF EndingPcs, CallPcs
<1>2. Where(task[c]) = task[c].pc /\ task[c].id \in RequestIds
  BY <1>1, CallOwnCode
<1>3. Returns(task[c].id, task[c].user_id, task[c].plan, gen)
  BY <1>2, CallHas DEF CallFits, EndingPcs
<1>4. QED
  BY <1>2, <1>3, Facts DEF Returns, KeysOK

\* A token stands for a call that has begun.
LEMMA TokenOwner ==
  ASSUME AInv
  PROVE  /\ \A id \in RequestIds : gen[id] # Nil =>
              /\ gen[id].reservation_token \in Attempts
              /\ gen[id].reservation_token[1] \in Calls
              /\ task[gen[id].reservation_token[1]].pc # "idle"
         /\ \A inv \in late : inv.script = "RESERVE" =>
              /\ inv.token \in Attempts
              /\ inv.token[1] \in Calls
              /\ task[inv.token[1]].pc # "idle"
BY Facts DEF BInv, TokensFit, TokenFits, Attempts

-----------------------------------------------------------------------------
(***************************************************************************)
(* The steps of a call, by what it has to do with a record.                *)
(***************************************************************************)
Steady == UNCHANGED <<gen, provider_calls>>

\* It was denied, and its id has no record.
Unrecorded(c) == task[c].pc = "denied" /\ gen[task[c].id] = Nil

\* It has none, or gives it up; only a fault makes it give one up.
Idles(c) ==
  /\ task[c].pc = "idle" \/ task'[c].work = task[c].work
  /\ \/ task'[c].pc \in {"authorize", "denied"}
     \/ task'[c].pc \in LoaderPcs /\ task'[c].ret = "authorize"
     \/ /\ task'[c].pc = "done"
        /\ task'[c].outcome.kind \notin {"result", "GenerationFailed"}
        /\ task'[c].outcome.kind \in AccessErrors => Unrecorded(c)
  /\ task[c].pc \in EndingPcs => faults' # 0

\* It has met the record of another delivery.
Meets(c) ==
  /\ task[c].pc \in {"reserve", "denied", "wait"}
  /\ task'[c].work = task[c].work
  /\ gen[task[c].id] # Nil
  /\ SamePayload(task[c].work, gen[task[c].id])
  /\ \/ task'[c].pc = "wait" /\ task'[c].id = task[c].id
     \/ /\ task'[c].pc = "done" /\ task'[c].outcome.kind = "result"
        /\ gen[task[c].id].status = "done"
        /\ task'[c].outcome.billed_cost_usd = RedeliveredCost(gen[task[c].id])
     \/ /\ task'[c].pc = "done" /\ task'[c].outcome.kind = "GenerationFailed"
        /\ gen[task[c].id].status = "failed"

Authorizes(c) ==
  /\ task[c].pc = "authorize" /\ task'[c].pc = "reserve"
  /\ task'[c].work = task[c].work /\ task'[c].id = task[c].id
  /\ task'[c].attempt = task[c].attempt

\* The provider has answered.
Proceeds(c) ==
  /\ task[c].pc = "provider"
  /\ task'[c].work = task[c].work /\ task'[c].id = task[c].id
  /\ task'[c].attempt = task[c].attempt
  /\ \/ task'[c].pc = "settle"
     \/ /\ task'[c].pc = "refund"
        /\ task'[c].outcome.kind \in {"GenerationFailed", "cancelled"}

Retries(c) ==
  /\ CallSending(c)
  /\ faults' # 0
  /\ task'[c].pc = task[c].pc
  /\ task'[c].work = task[c].work /\ task'[c].id = task[c].id
  /\ task'[c].attempt = task[c].attempt /\ task'[c].charged = task[c].charged
  /\ task'[c].outcome = task[c].outcome

LEMMA EndsIdly ==
  ASSUME AInv, NEW c \in Calls, NEW kind, kind \notin {"result", "GenerationFailed"},
         kind \in AccessErrors => Unrecorded(c),
         Set(c, Ended(task[c], Raised(kind))),
         task[c].pc \in EndingPcs => faults' # 0
  PROVE  Idles(c)
<1>1. task'[c] = Ended(task[c], Raised(kind))
  BY Facts DEF Set
<1>2. Raised(kind).kind = kind
  BY DEF Raised
<1>3. QED
  BY <1>1, <1>2, EndedFields DEF Idles

LEMMA ReloadsIdly ==
  ASSUME AInv, NEW c \in Calls, task[c].pc \notin EndingPcs,
         Set(c, Reload(task[c], "authorize"))
  PROVE  Idles(c)
<1> DEFINE u == Reload(task[c], "authorize")
<1>1. task'[c] = u
  BY Facts DEF Set
<1>2. u.pc = "load" /\ u.ret = "authorize" /\ u.work = task[c].work
  BY CallHas DEF Reload, CallRecords, TaskRecords
<1> HIDE DEF u
<1>3. QED
  BY <1>1, <1>2 DEF Idles, LoaderPcs

LEMMA FollowsRecord ==
  ASSUME AInv, NEW c \in Calls, task[c].pc \in {"reserve", "denied", "wait"},
         gen[task[c].id] # Nil, SamePayload(task[c].work, gen[task[c].id]),
         Set(c, FollowRecord(task[c], gen[task[c].id]))
  PROVE  Meets(c)
<1> DEFINE record == gen[task[c].id]
           u == FollowRecord(task[c], record)
<1>1. task'[c] = u
  BY Facts DEF Set
<1>2. record \in Records
  BY CallOwnCode, Facts DEF KeysOK, CallPcs
<1>3. record.status = "done" \/ record.status = "failed" \/ record.status = "running"
  BY <1>2 DEF Records, Statuses
<1> HIDE DEF record
<1>4. CASE record.status = "done"
  <2>1. u = Ended(task[c], Returned(RedeliveredCost(record)))
    BY <1>4, Zenon DEF FollowRecord
  <2>2. /\ Returned(RedeliveredCost(record)).kind = "result"
        /\ Returned(RedeliveredCost(record)).billed_cost_usd = RedeliveredCost(record)
    BY DEF Returned
  <2>3. QED
    BY <1>1, <1>4, <2>1, <2>2, EndedFields DEF Meets, record
<1>5. CASE record.status = "failed"
  <2>1. u = Ended(task[c], Raised("GenerationFailed"))
    BY <1>5, Zenon DEF FollowRecord
  <2>2. Raised("GenerationFailed").kind = "GenerationFailed"
    BY DEF Raised
  <2>3. QED
    BY <1>1, <1>5, <2>1, <2>2, EndedFields DEF Meets, record
<1>6. CASE record.status = "running"
  <2>1. u = [task[c] EXCEPT !.pc = "wait"]
    BY <1>6, Zenon DEF FollowRecord
  <2>2. u.pc = "wait" /\ u.id = task[c].id /\ u.work = task[c].work
    BY <2>1, CallHas DEF CallRecords, TaskRecords
  <2>3. QED
    BY <1>1, <2>2 DEF Meets
<1>7. QED
  BY <1>3, <1>4, <1>5, <1>6

LEMMA ResolvesDuplicate ==
  ASSUME AInv, NEW c \in Calls, task[c].pc \in {"reserve", "denied"},
         gen[task[c].id] # Nil,
         Set(c, ResolveDuplicate(c, gen[task[c].id]))
  PROVE  Idles(c) \/ Meets(c)
<1>1. CASE SamePayload(Request(c), gen[task[c].id])
  BY <1>1, FollowsRecord DEF ResolveDuplicate, Request
<1>2. CASE ~SamePayload(Request(c), gen[task[c].id])
  BY <1>2, EndsIdly DEF ResolveDuplicate, EndingPcs, AccessErrors
<1>3. QED
  BY <1>1, <1>2

Goes(c) ==
  \/ /\ Idles(c) \/ Meets(c) \/ Authorizes(c) \/ Proceeds(c) \/ Retries(c)
     /\ Steady
  \/ Reserve(c) \/ Settle(c) \/ SettleStale(c) \/ RefundCall(c)

\* In the loader a call has no reservation.
LEMMA EnsureGoes ==
  ASSUME AInv, NEW c \in Calls, Ensure(c)
  PROVE  Idles(c)
<1>1. /\ task[c].pc \in LoaderPcs /\ task[c].pc \notin EndingPcs
      /\ task[c].ret = "authorize" /\ task[c] \in CallRecords
  <2>1. task[c].pc \in LoaderPcs
    BY DEF Ensure, Load, TryAcquireLoadLock, LoadTimesOut, Recheck, LoadFromDb,
           Seed, ReleaseLoadLock, At, LoaderPcs
  <2>2. QED
    BY <2>1, CallHas DEF CallKnows, LoaderPcs, EndingPcs
<1>2. ASSUME NEW pc \in LoaderPcs \cup {"authorize"}, NEW snap, NEW u, Set(c, u),
             u = [task[c] EXCEPT !.pc = pc] \/ u = [task[c] EXCEPT !.pc = pc, !.snap = snap]
      PROVE  Idles(c)
  <2>1. task'[c] = u
    BY <1>2, Facts DEF Set
  <2>2. u.pc = pc /\ u.ret = "authorize" /\ u.work = task[c].work
    BY <1>1, <1>2 DEF CallRecords, TaskRecords
  <2>3. QED
    BY <1>1, <2>1, <2>2 DEF Idles
<1>3. {"load", "lock", "recheck", "select", "seed", "release"} = LoaderPcs
  BY DEF LoaderPcs
<1>4. CASE Load(c)
  BY <1>1, <1>2, <1>3, <1>4 DEF Load, Goto
<1>5. CASE TryAcquireLoadLock(c)
  BY <1>2, <1>3, <1>5 DEF TryAcquireLoadLock, Goto
<1>6. CASE LoadTimesOut(c)
  BY <1>1, <1>6, EndsIdly DEF LoadTimesOut, AccessErrors
<1>7. CASE Recheck(c)
  BY <1>2, <1>3, <1>7 DEF Recheck, Goto
<1>8. CASE LoadFromDb(c)
  BY <1>2, <1>3, <1>8 DEF LoadFromDb
<1>9. CASE Seed(c)
  BY <1>2, <1>3, <1>9 DEF Seed
<1>10. CASE ReleaseLoadLock(c)
  BY <1>1, <1>2, <1>3, <1>10 DEF ReleaseLoadLock, Goto
<1>11. QED
  BY <1>4, <1>5, <1>6, <1>7, <1>8, <1>9, <1>10 DEF Ensure

LEMMA ExecuteGoes ==
  ASSUME AInv, NEW c \in Calls, NEW request \in Requests, ExecuteGeneration(c, request)
  PROVE  Idles(c)
<1> DEFINE asked == [task[c] EXCEPT !.work = request]
           begun == [asked EXCEPT !.pc = "load", !.ret = "authorize",
                                  !.user_id = request.user_id,
                                  !.id = request.client_request_id]
<1>1. task[c].pc = "idle" /\ task[c] \in CallRecords /\ DOMAIN task = Tasks /\ c \in Tasks
  BY CallHas, Facts DEF ExecuteGeneration, At
<1>2. CASE request.model_name \in DOMAIN MODELS
  <2>1. task'[c] = begun
    BY <1>1, <1>2 DEF ExecuteGeneration, Set
  <2>2. begun.pc = "load" /\ begun.ret = "authorize"
    BY <1>1 DEF CallRecords, TaskRecords
  <2> HIDE DEF begun
  <2>3. QED
    BY <1>1, <2>1, <2>2 DEF Idles, LoaderPcs, EndingPcs
<1>3. CASE request.model_name \notin DOMAIN MODELS
  <2>1. task'[c] = Ended(asked, Raised("InvalidInput"))
    BY <1>1, <1>3 DEF ExecuteGeneration, Set
  <2> HIDE DEF asked
  <2>2. Raised("InvalidInput").kind = "InvalidInput"
    BY DEF Raised
  <2>3. QED
    BY <1>1, <2>1, <2>2, EndedFields DEF Idles, EndingPcs, AccessErrors
<1>4. QED
  BY <1>2, <1>3

LEMMA AuthorizeGoes ==
  ASSUME AInv, NEW c \in Calls, AuthorizeSnapshot(c)
  PROVE  Idles(c) \/ Authorizes(c)
<1> DEFINE auth == Authorize(Request(c), task[c].snap)
<1>1. /\ task[c].pc = "authorize" /\ task[c] \in CallRecords
      /\ task[c].pc \notin EndingPcs
  BY CallHas DEF AuthorizeSnapshot, At, EndingPcs
<1>2. auth.verdict \in {"authorized", "ValueError"} \cup AccessErrors
  BY DEF Authorize, Refused, AccessErrors
<1> HIDE DEF auth
<1>3. Set(c, CASE auth.verdict = "authorized" ->
                    [task[c] EXCEPT !.pc = "reserve", !.auth = auth,
                                    !.plan = auth.debit_plan, !.tries = 0]
               [] auth.verdict \in AccessErrors ->
                    [task[c] EXCEPT !.pc = "denied", !.auth = auth]
               [] OTHER -> Ended(task[c], Raised(auth.verdict)))
  BY DEF AuthorizeSnapshot, auth
<1>4. CASE auth.verdict = "authorized"
  <2> DEFINE t == [task[c] EXCEPT !.pc = "reserve", !.auth = auth,
                                  !.plan = auth.debit_plan, !.tries = 0]
  <2>1. auth.verdict \notin AccessErrors
    BY <1>4 DEF AccessErrors
  <2>2. Set(c, t)
    BY <1>3, <1>4, <2>1, Zenon
  <2>3. /\ t.pc = "reserve" /\ t.work = task[c].work /\ t.id = task[c].id
        /\ t.attempt = task[c].attempt
    BY <1>1 DEF CallRecords, TaskRecords
  <2> HIDE DEF t
  <2>4. task'[c] = t
    BY <2>2, Facts DEF Set
  <2>5. QED
    BY <1>1, <2>3, <2>4 DEF Authorizes
<1>5. CASE auth.verdict \in AccessErrors
  <2> DEFINE t == [task[c] EXCEPT !.pc = "denied", !.auth = auth]
  <2>1. auth.verdict # "authorized"
    BY <1>5 DEF AccessErrors
  <2>2. Set(c, t)
    BY <1>3, <1>5, <2>1, Zenon
  <2>3. t.pc = "denied" /\ t.work = task[c].work
    BY <1>1 DEF CallRecords, TaskRecords
  <2> HIDE DEF t
  <2>4. task'[c] = t
    BY <2>2, Facts DEF Set
  <2>5. QED
    BY <1>1, <2>3, <2>4 DEF Idles
<1>6. CASE auth.verdict # "authorized" /\ auth.verdict \notin AccessErrors
  <2>1. Set(c, Ended(task[c], Raised(auth.verdict)))
    BY <1>3, <1>6, Zenon
  <2>2. auth.verdict \notin {"result", "GenerationFailed"}
    BY <1>2, <1>6
  <2>3. QED
    BY <1>1, <1>6, <2>1, <2>2, EndsIdly
<1>7. QED
  BY <1>4, <1>5, <1>6

\* SETTLE and REFUND do not miss the balance, and no loop runs out before them.
LEMMA NeverMissing ==
  ASSUME AInv, NEW c \in Calls
  PROVE  ~SettleMissing(c) /\ ~RefundMissing(c)
<1>1. ASSUME task[c].pc \in EndingPcs
      PROVE  gen[task[c].id] # Nil /\ bal[task[c].user_id] # Nil
  BY <1>1, CallRecord DEF AInv, BalancesStay
<1>2. ASSUME SettleMissing(c) PROVE FALSE
  <2>1. task[c].pc = "settle" /\ SettleReply(SettleInvocation(c)) = "MISSING"
    BY <1>2 DEF SettleMissing, At, SettleOutcome
  <2>2. SettleInvocation(c).id = task[c].id /\ SettleInvocation(c).user_id = task[c].user_id
    BY DEF SettleInvocation
  <2>3. gen[task[c].id] # Nil /\ bal[task[c].user_id] # Nil /\ gen[task[c].id] \in Records
    BY <1>1, <2>1, CallRecord DEF EndingPcs
  <2>4. \/ gen[task[c].id].status = "done" \/ gen[task[c].id].status = "failed"
        \/ gen[task[c].id].status = "running"
    BY <2>3 DEF Records, Statuses
  <2>5. SettleReply(SettleInvocation(c)) \in {"DONE", "STALE", "OK"}
    BY <2>2, <2>3, <2>4, SMT DEF SettleReply
  <2>6. QED
    BY <2>1, <2>5
<1>3. ASSUME RefundMissing(c) PROVE FALSE
  <2>1. task[c].pc = "refund" /\ RefundReply(RefundInvocation(c)) = "MISSING"
    BY <1>3 DEF RefundMissing, At
  <2>2. RefundInvocation(c).id = task[c].id /\ RefundInvocation(c).user_id = task[c].user_id
    BY DEF RefundInvocation
  <2>3. gen[task[c].id] # Nil /\ bal[task[c].user_id] # Nil
    BY <1>1, <2>1 DEF EndingPcs
  <2>4. RefundReply(RefundInvocation(c)) \in {"STALE", "OK"}
    BY <2>2, <2>3, SMT DEF RefundReply
  <2>5. QED
    BY <2>1, <2>4
<1>4. QED
  BY <1>2, <1>3

LEMMA GiveUpGoes ==
  ASSUME AInv, NEW c \in Calls, GiveUp(c)
  PROVE  Idles(c)
<1>1. task[c].pc \notin EndingPcs
  <2> SUFFICES ASSUME task[c].pc \in EndingPcs PROVE FALSE
    OBVIOUS
  <2>1. task[c].attempt = 0
    BY CallHas DEF CallKnows
  <2>2. QED
    BY <2>1, AttemptsAssumption DEF GiveUp, InRange
<1>2. QED
  BY <1>1, EndsIdly DEF GiveUp, AccessErrors

LEMMA ProviderGoes ==
  ASSUME AInv, NEW c \in Calls,
         \/ \E bill \in Bills : ProviderReturns(c, bill)
         \/ \E error \in {"GenerationFailed", "cancelled"} : ProviderRaises(c, error)
  PROVE  Proceeds(c)
<1>1. task[c].pc = "provider" /\ task[c] \in CallRecords /\ DOMAIN task = Tasks /\ c \in Tasks
  BY CallHas, Facts DEF ProviderReturns, ProviderRaises, At
<1>2. ASSUME NEW bill \in Bills, ProviderReturns(c, bill) PROVE Proceeds(c)
  <2> DEFINE charged == Charged(bill, task[c].plan)
             refund == SurplusRefund(task[c].plan, task[c].auth.debit_policy, charged)
             t == [task[c] EXCEPT !.pc = "settle", !.charged = charged,
                                  !.refund = refund]
  <2>1. task'[c] = t
    BY <1>1, <1>2 DEF ProviderReturns, Set
  <2> HIDE DEF charged, refund
  <2>2. /\ t.pc = "settle" /\ t.work = task[c].work /\ t.id = task[c].id
        /\ t.attempt = task[c].attempt
    BY <1>1 DEF CallRecords, TaskRecords
  <2>3. QED
    BY <1>1, <2>1, <2>2 DEF Proceeds
<1>3. ASSUME NEW error \in {"GenerationFailed", "cancelled"}, ProviderRaises(c, error)
      PROVE  Proceeds(c)
  <2> DEFINE t == [task[c] EXCEPT !.pc = "refund", !.outcome = Raised(error)]
  <2>1. task'[c] = t
    BY <1>1, <1>3 DEF ProviderRaises, Set, Caught
  <2>2. /\ t.pc = "refund" /\ t.work = task[c].work /\ t.id = task[c].id
        /\ t.attempt = task[c].attempt /\ t.outcome = Raised(error)
    BY <1>1 DEF CallRecords, TaskRecords
  <2>3. Raised(error).kind = error
    BY DEF Raised
  <2>4. QED
    BY <1>1, <2>1, <2>2, <2>3 DEF Proceeds
<1>4. QED
  BY <1>2, <1>3

LEMMA LosesReplyGoes ==
  ASSUME AInv, NEW c \in Calls, CallLosesReply(c)
  PROVE  Idles(c) \/ Retries(c)
<1>1. faults' # 0
  BY Facts DEF CallLosesReply, LoseReply, SendAndLose
<1>2. /\ task[c] \in CallRecords /\ CallSending(c)
      /\ DOMAIN task = Tasks /\ c \in Tasks
  BY CallHas, Facts DEF CallLosesReply
<1>3. CASE task[c].tries + 1 < RETRY_ATTEMPTS
  <2> DEFINE t == [task[c] EXCEPT !.tries = @ + 1]
  <2>1. task'[c] = t
    BY <1>2, <1>3 DEF CallLosesReply, LoseReply, Set
  <2>2. /\ t.pc = task[c].pc /\ t.work = task[c].work /\ t.id = task[c].id
        /\ t.attempt = task[c].attempt /\ t.charged = task[c].charged
        /\ t.outcome = task[c].outcome
    BY <1>2 DEF CallRecords, TaskRecords
  <2>3. QED
    BY <1>1, <1>2, <2>1, <2>2 DEF Retries
<1>4. CASE ~(task[c].tries + 1 < RETRY_ATTEMPTS)
  <2>1. Set(c, Ended(task[c], Raised("RedisError")))
    BY <1>4 DEF CallLosesReply, LoseReply
  <2>2. QED
    BY <1>1, <2>1, EndsIdly DEF AccessErrors
<1>5. QED
  BY <1>3, <1>4

LEMMA AbandonedGoes ==
  ASSUME AInv, NEW c \in Calls, CallAbandoned(c)
  PROVE  Idles(c)
<1>1. faults' # 0 /\ Set(c, Ended(task[c], Raised("aborted")))
  BY Facts DEF CallAbandoned, Abandon
<1>2. QED
  BY <1>1, EndsIdly DEF AccessErrors

LEMMA ReserveConflictGoes ==
  ASSUME AInv, NEW c \in Calls, ReserveConflict(c)
  PROVE  Idles(c)
<1> DEFINE t == [task[c] EXCEPT !.pc = "authorize", !.snap = bal[task[c].user_id],
                                !.attempt = @ + 1]
<1>1. /\ task[c].pc = "reserve" /\ task[c] \in CallRecords
      /\ task[c].pc \notin EndingPcs
  BY CallHas DEF ReserveConflict, At, EndingPcs
<1>2. task'[c] = t
  BY Facts DEF ReserveConflict, Set
<1>3. t.pc = "authorize" /\ t.work = task[c].work
  BY <1>1 DEF CallRecords, TaskRecords
<1>4. QED
  BY <1>1, <1>2, <1>3 DEF Idles

\* _resolve_duplicate, from its three callers.
LEMMA DuplicateGoes ==
  ASSUME AInv, NEW c \in Calls,
         ReserveDuplicate(c) \/ DeniedOrDuplicate(c) \/ PollRecord(c)
  PROVE  Idles(c) \/ Meets(c)
<1>1. CASE ReserveDuplicate(c)
  <2>1. /\ task[c].pc = "reserve" /\ ReserveReply(ReserveInvocation(c)) = "DUP"
        /\ ReserveInvocation(c).id = task[c].id
    BY <1>1 DEF ReserveDuplicate, At, ReserveInvocation
  <2>2. gen[task[c].id] # Nil
    BY <2>1, SMT DEF ReserveReply
  <2>3. QED
    BY <1>1, <2>1, <2>2, ResolvesDuplicate DEF ReserveDuplicate
<1>2. CASE DeniedOrDuplicate(c)
  <2>1. task[c].pc = "denied" /\ task[c].pc \notin EndingPcs
    BY <1>2 DEF DeniedOrDuplicate, At, EndingPcs
  <2>2. CASE gen[task[c].id] = Nil
    <3>1. task[c].auth \in Refusals
      BY <2>1, CallHas DEF CallShape
    <3>2. task[c].auth.verdict \notin {"result", "GenerationFailed"}
      BY <3>1 DEF Refusals, AccessErrors
    <3>3. Set(c, Ended(task[c], Raised(task[c].auth.verdict)))
      BY <1>2, <2>2 DEF DeniedOrDuplicate
    <3>4. QED
      BY <2>1, <2>2, <3>2, <3>3, EndsIdly DEF Unrecorded
  <2>3. CASE gen[task[c].id] # Nil
    BY <1>2, <2>1, <2>3, ResolvesDuplicate DEF DeniedOrDuplicate
  <2>4. QED
    BY <2>2, <2>3
<1>3. CASE PollRecord(c)
  <2>1. task[c].pc = "wait" /\ At(c, "wait")
    BY <1>3 DEF PollRecord, At
  <2>2. gen[task[c].id] # Nil /\ SamePayload(task[c].work, gen[task[c].id])
    BY <2>1, CallHas DEF CallKnows
  <2>3. Set(c, FollowRecord(task[c], gen[task[c].id]))
    BY <1>3, <2>2 DEF PollRecord
  <2>4. QED
    BY <2>1, <2>2, <2>3, FollowsRecord
<1>4. QED
  BY <1>1, <1>2, <1>3

LEMMA CallGoes ==
  ASSUME AInv, NEW c \in Calls, CallStep(c)
  PROVE  Goes(c)
<1>1. ASSUME NEW request \in Requests, ExecuteGeneration(c, request) PROVE Goes(c)
  BY <1>1, ExecuteGoes DEF Goes, Steady, ExecuteGeneration, redis
<1>2. CASE Ensure(c) /\ UNCHANGED provider_calls
  <2>1. gen' = gen
    BY <1>2 DEF Ensure, Load, TryAcquireLoadLock, LoadTimesOut, Recheck, LoadFromDb,
                Seed, SEED_IF_ABSENT, ReleaseLoadLock, redis
  <2>2. QED
    BY <1>2, <2>1, EnsureGoes DEF Goes, Steady
<1>3. CASE CallLosesReply(c)
  <2>1. Steady
    BY <1>3 DEF CallLosesReply, LoseReply, SendAndLose, redis, Steady
  <2>2. QED
    BY <1>3, <2>1, LosesReplyGoes DEF Goes
<1>4. CASE CallAbandoned(c)
  <2>1. Steady
    BY <1>4 DEF CallAbandoned, Abandon, redis, Steady
  <2>2. QED
    BY <1>4, <2>1, AbandonedGoes DEF Goes
<1>5. CASE AuthorizeSnapshot(c)
  BY <1>5, AuthorizeGoes DEF AuthorizeSnapshot, Goes, Steady, redis
<1>6. CASE ReserveConflict(c)
  BY <1>6, ReserveConflictGoes DEF ReserveConflict, Goes, Steady, redis
<1>7. CASE ReserveMissing(c)
  <2>1. task[c].pc \notin EndingPcs /\ Set(c, Reload(task[c], "authorize")) /\ Steady
    BY <1>7 DEF ReserveMissing, At, EndingPcs, Steady, redis
  <2>2. QED
    BY <2>1, ReloadsIdly DEF Goes
<1>8. CASE ReserveDuplicate(c) \/ DeniedOrDuplicate(c) \/ PollRecord(c)
  <2>1. Steady
    BY <1>8 DEF ReserveDuplicate, DeniedOrDuplicate, PollRecord, Steady, redis
  <2>2. QED
    BY <1>8, <2>1, DuplicateGoes DEF Goes
<1>9. CASE WaitTimesOut(c)
  <2>1. /\ task[c].pc \notin EndingPcs /\ Steady
        /\ Set(c, Ended(task[c], Raised("GenerationInProgress")))
    BY <1>9 DEF WaitTimesOut, At, EndingPcs, Steady, redis
  <2>2. QED
    BY <2>1, EndsIdly DEF Goes, AccessErrors
<1>10. ASSUME \/ \E bill \in Bills : ProviderReturns(c, bill)
              \/ \E error \in {"GenerationFailed", "cancelled"} : ProviderRaises(c, error)
       PROVE  Goes(c)
  <2>1. Steady
    BY <1>10 DEF ProviderReturns, ProviderRaises, Steady, redis
  <2>2. QED
    BY <1>10, <2>1, ProviderGoes DEF Goes
<1>11. CASE GiveUp(c) /\ UNCHANGED provider_calls
  BY <1>11, GiveUpGoes DEF GiveUp, Goes, Steady, redis
<1>12. CASE CallProgress(c)
  BY <1>5, <1>6, <1>7, <1>8, <1>9, <1>10, <1>11, <1>12, NeverMissing
  DEF CallProgress, Goes
<1>13. QED
  BY <1>1, <1>2, <1>3, <1>4, <1>12 DEF CallStep

-----------------------------------------------------------------------------
(***************************************************************************)
(* A step and the records: nothing, a script that fits, or an id forgotten *)
(* by a reaper.                                                            *)
(***************************************************************************)

\* Whose script it is that runs.
Sender(inv) ==
  \/ inv \in late /\ late' = late \ {inv} /\ UNCHANGED <<task, provider_calls>>
  \/ inv.script = "RESERVE" /\ \E c \in Calls : Reserve(c) /\ inv = ReserveInvocation(c)
  \/ inv.script = "SETTLE" /\ \E c \in Calls : Settle(c) /\ inv = SettleInvocation(c)
  \/ inv.script \in {"REFUND", "TOP_UP"} /\ UNCHANGED <<late, provider_calls>>

Untouched == UNCHANGED <<gen, inflight, provider_calls>>

RunsScript ==
  \E inv \in Invocations : Fits(inv) /\ Execute(inv) /\ Sender(inv)

Touches ==
  \/ Untouched
  \/ \E r \in Reapers : Forget(r) /\ UNCHANGED <<gen, provider_calls>>
  \/ RunsScript

LEMMA RefundTouches ==
  ASSUME AInv, NEW a \in Calls \cup Reapers, NEW next, RefundReturns(a, next),
         UNCHANGED provider_calls
  PROVE  RunsScript
<1>1. /\ Fits(RefundInvocation(a)) /\ Execute(RefundInvocation(a))
      /\ late' = late
  BY Facts, RefundFitsSender DEF RefundReturns, network
<1>2. RefundInvocation(a).script = "REFUND"
  BY DEF RefundInvocation
<1>3. QED
  BY <1>1, <1>2 DEF RunsScript, Fits, Sender

LEMMA CallTouches ==
  ASSUME AInv, NEW c \in Calls, CallStep(c)
  PROVE  Touches
<1>1. CASE Ensure(c) /\ UNCHANGED provider_calls
  BY <1>1, EnsureUntouched DEF Touches, Untouched
<1>2. CASE Reserve(c)
  BY <1>2, Facts, ReserveFitsSender
  DEF Reserve, Touches, RunsScript, Fits, Sender, ReserveInvocation
<1>3. CASE Settle(c)
  BY <1>3, Facts, SettleFitsSender
  DEF Settle, Touches, RunsScript, Fits, Sender, SettleInvocation
<1>4. CASE RefundCall(c)
  BY <1>4, RefundTouches DEF RefundCall, Touches
<1>5. CASE CallProgress(c) /\ ~Reserve(c) /\ ~Settle(c) /\ ~RefundCall(c)
  BY <1>5 DEF CallProgress, AuthorizeSnapshot, ReserveConflict, ReserveMissing,
       ReserveDuplicate, DeniedOrDuplicate, PollRecord, WaitTimesOut,
       ProviderReturns, ProviderRaises, RefundMissing, SettleStale, SettleMissing,
       GiveUp, redis, Touches, Untouched
<1>6. CASE \E request \in Requests : ExecuteGeneration(c, request)
  BY <1>6 DEF ExecuteGeneration, redis, Touches, Untouched
<1>7. CASE CallLosesReply(c) \/ CallAbandoned(c)
  BY <1>7 DEF CallLosesReply, LoseReply, SendAndLose, CallAbandoned, Abandon,
              redis, Touches, Untouched
<1>8. QED
  BY <1>1, <1>2, <1>3, <1>4, <1>5, <1>6, <1>7 DEF CallStep, CallProgress

LEMMA TopUpTouches ==
  ASSUME AInv, NEW t \in TopUps, TopUpStep(t), UNCHANGED provider_calls
  PROVE  Touches
<1>1. CASE Ensure(t)
  BY <1>1, EnsureUntouched DEF Touches, Untouched
<1>2. CASE TopUp(t)
  BY <1>2, Facts, TopUpFitsSender DEF TopUp, Touches, RunsScript, Fits, Sender, network
<1>3. CASE ~Ensure(t) /\ ~TopUp(t)
  BY <1>3 DEF TopUpStep, TopUpProgress, ApplyTopUp, TopUpMissing, GiveUp,
       TopUpLosesReply, LoseReply, SendAndLose, TopUpAbandoned, Abandon, redis,
       Touches, Untouched
<1>4. QED
  BY <1>1, <1>2, <1>3

LEMMA ReaderTouches ==
  ASSUME NEW t \in Readers, ReaderStep(t), UNCHANGED provider_calls
  PROVE  Touches
<1>1. CASE Ensure(t)
  BY <1>1, EnsureUntouched DEF Touches, Untouched
<1>2. CASE ~Ensure(t)
  BY <1>2 DEF ReaderStep, GetBalance, ReturnBalance, Abandon, redis, Touches, Untouched
<1>3. QED
  BY <1>1, <1>2

LEMMA ReaperTouches ==
  ASSUME AInv, NEW r \in Reapers, ReaperStep(r), UNCHANGED provider_calls
  PROVE  Touches
<1>1. CASE Ensure(r)
  BY <1>1, EnsureUntouched DEF Touches, Untouched
<1>2. CASE RefundStale(r)
  BY <1>2, RefundTouches DEF RefundStale, Touches
<1>3. CASE Forget(r)
  BY <1>3 DEF Forget, ForgetInflight, Touches
<1>4. CASE ~Ensure(r) /\ ~RefundStale(r) /\ ~Forget(r)
  BY <1>4 DEF ReaperStep, ReaperProgress, StaleInflight, InspectStale, RefundMissing,
       GiveUp, RestartReaper, ReaperLosesReply, LoseReply, SendAndLose,
       ReaperAbandoned, Abandon, redis, Touches, Untouched
<1>5. QED
  BY <1>1, <1>2, <1>3, <1>4

LEMMA RecordMoves ==
  ASSUME AInv, [Next]_vars
  PROVE  Touches
<1>1. CASE UNCHANGED vars
  BY <1>1 DEF vars, redis, Touches, Untouched
<1>2. ASSUME NEW u \in Users, LockExpires(u), UNCHANGED provider_calls PROVE Touches
  BY <1>2 DEF LockExpires, redis, Touches, Untouched
<1>3. ASSUME NEW inv \in late, Land(inv), UNCHANGED <<task, provider_calls>>
      PROVE Touches
  BY <1>3, Facts, LateOneFits DEF Land, Touches, RunsScript, Fits, Sender
<1>4. QED
  BY <1>1, <1>2, <1>3, CallTouches, TopUpTouches, ReaderTouches, ReaperTouches
  DEF Next, Quiet

\* What joins the scripts on their way, and that nothing does without a fault.
Sent(inv) ==
  \/ inv.script \in {"REFUND", "TOP_UP"}
  \/ \E c \in Calls : \/ At(c, "reserve") /\ inv = ReserveInvocation(c)
                      \/ At(c, "settle") /\ inv = SettleInvocation(c)

Losses ==
  /\ \A inv \in late' : inv \in late \/ (Sent(inv) /\ gen' = gen)
  /\ faults' = 0 => faults = 0 /\ late' \subseteq late

LEMMA NoLoss ==
  ASSUME UNCHANGED network
  PROVE  Losses
BY DEF network, Losses

LEMMA Loss ==
  ASSUME AInv, NEW sent, late' \subseteq late \cup sent, faults' = faults + 1, gen' = gen,
         \A inv \in sent : Sent(inv)
  PROVE  Losses
BY Facts DEF Losses

LEMMA CallSends ==
  ASSUME NEW c \in Calls, CallSending(c)
  PROVE  Sent(CallInvocation(c))
<1>1. CASE task[c].pc = "reserve"
  <2>1. CallInvocation(c) = ReserveInvocation(c)
    BY <1>1 DEF CallInvocation, At
  <2>2. QED
    BY <1>1, <2>1 DEF Sent, At
<1>2. CASE task[c].pc = "settle"
  <2>1. CallInvocation(c) = SettleInvocation(c)
    BY <1>2, SMT DEF CallInvocation, At
  <2>2. QED
    BY <1>2, <2>1 DEF Sent, At
<1>3. CASE task[c].pc = "refund"
  <2>1. CallInvocation(c) = RefundInvocation(c)
    BY <1>3, SMT DEF CallInvocation, At
  <2>2. RefundInvocation(c).script = "REFUND"
    BY DEF RefundInvocation
  <2>3. QED
    BY <2>1, <2>2 DEF Sent
<1>4. QED
  BY <1>1, <1>2, <1>3 DEF CallSending

LEMMA EnsureLosses == ASSUME NEW a, Ensure(a) PROVE Losses
BY EnsureUntouched, NoLoss DEF network

LEMMA CallLosses ==
  ASSUME AInv, NEW c \in Calls, CallStep(c)
  PROVE  Losses
<1>1. CASE CallLosesReply(c)
  <2> DEFINE sent == {CallInvocation(c)}
  <2>1. late' = late \cup sent /\ faults' = faults + 1 /\ gen' = gen
    BY <1>1 DEF CallLosesReply, LoseReply, SendAndLose, redis
  <2>2. \A inv \in sent : Sent(inv)
    BY <1>1, CallSends DEF CallLosesReply
  <2> HIDE DEF sent
  <2>3. QED
    BY <2>1, <2>2, Loss
<1>2. CASE CallAbandoned(c)
  <2> DEFINE sent == IF CallSending(c) THEN {CallInvocation(c)} ELSE {}
  <2>1. late' = late \cup sent /\ faults' = faults + 1 /\ gen' = gen
    BY <1>2 DEF CallAbandoned, Abandon, redis
  <2>2. \A inv \in sent : Sent(inv)
    BY CallSends
  <2> HIDE DEF sent
  <2>3. QED
    BY <2>1, <2>2, Loss
<1>3. CASE CallProgress(c)
  BY <1>3, NoLoss DEF CallProgress, AuthorizeSnapshot, Reserve, ReserveConflict,
       ReserveMissing, ReserveDuplicate, DeniedOrDuplicate, PollRecord, WaitTimesOut,
       ProviderReturns, ProviderRaises, RefundCall, RefundReturns, RefundMissing,
       Settle, SettleStale, SettleMissing, GiveUp
<1>4. CASE \E request \in Requests : ExecuteGeneration(c, request)
  BY <1>4, NoLoss DEF ExecuteGeneration
<1>5. QED
  BY <1>1, <1>2, <1>3, <1>4, EnsureLosses DEF CallStep

LEMMA OtherLosses ==
  ASSUME AInv, NEW a, NEW inv, inv.script \in {"REFUND", "TOP_UP"},
         \/ LoseReply(a, inv)
         \/ \E sent \in SUBSET {inv} : Abandon(a, sent)
  PROVE  Losses
<1>1. Sent(inv)
  BY DEF Sent
<1>2. CASE LoseReply(a, inv)
  BY <1>1, <1>2, Loss DEF LoseReply, SendAndLose, redis
<1>3. ASSUME NEW sent \in SUBSET {inv}, Abandon(a, sent) PROVE Losses
  BY <1>1, <1>3, Loss DEF Abandon, redis
<1>4. QED
  BY <1>2, <1>3

LEMMA TopUpLosses ==
  ASSUME AInv, NEW t \in TopUps, TopUpStep(t)
  PROVE  Losses
<1>1. TopUpInvocation(t).script \in {"REFUND", "TOP_UP"}
  BY DEF TopUpInvocation
<1>2. CASE TopUpLosesReply(t) \/ TopUpAbandoned(t)
  <2> DEFINE inv == TopUpInvocation(t)
             sent == IF At(t, "top_up") THEN {inv} ELSE {}
  <2>1. LoseReply(t, inv) \/ Abandon(t, sent)
    BY <1>2 DEF TopUpLosesReply, TopUpAbandoned
  <2>2. inv.script \in {"REFUND", "TOP_UP"} /\ sent \in SUBSET {inv}
    BY <1>1
  <2> HIDE DEF inv, sent
  <2>3. QED
    BY <2>1, <2>2, OtherLosses
<1>3. CASE TopUpProgress(t) \/ \E command \in Commands : ApplyTopUp(t, command)
  BY <1>3, NoLoss DEF TopUpProgress, TopUp, TopUpMissing, GiveUp, ApplyTopUp
<1>4. QED
  BY <1>2, <1>3, EnsureLosses DEF TopUpStep

LEMMA ReaderLosses ==
  ASSUME AInv, NEW t \in Readers, ReaderStep(t)
  PROVE  Losses
<1>1. CASE Abandon(t, {})
  <2> DEFINE sent == {}
  <2>1. late' = late \cup sent /\ faults' = faults + 1 /\ gen' = gen
    BY <1>1 DEF Abandon, redis
  <2>2. \A inv \in sent : Sent(inv)
    OBVIOUS
  <2> HIDE DEF sent
  <2>3. QED
    BY <2>1, <2>2, Loss
<1>2. CASE ReturnBalance(t) \/ \E user \in Users : GetBalance(t, user)
  BY <1>2, NoLoss DEF ReturnBalance, GetBalance
<1>3. QED
  BY <1>1, <1>2, EnsureLosses DEF ReaderStep

LEMMA ReaperLosses ==
  ASSUME AInv, NEW r \in Reapers, ReaperStep(r)
  PROVE  Losses
<1>1. RefundInvocation(r).script \in {"REFUND", "TOP_UP"}
  BY DEF RefundInvocation
<1>2. CASE ReaperLosesReply(r) \/ ReaperAbandoned(r)
  <2> DEFINE inv == RefundInvocation(r)
             sent == IF At(r, "refund") THEN {inv} ELSE {}
  <2>1. LoseReply(r, inv) \/ Abandon(r, sent)
    BY <1>2 DEF ReaperLosesReply, ReaperAbandoned
  <2>2. inv.script \in {"REFUND", "TOP_UP"} /\ sent \in SUBSET {inv}
    BY <1>1
  <2> HIDE DEF inv, sent
  <2>3. QED
    BY <2>1, <2>2, OtherLosses
<1>3. CASE \/ ReaperProgress(r)
           \/ \E batch \in SUBSET inflight : StaleInflight(r, batch)
  BY <1>3, NoLoss DEF ReaperProgress, InspectStale, Forget, RefundStale, RefundReturns,
     RefundMissing, GiveUp, RestartReaper, StaleInflight
<1>4. QED
  BY <1>2, <1>3, EnsureLosses DEF ReaperStep

LEMMA SendMoves ==
  ASSUME AInv, [Next]_vars
  PROVE  Losses
<1>1. CASE UNCHANGED vars
  BY <1>1, NoLoss DEF vars
<1>2. ASSUME NEW u \in Users, LockExpires(u) PROVE Losses
  BY <1>2, Facts DEF LockExpires, redis, Losses
<1>3. ASSUME NEW inv \in late, Land(inv) PROVE Losses
  BY <1>3 DEF Land, Losses
<1>4. QED
  BY <1>1, <1>2, <1>3, CallLosses, TopUpLosses, ReaderLosses, ReaperLosses
  DEF Next, Quiet

\* All of it at once.
LEMMA After ==
  ASSUME AInv, [Next]_vars
  PROVE  /\ BInv' /\ KeysOK' /\ Kept /\ Monotone /\ Touches /\ Losses
         /\ provider_calls' \in [RequestIds -> Nat]
<1>1. KeysOK /\ BInv
  BY Facts
<1>2. BInv'
  BY <1>1, NextFits
<1>3. KeysOK' /\ Others'
  <2>1. IInv'
    BY <1>2 DEF BInv
  <2>2. Parts'
    BY <2>1, IInvParts, PTL
  <2>3. QED
    BY <2>2 DEF Parts
<1>4. Moves /\ Kept
  BY <1>1, MoneyMoves, MovesRecords
<1>5. Monotone
  <2>1. CASE UNCHANGED bal
    BY <2>1 DEF Monotone
  <2>2. ASSUME NEW inv \in Invocations, Fits(inv), Execute(inv) PROVE Monotone
    BY <1>1, <2>2, ExecuteStep DEF Fits
  <2>3. ASSUME NEW u \in Users, Seeds(u) PROVE Monotone
    BY <1>1, <2>3 DEF Seeds, Monotone, KeysOK
  <2>4. QED
    BY <1>4, <2>1, <2>2, <2>3 DEF Moves
<1>6. QED
  BY <1>2, <1>3, <1>4, <1>5, RecordMoves, SendMoves DEF Others, TypedOthers

-----------------------------------------------------------------------------
(***************************************************************************)
(* How a record begins, how it comes to be charged, and who calls the      *)
(* provider.                                                               *)
(***************************************************************************)
\* By a RESERVE of a call, or by one that was lost.
LEMMA Begins ==
  ASSUME AInv, [Next]_vars, NEW id \in RequestIds, gen[id] = Nil, gen'[id] # Nil
  PROVE  \E inv \in Invocations :
           /\ inv.script = "RESERVE" /\ inv.id = id /\ gen'[id] = NewRecord(inv)
           /\ bal[inv.user_id] # Nil
           /\ \/ inv \in late /\ UNCHANGED <<task, provider_calls>>
              \/ \E c \in Calls : Reserve(c) /\ inv = ReserveInvocation(c)
<1>1. PICK inv \in Invocations : Fits(inv) /\ Execute(inv) /\ Sender(inv)
  BY After DEF Touches, Untouched, RunsScript
<1>2. inv.script = "RESERVE" /\ id = inv.id /\ gen'[id] = NewRecord(inv)
  BY <1>1, Facts, KeysParts, ExecuteKeeps DEF Born
<1>3. ReserveReply(inv) = "OK"
  BY <1>1, <1>2 DEF Execute, RESERVE, redis
<1>4. QED
  BY <1>1, <1>2, <1>3, ReserveOK DEF Sender

\* By the SETTLE of a call, or by one that was lost.
LEMMA Charges ==
  ASSUME AInv, [Next]_vars, NEW id \in RequestIds, gen[id] # Nil,
         gen[id].status # "done", gen'[id].status = "done"
  PROVE  \E inv \in Invocations :
           /\ inv.script = "SETTLE" /\ inv.id = id
           /\ gen'[id].billed_cost_usd = inv.billed_cost_usd
           /\ \/ inv \in late
              \/ \E c \in Calls : Settle(c) /\ inv = SettleInvocation(c)
<1>1. PICK inv \in Invocations : Fits(inv) /\ Execute(inv) /\ Sender(inv)
  BY After DEF Touches, Untouched, RunsScript
<1>2. gen[id] \in Records /\ gen \in [RequestIds -> Records \cup {Nil}]
  BY Facts DEF KeysOK
<1>3. inv.script \in {"RESERVE", "SETTLE", "REFUND", "TOP_UP"}
  BY DEF Invocations, ReserveInvocations, SettleInvocations, RefundInvocations,
         TopUpInvocations
<1>4. inv.script # "RESERVE"
  <2> SUFFICES ASSUME inv.script = "RESERVE" PROVE FALSE
    OBVIOUS
  <2>1. RESERVE(inv)
    BY <1>1 DEF Execute
  <2>2. ReserveReply(inv) = "OK"
    BY <2>1 DEF RESERVE, redis
  <2>3. gen' = [gen EXCEPT ![inv.id] = NewRecord(inv)] /\ gen[inv.id] = Nil
    BY <2>1, <2>2, ReserveOK DEF RESERVE
  <2>4. QED
    BY <1>2, <2>3
<1>5. inv.script # "TOP_UP"
  BY <1>1 DEF Execute, TOP_UP, redis
<1>6. inv.script # "REFUND"
  <2> SUFFICES ASSUME inv.script = "REFUND" PROVE FALSE
    OBVIOUS
  <2>1. REFUND(inv)
    BY <1>1, SMT DEF Execute
  <2>2. gen' = [gen EXCEPT ![inv.id].status = "failed"]
    BY <2>1 DEF REFUND, redis
  <2>3. QED
    BY <1>2, <2>2 DEF Records
<1>7. SETTLE(inv) /\ inv.script = "SETTLE"
  <2>1. inv.script = "SETTLE"
    BY <1>3, <1>4, <1>5, <1>6
  <2>2. QED
    BY <1>1, <2>1 DEF Execute
<1>8. gen' = [gen EXCEPT ![inv.id] = SettledRecord(@, inv)]
  BY <1>7 DEF SETTLE, redis
<1>9. inv.id = id
  BY <1>2, <1>8
<1>10. gen'[id].billed_cost_usd = inv.billed_cost_usd
  BY <1>2, <1>8, <1>9 DEF SettledRecord, Records
<1>11. QED
  BY <1>1, <1>7, <1>9, <1>10 DEF Sender

LEMMA Counts ==
  ASSUME AInv, [Next]_vars
  PROVE  provider_calls' = provider_calls \/ \E c \in Calls : Reserve(c)
BY After DEF Touches, Untouched, RunsScript, Sender, Settle

\* Only the owner of a reservation calls the provider for it once it is made.
LEMMA CountStays ==
  ASSUME AInv, [Next]_vars, NEW c \in Calls, ~Reserve(c), NEW id \in RequestIds,
         gen[id] # Nil, gen[id].reservation_token[1] = c
  PROVE  provider_calls'[id] = provider_calls[id]
<1>1. ASSUME NEW d \in Calls, Reserve(d) PROVE provider_calls'[id] = provider_calls[id]
  <2>1. /\ At(d, "reserve")
        /\ ReserveReply(ReserveInvocation(d)) = "OK" \/ OwnRecord(d)
        /\ provider_calls' = [provider_calls EXCEPT ![ReserveInvocation(d).id] = @ + 1]
    BY <1>1 DEF Reserve
  <2>2. ReserveInvocation(d).id = task[d].id
    BY DEF ReserveInvocation
  <2>3. SUFFICES ASSUME task[d].id = id PROVE FALSE
    BY <2>1, <2>2, Facts
  <2>4. OwnRecord(d)
    BY <2>1, <2>2, <2>3, ReserveOK
  <2>5. gen[id].reservation_token[1] = d
    BY <2>3, <2>4 DEF OwnRecord, Token
  <2>6. QED
    BY <1>1, <2>5
<1>2. QED
  BY <1>1, Counts

\* Only its owner settles it.
LEMMA SettlesOwn ==
  ASSUME AInv, NEW d \in Calls, At(d, "settle")
  PROVE  /\ SettleInvocation(d).id = task[d].id
         /\ SettleInvocation(d).billed_cost_usd = task[d].charged
         /\ gen[task[d].id].reservation_token[1] = d
BY CallHas DEF At, CallKnows, EndingPcs, Owned, SettleInvocation

LEMMA LateSettles ==
  ASSUME AInv, [Next]_vars, NEW inv \in late', inv.script = "SETTLE"
  PROVE  inv \in late \/ \E d \in Calls : At(d, "settle") /\ inv = SettleInvocation(d)
<1>1. inv \in late \/ Sent(inv)
  BY After DEF Losses
<1>2. \A d : ReserveInvocation(d).script = "RESERVE"
  BY DEF ReserveInvocation
<1>3. QED
  BY <1>1, <1>2 DEF Sent

LEMMA StaysUnsettled ==
  ASSUME AInv, [Next]_vars, NEW id \in RequestIds, NEW c \in Calls,
         gen[id] # Nil, gen[id].reservation_token[1] = c, Unsettled(id),
         ~(At(c, "settle") /\ task[c].id = id)
  PROVE  Unsettled(id)'
<1>1. ASSUME NEW d \in Calls, At(d, "settle"), SettleInvocation(d).id = id
      PROVE  FALSE
  BY <1>1, SettlesOwn
<1>2. \A inv \in late' : inv.script = "SETTLE" => inv.id # id
  BY <1>1, LateSettles DEF Unsettled
<1>3. gen'[id].status # "done"
  BY <1>1, Charges DEF Unsettled, Settle
<1>4. QED
  BY <1>2, <1>3 DEF Unsettled

LEMMA StaysSettledAs ==
  ASSUME AInv, [Next]_vars, NEW id \in RequestIds, NEW c \in Calls, NEW cost,
         gen[id] # Nil, gen[id].reservation_token[1] = c, SettledAs(id, cost),
         At(c, "settle") /\ task[c].id = id => task[c].charged = cost
  PROVE  SettledAs(id, cost)'
<1>1. ASSUME NEW d \in Calls, At(d, "settle"), SettleInvocation(d).id = id
      PROVE  SettleInvocation(d).billed_cost_usd = cost
  BY <1>1, SettlesOwn
<1>2. \A inv \in late' : (inv.script = "SETTLE" /\ inv.id = id) =>
        inv.billed_cost_usd = cost
  BY <1>1, LateSettles DEF SettledAs
<1>3. ASSUME gen'[id].status = "done" PROVE gen'[id].billed_cost_usd = cost
  <2>1. CASE gen[id].status = "done"
    BY <2>1, After DEF Kept, SettledAs
  <2>2. CASE gen[id].status # "done"
    BY <1>1, <1>3, <2>2, Charges DEF SettledAs, Settle
  <2>3. QED
    BY <2>1, <2>2
<1>4. QED
  BY <1>2, <1>3 DEF SettledAs

\* A record that begins is unsettled, and the provider was not called for it
\* before.
LEMMA BeginsUnsettled ==
  ASSUME AInv, [Next]_vars, NEW id \in RequestIds, gen[id] = Nil, gen'[id] # Nil
  PROVE  Unsettled(id)' /\ provider_calls[id] = 0
<1>1. gen'[id].status = "running"
  BY Begins, NewRecordHas
<1>2. ASSUME NEW inv \in late', inv.script = "SETTLE", inv.id = id PROVE FALSE
  <2>1. inv \in late
    BY <1>2, SettlesOwn, LateSettles, CallRecord DEF At, EndingPcs
  <2>2. Splits(inv.id, inv.user_id, inv.billed_cost_usd, inv.refund, gen)
    BY <1>2, <2>1, Facts DEF BInv, InvocationFits
  <2>3. QED
    BY <1>2, <2>2 DEF Splits
<1>3. provider_calls[id] = 0
  <2>1. provider_calls[id] <= 1 /\ provider_calls[id] # 1 /\ provider_calls[id] \in Nat
    BY Facts DEF AInv, ProviderOnce
  <2>2. QED
    BY <2>1
<1>4. QED
  BY <1>1, <1>2, <1>3 DEF Unsettled

-----------------------------------------------------------------------------
(***************************************************************************)
(* AInv is kept, part by part.                                             *)
(***************************************************************************)

\* How a call ends, and how it comes to the provider.
LEMMA EndingGoes ==
  ASSUME AInv, NEW c \in Calls
  PROVE  /\ Reserve(c) =>
              /\ task[c].pc = "reserve"
              /\ task'[c].pc = "provider" /\ task'[c].attempt = 0
              /\ task'[c].work = task[c].work /\ task'[c].id = task[c].id
         /\ Settle(c) =>
              /\ task[c].pc = "settle"
              /\ task'[c].pc = "done" /\ task'[c].work = task[c].work
              /\ task'[c].outcome = Returned(task[c].charged)
         /\ SettleStale(c) =>
              /\ task[c].pc = "settle"
              /\ task'[c].pc = "done" /\ task'[c].work = task[c].work
              /\ task'[c].outcome = Raised("GenerationFailed")
         /\ RefundCall(c) =>
              /\ task[c].pc = "refund"
              /\ task'[c].pc = "done" /\ task'[c].work = task[c].work
              /\ task'[c].outcome = task[c].outcome
<1>1. task[c] \in CallRecords /\ DOMAIN task = Tasks /\ c \in Tasks
  BY CallHas, Facts
<1>2. ASSUME Reserve(c)
      PROVE  /\ task[c].pc = "reserve"
             /\ task'[c].pc = "provider" /\ task'[c].attempt = 0
             /\ task'[c].work = task[c].work /\ task'[c].id = task[c].id
  <2> DEFINE t == [task[c] EXCEPT !.pc = "provider", !.snap = Nil,
                                  !.attempt = 0, !.tries = 0]
  <2>1. task'[c] = t /\ task[c].pc = "reserve"
    BY <1>1, <1>2 DEF Reserve, Set, At
  <2>2. t.pc = "provider" /\ t.attempt = 0 /\ t.work = task[c].work /\ t.id = task[c].id
    BY <1>1 DEF CallRecords, TaskRecords
  <2>3. QED
    BY <2>1, <2>2
<1>3. ASSUME NEW outcome, Set(c, Ended(task[c], outcome))
      PROVE  task'[c].pc = "done" /\ task'[c].work = task[c].work
             /\ task'[c].outcome = outcome
  <2>1. task'[c] = Ended(task[c], outcome)
    BY <1>1, <1>3 DEF Set
  <2>2. QED
    BY <2>1, EndedFields
<1>4. ASSUME Settle(c)
      PROVE  task[c].pc = "settle" /\ Set(c, Ended(task[c], Returned(task[c].charged)))
  BY <1>4 DEF Settle, At, SettleInvocation
<1>5. ASSUME SettleStale(c)
      PROVE  task[c].pc = "settle" /\ Set(c, Ended(task[c], Raised("GenerationFailed")))
  BY <1>5 DEF SettleStale, At
<1>6. ASSUME RefundCall(c)
      PROVE  task[c].pc = "refund" /\ Set(c, Ended(task[c], task[c].outcome))
  BY <1>6 DEF RefundCall, RefundReturns, At
<1>7. QED
  BY <1>2, <1>3, <1>4, <1>5, <1>6

LEMMA CallMoved ==
  ASSUME AInv, [Next]_vars, NEW c \in Calls
  PROVE  task'[c] = task[c] \/ Goes(c)
BY Facts, OneMoves, CallGoes

LEMMA WorkStays ==
  ASSUME AInv, [Next]_vars, NEW c \in Calls, task[c].pc # "idle"
  PROVE  task'[c].work = task[c].work
BY CallMoved, EndingGoes DEF Goes, Idles, Meets, Authorizes, Proceeds, Retries

LEMMA ReserveBelongs ==
  ASSUME AInv, NEW c \in Calls, At(c, "reserve")
  PROVE  /\ ReserveInvocation(c).id = task[c].id
         /\ ReserveInvocation(c).token = Token(c) /\ Token(c)[1] = c
         /\ Belongs(task[c].id, ReserveInvocation(c), task[c])
<1>1. task[c].work \in Requests /\ task[c].id = task[c].work.client_request_id
  BY CallOwnCode DEF At, CallPcs
<1>2. task[c].user_id = task[c].work.user_id
  BY CallHas, CallOwnCode DEF CallShape, At, CallPcs
<1>3. /\ ReserveInvocation(c).user_id = task[c].user_id
      /\ ReserveInvocation(c).dialog_id = task[c].work.dialog_id
      /\ ReserveInvocation(c).model_name = task[c].work.model_name
      /\ ReserveInvocation(c).token = Token(c) /\ Token(c)[1] = c
      /\ ReserveInvocation(c).id = task[c].id
  BY DEF ReserveInvocation, Token, Request
<1>4. QED
  BY <1>1, <1>2, <1>3 DEF Belongs, SamePayload

LEMMA BelongsStay ==
  ASSUME AInv, [Next]_vars
  PROVE  RecordsBelong'
<1>1. ASSUME NEW id, NEW payload, NEW c \in Calls, task[c].pc # "idle",
             Belongs(id, payload, task[c])
      PROVE  Belongs(id, payload, task'[c])
  BY <1>1, WorkStays DEF Belongs
<1>2. \A inv \in late : inv.script = "RESERVE" =>
        /\ inv.token[1] \in Calls
        /\ Belongs(inv.id, inv, task'[inv.token[1]])
  BY <1>1, TokenOwner DEF AInv, RecordsBelong
<1>3. ASSUME NEW c \in Calls, At(c, "reserve")
      PROVE  LET inv == ReserveInvocation(c)
             IN  Belongs(inv.id, inv, task'[inv.token[1]])
  BY <1>1, <1>3, ReserveBelongs DEF At
<1>4. ASSUME NEW id \in RequestIds, gen'[id] # Nil
      PROVE  Belongs(id, gen'[id], task'[gen'[id].reservation_token[1]])
  <2>1. CASE gen[id] # Nil
    <3> DEFINE c == gen[id].reservation_token[1]
    <3>1. /\ c \in Calls /\ task[c].pc # "idle"
          /\ Belongs(id, gen[id], task[c])
      BY <2>1, TokenOwner DEF AInv, RecordsBelong
    <3>2. Belongs(id, gen[id], task'[c])
      BY <1>1, <3>1
    <3>3. /\ gen'[id].user_id = gen[id].user_id
          /\ gen'[id].dialog_id = gen[id].dialog_id
          /\ gen'[id].model_name = gen[id].model_name
          /\ gen'[id].reservation_token = gen[id].reservation_token
      BY <2>1, After DEF Kept
    <3> HIDE DEF c
    <3>4. Belongs(id, gen'[id], task'[c])
      BY <3>2, <3>3 DEF Belongs, SamePayload
    <3>5. QED
      BY <3>3, <3>4 DEF c
  <2>2. CASE gen[id] = Nil
    <3>1. PICK inv \in Invocations :
            /\ inv.script = "RESERVE" /\ inv.id = id /\ gen'[id] = NewRecord(inv)
            /\ \/ inv \in late
               \/ \E c \in Calls : Reserve(c) /\ inv = ReserveInvocation(c)
      BY <1>4, <2>2, Begins
    <3>2. Belongs(inv.id, inv, task'[inv.token[1]])
      BY <1>2, <1>3, <3>1 DEF Reserve
    <3>3. QED
      BY <3>1, <3>2, NewRecordHas DEF Belongs, SamePayload
  <2>3. QED
    BY <2>1, <2>2
<1>5. ASSUME NEW inv \in late', inv.script = "RESERVE"
      PROVE  Belongs(inv.id, inv, task'[inv.token[1]])
  <2>1. inv \in late \/ Sent(inv)
    BY After DEF Losses
  <2>2. \A c : SettleInvocation(c).script = "SETTLE"
    BY DEF SettleInvocation
  <2>3. QED
    BY <1>2, <1>3, <1>5, <2>1, <2>2 DEF Sent
<1>6. QED
  BY <1>4, <1>5 DEF RecordsBelong

LEMMA BalancesKept ==
  ASSUME AInv, [Next]_vars
  PROVE  BalancesStay'
<1>1. SUFFICES ASSUME NEW id \in RequestIds, gen'[id] # Nil
               PROVE  bal'[gen'[id].user_id] # Nil
  BY DEF BalancesStay
<1>2. CASE gen[id] # Nil
  <2>1. gen[id].user_id \in Users /\ bal[gen[id].user_id] # Nil
    BY <1>2, Facts DEF AInv, BalancesStay, KeysOK, Records
  <2>2. QED
    BY <1>2, <2>1, After DEF Kept, Monotone
<1>3. CASE gen[id] = Nil
  <2>1. PICK inv \in Invocations :
          inv.script = "RESERVE" /\ gen'[id] = NewRecord(inv) /\ bal[inv.user_id] # Nil
    BY <1>1, <1>3, Begins
  <2>2. gen'[id].user_id = inv.user_id /\ gen'[id].user_id \in Users
    BY <1>1, <2>1, NewRecordHas, After DEF KeysOK, Records
  <2>3. QED
    BY <2>1, <2>2, After DEF Monotone
<1>4. QED
  BY <1>2, <1>3

\* A RESERVE that finds the record of its own try is a try whose reply was lost,
\* and the provider has not been called.
LEMMA OnceKept ==
  ASSUME AInv, [Next]_vars
  PROVE  ProviderOnce'
<1>1. SUFFICES ASSUME NEW id \in RequestIds
               PROVE  /\ provider_calls'[id] <= 1
                      /\ provider_calls'[id] = 1 => gen'[id] # Nil
  BY DEF ProviderOnce
<1>2. /\ provider_calls[id] <= 1
      /\ provider_calls[id] = 1 => gen[id] # Nil
      /\ provider_calls[id] \in Nat /\ provider_calls \in [RequestIds -> Nat]
  BY Facts DEF AInv, ProviderOnce
<1>3. CASE provider_calls'[id] = provider_calls[id]
  BY <1>2, <1>3, After DEF Kept
<1>4. CASE provider_calls'[id] # provider_calls[id]
  <2>1. PICK c \in Calls : Reserve(c)
    BY <1>4, Counts
  <2> DEFINE inv == ReserveInvocation(c)
  <2>2. /\ At(c, "reserve") /\ inv.id = task[c].id /\ inv.script = "RESERVE"
        /\ ReserveReply(inv) = "OK" \/ OwnRecord(c)
        /\ Execute(inv)
        /\ provider_calls' = [provider_calls EXCEPT ![inv.id] = @ + 1]
    BY <2>1 DEF Reserve, ReserveInvocation
  <2>3. task[c].id = id /\ provider_calls'[id] = provider_calls[id] + 1
    BY <1>2, <1>4, <2>2
  <2> HIDE DEF inv
  <2>4. CASE ReserveReply(inv) = "OK"
    <3>1. gen[id] = Nil
      BY <2>2, <2>3, <2>4, ReserveOK
    <3>2. gen' = [gen EXCEPT ![inv.id] = NewRecord(inv)]
      BY <2>2, <2>4 DEF Execute, RESERVE
    <3>3. gen'[id] = NewRecord(inv)
      BY <2>2, <2>3, <3>2, Facts DEF KeysOK
    <3>4. inv \in ReserveInvocations
      BY <2>2, Facts, ReserveFitsSender DEF inv
    <3>5. NewRecord(inv) # Nil
      BY <3>4, NilAssumption DEF NewRecord, Records, Statuses, ReserveInvocations
    <3>6. QED
      BY <1>2, <2>3, <3>1, <3>3, <3>5
  <2>5. CASE OwnRecord(c)
    <3>1. provider_calls[id] = 0
      BY <2>2, <2>3, <2>5, CallHas DEF CallKnows
    <3>2. gen[id] # Nil
      BY <2>3, <2>5 DEF OwnRecord
    <3>3. QED
      BY <2>3, <3>1, <3>2, After DEF Kept
  <2>6. QED
    BY <2>2, <2>4, <2>5
<1>5. QED
  BY <1>3, <1>4

-----------------------------------------------------------------------------
LEMMA ScriptIndex ==
  ASSUME AInv, NEW inv \in Invocations, Execute(inv), KeysOK'
  PROVE  InflightIsRunning'
<1>1. KeysTyped /\ InflightIsRunning
  BY Facts, KeysParts DEF AInv
<1>2. \A id \in RequestIds : Listed(id)
  BY <1>1 DEF InflightIsRunning, Listed
<1>3. \A id \in RequestIds : Listed(id)'
  BY <1>1, <1>2, ScriptIndexes
<1>4. inflight' \subseteq RequestIds
  BY DEF KeysOK
<1>5. QED
  BY <1>3, <1>4 DEF InflightIsRunning, Listed

LEMMA IndexKept ==
  ASSUME AInv, [Next]_vars
  PROVE  InflightIsRunning'
<1>1. CASE Untouched
  BY <1>1 DEF Untouched, AInv, InflightIsRunning
<1>2. CASE RunsScript
  BY <1>2, ScriptIndex, After DEF RunsScript
<1>3. ASSUME NEW r \in Reapers, Forget(r), gen' = gen PROVE InflightIsRunning'
  <2>1. inflight' = inflight \ {task[r].id} /\ At(r, "forget")
    BY <1>3 DEF Forget, ForgetInflight, Unindex
  <2>2. gen[task[r].id].status # "running"
    BY <2>1 DEF AInv, ReaperKnows
  <2>3. QED
    BY <1>3, <2>1, <2>2 DEF AInv, InflightIsRunning
<1>4. QED
  BY <1>1, <1>2, <1>3, After DEF Touches

LEMMA ReapersKnow ==
  ASSUME AInv, [Next]_vars, NEW r \in Reapers
  PROVE  ReaperKnows(r)'
<1> DEFINE t == task[r]
           u == task'[r]
<1>1. /\ Where(t) \in ReaperPcs => t.work \subseteq RequestIds /\ \A id \in t.work : gen[id] # Nil
      /\ t.pc = "forget" => /\ t.id \in RequestIds
                            /\ gen[t.id] # Nil /\ gen[t.id].status # "running"
  <2>1. t.pc = "forget" => Where(t) = "forget"
    BY DEF Where, LoaderPcs
  <2>2. QED
    BY <2>1, Facts, ReaperHas DEF AInv, ReaperShape, ReaperKnows, At
<1>2. inflight \subseteq RequestIds /\ \A id \in inflight : gen[id] # Nil
  BY DEF AInv, InflightIsRunning
<1>3. u.pc = "forget" => Where(u) \in ReaperPcs
  BY DEF Where, LoaderPcs, ReaperPcs
<1>4. SUFFICES /\ Where(u) \in ReaperPcs => \A id \in u.work : gen'[id] # Nil
               /\ u.pc = "forget" => gen'[u.id] # Nil /\ gen'[u.id].status # "running"
  BY DEF ReaperKnows, At
<1>5. CASE u = t
  BY <1>1, <1>3, <1>5, After DEF Kept
<1>6. CASE Rests(r)
  BY <1>3, <1>6 DEF Rests
<1>7. CASE Carries(r)
  BY <1>1, <1>7, After DEF Carries, Kept
<1>8. CASE Scans(r)
  BY <1>2, <1>8, After DEF Scans, Kept
<1>9. CASE Inspects(r)
  <2>1. Where(t) \in ReaperPcs
    BY <1>9, Facts, ReaperHas DEF Inspects, ReaperPcs
  <2>2. QED
    BY <1>1, <1>9, <2>1 DEF Inspects
<1>10. QED
  BY <1>5, <1>6, <1>7, <1>8, <1>9, Facts, OneMoves, ReaperReaps DEF Reaps

-----------------------------------------------------------------------------
(***************************************************************************)
(* What a call knows, it still knows after the step.                       *)
(***************************************************************************)

\* A call about to reserve meets its own record only if the try that made it was
\* lost: nobody has called the provider for it.
LEMMA MeetsOwn ==
  ASSUME AInv, [Next]_vars, NEW c \in Calls, NEW id, id = task[c].id,
         task[c].pc \in {"authorize", "reserve"}, task'[c].pc = "reserve",
         gen'[id] # Nil, gen'[id].reservation_token = <<c, task[c].attempt>>
  PROVE  provider_calls'[id] = 0 /\ Unsettled(id)'
<1>1. id \in RequestIds /\ Where(task[c]) = task[c].pc /\ ~Reserve(c)
  BY CallOwnCode, EndingGoes DEF CallPcs
<1>2. CASE gen[id] # Nil
  <2>1. gen[id].reservation_token = <<c, task[c].attempt>>
    BY <1>1, <1>2, After DEF Kept
  <2>2. OwnRecord(c)
    BY <1>2, <2>1 DEF OwnRecord, Token
  <2>3. task[c].pc = "reserve"
    <3> SUFFICES ASSUME task[c].pc = "authorize" PROVE FALSE
      OBVIOUS
    <3>1. <<c, task[c].attempt>>[2] < task[c].attempt
      BY <1>1, <1>2, <2>1, Facts DEF BInv, TokensFit, TokenFits
    <3>2. task[c].attempt \in Nat
      BY CallHas, CallRecordFields
    <3>3. QED
      BY <3>1, <3>2
  <2>4. provider_calls[id] = 0 /\ Unsettled(id)
    BY <2>2, <2>3, CallHas DEF CallKnows, At
  <2>5. QED
    BY <1>1, <1>2, <2>1, <2>3, <2>4, CountStays, StaysUnsettled DEF At
<1>3. CASE gen[id] = Nil
  <2>1. provider_calls[id] = 0 /\ Unsettled(id)'
    BY <1>1, <1>3, BeginsUnsettled
  <2>2. PICK inv \in Invocations :
          /\ gen'[id] = NewRecord(inv)
          /\ \/ UNCHANGED provider_calls
             \/ \E d \in Calls : Reserve(d) /\ inv = ReserveInvocation(d)
    BY <1>1, <1>3, Begins
  <2>3. ASSUME NEW d \in Calls, Reserve(d), inv = ReserveInvocation(d) PROVE FALSE
    <3>1. inv.token = Token(d)
      BY <2>3 DEF ReserveInvocation
    <3>2. <<c, task[c].attempt>> = Token(d)
      BY <2>2, <3>1, NewRecordHas
    <3>3. d = c
      BY <3>2 DEF Token
    <3>4. QED
      BY <1>1, <2>3, <3>3
  <2>4. QED
    BY <2>1, <2>2, <2>3
<1>4. QED
  BY <1>2, <1>3

LEMMA Reserves ==
  ASSUME AInv, [Next]_vars, NEW c \in Calls, Reserve(c), NEW id, id = task[c].id
  PROVE  /\ gen'[id] # Nil /\ gen'[id].reservation_token[1] = c
         /\ Unsettled(id)'
<1> DEFINE inv == ReserveInvocation(c)
<1>1. /\ At(c, "reserve") /\ id \in RequestIds /\ inv.id = id /\ inv.script = "RESERVE"
      /\ inv.token = Token(c) /\ Token(c)[1] = c
      /\ ReserveReply(inv) = "OK" \/ OwnRecord(c)
      /\ Execute(inv)
  BY CallOwnCode DEF Reserve, At, CallPcs, ReserveInvocation, Token
<1>2. inv \in ReserveInvocations
  BY <1>1, Facts, ReserveFitsSender
<1> HIDE DEF inv
<1>3. CASE ReserveReply(inv) = "OK"
  <2>1. gen[id] = Nil /\ gen' = [gen EXCEPT ![id] = NewRecord(inv)]
    BY <1>1, <1>3, ReserveOK DEF Execute, RESERVE
  <2>2. gen'[id] = NewRecord(inv)
    BY <1>1, <2>1, Facts DEF KeysOK
  <2>3. NewRecord(inv) # Nil
    BY <1>2, NilAssumption DEF NewRecord, Records, Statuses, ReserveInvocations
  <2>4. QED
    BY <1>1, <2>1, <2>2, <2>3, NewRecordHas, BeginsUnsettled
<1>4. CASE OwnRecord(c)
  <2>1. gen[id] # Nil /\ gen[id].reservation_token[1] = c
    BY <1>1, <1>4 DEF OwnRecord
  <2>2. Unsettled(id)
    BY <1>1, <1>4, CallHas DEF CallKnows
  <2>3. Unsettled(id)'
    BY <1>1, <2>1, <2>2, StaysUnsettled DEF At
  <2>4. QED
    BY <1>1, <2>1, <2>3, After DEF Kept
<1>5. QED
  BY <1>1, <1>3, <1>4

\* The record of a call that is ending, after the step.
LEMMA StaysOwned ==
  ASSUME AInv, [Next]_vars, NEW c \in Calls, task[c].pc \in EndingPcs,
         NEW id, id = task[c].id, NEW cost, cost = task[c].charged
  PROVE  /\ gen'[id] # Nil /\ gen'[id].reservation_token[1] = c
         /\ task[c].pc \in {"provider", "refund"} => Unsettled(id)'
         /\ task[c].pc = "settle" => SettledAs(id, cost)'
<1>1. id \in RequestIds /\ gen[id] # Nil /\ gen[id].reservation_token[1] = c
  BY CallRecord, CallHas DEF CallKnows, Owned
<1>2. gen'[id] # Nil /\ gen'[id].reservation_token[1] = c
  BY <1>1, After DEF Kept
<1>3. ASSUME task[c].pc \in {"provider", "refund"} PROVE Unsettled(id)'
  BY <1>1, <1>3, CallHas, StaysUnsettled DEF CallKnows, At
<1>4. ASSUME task[c].pc = "settle" PROVE SettledAs(id, cost)'
  BY <1>1, <1>4, CallHas, StaysSettledAs DEF CallKnows
<1>5. QED
  BY <1>2, <1>3, <1>4

\* CallKnows after the step, of a call that has become u.
UnsettledNext(id) ==
  /\ gen'[id].status # "done"
  /\ \A inv \in late' : inv.script = "SETTLE" => inv.id # id

SettledNext(id, cost) ==
  /\ gen'[id].status = "done" => gen'[id].billed_cost_usd = cost
  /\ \A inv \in late' : (inv.script = "SETTLE" /\ inv.id = id) =>
       inv.billed_cost_usd = cost

KnowsNext(c, u) ==
  /\ (u.pc = "reserve" /\ gen'[u.id] # Nil
                       /\ gen'[u.id].reservation_token = <<c, u.attempt>>) =>
       provider_calls'[u.id] = 0 /\ UnsettledNext(u.id)
  /\ u.pc = "wait" => gen'[u.id] # Nil /\ SamePayload(u.work, gen'[u.id])
  /\ u.pc \in EndingPcs => gen'[u.id].reservation_token[1] = c /\ u.attempt = 0
  /\ u.pc \in {"provider", "refund"} => UnsettledNext(u.id)
  /\ u.pc = "settle" => SettledNext(u.id, u.charged)
  /\ u.pc = "refund" => u.outcome.kind \in {"GenerationFailed", "cancelled"}
  /\ u.pc \in LoaderPcs => u.ret = "authorize"
  /\ (u.pc = "done" /\ u.outcome.kind \in {"result", "GenerationFailed"}) =>
       u.work \in Requests

LEMMA KnowsAfter ==
  ASSUME NEW c, KnowsNext(c, task'[c])
  PROVE  CallKnows(c)'
BY DEF KnowsNext, CallKnows, UnsettledNext, SettledNext, Unsettled, SettledAs,
       OwnRecord, Owned, Token, At, SamePayload

\* The lemmas above, in these terms.
LEMMA OwnNext ==
  ASSUME AInv, [Next]_vars, NEW c \in Calls
  PROVE  LET t == task[c]
             u == task'[c]
         IN  /\ (t.pc \in {"authorize", "reserve"} /\ u.pc = "reserve"
                   /\ gen'[t.id] # Nil
                   /\ gen'[t.id].reservation_token = <<c, t.attempt>>) =>
                  provider_calls'[t.id] = 0 /\ UnsettledNext(t.id)
             /\ Reserve(c) =>
                  gen'[t.id].reservation_token[1] = c /\ UnsettledNext(t.id)
             /\ t.pc \in EndingPcs => gen'[t.id].reservation_token[1] = c
             /\ t.pc \in {"provider", "refund"} => UnsettledNext(t.id)
             /\ t.pc = "settle" => SettledNext(t.id, t.charged)
<1>1. PICK id, cost : id = task[c].id /\ cost = task[c].charged
  OBVIOUS
<1>2. ASSUME task[c].pc \in {"authorize", "reserve"}, task'[c].pc = "reserve",
             gen'[id] # Nil, gen'[id].reservation_token = <<c, task[c].attempt>>
      PROVE  provider_calls'[id] = 0 /\ UnsettledNext(id)
  BY <1>1, <1>2, MeetsOwn DEF Unsettled, UnsettledNext
<1>3. ASSUME Reserve(c)
      PROVE  gen'[id].reservation_token[1] = c /\ UnsettledNext(id)
  BY <1>1, <1>3, Reserves DEF Unsettled, UnsettledNext
<1>4. ASSUME task[c].pc \in EndingPcs
      PROVE  /\ gen'[id].reservation_token[1] = c
             /\ task[c].pc \in {"provider", "refund"} => UnsettledNext(id)
             /\ task[c].pc = "settle" => SettledNext(id, cost)
  BY <1>1, <1>4, StaysOwned
  DEF Unsettled, UnsettledNext, SettledAs, SettledNext
<1>5. QED
  BY <1>1, <1>2, <1>3, <1>4 DEF EndingPcs

LEMMA CallsKnow ==
  ASSUME AInv, [Next]_vars, NEW c \in Calls
  PROVE  CallKnows(c)'
<1> DEFINE t == task[c]
           u == task'[c]
<1>1. SUFFICES KnowsNext(c, u)
  BY KnowsAfter
<1>2. /\ CallKnows(c)
      /\ t.pc \in CallPcs => t.id \in RequestIds /\ t.work \in Requests
      /\ {"wait", "reserve", "denied", "provider", "settle", "refund"} \subseteq CallPcs
  BY CallHas, CallOwnCode DEF CallPcs
<1>3. /\ "idle" \notin LoaderPcs /\ "authorize" \notin LoaderPcs /\ "denied" \notin LoaderPcs
      /\ "done" \notin LoaderPcs /\ "wait" \notin LoaderPcs /\ "reserve" \notin LoaderPcs
      /\ LoaderPcs \cap EndingPcs = {}
      /\ \A pc \in LoaderPcs : pc # "wait" /\ pc # "reserve"
      /\ EndingPcs = {"provider", "settle", "refund"}
  BY DEF LoaderPcs, EndingPcs
<1>4. \A pc \in EndingPcs : pc \notin LoaderPcs /\ pc # "reserve" /\ pc # "wait"
  BY DEF LoaderPcs, EndingPcs
<1>5. CASE Idles(c)
  BY <1>3, <1>4, <1>5 DEF Idles, KnowsNext
<1>6. CASE Settle(c) \/ SettleStale(c) \/ RefundCall(c)
  BY <1>2, <1>3, <1>4, <1>6, EndingGoes DEF KnowsNext
<1>7. CASE Meets(c) /\ Steady
  BY <1>2, <1>3, <1>4, <1>7 DEF Meets, Steady, KnowsNext
<1>8. CASE Authorizes(c)
  BY <1>3, <1>4, <1>8, OwnNext DEF Authorizes, KnowsNext
<1>9. CASE Reserve(c)
  <2>1. u.pc = "provider" /\ u.attempt = 0 /\ u.id = t.id
    BY <1>9, EndingGoes
  <2>2. gen'[t.id].reservation_token[1] = c /\ UnsettledNext(t.id)
    BY <1>9, OwnNext
  <2>3. QED
    BY <1>3, <1>4, <2>1, <2>2 DEF KnowsNext
<1>10. CASE Proceeds(c)
  <2>1. gen'[t.id].reservation_token[1] = c /\ UnsettledNext(t.id) /\ t.attempt = 0
    BY <1>2, <1>3, <1>10, OwnNext DEF Proceeds, CallKnows
  <2>2. \A cost : SettledNext(t.id, cost)
    BY <2>1 DEF UnsettledNext, SettledNext
  <2>3. QED
    BY <1>3, <1>4, <1>10, <2>1, <2>2 DEF Proceeds, KnowsNext
<1>11. ASSUME u.pc = t.pc, u.id = t.id, u.work = t.work, u.attempt = t.attempt,
              u.charged = t.charged, u.outcome = t.outcome,
              t.pc \in LoaderPcs => u.ret = t.ret
       PROVE  KnowsNext(c, u)
  <2>1. t.pc = "wait" => gen'[t.id] # Nil /\ SamePayload(t.work, gen'[t.id])
    BY <1>2, After DEF CallKnows, At, Kept, SamePayload
  <2>2. /\ t.pc \in LoaderPcs => t.ret = "authorize"
        /\ t.pc \in EndingPcs => t.attempt = 0
        /\ t.pc = "refund" => t.outcome.kind \in {"GenerationFailed", "cancelled"}
        /\ (t.pc = "done" /\ t.outcome.kind \in {"result", "GenerationFailed"}) =>
             t.work \in Requests
    BY <1>2 DEF CallKnows
  <2> HIDE DEF t, u
  <2>3. QED
    BY <1>11, <2>1, <2>2, OwnNext DEF KnowsNext, t, u
<1>12. CASE Retries(c)
  <2>1. t.pc \notin LoaderPcs
    BY <1>12 DEF Retries, CallSending, LoaderPcs
  <2>2. QED
    BY <1>11, <1>12, <2>1 DEF Retries
<1>13. CASE u = t
  BY <1>11, <1>13
<1>14. QED
  BY <1>5, <1>6, <1>7, <1>8, <1>9, <1>10, <1>12, <1>13, CallMoved DEF Goes

-----------------------------------------------------------------------------
(***************************************************************************)
(* What the answers say.                                                   *)
(***************************************************************************)
LEMMA OwnPayload ==
  ASSUME AInv, NEW c \in Calls, task[c].pc \in EndingPcs
  PROVE  SamePayload(task[c].work, gen[task[c].id])
BY CallRecord, CallHas DEF AInv, RecordsBelong, Belongs, CallKnows, Owned

LEMMA SettleEnds ==
  ASSUME AInv, [Next]_vars, NEW c \in Calls, Settle(c)
  PROVE  LET record == gen'[task[c].id]
         IN  record.status = "done" /\ record.billed_cost_usd = task[c].charged
<1> DEFINE id == task[c].id
           inv == SettleInvocation(c)
<1>1. /\ task[c].pc = "settle" /\ task[c].pc \in EndingPcs
      /\ inv.id = id /\ inv.script = "SETTLE" /\ inv.billed_cost_usd = task[c].charged
      /\ SettleReply(inv) \in {"OK", "DONE"} /\ Execute(inv)
  BY DEF Settle, At, SettleOutcome, SettleInvocation, EndingPcs
<1>2. id \in RequestIds /\ gen[id] \in Records /\ gen[id] # Nil
  BY <1>1, CallRecord
<1> HIDE DEF inv, id
<1>3. SETTLE(inv)
  BY <1>1 DEF Execute
<1>4. CASE SettleReply(inv) = "OK"
  <2>1. gen' = [gen EXCEPT ![id] = SettledRecord(gen[id], inv)]
    BY <1>1, <1>3, <1>4 DEF SETTLE
  <2>2. gen'[id] = SettledRecord(gen[id], inv)
    BY <1>2, <2>1, Facts DEF KeysOK
  <2>3. QED
    BY <1>1, <1>2, <2>2 DEF SettledRecord, Records, id
<1>5. CASE SettleReply(inv) = "DONE"
  <2>1. gen[id].status = "done"
    <3>1. gen[id].status = "done" \/ gen[id].status = "failed" \/ gen[id].status = "running"
      BY <1>2 DEF Records, Statuses
    <3>2. QED
      BY <1>1, <1>2, <1>5, <3>1, SMT DEF SettleReply
  <2>2. SettledAs(id, task[c].charged)
    BY <1>1, CallHas DEF CallKnows, id
  <2>3. gen'[id] = gen[id]
    BY <1>2, <2>1, After DEF Kept
  <2>4. QED
    BY <2>1, <2>2, <2>3 DEF SettledAs, id
<1>6. QED
  BY <1>1, <1>4, <1>5

LEMMA StaleEnds ==
  ASSUME AInv, NEW c \in Calls, SettleStale(c)
  PROVE  gen'[task[c].id].status = "failed"
<1> DEFINE id == task[c].id
           inv == SettleInvocation(c)
<1>1. /\ task[c].pc \in EndingPcs /\ inv.id = id /\ SettleReply(inv) = "STALE"
      /\ gen' = gen
  BY DEF SettleStale, At, SettleOutcome, SettleInvocation, EndingPcs, redis
<1>2. gen[id] \in Records /\ gen[id] # Nil
  BY <1>1, CallRecord
<1> HIDE DEF inv, id
<1>3. gen[id].status = "done" \/ gen[id].status = "failed" \/ gen[id].status = "running"
  BY <1>2 DEF Records, Statuses
<1>4. gen[id].status = "failed"
  BY <1>1, <1>2, <1>3, SMT DEF SettleReply
<1>5. QED
  BY <1>1, <1>4 DEF id

LEMMA RefundEnds ==
  ASSUME AInv, [Next]_vars, NEW c \in Calls, RefundCall(c)
  PROVE  gen'[task[c].id].status = "failed"
<1> DEFINE id == task[c].id
           inv == RefundInvocation(c)
<1>1. /\ task[c].pc = "refund" /\ task[c].pc \in EndingPcs
      /\ inv.id = id /\ inv.script = "REFUND"
      /\ RefundReply(inv) \in {"OK", "STALE"} /\ Execute(inv)
  BY DEF RefundCall, RefundReturns, At, RefundInvocation, EndingPcs
<1>2. id \in RequestIds /\ gen[id] \in Records /\ gen[id] # Nil
  BY <1>1, CallRecord
<1>3. gen[id].status # "done"
  BY <1>1, CallHas DEF CallKnows, Unsettled
<1> HIDE DEF inv, id
<1>4. REFUND(inv)
  BY <1>1 DEF Execute
<1>5. CASE RefundReply(inv) = "OK"
  <2> DEFINE failed == [gen[id] EXCEPT !.status = "failed"]
  <2>1. gen' = [gen EXCEPT ![id] = failed]
    BY <1>1, <1>4, <1>5 DEF REFUND
  <2>2. gen'[id] = failed
    BY <1>2, <2>1, Facts DEF KeysOK
  <2>3. QED
    BY <1>2, <2>2 DEF Records, id
<1>6. CASE RefundReply(inv) = "STALE"
  <2>1. gen[id].status # "running"
    <3> SUFFICES ASSUME gen[id].status = "running" PROVE FALSE
      OBVIOUS
    <3>1. bal[gen[id].user_id] # Nil /\ gen[id].user_id = inv.user_id
      BY <1>1, <1>2, CallRecord DEF AInv, BalancesStay, id, inv, RefundInvocation
    <3>2. QED
      BY <1>1, <1>2, <1>6, <3>1, SMT DEF RefundReply
  <2>2. gen[id].status = "failed"
    BY <1>2, <1>3, <2>1 DEF Records, Statuses
  <2>3. QED
    BY <1>2, <2>1, <2>2, After DEF Kept, id
<1>7. QED
  BY <1>1, <1>5, <1>6

\* The answer of u is one OutcomeIsRecorded speaks of, and what it says of it.
Answered(u) == u.pc = "done" /\ u.outcome.kind \in {"result", "GenerationFailed"}

Agrees(u, record) ==
  /\ record # Nil
  /\ record.dialog_id = u.work.dialog_id
  /\ record.model_name = u.work.model_name
  /\ u.outcome.kind = "result" =>
       /\ record.status = "done"
       /\ record.billed_cost_usd \in {u.outcome.billed_cost_usd, 0}
  /\ u.outcome.kind = "GenerationFailed" => record.status = "failed"

LEMMA AnswerAgrees ==
  ASSUME AInv, NEW c \in Calls, Answered(task[c])
  PROVE  Agrees(task[c], gen[task[c].work.client_request_id])
BY DEF AInv, OutcomeIsRecorded, Finished, RecordOf, Request, Answered, Agrees

\* A call that ends one way or the other has the id of its request.
LEMMA EndingAgrees ==
  ASSUME AInv, [Next]_vars, NEW c \in Calls,
         Settle(c) \/ SettleStale(c) \/ RefundCall(c), Answered(task'[c])
  PROVE  Agrees(task'[c], gen'[task'[c].work.client_request_id])
<1> DEFINE t == task[c]
           u == task'[c]
           id == t.id
<1>1. t.pc \in EndingPcs /\ t.pc \in CallPcs /\ u.work = t.work /\ u.pc = "done"
  BY EndingGoes DEF EndingPcs, CallPcs
<1>2. id = t.work.client_request_id /\ id \in RequestIds
  BY <1>1, CallOwnCode
<1>3. gen[id] # Nil /\ SamePayload(t.work, gen[id])
  BY <1>1, CallRecord, OwnPayload
<1>4. /\ gen'[id] # Nil /\ gen'[id].dialog_id = t.work.dialog_id
      /\ gen'[id].model_name = t.work.model_name
  BY <1>2, <1>3, After DEF Kept, SamePayload
<1>5. CASE Settle(c)
  <2>1. u.outcome.kind = "result" /\ u.outcome.billed_cost_usd = t.charged
    <3>1. u.outcome = Returned(t.charged)
      BY <1>5, EndingGoes
    <3>2. QED
      BY <3>1 DEF Returned
  <2>2. gen'[id].status = "done" /\ gen'[id].billed_cost_usd = t.charged
    BY <1>5, SettleEnds
  <2> HIDE DEF t, u, id
  <2>3. QED
    BY <1>1, <1>2, <1>4, <2>1, <2>2 DEF Agrees, t, u
<1>6. CASE SettleStale(c)
  <2>1. u.outcome.kind = "GenerationFailed"
    BY <1>6, EndingGoes DEF Raised
  <2>2. gen'[id].status = "failed"
    BY <1>6, StaleEnds
  <2> HIDE DEF t, u, id
  <2>3. QED
    BY <1>1, <1>2, <1>4, <2>1, <2>2 DEF Agrees, t, u
<1>7. CASE RefundCall(c)
  <2>1. u.outcome.kind # "result"
    BY <1>7, EndingGoes, CallHas DEF CallKnows
  <2>2. gen'[id].status = "failed"
    BY <1>7, RefundEnds
  <2> HIDE DEF t, u, id
  <2>3. QED
    BY <1>1, <1>2, <1>4, <2>1, <2>2 DEF Agrees, t, u
<1>8. QED
  BY <1>5, <1>6, <1>7

LEMMA MeetingAgrees ==
  ASSUME AInv, NEW c \in Calls, Meets(c), Steady, Answered(task'[c])
  PROVE  Agrees(task'[c], gen'[task'[c].work.client_request_id])
<1> DEFINE t == task[c]
           u == task'[c]
           id == t.id
<1>1. u.work = t.work /\ u.pc = "done" /\ gen' = gen
  BY DEF Meets, Steady, Answered
<1>2. id = t.work.client_request_id
  BY CallOwnCode DEF Meets, CallPcs
<1>3. /\ gen[id] # Nil
      /\ gen[id].dialog_id = t.work.dialog_id /\ gen[id].model_name = t.work.model_name
  BY DEF Meets, SamePayload
<1>4. \/ /\ u.outcome.kind = "result" /\ gen[id].status = "done"
         /\ u.outcome.billed_cost_usd = RedeliveredCost(gen[id])
      \/ u.outcome.kind = "GenerationFailed" /\ gen[id].status = "failed"
  BY <1>1 DEF Meets
<1> HIDE DEF t, u, id
<1>5. QED
  BY <1>1, <1>2, <1>3, <1>4 DEF Agrees, RedeliveredCost, t, u

LEMMA OutcomesKept ==
  ASSUME AInv, [Next]_vars
  PROVE  OutcomeIsRecorded'
<1>1. ASSUME NEW c \in Calls, Answered(task'[c])
      PROVE  Agrees(task'[c], gen'[task'[c].work.client_request_id])
  <2>1. CASE task'[c] = task[c]
    <3> DEFINE id == task[c].work.client_request_id
    <3>1. Agrees(task[c], gen[id]) /\ task[c].work \in Requests
      BY <1>1, <2>1, AnswerAgrees, CallHas DEF CallKnows, Answered
    <3>2. id \in RequestIds
      BY <3>1, InputsAssumption
    <3>3. gen'[id] = gen[id]
      BY <1>1, <2>1, <3>1, <3>2, After DEF Kept, Agrees, Answered
    <3>4. QED
      BY <2>1, <3>1, <3>3
  <2>2. CASE Settle(c) \/ SettleStale(c) \/ RefundCall(c)
    BY <1>1, <2>2, EndingAgrees
  <2>3. CASE Meets(c) /\ Steady
    BY <1>1, <2>3, MeetingAgrees
  <2>4. CASE Idles(c) \/ Authorizes(c) \/ Proceeds(c) \/ Retries(c) \/ Reserve(c)
    BY <1>1, <2>4, EndingGoes
    DEF Idles, Authorizes, Proceeds, Retries, CallSending, LoaderPcs, Answered
  <2>5. QED
    BY <2>1, <2>2, <2>3, <2>4, CallMoved DEF Goes
<1>2. QED
  BY <1>1 DEF OutcomeIsRecorded, Finished, RecordOf, Request, Answered, Agrees

-----------------------------------------------------------------------------
(***************************************************************************)
(* While nothing is lost, what runs has its owner.                         *)
(***************************************************************************)
LEMMA OwnersKept ==
  ASSUME AInv, [Next]_vars, faults' = 0, NEW id \in RequestIds,
         gen'[id] # Nil, gen'[id].status = "running"
  PROVE  \E c \in Calls :
           /\ gen'[id].reservation_token[1] = c
           /\ task'[c].pc \in EndingPcs /\ task'[c].id = id
<1>1. faults = 0 /\ late = {}
  BY After DEF Losses, AInv, OwnersStay
<1>2. CASE gen[id] = Nil
  <2>1. PICK inv \in Invocations :
          /\ inv.script = "RESERVE" /\ inv.id = id /\ gen'[id] = NewRecord(inv)
          /\ \/ inv \in late /\ UNCHANGED <<task, provider_calls>>
             \/ \E c \in Calls : Reserve(c) /\ inv = ReserveInvocation(c)
    BY <1>2, Begins
  <2>2. PICK c \in Calls : Reserve(c) /\ inv = ReserveInvocation(c)
    BY <1>1, <2>1
  <2>3. task'[c].pc = "provider" /\ task'[c].id = task[c].id /\ At(c, "reserve")
    BY <2>2, EndingGoes DEF At
  <2>4. inv.id = task[c].id /\ inv.token[1] = c
    BY <2>2, <2>3, ReserveBelongs
  <2>5. gen'[id].reservation_token[1] = c
    BY <2>1, <2>4, NewRecordHas
  <2>6. QED
    BY <2>1, <2>3, <2>4, <2>5 DEF EndingPcs
<1>3. CASE gen[id] # Nil
  <2> DEFINE c == gen[id].reservation_token[1]
  <2>1. gen[id].status = "running"
    BY <1>3, After DEF Kept
  <2>2. id \in inflight
    BY <1>3, <2>1 DEF AInv, InflightIsRunning
  <2>3. c \in Calls /\ task[c].pc \in EndingPcs /\ task[c].id = id
    BY <1>1, <1>3, <2>2, TokenOwner DEF AInv, OwnersStay
  <2>4. gen'[id].reservation_token[1] = c
    BY <1>3, After DEF Kept
  <2> HIDE DEF c
  <2>5. ~Settle(c) /\ ~SettleStale(c) /\ ~RefundCall(c)
    BY <2>3, SettleEnds, StaleEnds, RefundEnds
  <2>6. ~Idles(c) /\ ~Retries(c)
    BY <2>3 DEF Idles, Retries
  <2>7. ~Meets(c) /\ ~Authorizes(c) /\ ~Reserve(c)
    BY <2>3, EndingGoes DEF Meets, Authorizes, EndingPcs
  <2>8. task'[c] = task[c] \/ Proceeds(c)
    BY <2>3, <2>5, <2>6, <2>7, CallMoved DEF Goes
  <2>9. task'[c].pc \in EndingPcs /\ task'[c].id = id
    BY <2>3, <2>8 DEF Proceeds, EndingPcs
  <2>10. QED
    BY <2>3, <2>4, <2>9
<1>4. QED
  BY <1>2, <1>3

LEMMA OwnersStayKept ==
  ASSUME AInv, [Next]_vars
  PROVE  OwnersStay'
<1>1. ASSUME faults' = 0 PROVE late' = {}
  BY <1>1, After DEF Losses, AInv, OwnersStay
<1>2. inflight' = {id \in RequestIds : gen'[id] # Nil /\ gen'[id].status = "running"}
  BY IndexKept DEF InflightIsRunning
<1>3. ASSUME faults' = 0, NEW id \in inflight'
      PROVE  /\ task'[gen'[id].reservation_token[1]].pc \in EndingPcs
             /\ task'[gen'[id].reservation_token[1]].id = id
  BY <1>2, <1>3, OwnersKept
<1>4. QED
  BY <1>1, <1>3 DEF OwnersStay

-----------------------------------------------------------------------------
LEMMA InitAnswers == Init => AInv
<1> SUFFICES ASSUME Init PROVE AInv
  OBVIOUS
<1>1. BInv
  BY InitFits
<1>2. \A id \in RequestIds : gen[id] = Nil /\ provider_calls[id] = 0
  BY DEF Init, StoreInit
<1>3. late = {} /\ inflight = {}
  BY DEF Init, StoreInit
<1>4. \A a \in Tasks : task[a] = Blank
  BY DEF Init
<1>5. Blank.pc = "idle" /\ Blank.ret = "idle"
  BY DEF Blank
<1>6. \A c \in Calls : c \in Tasks /\ task[c].pc = "idle"
  BY <1>4, <1>5, RolesAssumption
<1>7. \A c \in Calls : CallKnows(c)
  BY <1>6 DEF CallKnows, At, EndingPcs, LoaderPcs
<1>8. \A r \in Reapers : ReaperKnows(r)
  <2> TAKE r \in Reapers
  <2>1. r \in Tasks /\ task[r] = Blank
    BY <1>4, RolesAssumption
  <2>2. Where(task[r]) = "idle" /\ task[r].pc = "idle"
    BY <1>5, <2>1 DEF Where, LoaderPcs
  <2>3. QED
    BY <2>2 DEF ReaperKnows, ReaperPcs, At
<1>9. RecordsBelong /\ BalancesStay /\ OwnersStay
  BY <1>2, <1>3 DEF RecordsBelong, BalancesStay, OwnersStay
<1>10. InflightIsRunning /\ ProviderOnce
  BY <1>2, <1>3 DEF InflightIsRunning, ProviderOnce
<1>11. OutcomeIsRecorded
  BY <1>6 DEF OutcomeIsRecorded, Finished
<1>12. QED
  BY <1>1, <1>7, <1>8, <1>9, <1>10, <1>11 DEF AInv

LEMMA NextAnswers == AInv /\ [Next]_vars => AInv'
<1> SUFFICES ASSUME AInv, [Next]_vars PROVE AInv'
  OBVIOUS
<1>1. BInv' /\ RecordsBelong' /\ BalancesStay' /\ OwnersStay'
  BY After, BelongsStay, BalancesKept, OwnersStayKept
<1>2. \A c \in Calls : CallKnows(c)'
  BY CallsKnow
<1>3. \A r \in Reapers : ReaperKnows(r)'
  BY ReapersKnow
<1>4. InflightIsRunning' /\ ProviderOnce' /\ OutcomeIsRecorded'
  BY IndexKept, OnceKept, OutcomesKept
<1>5. QED
  BY <1>1, <1>2, <1>3, <1>4 DEF AInv

\* AInv is an invariant of the service, for any number of clients, deliveries,
\* users, reapers and faults: a reservation belongs to one call by its token, and
\* what that call knows of it stays true until it ends it.
THEOREM AInvInvariant == Spec => []AInv
<1>1. AInv /\ UNCHANGED vars => AInv'
  BY NextAnswers
<1>2. QED
  BY <1>1, InitAnswers, NextAnswers, PTL DEF Spec

\* The provider is called at most once for a client_request_id, and only for a
\* reservation that was made, however often a request is delivered or RESERVE is
\* retried after a lost reply (the reservation token).
THEOREM ProviderCalledOnce == Spec => []ProviderOnce
<1>1. AInv => ProviderOnce
  BY DEF AInv
<1>2. QED
  BY <1>1, AInvInvariant, PTL

\* The reaper's index holds the ids of the running reservations, all of them and
\* no others, although two scripts and forget_inflight write it.
THEOREM IndexExact == Spec => []InflightIsRunning
<1>1. AInv => InflightIsRunning
  BY DEF AInv
<1>2. QED
  BY <1>1, AInvInvariant, PTL

\* A client that has a result was charged, one that was told of a failure was
\* not, and either answer is about the payload it sent.
THEOREM AnswersAgree == Spec => []OutcomeIsRecorded
<1>1. AInv => OutcomeIsRecorded
  BY DEF AInv
<1>2. QED
  BY <1>1, AInvInvariant, PTL

\* While nothing is lost, every running reservation has the call that made it
\* still working on it.
THEOREM RunningOwned == Spec => []RunningHasOwner
<1>1. AInv => RunningHasOwner
  <2> SUFFICES ASSUME AInv, faults = 0, NEW id \in inflight
               PROVE  \E c \in Calls : /\ task[c].id = id
                                       /\ Ending(c)
                                       /\ gen[id].reservation_token[1] = c
    BY DEF RunningHasOwner
  <2>1. id \in RequestIds /\ gen[id] # Nil
    BY DEF AInv, InflightIsRunning
  <2>2. gen[id].reservation_token[1] \in Calls
    BY <2>1, TokenOwner
  <2>3. QED
    BY <2>2 DEF AInv, OwnersStay, Ending, EndingPcs
<1>2. QED
  BY <1>1, AInvInvariant, PTL

-----------------------------------------------------------------------------
\* Only the branch of _denied_or_duplicate that found no record denies.
LEMMA DeniesUnrecorded ==
  ASSUME AInv, [Next]_vars, NEW c \in Calls, Denied(c)', ~Denied(c)
  PROVE  Unrecorded(c) /\ Steady /\ task'[c].work = task[c].work
<1>1. /\ task'[c].pc = "done" /\ task'[c].outcome.kind \in AccessErrors
      /\ task'[c].outcome.kind \notin {"result", "GenerationFailed", "cancelled"}
  BY DEF Denied, Finished, AccessErrors
<1>2. task'[c] # task[c]
  BY <1>1 DEF Denied, Finished
<1>3. ~Settle(c) /\ ~SettleStale(c) /\ ~RefundCall(c) /\ ~Reserve(c)
  <2>1. task'[c].pc # "provider"
    BY <1>1
  <2>2. \A cost : task'[c].outcome # Returned(cost)
    BY <1>1 DEF Returned
  <2>3. task'[c].outcome # Raised("GenerationFailed")
    BY <1>1 DEF Raised
  <2>4. task[c].pc = "refund" => task'[c].outcome # task[c].outcome
    BY <1>1, CallHas DEF CallKnows
  <2>5. QED
    BY <2>1, <2>2, <2>3, <2>4, EndingGoes
<1>4. ~Meets(c) /\ ~Authorizes(c) /\ ~Proceeds(c) /\ ~Retries(c)
  BY <1>1 DEF Meets, Authorizes, Proceeds, Retries, CallSending
<1>5. Idles(c) /\ Steady
  BY <1>2, <1>3, <1>4, CallMoved DEF Goes
<1>6. Unrecorded(c)
  BY <1>1, <1>5 DEF Idles, LoaderPcs
<1>7. QED
  BY <1>5, <1>6 DEF Idles, Unrecorded

\* A delivery whose first one has debited the balance, or done its work, is never
\* denied for the money or the free request that one took: where a call is denied
\* its id has no record and the provider was not called for it
\* (_denied_or_duplicate).
THEOREM DenialsAreNew == Spec => OnlyNewIdsAreDenied
<1> DEFINE A == \A c \in Calls : (Denied(c)' /\ ~Denied(c)) =>
                  /\ RecordOf(c)' = Nil
                  /\ provider_calls'[Request(c)'.client_request_id] = 0
<1>1. AInv /\ [Next]_vars => [A]_vars
  <2> SUFFICES ASSUME AInv, [Next]_vars, NEW c \in Calls, Denied(c)', ~Denied(c)
               PROVE  LET id == task'[c].work.client_request_id
                      IN  gen'[id] = Nil /\ provider_calls'[id] = 0
    BY DEF RecordOf, Request
  <2> DEFINE id == task[c].id
  <2>1. /\ task[c].pc = "denied" /\ gen[id] = Nil
        /\ gen' = gen /\ provider_calls' = provider_calls
        /\ task'[c].work = task[c].work
    BY DeniesUnrecorded DEF Unrecorded, Steady
  <2>2. id = task[c].work.client_request_id /\ id \in RequestIds
    BY <2>1, CallOwnCode DEF CallPcs
  <2>3. provider_calls[id] \in Nat
    BY <2>2, Facts
  <2>4. provider_calls[id] <= 1 /\ (provider_calls[id] = 1 => gen[id] # Nil)
    BY <2>2 DEF AInv, ProviderOnce
  <2> HIDE DEF id
  <2>5. provider_calls[id] = 0
    BY <2>1, <2>3, <2>4
  <2>6. QED
    BY <2>1, <2>2, <2>5
<1>2. QED
  BY <1>1, AInvInvariant, PTL DEF Spec, OnlyNewIdsAreDenied
=============================================================================
