-------------------------------- MODULE Billing --------------------------------
(***************************************************************************)
(* The running service: deliveries of generations, deliveries of top-ups   *)
(* and readers of balances, in any number of processes, with the reapers   *)
(* of the background processes, all on one store.  Redis keeps its data    *)
(* here (RedisServer takes that away) and the rows of PostgreSQL are the   *)
(* ones the service was started on (BalanceFlusher writes them).           *)
(***************************************************************************)
EXTENDS GenerationService, BalanceService, ReservationReaper, FiniteSetsExt

CONSTANTS
  InitialRows,    \* the PostgreSQL tables a run may start from
  StartsCold      \* are the balances absent from Redis at the start

ASSUME RolesAssumption ==
  /\ Calls \cup TopUps \cup Readers \cup Reapers = Tasks
  /\ Calls \cap TopUps = {} /\ Calls \cap Readers = {} /\ Calls \cap Reapers = {}
  /\ TopUps \cap Readers = {} /\ TopUps \cap Reapers = {}
  /\ Readers \cap Reapers = {}
  /\ Nil \notin Tasks

ASSUME InputsAssumption ==
  /\ Requests \subseteq
       [user_id : Users, dialog_id : Dialogs, client_request_id : RequestIds,
        model_name : STRING, conditional_free_eligible : BOOLEAN]
  /\ Commands \subseteq
       [operation_id : OperationIds, user_id : Users, paid_usd : Int,
        bonus_usd : Int, free_requests : Int]
  /\ Bills \subseteq Int

ASSUME TokensAssumption == Calls \X (0 .. RESERVE_MAX_ATTEMPTS) \subseteq Tokens

ASSUME RowsAssumption == InitialRows \subseteq [Users -> Balances \cup {Nil}]

vars == <<redis, row, network, task, lock, provider_calls>>

Warm(user) == IF StartsCold THEN Nil ELSE StoredBalance(user)

Init ==
  /\ row \in InitialRows
  /\ StoreInit
  /\ bal = [u \in Users |-> Warm(u)]
  /\ LoaderInit
  /\ task = [a \in Tasks |-> Blank]
  /\ provider_calls = [id \in RequestIds |-> 0]

\* Every delivery is answered and no reaper has anything left to reap: the
\* service waits for its clients.
Quiet ==
  /\ \A a \in Tasks \ Reapers : At(a, "done")
  /\ \A r \in Reapers : At(r, "idle")
  /\ inflight = {} \/ Reapers = {}
  /\ UNCHANGED vars

Next ==
  \/ Quiet
  \/ \E c \in Calls : CallStep(c)
  \/ /\ \/ \E t \in TopUps : TopUpStep(t)
        \/ \E t \in Readers : ReaderStep(t)
        \/ \E r \in Reapers : ReaperStep(r)
        \/ \E u \in Users : LockExpires(u)
     /\ UNCHANGED provider_calls
  \/ /\ \E inv \in late : Land(inv)
     /\ UNCHANGED <<task, lock, provider_calls>>

Spec == Init /\ [][Next]_vars

(***************************************************************************)
(* Fairness.  Every task of the service is a coroutine the event loop      *)
(* resumes: what it can do it eventually does, unless a fault takes it     *)
(* away.  The provider call always ends, PROVIDER_TIMEOUT_SECONDS sees to  *)
(* it; a waiter's deadline passes; a lock's TTL runs out.  The reaper      *)
(* scans again and again, and a reservation that stays in the index grows  *)
(* old and is in some batch: strong fairness, for the reaper is busy in    *)
(* between.  Nothing is assumed of clients, of faults, or of late scripts. *)
(***************************************************************************)
CallFairness(c) ==
  /\ WF_vars(CallProgress(c))
  /\ WF_vars(EnsureProgress(c) /\ UNCHANGED provider_calls)

ReaperFairness(r) ==
  /\ WF_vars(ReaperProgress(r) /\ UNCHANGED provider_calls)
  /\ WF_vars(EnsureProgress(r) /\ UNCHANGED provider_calls)
  /\ \A id \in RequestIds :
       SF_vars(/\ \E batch \in SUBSET inflight :
                    id \in batch /\ StaleInflight(r, batch)
               /\ UNCHANGED provider_calls)

Fairness ==
  /\ \A c \in Calls : CallFairness(c)
  /\ \A t \in TopUps :
       WF_vars((TopUpProgress(t) \/ EnsureProgress(t)) /\ UNCHANGED provider_calls)
  /\ \A r \in Reapers : ReaperFairness(r)
  /\ \A u \in Users : WF_vars(LockExpires(u) /\ UNCHANGED provider_calls)


-----------------------------------------------------------------------------
CallPcs ==
  {"authorize", "reserve", "denied", "wait", "provider", "settle", "refund"}
ReaperPcs == {"inspect", "forget", "refund"}

\* The locals of a task that works on something in works.
TaskRecords(pcs, works) ==
  [pc : pcs \cup LoaderPcs \cup {"idle", "done"}, ret : pcs \cup {"idle"},
   work : works \cup {Nil}, user_id : Users \cup {Nil},
   id : RequestIds \cup OperationIds \cup {Nil},
   snap : Snapshots \cup {Nil}, auth : Authorizations \cup Refusals \cup {Nil},
   plan : DebitPlans, charged : Nat, refund : DebitPlans,
   attempt : 0 .. RESERVE_MAX_ATTEMPTS, tries : 0 .. RETRY_ATTEMPTS,
   outcome : Outcomes \cup {Nil}]

TaskTypeOK ==
  /\ DOMAIN task = Tasks
  /\ \A c \in Calls : task[c] \in TaskRecords(CallPcs, Requests)
  /\ \A t \in TopUps : task[t] \in TaskRecords({"top_up"}, Commands)
  /\ \A t \in Readers : task[t] \in TaskRecords({"balance"}, Snapshots)
  /\ \A r \in Reapers : task[r] \in TaskRecords(ReaperPcs, SUBSET RequestIds)

TypeOK ==
  /\ StoreTypeOK
  /\ TaskTypeOK
  /\ lock \in [Users -> Tasks \cup {Nil}]
  /\ provider_calls \in [RequestIds -> Nat]

-----------------------------------------------------------------------------
Solvent(balance) ==
  /\ \A b \in Buckets : balance[b] >= 0
  /\ balance.free_requests >= 0

\* No bucket and no free request is ever overdrawn, by any interleaving of
\* reservations, settlements, refunds and top-ups, repeated or late (RESERVE
\* applies a plan only to the balance it was made for).
NonNegative == \A u \in Users : bal[u] # Nil => Solvent(bal[u])

RecordsOf(u) == {id \in RequestIds : gen[id] # Nil /\ gen[id].user_id = u}

\* What a generation costs its user, as far as it has come.
Cost(record) ==
  CASE record.status = "running" -> total_usd(record.plan)
    [] record.status = "done"    -> record.billed_cost_usd
    [] record.status = "failed"  -> 0

RequestsTaken(record) ==
  IF record.status = "failed" THEN 0 ELSE record.plan.free_requests

\* Nothing is lost and nothing invented: what a balance holds is what it started
\* with, plus every top-up counted once, as one of the commands with its id has it,
\* minus the plans of the running generations and the charges of the finished
\* ones, whose free requests stay consumed.  A failed generation costs nothing; a
\* refund, a settlement or a top-up that is retried, redelivered or late counts once.
Conservation ==
  \E credited \in [topup -> Commands] :
    /\ \A op \in topup : credited[op].operation_id = op
    /\ \A u \in Users : bal[u] # Nil =>
         LET ops == {op \in topup : credited[op].user_id = u}
         IN  /\ total_usd(bal[u]) =
                  total_usd(StoredBalance(u))
                    + SumFunction([op \in ops |->
                                     total_usd(CommandAmounts(credited[op]))])
                    - SumFunction([id \in RecordsOf(u) |-> Cost(gen[id])])
             /\ bal[u].free_requests =
                  StoredBalance(u).free_requests
                    + SumFunction([op \in ops |->
                                     CommandAmounts(credited[op]).free_requests])
                    - SumFunction([id \in RecordsOf(u) |-> RequestsTaken(gen[id])])

\* The provider is called at most once for a client_request_id, however often
\* the request is delivered and whatever is lost in between; and only for a
\* reservation that was made.
ProviderOnce ==
  \A id \in RequestIds :
    /\ provider_calls[id] <= 1
    /\ provider_calls[id] = 1 => gen[id] # Nil

\* The reaper's index and the records agree: nothing running is missing from it,
\* nothing finished stays in it.
InflightIsRunning ==
  inflight = {id \in RequestIds : gen[id] # Nil /\ gen[id].status = "running"}

Finished(c, kind) == task[c].pc = "done" /\ task[c].outcome.kind = kind

RecordOf(c) == gen[Request(c).client_request_id]

\* A client that was given a result was charged for it: its record is done, and
\* the cost it was told is the cost recorded (a zero charge apart, which
\* RedeliveryReportsCharge is about).  One that was told its generation failed
\* has a failed record, so its plan is back or it never paid.  Either answer is
\* about the payload it sent.
OutcomeIsRecorded ==
  \A c \in Calls :
    /\ Finished(c, "result") \/ Finished(c, "GenerationFailed") =>
         /\ RecordOf(c) # Nil
         /\ RecordOf(c).dialog_id = Request(c).dialog_id
         /\ RecordOf(c).model_name = Request(c).model_name
    /\ Finished(c, "result") =>
         /\ RecordOf(c).status = "done"
         /\ RecordOf(c).billed_cost_usd
              \in {task[c].outcome.billed_cost_usd, 0}
    /\ Finished(c, "GenerationFailed") => RecordOf(c).status = "failed"

\* A call that holds a reservation and will end it.
Ending(c) ==
  \/ task[c].pc \in {"provider", "settle", "refund"}
  \/ task[c].ret \in {"settle", "refund"}

\* While nothing is lost, every running reservation has the call that made it
\* still working on it: no refusal, no duplicate, no retry that gives up and no
\* cancelled provider call leaves money held by nobody (execute_generation's
\* except BaseException; RESERVE as one step).
RunningHasOwner ==
  faults = 0 =>
    \A id \in inflight :
      \E c \in Calls :
        /\ task[c].id = id
        /\ Ending(c)
        /\ gen[id].reservation_token[1] = c

\* The cost in the answer is the amount charged, at the first delivery and at
\* every later one.
RedeliveryReportsCharge ==
  \A c \in Calls :
    Finished(c, "result") =>
      task[c].outcome.billed_cost_usd = RecordOf(c).billed_cost_usd

-----------------------------------------------------------------------------
\* Every plan that is applied is the plan the policy makes of the very balance
\* it is applied to, for a request somebody sent (compare-and-set on version).
PlansArePoliced ==
  [][\A id \in RequestIds : (gen[id] = Nil /\ gen'[id] # Nil) =>
       \E request \in Requests :
         /\ request.client_request_id = id
         /\ SamePayload(request, gen'[id])
         /\ LET auth == Authorize(request, bal[request.user_id])
            IN  /\ auth.verdict = "authorized"
                /\ gen'[id].plan = auth.debit_plan
                /\ gen'[id].authorized_cost_usd = auth.estimated_cost_usd
    ]_vars

\* The answer of c is a denial: its balance does not reach, or may not.
Denied(c) == \E error \in AccessErrors : Finished(c, error)

\* Nobody is denied what has already been taken from the balance or done for it: at
\* the moment a call is denied its id has no record and the provider has not been
\* called for it, although the balance the denial was decided on may be the one
\* its first delivery had debited (_denied_or_duplicate).
OnlyNewIdsAreDenied ==
  [][\A c \in Calls : (Denied(c)' /\ ~Denied(c)) =>
       /\ RecordOf(c)' = Nil
       /\ provider_calls'[Request(c)'.client_request_id] = 0
    ]_vars

\* A record that has ended stays as it ended, and a running one can only end:
\* a late or repeated script never reopens, re-bills or re-refunds it.
RecordsEndOnce ==
  [][\A id \in RequestIds : gen[id] # Nil =>
       /\ gen'[id] # Nil
       /\ gen[id].status # "running" => gen'[id] = gen[id]
       /\ gen'[id].plan = gen[id].plan
    ]_vars

\* Whatever moves a balance moves its version up and marks the user dirty, or a
\* concurrent RESERVE and the flusher would not notice.
ChangesAreSeen ==
  [][\A u \in Users : (bal[u] # Nil /\ bal'[u] # bal[u]) =>
       bal'[u] # Nil /\ bal'[u].version > bal[u].version /\ u \in dirty'
    ]_vars

-----------------------------------------------------------------------------
\* Every delivery of a generation is answered.
CallsReturn == \A c \in Calls : task[c].pc # "idle" ~> task[c].pc = "done"
=============================================================================
