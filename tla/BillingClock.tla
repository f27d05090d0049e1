----------------------------- MODULE BillingClock -----------------------------
(***************************************************************************)
(* Billing on a clock.  The deadlines of the code, which may pass at any   *)
(* moment in Billing, pass here when they are due: the wait for a record   *)
(* and for a load lock, the provider's timeout, the age at which the       *)
(* reaper takes a reservation, the TTLs of the lock and of a generation    *)
(* record.  A record whose TTL runs out is gone; its entry in the reaper's *)
(* index stays.                                                            *)
(*                                                                         *)
(* Time is counted from each event, so there is no clock that grows.  Tick *)
(* passes one unit for everybody, unless somebody has to move first.  What *)
(* the code does not bound is a constant: how long Redis may take to       *)
(* answer (SEND), how long a background process may be down (MAX_OUTAGE).  *)
(* Commands other than RESERVE, SETTLE and REFUND take no time.            *)
(***************************************************************************)
EXTENDS Billing

CONSTANTS
  SEND,                   \* a script, with the retries of a lost reply
  PROVIDER_TIMEOUT, RUNNING_WAIT_TIMEOUT, LOAD_WAIT_TIMEOUT, LOAD_LOCK_TTL,
  REAP_AFTER, FLUSH_INTERVAL,
  GENERATION_RECORD_TTL,
  MAX_OUTAGE              \* from the end of a background process to its restart

ASSUME TimesAssumption ==
  /\ SEND \in Nat /\ MAX_OUTAGE \in Nat
  /\ PROVIDER_TIMEOUT \in Nat /\ RUNNING_WAIT_TIMEOUT \in Nat
  /\ LOAD_WAIT_TIMEOUT \in Nat /\ LOAD_LOCK_TTL \in Nat
  /\ REAP_AFTER \in Nat /\ FLUSH_INTERVAL \in Nat
  /\ GENERATION_RECORD_TTL \in Nat

\* The order the comments of BillingConfig ask for, with room for the scripts on
\* both sides of the provider; and a day in which a reaper gets through everything
\* it may find in the index, with an outage after each fault.
ASSUME OrderAssumption ==
  /\ SEND + PROVIDER_TIMEOUT + SEND < REAP_AFTER
  /\ LOAD_LOCK_TTL < LOAD_WAIT_TIMEOUT
  /\ IsFiniteSet(RequestIds)
  /\ REAP_AFTER + FLUSH_INTERVAL + Cardinality(RequestIds) * SEND
       + MaxFaults * (SEND + MAX_OUTAGE) < GENERATION_RECORD_TTL

VARIABLES
  elapsed,   \* how long each task has been at what it is doing
  left,      \* PTTL of each load lock
  started,   \* the age of the started_at that goes with a token
  age,       \* the age of the score in gen:inflight
  ttl,       \* TTL of each generation record
  called,    \* since the provider was last called for an id
  silent     \* since a connection was last lost

timers == <<elapsed, left, started, age, ttl, called, silent>>

\* Nothing is measured for longer than this.
Horizon == GENERATION_RECORD_TTL
Forever == Horizon + 1

\* One unit more, if there is anything to measure.
Counting(measured, t) == IF measured THEN Lesser(t + 1, Horizon) ELSE 0

\* ensure_loaded has one deadline for all its rounds.
Doing(t) == IF t.pc \in LoaderPcs THEN "load" ELSE t.pc

-----------------------------------------------------------------------------
\* Mutant: the age is compared with the provider's deadline.
OldForProvider(id) == age[id] >= PROVIDER_TIMEOUT

Old(id) == age[id] >= REAP_AFTER

\* A deadline is not noticed before it has passed.
Timely ==
  /\ \A r \in Reapers : (At(r, "idle") /\ task'[r].pc = "inspect") =>
       \A id \in task'[r].work : Old(id)
  /\ \A a \in Tasks : task'[a].outcome # Nil =>
       /\ At(a, "wait") /\ task'[a].outcome.kind = "GenerationInProgress" =>
            elapsed[a] >= RUNNING_WAIT_TIMEOUT
       /\ At(a, "lock") /\ task'[a].outcome.kind = "BalanceContention" =>
            elapsed[a] >= LOAD_WAIT_TIMEOUT
  /\ \A u \in Users : (task' = task /\ lock[u] # Nil /\ lock'[u] = Nil) => left[u] = 0

\* Mutant: EX where PX is meant.
LockTtlInSeconds == LOAD_LOCK_TTL * 1000

LockTtl == LOAD_LOCK_TTL

\* Mutant: SETTLE and REFUND leave the TTL as RESERVE set it.
ExpiresFromReserve(id) == gen[id] = Nil /\ gen'[id] # Nil

\* EXPIRE, the last word of each script that writes a record.
ExpiresAnew(id) == gen'[id] # gen[id]

Enters(c) == task[c].pc # "reserve" /\ task'[c].pc = "reserve"

Timers ==
  /\ elapsed' = [a \in Tasks |->
       IF Doing(task'[a]) = Doing(task[a]) THEN elapsed[a] ELSE 0]
  /\ left' = [u \in Users |->
       IF lock'[u] = lock[u] THEN left[u]
       ELSE IF lock'[u] = Nil THEN 0 ELSE LockTtl]
  /\ started' = [token \in Tokens |->
       IF Enters(token[1]) /\ token[2] = task'[token[1]].attempt
         THEN 0 ELSE started[token]]
  /\ age' = [id \in RequestIds |->
       IF gen[id] = Nil /\ gen'[id] # Nil THEN started[gen'[id].reservation_token]
       ELSE IF id \notin inflight' THEN 0 ELSE age[id]]
  /\ ttl' = [id \in RequestIds |->
       IF ExpiresAnew(id) THEN GENERATION_RECORD_TTL ELSE ttl[id]]
  /\ called' = [id \in RequestIds |->
       IF provider_calls'[id] = provider_calls[id] THEN called[id] ELSE 0]
  /\ silent' = IF faults' = faults THEN silent ELSE 0

-----------------------------------------------------------------------------
\* Mutant: the provider is awaited without a timeout.
ProviderPatienceUnbounded == Horizon

ProviderPatience == PROVIDER_TIMEOUT

\* How long a task may stay where it is.  A client may wait for ever before it
\* asks; how long a loader waits is up to the lock.
Patience(a) ==
  CASE task[a].pc \in {"reserve", "settle", "refund"} -> SEND
    [] task[a].pc = "provider" -> ProviderPatience
    [] task[a].pc = "wait" -> RUNNING_WAIT_TIMEOUT
    [] task[a].pc \in {"lock", "select"} -> Horizon
    [] At(a, "done") /\ a \in Reapers -> MAX_OUTAGE
    [] At(a, "done") /\ a \notin Reapers -> Forever
    [] At(a, "idle") -> Forever
    [] OTHER -> 0

\* A reservation whose RESERVE may still run.
Pending(token) ==
  \/ At(token[1], "reserve") /\ task[token[1]].attempt = token[2]
  \/ \E inv \in late : inv.script = "RESERVE" /\ inv.token = token

\* A background process that is up scans the index once in FLUSH_INTERVAL.
Overlooked(id) == id \in inflight /\ age[id] >= REAP_AFTER + FLUSH_INTERVAL

\* Nobody can wait any longer for one unit to pass.
Tick ==
  /\ \A a \in Tasks : elapsed[a] < Patience(a)
  /\ \A u \in Users : lock[u] # Nil => left[u] > 0
  /\ \A a \in Tasks : At(a, "lock") => lock[task[a].user_id] # Nil
  /\ \A id \in RequestIds : gen[id] # Nil => ttl[id] > 0
  /\ \A r \in Reapers : At(r, "idle") => \A id \in RequestIds : ~Overlooked(id)
  /\ elapsed' = [a \in Tasks |-> Counting(Patience(a) < Forever, elapsed[a])]
  /\ left' = [u \in Users |-> Greater(0, left[u] - 1)]
  /\ started' = [token \in Tokens |-> Counting(Pending(token), started[token])]
  /\ age' = [id \in RequestIds |-> Counting(id \in inflight, age[id])]
  /\ ttl' = [id \in RequestIds |-> Greater(0, ttl[id] - 1)]
  /\ called' = [id \in RequestIds |-> Counting(provider_calls[id] > 0, called[id])]
  /\ silent' = Counting(late # {}, silent)
  \* What a broken connection has not delivered by now, it never will.
  /\ late' = IF silent < SEND THEN late ELSE {}
  /\ UNCHANGED <<redis, row, faults, task, lock, provider_calls>>

Expires(id) ==
  /\ gen[id] # Nil
  /\ ttl[id] = 0
  /\ gen' = [gen EXCEPT ![id] = Nil]
  /\ UNCHANGED <<bal, topup, dirty, inflight, row, network, task, lock,
                 provider_calls, timers>>

ClockInit ==
  /\ Init
  /\ elapsed = [a \in Tasks |-> 0]
  /\ left = [u \in Users |-> 0]
  /\ started = [token \in Tokens |-> 0]
  /\ age = [id \in RequestIds |-> 0]
  /\ ttl = [id \in RequestIds |-> 0]
  /\ called = [id \in RequestIds |-> 0]
  /\ silent = 0

ClockNext ==
  \/ Next /\ Timely /\ Timers
  \/ Tick
  \/ \E id \in RequestIds : Expires(id)

ClockSpec == ClockInit /\ [][ClockNext]_<<vars, timers>>

-----------------------------------------------------------------------------
\* A slow provider is given up and refunded by its own caller, never reaped
\* underneath it (the comment on PROVIDER_TIMEOUT_SECONDS): a call between its
\* reservation and its settlement finds its own record, not one somebody else
\* refunded, nor one of a later delivery.
CallsKeepTheirReservation ==
  \A c \in Calls : task[c].pc \in {"provider", "settle", "refund"} =>
    /\ gen[task[c].id] # Nil
    /\ gen[task[c].id].reservation_token[1] = c
    /\ gen[task[c].id].status = "failed" => task[c].pc = "refund"

\* The record of a reservation outlives the reservation: when its TTL runs out
\* the money has been charged or given back, or nobody would know of it any more.
\* A background process that crashes and comes back in time is enough.
RecordsOutliveReservations ==
  \A id \in RequestIds :
    (gen[id] # Nil /\ ttl[id] = 0) => gen[id].status # "running"

\* A load lock whose holder died, and the next holder's load, fit into one wait
\* (the comment on LOAD_WAIT_TIMEOUT_SECONDS): no loader times out.
LoadersOutlastACrash ==
  \A a \in Tasks :
    (At(a, "lock") /\ lock[task[a].user_id] # Nil) => elapsed[a] < LOAD_WAIT_TIMEOUT

\* However often a request is delivered, the provider is called for it once
\* within the TTL of its record.
OncePerTtl ==
  [][\A id \in RequestIds :
       (provider_calls'[id] # provider_calls[id] /\ provider_calls[id] > 0)
         => called[id] >= GENERATION_RECORD_TTL]_<<vars, timers>>
=============================================================================
