--------------------------- MODULE BillingClockProofs ---------------------------
(***************************************************************************)
(* The bounds of BillingClock, for every value of the constants: ages,     *)
(* deadlines, TTLs, any number of calls, reapers, ids and faults.          *)
(***************************************************************************)
EXTENDS BillingClock, BillingLedgerProofs

Running(id) == gen[id] # Nil /\ gen[id].status = "running"
Over(id) == gen[id] # Nil /\ gen[id].status # "running"

TimersTyped ==
  /\ elapsed \in [Tasks -> Nat]
  /\ left \in [Users -> Nat]
  /\ started \in [Tokens -> 0 .. Horizon]
  /\ age \in [RequestIds -> 0 .. Horizon]
  /\ ttl \in [RequestIds -> 0 .. Horizon]
  /\ called \in [RequestIds -> 0 .. Horizon]
  /\ silent \in Nat

\* Who has a record has a balance.
Backed == \A id \in RequestIds : gen[id] # Nil => bal[gen[id].user_id] # Nil

\* The age of a running reservation in the index is at least that of its record.
Aged == \A id \in RequestIds : Running(id) => age[id] + ttl[id] >= Horizon

\* The time a reaper takes for all ids but n, and how long it has had its batch: at
\* most SEND for each id it is done with.
Lag(n) == (Cardinality(RequestIds) - n) * SEND

Spell(r) ==
  IF At(r, "inspect") THEN Lag(Cardinality(task[r].work))
  ELSE Lag(Cardinality(task[r].work) + 1) + (IF At(r, "refund") THEN elapsed[r] ELSE 0)

Hands(r) == task[r].work \cup (IF At(r, "inspect") THEN {} ELSE {task[r].id})

\* A reaper.  It never has to load a balance.  What it has in hand was old and
\* running when it took it, and has a record ever since.
Reaping(r) ==
  /\ task[r].pc \in ReaperPcs \cup {"idle", "done"}
  /\ At(r, "done") => elapsed[r] <= MAX_OUTAGE /\ faults > 0
  /\ At(r, "idle") \/ task[r].pc \in ReaperPcs => task[r].attempt = 0
  /\ task[r].pc \in ReaperPcs =>
       /\ task[r].work \subseteq RequestIds
       /\ ~At(r, "inspect") => task[r].id \notin task[r].work
       /\ \A id \in Hands(r) :
            /\ gen[id] # Nil
            /\ Running(id) => age[id] >= REAP_AFTER
            /\ Over(id) => ttl[id] + Spell(r) >= Horizon
  /\ At(r, "forget") => Over(task[r].id)
  /\ At(r, "refund") =>
       /\ bal[task[r].user_id] # Nil
       /\ elapsed[r] <= SEND
       /\ Over(task[r].id) => ttl[task[r].id] + elapsed[r] >= Horizon

Refunding(r) == IF At(r, "refund") THEN {task[r].id} ELSE {}

\* The ids that have ended since the reservation id was about to be overlooked.
Spent(id) ==
  {j \in RequestIds \ {id} :
     Over(j) /\ ttl[j] + SEND >= ttl[id] + REAP_AFTER + FLUSH_INTERVAL}

\* What a reaper may have lost to faults, and is losing.
Delay(r) ==
  faults * (SEND + MAX_OUTAGE) + (IF At(r, "refund") THEN elapsed[r] ELSE 0)
    + (IF At(r, "done") THEN elapsed[r] - MAX_OUTAGE ELSE 0)

InTime(r, id) ==
  Horizon - ttl[id] <= REAP_AFTER + FLUSH_INTERVAL
                   + Cardinality(Spent(id) \ Refunding(r)) * SEND + Delay(r)

RecordsInv ==
  /\ TInv
  /\ TimersTyped
  /\ Backed
  /\ Aged
  /\ \A id \in RequestIds : Listed(id)
  /\ \A r \in Reapers :
       /\ Reaping(r)
       /\ \A id \in RequestIds : Running(id) => InTime(r, id)

-----------------------------------------------------------------------------
(***************************************************************************)
(* Numbers, and the sizes of sets of ids.                                  *)
(***************************************************************************)
LEMMA Product ==
  ASSUME NEW s \in Nat, NEW m \in Nat, NEW n \in Nat, m <= n
  PROVE  /\ m * s \in Nat /\ n * s \in Nat
         /\ m * s <= n * s
         /\ (m + 1) * s = m * s + s
OBVIOUS

LEMMA Numbers ==
  /\ SEND \in Nat /\ MAX_OUTAGE \in Nat /\ REAP_AFTER \in Nat /\ FLUSH_INTERVAL \in Nat
  /\ PROVIDER_TIMEOUT \in Nat
  /\ MaxFaults \in Nat /\ Horizon \in Nat
  /\ IsFiniteSet(RequestIds) /\ Cardinality(RequestIds) \in Nat
  /\ Cardinality(RequestIds) * SEND \in Nat
  /\ MaxFaults * (SEND + MAX_OUTAGE) \in Nat
  /\ SEND + PROVIDER_TIMEOUT + SEND < REAP_AFTER
  /\ REAP_AFTER + FLUSH_INTERVAL + Cardinality(RequestIds) * SEND
       + MaxFaults * (SEND + MAX_OUTAGE) < Horizon
<1>1. /\ SEND \in Nat /\ MAX_OUTAGE \in Nat /\ REAP_AFTER \in Nat /\ FLUSH_INTERVAL \in Nat
      /\ PROVIDER_TIMEOUT \in Nat
      /\ MaxFaults \in Nat /\ Horizon \in Nat
      /\ IsFiniteSet(RequestIds)
  BY TimesAssumption, OrderAssumption, MaxFaultsAssumption DEF Horizon
<1>2. Cardinality(RequestIds) \in Nat
  BY <1>1, FS_CardinalityType
<1>3. SEND + MAX_OUTAGE \in Nat
  BY <1>1
<1>4. /\ Cardinality(RequestIds) * SEND \in Nat
      /\ MaxFaults * (SEND + MAX_OUTAGE) \in Nat
  BY <1>1, <1>2, <1>3, Product
<1>5. QED
  BY <1>1, <1>2, <1>4, OrderAssumption DEF Horizon

LEMMA Order ==
  /\ SEND < REAP_AFTER /\ SEND < Horizon
  /\ REAP_AFTER + FLUSH_INTERVAL < Horizon
<1>1. PICK p \in Nat, q \in Nat :
        p = Cardinality(RequestIds) * SEND /\ q = MaxFaults * (SEND + MAX_OUTAGE)
  BY Numbers
<1>2. /\ REAP_AFTER + FLUSH_INTERVAL + p + q < Horizon
      /\ SEND \in Nat /\ REAP_AFTER \in Nat /\ FLUSH_INTERVAL \in Nat /\ Horizon \in Nat
      /\ PROVIDER_TIMEOUT \in Nat
      /\ SEND + PROVIDER_TIMEOUT + SEND < REAP_AFTER
  BY <1>1, Numbers
<1>3. QED
  BY <1>2

\* A set of ids, one more, and the time a reaper takes for as many.
LEMMA Sizes ==
  ASSUME NEW ids \in SUBSET RequestIds
  PROVE  /\ IsFiniteSet(ids) /\ Cardinality(ids) \in Nat
         /\ Cardinality(ids) <= Cardinality(RequestIds)
         /\ \A id \in RequestIds \ ids :
              /\ Cardinality(ids \cup {id}) = Cardinality(ids) + 1
              /\ Cardinality(ids) + 1 <= Cardinality(RequestIds)
<1>1. ASSUME NEW some \in SUBSET RequestIds
      PROVE  /\ IsFiniteSet(some) /\ Cardinality(some) \in Nat
             /\ Cardinality(some) <= Cardinality(RequestIds)
  BY Numbers, FS_Subset, FS_CardinalityType
<1>2. ASSUME NEW id \in RequestIds \ ids
      PROVE  Cardinality(ids \cup {id}) = Cardinality(ids) + 1
  BY <1>1, <1>2, FS_AddElement
<1>3. ASSUME NEW id \in RequestIds \ ids
      PROVE  Cardinality(ids) + 1 <= Cardinality(RequestIds)
  <2>1. ids \cup {id} \in SUBSET RequestIds
    OBVIOUS
  <2>2. QED
    BY <1>1, <1>2, <2>1
<1>4. QED
  BY <1>1, <1>2, <1>3

LEMMA LargerSets ==
  ASSUME NEW ids \in SUBSET RequestIds, NEW some \in SUBSET ids
  PROVE  Cardinality(some) <= Cardinality(ids)
BY Sizes, FS_Subset

LEMMA Lags ==
  ASSUME NEW n \in Nat, n <= Cardinality(RequestIds)
  PROVE  /\ Lag(n) \in Nat /\ Lag(n) <= Cardinality(RequestIds) * SEND
         /\ n + 1 <= Cardinality(RequestIds) => Lag(n) = Lag(n + 1) + SEND
<1> DEFINE N == Cardinality(RequestIds)
<1>1. N \in Nat /\ SEND \in Nat
  BY Numbers
<1>2. N - n \in Nat /\ N - n <= N
  BY <1>1
<1>3. (N - n) * SEND \in Nat /\ (N - n) * SEND <= N * SEND
  BY <1>1, <1>2, Product
<1>4. ASSUME n + 1 <= N PROVE (N - n) * SEND = (N - (n + 1)) * SEND + SEND
  <2>1. N - (n + 1) \in Nat /\ (N - (n + 1)) + 1 = N - n /\ N - (n + 1) <= N
    BY <1>1, <1>4
  <2>2. ((N - (n + 1)) + 1) * SEND = (N - (n + 1)) * SEND + SEND
    BY <1>1, <2>1, Product
  <2>3. QED
    BY <2>1, <2>2
<1>5. QED
  BY <1>3, <1>4 DEF Lag

-----------------------------------------------------------------------------
(***************************************************************************)
(* What a step of the service does to a record and its timers.             *)
(***************************************************************************)
Work == Next /\ Timely /\ Timers

Stays(id) ==
  /\ gen'[id] = gen[id] /\ ttl'[id] = ttl[id]
  /\ id \in inflight' => age'[id] = age[id]

Begins(id) ==
  /\ gen[id] = Nil /\ Running(id)' /\ ttl'[id] = Horizon
  /\ age'[id] = started[gen'[id].reservation_token]

Ends(id) == Running(id) /\ Over(id)' /\ ttl'[id] = Horizon

LEMMA WorkIsStep ==
  ASSUME TInv, Work
  PROVE  /\ TInv' /\ Monotone /\ KeysTyped /\ KeysTyped' /\ Kept /\ RecordsMove
         /\ faults \in 0 .. MaxFaults /\ faults' \in 0 .. MaxFaults
         /\ late \subseteq Invocations
<1>1. [Next]_vars
  BY DEF Work
<1>2. TInv' /\ Monotone
  BY <1>1, NextKeeps DEF Keeps
<1>3. TypedParts /\ TypedParts'
  <2>1. TInv' => TypedParts'
    BY TInvParts, PTL
  <2>2. QED
    BY <1>2, <2>1, TInvParts
<1>4. QED
  BY <1>1, <1>2, <1>3, NextMovesRecords, MovedRecordsKept DEF TypedParts, TypedOthers

LEMMA RecordSteps ==
  ASSUME TInv, Work, NEW id \in RequestIds
  PROVE  Stays(id) \/ Begins(id) \/ Ends(id)
<1>1. KeysTyped /\ KeysTyped' /\ Kept /\ RecordsMove
  BY WorkIsStep
<1>2. /\ age'[id] = IF gen[id] = Nil /\ gen'[id] # Nil
                      THEN started[gen'[id].reservation_token]
                      ELSE IF id \notin inflight' THEN 0 ELSE age[id]
      /\ ttl'[id] = IF gen'[id] # gen[id] THEN Horizon ELSE ttl[id]
  BY DEF Work, Timers, ExpiresAnew, Horizon
<1>3. CASE gen'[id] = gen[id]
  BY <1>2, <1>3 DEF Stays
<1>4. CASE gen'[id] # gen[id] /\ gen[id] = Nil
  <2>1. PICK inv \in Invocations : Execute(inv)
    BY <1>1, <1>4 DEF RecordsMove, Forget, ForgetInflight
  <2>2. gen'[id] = NewRecord(inv)
    BY <1>1, <1>4, <2>1, ExecuteKeeps DEF Born
  <2>3. QED
    BY <1>2, <1>4, <2>2, NewRecordHas DEF Begins, Running
<1>5. CASE gen'[id] # gen[id] /\ gen[id] # Nil
  BY <1>1, <1>2, <1>5 DEF Ends, Kept, Running, Over
<1>6. QED
  BY <1>3, <1>4, <1>5

LEMMA WorkKeepsTimers ==
  ASSUME TInv, TimersTyped, Work
  PROVE  TimersTyped'
<1>1. KeysTyped' /\ LOAD_LOCK_TTL \in Nat /\ Horizon \in Nat
  BY WorkIsStep, Numbers, TimesAssumption
<1>2. Timers
  BY DEF Work
<1>3. elapsed' \in [Tasks -> Nat]
  BY <1>2 DEF Timers, TimersTyped
<1>4. left' \in [Users -> Nat]
  BY <1>1, <1>2 DEF Timers, TimersTyped, LockTtl
<1>5. started' \in [Tokens -> 0 .. Horizon]
  BY <1>1, <1>2 DEF Timers, TimersTyped
<1>6. age' \in [RequestIds -> 0 .. Horizon]
  <2>1. ASSUME NEW id \in RequestIds, gen'[id] # Nil
        PROVE  gen'[id].reservation_token \in Tokens
    BY <1>1, <2>1 DEF KeysTyped, Records
  <2>2. QED
    BY <1>1, <1>2, <2>1 DEF Timers, TimersTyped
<1>7. ttl' \in [RequestIds -> 0 .. Horizon] /\ called' \in [RequestIds -> 0 .. Horizon]
  BY <1>1, <1>2 DEF Timers, TimersTyped, Horizon
<1>8. silent' \in Nat
  BY <1>2 DEF Timers, TimersTyped
<1>9. QED
  BY <1>3, <1>4, <1>5, <1>6, <1>7, <1>8 DEF TimersTyped

LEMMA WorkKeepsBacked ==
  ASSUME TInv, Backed, Work
  PROVE  Backed'
<1>1. KeysTyped /\ KeysTyped' /\ Kept /\ RecordsMove /\ Monotone
  BY WorkIsStep
<1>2. ASSUME NEW id \in RequestIds, gen'[id] # Nil
      PROVE  bal'[gen'[id].user_id] # Nil
  <2>1. CASE gen[id] # Nil
    <3>1. gen'[id].user_id = gen[id].user_id /\ gen[id].user_id \in Users
      BY <1>1, <2>1 DEF Kept, KeysTyped, Records
    <3>2. QED
      BY <1>1, <2>1, <3>1 DEF Backed, Monotone
  <2>2. CASE gen[id] = Nil
    <3>1. PICK inv \in Invocations : Execute(inv)
      BY <1>1, <1>2, <2>2 DEF RecordsMove, Forget, ForgetInflight
    <3>2. inv.script = "RESERVE" /\ id = inv.id /\ gen'[id] = NewRecord(inv)
      BY <1>1, <1>2, <2>2, <3>1, ExecuteKeeps DEF Born
    <3>3. RESERVE(inv)
      BY <3>1, <3>2 DEF Execute
    <3>4. ReserveReply(inv) = "OK"
      BY <1>2, <2>2, <3>3 DEF RESERVE, redis
    <3>5. bal[inv.user_id] # Nil
      BY <2>2, <3>2, <3>4, Zenon DEF ReserveReply
    <3>6. inv \in ReserveInvocations
      BY <3>2 DEF Invocations, ReserveInvocations, SettleInvocations, RefundInvocations, TopUpInvocations
    <3>7. inv.user_id \in Users
      BY <3>6 DEF ReserveInvocations
    <3>8. QED
      BY <1>1, <3>2, <3>5, <3>7, NewRecordHas DEF Monotone
  <2>3. QED
    BY <2>1, <2>2
<1>3. QED
  BY <1>2 DEF Backed

LEMMA WorkKeepsAged ==
  ASSUME TInv, TimersTyped, Aged, \A id \in RequestIds : Listed(id)', Work
  PROVE  Aged'
<1>1. ASSUME NEW id \in RequestIds, Running(id)'
      PROVE  age'[id] + ttl'[id] >= Horizon
  <2>1. age'[id] \in Nat /\ ttl'[id] \in Nat /\ Horizon \in Nat /\ id \in inflight'
    BY <1>1, WorkKeepsTimers, Numbers DEF TimersTyped, Listed, Running
  <2>2. CASE Stays(id)
    BY <1>1, <2>1, <2>2 DEF Stays, Aged, Running
  <2>3. CASE Begins(id)
    BY <2>1, <2>3 DEF Begins
  <2>4. CASE Ends(id)
    BY <1>1, <2>4 DEF Ends, Running, Over
  <2>5. QED
    BY <2>2, <2>3, <2>4, RecordSteps
<1>2. QED
  BY <1>1 DEF Aged

LEMMA WorkKeepsListed ==
  ASSUME TInv, \A id \in RequestIds : Listed(id), \A r \in Reapers : Reaping(r), Work,
         NEW id \in RequestIds
  PROVE  Listed(id)'
<1>1. KeysTyped /\ RecordsMove
  BY WorkIsStep
<1>2. CASE UNCHANGED <<gen, inflight>>
  BY <1>2 DEF Listed
<1>3. ASSUME NEW inv \in Invocations, Execute(inv)
      PROVE  Listed(id)'
  BY <1>1, <1>3, ScriptIndexes
<1>4. ASSUME NEW r \in Reapers, Forget(r)
      PROVE  Listed(id)'
  <2>1. /\ Over(task[r].id) /\ gen' = gen
        /\ inflight' = inflight \ {task[r].id}
    BY <1>4 DEF Reaping, Forget, ForgetInflight, Unindex
  <2>2. QED
    BY <2>1 DEF Listed, Over
<1>5. QED
  BY <1>1, <1>2, <1>3, <1>4 DEF RecordsMove

-----------------------------------------------------------------------------
(***************************************************************************)
(* The steps of a reaper that never has to load a balance.                 *)
(***************************************************************************)
Waits(r) == task'[r] = task[r] /\ elapsed'[r] = elapsed[r]

Picks(r) ==
  /\ At(r, "idle") /\ gen' = gen
  /\ task'[r].pc = "inspect" /\ task'[r].attempt = 0 /\ task'[r].work \subseteq inflight
  /\ \A id \in task'[r].work : age[id] >= REAP_AFTER

Looks(r) ==
  /\ At(r, "inspect") /\ gen' = gen /\ bal' = bal
  /\ elapsed'[r] = 0
  /\ task'[r].attempt = 0
  /\ task'[r].id \in task[r].work /\ task'[r].work = task[r].work \ {task'[r].id}
  /\ \/ task'[r].pc = "forget" /\ ~Running(task'[r].id)
     \/ /\ task'[r].pc = "refund" /\ Running(task'[r].id)
        /\ task'[r].user_id = gen[task'[r].id].user_id

\* An id of before the step has ended after it.
IsOver(id) == gen'[id] # Nil /\ gen'[id].status # "running"

Leaves(r) ==
  /\ task[r].pc \in {"forget", "refund"} /\ task'[r].attempt = 0
  /\ task'[r].pc = "idle" \/ (task'[r].pc = "inspect" /\ task'[r].work = task[r].work)
  /\ IsOver(task[r].id)

Repeats(r) ==
  /\ At(r, "refund") /\ gen' = gen
  /\ elapsed'[r] = elapsed[r] /\ faults' = faults + 1
  /\ task'[r].pc = "refund" /\ task'[r].attempt = 0
  /\ task'[r].work = task[r].work /\ task'[r].id = task[r].id
  /\ task'[r].user_id = task[r].user_id

Dies(r) ==
  /\ task[r].pc \in ReaperPcs /\ task'[r].pc = "done"
  /\ elapsed'[r] = 0 /\ faults' = faults + 1 /\ gen' = gen

Restarts(r) ==
  /\ At(r, "done") /\ gen' = gen
  /\ task'[r].pc = "idle" /\ task'[r].attempt = 0

Tends(r) ==
  Waits(r) \/ Picks(r) \/ Looks(r) \/ Leaves(r) \/ Repeats(r) \/ Dies(r) \/ Restarts(r)

LEMMA NextStaleHas ==
  ASSUME NEW t
  PROVE  /\ NextStale(t).attempt = 0
         /\ NextStale(t).pc = "idle" \/ (NextStale(t).pc = "inspect" /\ NextStale(t).work = t.work)
<1> DEFINE u == [Blank EXCEPT !.pc = "inspect", !.work = t.work]
<1>1. Blank.attempt = 0 /\ Blank.pc = "idle"
  BY DEF Blank
<1>2. u.attempt = 0 /\ u.pc = "inspect" /\ u.work = t.work
  BY DEF Blank
<1> HIDE DEF u
<1>3. NextStale(t) = IF t.work = {} THEN Blank ELSE u
  BY DEF NextStale, u
<1>4. QED
  BY <1>1, <1>2, <1>3

LEMMA RefundEnds ==
  ASSUME TInv, NEW r \in Reapers, At(r, "refund"), Reaping(r),
         RefundReply(RefundInvocation(r)) \in {"OK", "STALE"},
         Execute(RefundInvocation(r))
  PROVE  IsOver(task[r].id)
<1> DEFINE inv == RefundInvocation(r)
           id == task[r].id
<1>1. inv.script = "REFUND" /\ inv.id = id
  BY DEF RefundInvocation
<1>2. id \in RequestIds /\ gen[id] # Nil
  BY ReaperHas DEF ReaperShape, Where, At, LoaderPcs, Reaping, Hands, ReaperPcs
<1>3. REFUND(inv) /\ KeysTyped
  BY <1>1, TInvParts DEF Execute, TypedParts
<1>4. CASE RefundReply(inv) = "OK"
  <2>1. gen' = [gen EXCEPT ![inv.id].status = "failed"]
    BY <1>3, <1>4 DEF REFUND
  <2>2. gen[id] \in Records
    BY <1>2, <1>3 DEF KeysTyped
  <2> DEFINE failed == [gen[id] EXCEPT !.status = "failed"]
  <2>3. failed \in Records /\ failed.status = "failed"
    BY <2>2 DEF Records, Statuses
  <2>4. gen'[id] = failed
    BY <1>1, <1>2, <1>3, <2>1 DEF KeysTyped
  <2> HIDE DEF failed
  <2>5. QED
    BY <2>3, <2>4, NilAssumption DEF IsOver
<1>5. CASE RefundReply(inv) # "OK"
  <2>1. RefundReply(inv) = "STALE"
    BY <1>5
  <2>2. gen' = gen
    BY <1>3, <1>5 DEF REFUND, redis
  <2>3. gen[id].status # "running"
    BY <1>1, <1>2, <2>1, SMT DEF RefundReply
  <2>4. QED
    BY <1>2, <2>2, <2>3 DEF IsOver
<1>6. QED
  BY <1>4, <1>5

LEMMA ReaperTends ==
  ASSUME TInv, NEW r \in Reapers, Reaping(r), Work
  PROVE  Tends(r)
<1>1. /\ r \in Tasks /\ DOMAIN task = Tasks
      /\ task[r] \in ReaperRecords
      /\ elapsed'[r] = IF Doing(task'[r]) = Doing(task[r]) THEN elapsed[r] ELSE 0
  BY ReaperHas DEF Work, Timers
<1>2. /\ task[r].pc \notin LoaderPcs
      /\ task[r].pc \in ReaperPcs => Doing(task[r]) = task[r].pc
  BY DEF Reaping, LoaderPcs, ReaperPcs, Doing
<1>3. task'[r] = task[r] \/ ReaperStep(r)
  BY OneMoves DEF Work
<1>4. CASE task'[r] = task[r]
  BY <1>1, <1>4 DEF Tends, Waits
<1>5. ASSUME NEW batch \in SUBSET inflight, StaleInflight(r, batch)
      PROVE  Tends(r)
  <2> DEFINE t == [task[r] EXCEPT !.pc = "inspect", !.work = batch]
  <2>1. task'[r] = t /\ At(r, "idle") /\ gen' = gen
    BY <1>1, <1>5 DEF StaleInflight, Set, redis
  <2>2. t.pc = "inspect" /\ t.work = batch /\ t.attempt = task[r].attempt
    BY <1>1 DEF ReaperRecords, TaskRecords
  <2> HIDE DEF t
  <2>3. \A id \in task'[r].work : age[id] >= REAP_AFTER
    BY <2>1, <2>2 DEF Work, Timely, Old
  <2>4. QED
    BY <2>1, <2>2, <2>3 DEF Tends, Picks, Reaping
<1>6. CASE Ensure(r)
  BY <1>2, <1>6 DEF Ensure, Load, TryAcquireLoadLock, LoadTimesOut, Recheck, LoadFromDb,
     Seed, ReleaseLoadLock, At, LoaderPcs
<1>7. ASSUME NEW id \in RequestIds, InspectStale(r, id)
      PROVE  Tends(r)
  <2> DEFINE rest == [task[r] EXCEPT !.work = @ \ {id}, !.id = id]
             gone == [rest EXCEPT !.pc = "forget"]
             running == [rest EXCEPT !.pc = "refund", !.plan = gen[id].plan,
                                     !.user_id = gen[id].user_id]
  <2>1. /\ At(r, "inspect") /\ id \in task[r].work /\ gen' = gen /\ bal' = bal
        /\ task'[r] = IF gen[id] = Nil \/ gen[id].status # "running" THEN gone ELSE running
    BY <1>1, <1>7 DEF InspectStale, Set, redis
  <2>2. /\ gone.pc = "forget" /\ gone.id = id /\ gone.work = task[r].work \ {id}
        /\ gone.attempt = task[r].attempt
        /\ running.pc = "refund" /\ running.id = id /\ running.work = task[r].work \ {id}
        /\ running.attempt = task[r].attempt /\ running.user_id = gen[id].user_id
    BY <1>1 DEF ReaperRecords, TaskRecords
  <2> HIDE DEF gone, running
  <2>3. task'[r].pc \in {"forget", "refund"} /\ task[r].pc = "inspect"
    BY <2>1, <2>2 DEF At
  <2>4. elapsed'[r] = 0
    <3>1. Doing(task'[r]) # Doing(task[r])
      BY <2>3 DEF Doing, LoaderPcs
    <3>2. QED
      BY <1>1, <3>1
  <2>5. task[r].attempt = 0
    BY <2>3 DEF Reaping, ReaperPcs
  <2>6. CASE Running(id)
    BY <2>1, <2>2, <2>4, <2>5, <2>6 DEF Tends, Looks, Running
  <2>7. CASE ~Running(id)
    BY <2>1, <2>2, <2>4, <2>5, <2>7 DEF Tends, Looks, Running
  <2>8. QED
    BY <2>6, <2>7
<1>8. CASE Forget(r)
  <2>1. /\ task[r].pc = "forget" /\ task'[r] = NextStale(task[r]) /\ gen' = gen
        /\ Over(task[r].id)
    BY <1>1, <1>8 DEF Forget, At, Set, ForgetInflight, Reaping
  <2>2. QED
    BY <2>1, NextStaleHas DEF Tends, Leaves, Over, IsOver
<1>9. CASE RefundStale(r)
  <2>1. /\ At(r, "refund") /\ task'[r] = NextStale(task[r])
        /\ IsOver(task[r].id)
    BY <1>1, <1>9, RefundEnds DEF RefundStale, RefundReturns, Set
  <2>2. QED
    BY <2>1, NextStaleHas DEF Tends, Leaves, At
<1>10. ~RefundMissing(r)
  <2> SUFFICES ASSUME RefundMissing(r) PROVE FALSE
    OBVIOUS
  <2>1. At(r, "refund") /\ RefundReply(RefundInvocation(r)) = "MISSING"
    BY DEF RefundMissing
  <2>2. bal[RefundInvocation(r).user_id] # Nil
    BY <2>1 DEF Reaping, RefundInvocation
  <2>3. RefundReply(RefundInvocation(r)) # "MISSING"
    BY <2>2, SMT DEF RefundReply
  <2>4. QED
    BY <2>1, <2>3
<1>11. ~GiveUp(r)
  BY AttemptsAssumption DEF GiveUp, InRange, LoopHeads, Reaping, ReaperPcs
<1>12. CASE RestartReaper(r)
  <2>1. At(r, "done") /\ task'[r] = Blank /\ gen' = gen
    BY <1>1, <1>12 DEF RestartReaper, Set, redis
  <2>2. Blank.pc = "idle" /\ Blank.attempt = 0
    BY DEF Blank
  <2>3. QED
    BY <2>1, <2>2 DEF Tends, Restarts
<1>13. ASSUME task[r].pc \in ReaperPcs, faults' = faults + 1, gen' = gen,
              NEW outcome, Set(r, Ended(task[r], outcome))
       PROVE  Tends(r)
  <2>1. task'[r].pc = "done"
    BY <1>1, <1>13, EndedFields DEF Set
  <2>2. Doing(task'[r]) = "done" /\ Doing(task[r]) # "done"
    BY <1>2, <1>13, <2>1 DEF Doing, LoaderPcs, ReaperPcs
  <2>3. QED
    BY <1>1, <1>13, <2>1, <2>2 DEF Tends, Dies
<1>14. CASE ReaperLosesReply(r)
  <2> DEFINE t == [task[r] EXCEPT !.tries = @ + 1]
  <2>1. /\ At(r, "refund") /\ faults' = faults + 1 /\ gen' = gen
        /\ Set(r, t) \/ Set(r, Ended(task[r], Raised("RedisError")))
    BY <1>14 DEF ReaperLosesReply, LoseReply, SendAndLose, redis
  <2>2. /\ t.pc = task[r].pc /\ t.work = task[r].work /\ t.id = task[r].id
        /\ t.attempt = task[r].attempt /\ t.user_id = task[r].user_id
    BY <1>1 DEF ReaperRecords, TaskRecords
  <2> HIDE DEF t
  <2>3. CASE Set(r, t)
    <3>1. task'[r] = t /\ task'[r].pc = "refund" /\ task[r].attempt = 0
      BY <1>1, <2>1, <2>2, <2>3 DEF Set, At, Reaping, ReaperPcs
    <3>2. elapsed'[r] = elapsed[r]
      BY <1>1, <2>1, <3>1 DEF Doing, At
    <3>3. QED
      BY <2>1, <2>2, <3>1, <3>2 DEF Tends, Repeats
  <2>4. QED
    BY <1>13, <2>1, <2>3 DEF At, ReaperPcs
<1>15. CASE ReaperAbandoned(r)
  <2>1. /\ task[r].pc \notin {"idle", "done"} /\ faults' = faults + 1 /\ gen' = gen
        /\ Set(r, Ended(task[r], Raised("aborted")))
    BY <1>15 DEF ReaperAbandoned, Abandon, redis
  <2>2. task[r].pc \in ReaperPcs
    BY <2>1 DEF Reaping
  <2>3. QED
    BY <1>13, <2>1, <2>2
<1>16. QED
  BY <1>3, <1>4, <1>5, <1>6, <1>7, <1>8, <1>9, <1>10, <1>11, <1>12, <1>14, <1>15
  DEF ReaperStep, ReaperProgress

-----------------------------------------------------------------------------
(***************************************************************************)
(* What a reaper has in hand.                                              *)
(***************************************************************************)
LEMMA HandSizes ==
  ASSUME TInv, NEW r \in Reapers, Reaping(r), task[r].pc \in ReaperPcs
  PROVE  /\ r \in Tasks
         /\ task[r].work \in SUBSET RequestIds
         /\ Cardinality(task[r].work) \in Nat
         /\ Cardinality(task[r].work) <= Cardinality(RequestIds)
         /\ ~At(r, "inspect") =>
              /\ task[r].id \in RequestIds
              /\ Cardinality(task[r].work) + 1 <= Cardinality(RequestIds)
         /\ Hands(r) \subseteq RequestIds
<1>1. r \in Tasks /\ task[r].work \in SUBSET RequestIds
  BY ReaperHas DEF Reaping
<1>2. ~At(r, "inspect") => task[r].id \in RequestIds \ task[r].work
  BY ReaperHas DEF Reaping, ReaperPcs, At, ReaperShape, Where, LoaderPcs
<1>3. QED
  BY <1>1, <1>2, Sizes DEF Hands

LEMMA SpellBound ==
  ASSUME TInv, TimersTyped, NEW r \in Reapers, Reaping(r), task[r].pc \in ReaperPcs
  PROVE  Spell(r) \in Nat /\ Spell(r) <= Cardinality(RequestIds) * SEND
<1> DEFINE n == Cardinality(task[r].work)
           N == Cardinality(RequestIds)
<1>1. /\ n \in Nat /\ n <= N /\ (~At(r, "inspect") => n + 1 <= N)
      /\ elapsed[r] \in Nat /\ (At(r, "refund") => elapsed[r] <= SEND)
      /\ SEND \in Nat /\ N * SEND \in Nat
  BY HandSizes, Numbers DEF TimersTyped, Reaping
<1>2. Lag(n) \in Nat /\ Lag(n) <= N * SEND
  BY <1>1, Lags
<1>3. CASE At(r, "inspect")
  BY <1>2, <1>3 DEF Spell
<1>4. CASE ~At(r, "inspect")
  <2>1. Lag(n) = Lag(n + 1) + SEND /\ Lag(n + 1) \in Nat
    BY <1>1, <1>4, Lags
  <2>2. QED
    BY <1>1, <1>2, <1>4, <2>1 DEF Spell
<1>5. QED
  BY <1>3, <1>4

LEMMA HeldOn ==
  ASSUME TInv, TimersTyped, Work, NEW id \in RequestIds, Listed(id)',
         gen[id] # Nil, Running(id) => age[id] >= REAP_AFTER,
         NEW s \in Nat, NEW later \in Nat, s <= later,
         Over(id) => ttl[id] + s >= Horizon
  PROVE  /\ gen'[id] # Nil
         /\ Running(id)' => age'[id] >= REAP_AFTER
         /\ Over(id)' => ttl'[id] + later >= Horizon
<1>1. ttl[id] \in Nat /\ Horizon \in Nat
  BY Numbers DEF TimersTyped
<1>2. CASE Stays(id)
  BY <1>1, <1>2 DEF Stays, Listed, Running, Over
<1>3. CASE Ends(id)
  BY <1>1, <1>3 DEF Ends, Running, Over
<1>4. ~Begins(id)
  BY DEF Begins
<1>5. QED
  BY <1>2, <1>3, <1>4, RecordSteps

LEMMA FaultsAddUp ==
  ASSUME [Next]_vars
  PROVE  faults' = faults \/ faults' = faults + 1
<1>1. ASSUME NEW a, Ensure(a) PROVE faults' = faults
  BY <1>1, EnsureUntouched
<1>2. ASSUME NEW c \in Calls, CallStep(c) PROVE faults' = faults \/ faults' = faults + 1
  BY <1>1, <1>2, Zenon
  DEF CallStep, CallProgress, ExecuteGeneration, AuthorizeSnapshot, Reserve,
      ReserveConflict, ReserveMissing, ReserveDuplicate, DeniedOrDuplicate, PollRecord,
      WaitTimesOut, ProviderReturns, ProviderRaises, RefundCall, RefundReturns,
      RefundMissing, Settle, SettleStale, SettleMissing, GiveUp, CallLosesReply,
      LoseReply, SendAndLose, CallAbandoned, Abandon, network
<1>3. ASSUME NEW t \in TopUps, TopUpStep(t) PROVE faults' = faults \/ faults' = faults + 1
  BY <1>1, <1>3, Zenon
  DEF TopUpStep, TopUpProgress, ApplyTopUp, TopUp, TopUpMissing, GiveUp,
      TopUpLosesReply, LoseReply, SendAndLose, TopUpAbandoned, Abandon, network
<1>4. ASSUME NEW t \in Readers, ReaderStep(t) PROVE faults' = faults \/ faults' = faults + 1
  BY <1>1, <1>4, Zenon DEF ReaderStep, GetBalance, ReturnBalance, Abandon, network
<1>5. ASSUME NEW r \in Reapers, ReaperStep(r) PROVE faults' = faults \/ faults' = faults + 1
  BY <1>1, <1>5, Zenon
  DEF ReaperStep, ReaperProgress, StaleInflight, InspectStale, Forget, RefundStale,
      RefundReturns, RefundMissing, GiveUp, RestartReaper, ReaperLosesReply, LoseReply,
      SendAndLose, ReaperAbandoned, Abandon, network
<1>6. QED
  BY <1>2, <1>3, <1>4, <1>5 DEF Next, Quiet, LockExpires, Land, vars, network

LEMMA WorkKeepsReaping ==
  ASSUME TInv, TimersTyped, Backed, Work,
         \A id \in RequestIds : Listed(id) /\ Listed(id)',
         NEW r \in Reapers, Reaping(r)
  PROVE  Reaping(r)'
<1> DEFINE t == task[r]
           u == task'[r]
           N == Cardinality(RequestIds)
<1>1. /\ faults \in Nat /\ (faults' = faults \/ faults' = faults + 1)
      /\ Monotone /\ Kept /\ KeysTyped
      /\ TInv' /\ TimersTyped'
      /\ SEND \in Nat /\ MAX_OUTAGE \in Nat /\ N \in Nat
  BY WorkIsStep, FaultsAddUp, Numbers, WorkKeepsTimers DEF Work
<1>2. r \in Tasks /\ elapsed[r] \in Nat
  BY ReaperHas DEF TimersTyped
<1>3. CASE u.pc \in ReaperPcs /\ t.pc \in ReaperPcs
  <2>1. /\ t.work \in SUBSET RequestIds /\ Hands(r) \subseteq RequestIds
        /\ Cardinality(t.work) \in Nat /\ Cardinality(t.work) <= N
        /\ Spell(r) \in Nat
        /\ ~At(r, "inspect") => t.id \in RequestIds /\ Cardinality(t.work) + 1 <= N
    BY <1>3, HandSizes, SpellBound
  <2>2. /\ ~At(r, "inspect") => t.id \notin t.work
        /\ \A id \in Hands(r) :
             /\ gen[id] # Nil /\ (Running(id) => age[id] >= REAP_AFTER)
             /\ Over(id) => ttl[id] + Spell(r) >= Horizon
        /\ At(r, "forget") => Over(t.id)
        /\ At(r, "refund") =>
             /\ bal[t.user_id] # Nil /\ t.user_id \in Users /\ elapsed[r] <= SEND
             /\ Over(t.id) => ttl[t.id] + elapsed[r] >= Horizon
    <3>1. At(r, "refund") => t.user_id \in Users
      BY ReaperHas DEF At, ReaperShape, Where, LoaderPcs
    <3>2. QED
      BY <1>3, <3>1 DEF Reaping
  <2>3. ASSUME Hands(r)' \subseteq Hands(r), Spell(r)' \in Nat, Spell(r) <= Spell(r)'
        PROVE  \A id \in Hands(r)' :
                 /\ gen'[id] # Nil /\ (Running(id)' => age'[id] >= REAP_AFTER)
                 /\ Over(id)' => ttl'[id] + Spell(r)' >= Horizon
    <3>1. PICK later \in Nat : later = Spell(r)'
      BY <2>3
    <3>2. QED
      BY <2>1, <2>2, <2>3, <3>1, HeldOn
  <2>4. CASE Waits(r) \/ Repeats(r)
    <3>1. /\ u.pc = t.pc /\ u.work = t.work /\ u.id = t.id /\ u.user_id = t.user_id
          /\ u.attempt = 0 /\ elapsed'[r] = elapsed[r]
      BY <1>3, <2>4 DEF Waits, Repeats, At, Reaping
    <3>2. Hands(r)' = Hands(r) /\ Spell(r)' = Spell(r)
      BY <3>1 DEF Hands, Spell, At
    <3>3. u.pc = "forget" => IsOver(u.id)
      <4> SUFFICES ASSUME At(r, "forget") PROVE IsOver(t.id)
        BY <3>1 DEF At
      <4>1. PICK id \in RequestIds : id = t.id
        BY <2>1 DEF At
      <4>2. gen[id] # Nil /\ gen[id].status # "running"
        BY <2>2, <4>1 DEF Over
      <4>3. gen'[id] = gen[id]
        BY <1>1, <4>2 DEF Kept
      <4>4. QED
        BY <4>1, <4>2, <4>3 DEF IsOver
    <3>4. u.pc = "refund" => /\ bal'[u.user_id] # Nil /\ elapsed'[r] <= SEND
                             /\ IsOver(u.id) => ttl'[u.id] + elapsed'[r] >= Horizon
      <4> SUFFICES ASSUME At(r, "refund")
                   PROVE  /\ bal'[t.user_id] # Nil /\ elapsed'[r] <= SEND
                          /\ IsOver(t.id) => ttl'[t.id] + elapsed'[r] >= Horizon
        BY <3>1 DEF At
      <4>1. PICK id \in RequestIds : id = t.id
        BY <2>1 DEF At
      <4>2. gen[id] # Nil /\ (Running(id) => age[id] >= REAP_AFTER)
              /\ (Over(id) => ttl[id] + elapsed[r] >= Horizon)
        BY <2>2, <4>1 DEF Hands, At
      <4>3. PICK s \in Nat : s = elapsed[r]
        BY <1>2
      <4>4. Over(id)' => ttl'[id] + s >= Horizon
        BY <4>2, <4>3, HeldOn
      <4>5. IsOver(id) => ttl'[id] + elapsed'[r] >= Horizon
        BY <3>1, <4>3, <4>4 DEF Over, IsOver
      <4>6. QED
        BY <1>1, <2>2, <3>1, <4>1, <4>5 DEF Monotone
    <3>5. QED
      BY <1>1, <1>3, <2>1, <2>2, <2>3, <3>1, <3>2, <3>3, <3>4
      DEF Reaping, At, ReaperPcs, Over, IsOver
  <2>5. CASE Looks(r)
    <3>1. PICK id \in RequestIds : id = u.id
      BY <2>1, <2>5 DEF Looks
    <3>2. /\ t.pc = "inspect" /\ id \in t.work /\ u.work = t.work \ {id}
          /\ u.pc \in {"forget", "refund"} /\ elapsed'[r] = 0 /\ u.attempt = 0
          /\ u.pc = "forget" => ~Running(id)
          /\ u.pc = "refund" => Running(id) /\ u.user_id = gen[id].user_id
          /\ gen' = gen
      BY <2>5, <3>1 DEF Looks, At
    <3>3. Hands(r)' = Hands(r)
      BY <3>1, <3>2 DEF Hands, At
    <3>4. Cardinality(u.work) + 1 = Cardinality(t.work)
      <4>1. u.work \in SUBSET RequestIds /\ id \in RequestIds \ u.work
            /\ u.work \cup {id} = t.work
        BY <2>1, <3>2
      <4>2. QED
        BY <4>1, Sizes
    <3>5. Spell(r)' = Spell(r)
      <4>1. Spell(r) = Lag(Cardinality(t.work))
        BY <3>2 DEF Spell, At
      <4>2. Spell(r)' = Lag(Cardinality(u.work) + 1) + 0
        BY <3>2 DEF Spell, At
      <4>3. QED
        BY <2>1, <3>4, <4>1, <4>2
    <3>6. gen[id] # Nil /\ (Over(id)' <=> Over(id)) /\ (Over(id) <=> ~Running(id))
      BY <2>2, <3>2 DEF Hands, At, Over, Running
    <3>7. u.pc = "refund" => bal'[u.user_id] # Nil
      BY <1>1, <2>5, <3>2, <3>6 DEF Backed, Looks
    <3>8. QED
      BY <1>1, <1>3, <2>1, <2>3, <3>1, <3>2, <3>3, <3>5, <3>6, <3>7
      DEF Reaping, At, ReaperPcs, Over
  <2>6. CASE Leaves(r)
    <3>1. u.pc = "inspect" /\ u.work = t.work /\ u.attempt = 0 /\ t.pc # "inspect"
      BY <1>3, <2>6 DEF Leaves, ReaperPcs
    <3>2. Hands(r)' \subseteq Hands(r)
      BY <3>1 DEF Hands, At
    <3>3. Spell(r)' = Lag(Cardinality(t.work))
      BY <3>1 DEF Spell, At
    <3>4. Lag(Cardinality(t.work)) = Lag(Cardinality(t.work) + 1) + SEND
            /\ Lag(Cardinality(t.work)) \in Nat /\ Lag(Cardinality(t.work) + 1) \in Nat
      BY <2>1, <3>1, Lags DEF At
    <3>5. Spell(r) <= Spell(r)'
      BY <1>1, <1>2, <2>2, <3>1, <3>3, <3>4 DEF Spell, At
    <3>6. QED
      BY <1>3, <2>1, <2>3, <3>1, <3>2, <3>3, <3>4, <3>5 DEF Reaping, At, ReaperPcs
  <2>7. ~Picks(r) /\ ~Dies(r) /\ ~Restarts(r)
    BY <1>3 DEF Picks, Dies, Restarts, At, ReaperPcs
  <2>8. QED
    BY <2>4, <2>5, <2>6, <2>7, ReaperTends DEF Tends
<1>4. CASE Picks(r)
  <2>1. /\ u.pc = "inspect" /\ u.attempt = 0 /\ u.work \in SUBSET RequestIds
        /\ \A id \in u.work : Running(id) /\ age[id] >= REAP_AFTER
    BY <1>1, <1>4 DEF Picks, Listed, Running, KeysTyped
  <2>2. Cardinality(u.work) \in Nat /\ Cardinality(u.work) <= N
    BY <2>1, Sizes
  <2>3. Spell(r)' = Lag(Cardinality(u.work)) /\ Hands(r)' = u.work
    BY <2>1 DEF Spell, Hands, At
  <2>4. PICK later \in Nat : later = Spell(r)'
    BY <2>2, <2>3, Lags
  <2>5. ASSUME NEW id \in u.work
        PROVE  /\ gen'[id] # Nil
               /\ Running(id)' => age'[id] >= REAP_AFTER
               /\ Over(id)' => ttl'[id] + later >= Horizon
    BY <1>1, <2>1, HeldOn DEF Running, Over
  <2>6. QED
    BY <2>1, <2>3, <2>4, <2>5 DEF Reaping, At, ReaperPcs
<1>5. CASE Dies(r)
  BY <1>1, <1>5 DEF Dies, Reaping, At, ReaperPcs
<1>6. CASE u.pc = "idle" /\ u.attempt = 0
  BY <1>6 DEF Reaping, At, ReaperPcs
<1>7. CASE Waits(r) /\ t.pc \notin ReaperPcs
  BY <1>1, <1>7 DEF Waits, Reaping, At, ReaperPcs
<1>8. QED
  BY <1>3, <1>4, <1>5, <1>6, <1>7, ReaperTends
  DEF Tends, Waits, Looks, Leaves, Repeats, Restarts, At, ReaperPcs

-----------------------------------------------------------------------------
(***************************************************************************)
(* Nothing that runs is overlooked: its record has at least as much left   *)
(* as the reaper may still need.                                           *)
(***************************************************************************)

\* The time n faults may cost a reaper.
Outages(n) == n * (SEND + MAX_OUTAGE)

LEMMA OutagesAdd ==
  ASSUME NEW n \in Nat
  PROVE  Outages(n) \in Nat /\ Outages(n + 1) = Outages(n) + SEND + MAX_OUTAGE
<1>1. SEND \in Nat /\ MAX_OUTAGE \in Nat /\ SEND + MAX_OUTAGE \in Nat
  BY Numbers
<1>2. n * (SEND + MAX_OUTAGE) \in Nat
      /\ (n + 1) * (SEND + MAX_OUTAGE) = n * (SEND + MAX_OUTAGE) + (SEND + MAX_OUTAGE)
  BY <1>1, Product
<1>3. QED
  BY <1>1, <1>2 DEF Outages

LEMMA OutagesBound ==
  ASSUME NEW n \in 0 .. MaxFaults
  PROVE  /\ Outages(n) \in Nat
         /\ Outages(n) <= MaxFaults * (SEND + MAX_OUTAGE)
         /\ n > 0 => MAX_OUTAGE <= Outages(n)
<1>1. /\ SEND \in Nat /\ MAX_OUTAGE \in Nat /\ SEND + MAX_OUTAGE \in Nat
      /\ n \in Nat /\ MaxFaults \in Nat /\ n <= MaxFaults
  BY Numbers
<1>2. n * (SEND + MAX_OUTAGE) <= MaxFaults * (SEND + MAX_OUTAGE)
  BY <1>1, Product
<1>3. ASSUME n > 0 PROVE MAX_OUTAGE <= Outages(n)
  <2>1. n - 1 \in Nat /\ (n - 1) + 1 = n
    BY <1>1, <1>3
  <2>2. Outages(n - 1) \in Nat
        /\ Outages((n - 1) + 1) = Outages(n - 1) + SEND + MAX_OUTAGE
    BY <2>1, OutagesAdd
  <2>3. QED
    BY <1>1, <2>1, <2>2
<1>4. QED
  BY <1>1, <1>2, <1>3, OutagesAdd DEF Outages

\* What a step adds to a delay, or what it is for.
LEMMA DelaySteps ==
  ASSUME TInv, TimersTyped, NEW r \in Reapers, Reaping(r), Work
  PROVE  /\ Delay(r) \in Nat
         /\ Delay(r) <= Delay(r)'
            \/ (At(r, "refund") /\ Leaves(r) /\ Delay(r) <= Delay(r)' + SEND)
<1>1. /\ faults \in Nat /\ faults' \in Nat /\ (faults' = faults \/ faults' = faults + 1)
      /\ SEND \in Nat /\ MAX_OUTAGE \in Nat
      /\ elapsed[r] \in Nat /\ elapsed'[r] \in Nat
  <2>1. r \in Tasks
    BY ReaperHas
  <2>2. QED
    BY <2>1, WorkIsStep, FaultsAddUp, Numbers, WorkKeepsTimers DEF Work, TimersTyped
<1>2. PICK p, q : p = Outages(faults) /\ q = Outages(faults')
  OBVIOUS
<1>3. /\ p \in Nat /\ q \in Nat /\ p <= q
      /\ faults' = faults + 1 => q = p + SEND + MAX_OUTAGE
      /\ faults > 0 => MAX_OUTAGE <= p
  <2>1. p \in Nat /\ q \in Nat
    BY <1>1, <1>2, OutagesAdd
  <2>2. faults' = faults + 1 => q = p + SEND + MAX_OUTAGE
    BY <1>1, <1>2, OutagesAdd
  <2>3. faults > 0 => MAX_OUTAGE <= p
    BY <1>2, WorkIsStep, OutagesBound
  <2>4. faults' = faults => q = p
    BY <1>2
  <2>5. QED
    BY <1>1, <2>1, <2>2, <2>3, <2>4
<1>4. Delay(r) = p + (IF At(r, "refund") THEN elapsed[r] ELSE 0)
                   + (IF At(r, "done") THEN elapsed[r] - MAX_OUTAGE ELSE 0)
  BY <1>2 DEF Delay, Outages
<1>5. Delay(r)' = q + (IF task'[r].pc = "refund" THEN elapsed'[r] ELSE 0)
                    + (IF task'[r].pc = "done" THEN elapsed'[r] - MAX_OUTAGE ELSE 0)
  BY <1>2 DEF Delay, Outages, At
<1>6. /\ At(r, "done") => elapsed[r] <= MAX_OUTAGE /\ faults > 0
      /\ At(r, "refund") => elapsed[r] <= SEND
  BY DEF Reaping, ReaperPcs, At
<1>7. Delay(r) \in Nat
  BY <1>1, <1>3, <1>4, <1>6 DEF At
<1>8. CASE Waits(r) \/ Repeats(r)
  <2>1. task'[r].pc = task[r].pc /\ elapsed'[r] = elapsed[r]
    BY <1>8 DEF Waits, Repeats, At
  <2>2. Delay(r) <= Delay(r)'
    BY <1>1, <1>3, <1>4, <1>5, <2>1 DEF At
  <2>3. QED
    BY <1>7, <2>2
<1>9. CASE Picks(r) \/ Looks(r)
  <2>1. task[r].pc \in {"idle", "inspect"} /\ task'[r].pc \in {"inspect", "forget", "refund"}
        /\ (task'[r].pc = "refund" => elapsed'[r] = 0)
    BY <1>9 DEF Picks, Looks, At
  <2>2. QED
    BY <1>1, <1>3, <1>4, <1>5, <1>7, <2>1 DEF At
<1>10. CASE Leaves(r)
  <2>1. task[r].pc \in {"forget", "refund"} /\ task'[r].pc \in {"idle", "inspect"}
    BY <1>10 DEF Leaves
  <2>2. Delay(r)' = q
    BY <1>3, <1>5, <2>1
  <2>3. CASE At(r, "refund")
    <3>1. Delay(r) = p + elapsed[r]
      BY <1>1, <1>3, <1>4, <2>3 DEF At
    <3>2. Delay(r) <= Delay(r)' + SEND
      BY <1>1, <1>3, <1>6, <2>2, <2>3, <3>1
    <3>3. QED
      BY <1>7, <1>10, <2>3, <3>2
  <2>4. CASE ~At(r, "refund")
    <3>1. Delay(r) = p
      BY <1>3, <1>4, <2>1, <2>4 DEF At
    <3>2. QED
      BY <1>3, <1>7, <2>2, <3>1
  <2>5. QED
    BY <2>3, <2>4
<1>11. CASE Dies(r)
  <2>1. task[r].pc \in {"inspect", "forget", "refund"} /\ task'[r].pc = "done"
        /\ elapsed'[r] = 0 /\ faults' = faults + 1
    BY <1>11 DEF Dies, ReaperPcs
  <2>2. QED
    BY <1>1, <1>3, <1>4, <1>5, <1>6, <1>7, <2>1 DEF At
<1>12. CASE Restarts(r)
  <2>1. task[r].pc = "done" /\ task'[r].pc = "idle"
    BY <1>12 DEF Restarts, At
  <2>2. QED
    BY <1>1, <1>3, <1>4, <1>5, <1>6, <1>7, <2>1 DEF At
<1>13. QED
  BY <1>8, <1>9, <1>10, <1>11, <1>12, ReaperTends DEF Tends

LEMMA SpentSizes ==
  ASSUME NEW id \in RequestIds, NEW r
  PROVE  /\ Spent(id) \in SUBSET RequestIds
         /\ (Spent(id) \ Refunding(r)) \in SUBSET RequestIds
         /\ Cardinality(Spent(id) \ Refunding(r)) \in Nat
         /\ Cardinality(Spent(id) \ Refunding(r)) * SEND \in Nat
<1>1. Spent(id) \in SUBSET RequestIds
  BY DEF Spent
<1>2. (Spent(id) \ Refunding(r)) \in SUBSET RequestIds
  BY <1>1
<1>3. Cardinality(Spent(id) \ Refunding(r)) \in Nat
  BY <1>2, Sizes
<1>4. QED
  BY <1>1, <1>2, <1>3, Numbers, Product

\* More ids that have ended, more time.
LEMMA MoreSpent ==
  ASSUME NEW some \in SUBSET RequestIds, NEW ids \in SUBSET RequestIds,
         some \subseteq ids
  PROVE  /\ Cardinality(some) * SEND \in Nat /\ Cardinality(ids) * SEND \in Nat
         /\ Cardinality(some) * SEND <= Cardinality(ids) * SEND
         /\ \A id \in ids \ some :
              Cardinality(some) * SEND + SEND <= Cardinality(ids) * SEND
<1>1. /\ Cardinality(some) \in Nat /\ Cardinality(ids) \in Nat
      /\ Cardinality(some) <= Cardinality(ids)
      /\ SEND \in Nat
  BY Sizes, LargerSets, Numbers
<1>2. ASSUME NEW id \in ids \ some
      PROVE  Cardinality(some) * SEND + SEND <= Cardinality(ids) * SEND
  <2>1. some \cup {id} \in SUBSET ids /\ id \in RequestIds \ some
    OBVIOUS
  <2>2. Cardinality(some \cup {id}) = Cardinality(some) + 1
    BY <2>1, Sizes
  <2>3. Cardinality(some \cup {id}) <= Cardinality(ids)
    BY <2>1, LargerSets
  <2>4. Cardinality(some) + 1 \in Nat /\ Cardinality(some) + 1 <= Cardinality(ids)
    BY <1>1, <2>2, <2>3
  <2>5. /\ (Cardinality(some) + 1) * SEND <= Cardinality(ids) * SEND
        /\ (Cardinality(some) + 1) * SEND = Cardinality(some) * SEND + SEND
    BY <1>1, <2>4, Product
  <2>6. QED
    BY <2>5
<1>3. QED
  BY <1>1, <1>2, Product

LEMMA SpentGrows ==
  ASSUME TInv, Work, NEW id \in RequestIds, Stays(id)
  PROVE  Spent(id) \subseteq Spent(id)'
<1>1. ASSUME NEW j \in Spent(id)
      PROVE  j \in Spent(id)'
  <2>1. j \in RequestIds \ {id} /\ Over(j)
        /\ ttl[j] + SEND >= ttl[id] + REAP_AFTER + FLUSH_INTERVAL
    BY <1>1 DEF Spent
  <2>2. Stays(j)
    BY <2>1, RecordSteps DEF Over, Begins, Ends, Running
  <2>3. QED
    BY <2>1, <2>2 DEF Spent, Stays, Over
<1>2. QED
  BY <1>1

LEMMA WorkKeepsInTime ==
  ASSUME TInv, TimersTyped, Work, NEW r \in Reapers, Reaping(r), Reaping(r)',
         NEW id \in RequestIds, Running(id) => InTime(r, id), Running(id)'
  PROVE  InTime(r, id)'
<1> DEFINE patience == REAP_AFTER + FLUSH_INTERVAL
<1>1. /\ patience \in Nat /\ SEND \in Nat /\ Horizon \in Nat
      /\ REAP_AFTER \in Nat /\ FLUSH_INTERVAL \in Nat
      /\ ttl[id] \in Nat /\ ttl'[id] \in Nat
      /\ Delay(r) \in Nat
  BY Numbers, WorkKeepsTimers, DelaySteps DEF TimersTyped
<1>2. Delay(r)' \in Nat
  <2>1. /\ faults' \in 0 .. MaxFaults /\ elapsed'[r] \in Nat /\ MAX_OUTAGE \in Nat
    BY WorkIsStep, WorkKeepsTimers, ReaperHas, Numbers DEF TimersTyped
  <2>2. PICK n \in 0 .. MaxFaults : n = faults'
    BY <2>1
  <2>3. Outages(n) \in Nat /\ (n > 0 => MAX_OUTAGE <= Outages(n))
    BY <2>2, OutagesBound
  <2>4. At(r, "done")' => n > 0
    BY <2>2 DEF Reaping
  <2>5. Delay(r)' = Outages(n) + (IF At(r, "refund")' THEN elapsed'[r] ELSE 0)
                      + (IF At(r, "done")' THEN elapsed'[r] - MAX_OUTAGE ELSE 0)
    BY <2>2 DEF Delay, Outages
  <2>6. QED
    BY <2>1, <2>3, <2>4, <2>5
<1> DEFINE before == Spent(id) \ Refunding(r)
           after == Spent(id)' \ Refunding(r)'
<1>3. /\ before \in SUBSET RequestIds /\ after \in SUBSET RequestIds
      /\ Cardinality(before) * SEND \in Nat /\ Cardinality(after) * SEND \in Nat
  <2>1. before \in SUBSET RequestIds /\ after \in SUBSET RequestIds
    BY DEF Spent
  <2>2. QED
    BY <2>1, MoreSpent
<1>4. InTime(r, id) <=>
        Horizon - ttl[id] <= patience + Cardinality(before) * SEND + Delay(r)
  BY DEF InTime
<1>5. InTime(r, id)' <=>
        Horizon - ttl'[id] <= patience + Cardinality(after) * SEND + Delay(r)'
  BY DEF InTime
<1> HIDE DEF before, after
<1>6. CASE Begins(id)
  BY <1>1, <1>2, <1>3, <1>5, <1>6 DEF Begins
<1>7. ~Ends(id)
  BY DEF Ends, Running, Over
<1>8. CASE Stays(id)
  <2>1. Running(id) /\ ttl'[id] = ttl[id]
    BY <1>8 DEF Stays, Running
  <2>2. Spent(id) \subseteq Spent(id)'
    BY <1>8, SpentGrows
  <2>3. CASE Delay(r) <= Delay(r)' /\ before \subseteq after
    <3>1. Cardinality(before) * SEND <= Cardinality(after) * SEND
      BY <1>3, <2>3, MoreSpent
    <3>2. QED
      BY <1>1, <1>2, <1>3, <1>4, <1>5, <2>1, <2>3, <3>1
  <2>4. CASE ~Leaves(r)
    <3>1. before \subseteq after
      <4>1. Refunding(r)' \ Refunding(r) \subseteq {j \in RequestIds : Running(j) /\ gen' = gen}
        <5>1. CASE Waits(r) \/ Repeats(r)
          BY <5>1 DEF Waits, Repeats, Refunding, At
        <5>2. CASE Looks(r)
          <6>1. task'[r].pc = "refund" => task'[r].id \in RequestIds
            BY ReaperHas, HandSizes, <5>2 DEF Looks, At, ReaperPcs
          <6>2. QED
            BY <5>2, <6>1 DEF Looks, Refunding, At
        <5>3. CASE Picks(r) \/ Dies(r) \/ Restarts(r)
          BY <5>3 DEF Picks, Dies, Restarts, Refunding, At
        <5>4. QED
          BY <2>4, <5>1, <5>2, <5>3, ReaperTends DEF Tends
      <4>2. ASSUME NEW j \in Spent(id), Running(j) PROVE FALSE
        BY <4>2 DEF Spent, Over, Running
      <4>3. QED
        BY <2>2, <4>1, <4>2 DEF before, after
    <3>2. QED
      BY <2>3, <2>4, <3>1, DelaySteps
  <2>5. CASE Leaves(r)
    <3>1. Refunding(r)' = {}
      BY <2>5 DEF Leaves, Refunding, At
    <3>2. before \subseteq after
      BY <2>2, <3>1 DEF before, after
    <3>3. CASE At(r, "refund")
      <4>1. PICK j \in RequestIds : j = task[r].id
        BY <3>3, HandSizes DEF At, ReaperPcs
      <4>2. j # id /\ Over(j)'
        BY <2>5, <4>1 DEF Leaves, IsOver, Running, Over
      <4>3. ttl'[j] + SEND >= Horizon /\ ttl'[j] \in Nat
        <5>1. /\ ttl[j] \in Nat /\ ttl'[j] \in Nat /\ elapsed[r] \in Nat
          BY WorkKeepsTimers, ReaperHas DEF TimersTyped
        <5>2. gen[j] # Nil /\ elapsed[r] <= SEND /\ (Over(j) => ttl[j] + elapsed[r] >= Horizon)
          BY <3>3, <4>1 DEF Reaping, Hands, At, ReaperPcs
        <5>3. CASE Stays(j)
          BY <1>1, <4>2, <5>1, <5>2, <5>3 DEF Stays, Over
        <5>4. CASE Ends(j)
          BY <1>1, <5>1, <5>4 DEF Ends
        <5>5. QED
          BY <5>2, <5>3, <5>4, RecordSteps DEF Begins
      <4>4. CASE ttl'[j] + SEND >= ttl'[id] + REAP_AFTER + FLUSH_INTERVAL
        <5>1. j \in after /\ j \notin before
          BY <3>1, <3>3, <4>1, <4>2, <4>4 DEF before, after, Spent, Refunding
        <5>2. Cardinality(before) * SEND + SEND <= Cardinality(after) * SEND
          BY <1>3, <3>2, <5>1, MoreSpent
        <5>3. Delay(r) <= Delay(r)' + SEND
          BY <1>1, <1>2, DelaySteps
        <5>4. QED
          BY <1>1, <1>2, <1>3, <1>4, <1>5, <2>1, <5>2, <5>3
      <4>5. CASE ~(ttl'[j] + SEND >= ttl'[id] + REAP_AFTER + FLUSH_INTERVAL)
        BY <1>1, <1>2, <1>3, <1>5, <4>3, <4>5
      <4>6. QED
        BY <4>4, <4>5
    <3>4. CASE ~At(r, "refund")
      BY <2>3, <3>2, <3>4, DelaySteps
    <3>5. QED
      BY <3>3, <3>4
  <2>6. QED
    BY <2>4, <2>5
<1>9. QED
  BY <1>6, <1>7, <1>8, RecordSteps

-----------------------------------------------------------------------------
(***************************************************************************)
(* One unit of time passes.                                                *)
(***************************************************************************)
LEMMA TickKeepsTask ==
  ASSUME TInv, Tick
  PROVE  Keeps /\ late \subseteq Invocations
<1>1. KeysTyped /\ TypedOthers
  BY TInvParts DEF TypedParts
<1>2. /\ UNCHANGED redis /\ UNCHANGED <<row, task, provider_calls>>
      /\ late' \subseteq late /\ faults' \in 0 .. MaxFaults
      /\ lock' \in [Users -> Tasks \cup {Nil}]
  BY <1>1 DEF Tick, TypedOthers
<1>3. KeysMove
  BY <1>1, <1>2, KeysKeep
<1>4. QED
  BY <1>1, <1>2, <1>3, NobodyStep DEF TypedOthers

LEMMA TickKeepsTimers ==
  ASSUME TimersTyped, Tick
  PROVE  /\ TimersTyped'
         /\ \A id \in RequestIds : gen[id] # Nil => ttl'[id] = ttl[id] - 1
         /\ \A id \in inflight \cap RequestIds :
              /\ age[id] < Horizon => age'[id] = age[id] + 1
              /\ age'[id] >= age[id]
<1>1. Horizon \in Nat
  BY Numbers
<1>2. elapsed' \in [Tasks -> Nat]
  BY <1>1 DEF Tick, TimersTyped, Counting, Lesser
<1>3. left' \in [Users -> Nat]
  BY DEF Tick, TimersTyped, Greater
<1>4. started' \in [Tokens -> 0 .. Horizon] /\ age' \in [RequestIds -> 0 .. Horizon]
      /\ called' \in [RequestIds -> 0 .. Horizon]
  <2>1. ASSUME NEW token \in Tokens
        PROVE  Counting(Pending(token), started[token]) \in 0 .. Horizon
    BY <1>1 DEF TimersTyped, Counting, Lesser
  <2>2. ASSUME NEW id \in RequestIds
        PROVE  /\ Counting(id \in inflight, age[id]) \in 0 .. Horizon
               /\ Counting(provider_calls[id] > 0, called[id]) \in 0 .. Horizon
    BY <1>1 DEF TimersTyped, Counting, Lesser
  <2>3. QED
    BY <2>1, <2>2 DEF Tick
<1>5. ttl' \in [RequestIds -> 0 .. Horizon]
  BY <1>1 DEF Tick, TimersTyped, Greater
<1>6. silent' \in Nat
  BY <1>1 DEF Tick, TimersTyped, Counting, Lesser
<1>7. \A id \in RequestIds : gen[id] # Nil => ttl'[id] = ttl[id] - 1
  BY DEF Tick, TimersTyped, Greater
<1>8. \A id \in inflight \cap RequestIds :
        /\ age[id] < Horizon => age'[id] = age[id] + 1
        /\ age'[id] >= age[id]
  BY <1>1 DEF Tick, TimersTyped, Counting, Lesser
<1>9. QED
  BY <1>2, <1>3, <1>4, <1>5, <1>6, <1>7, <1>8 DEF TimersTyped

\* A reaper that has something to do at once does not let time pass.
LEMMA ReaperTicks ==
  ASSUME TInv, TimersTyped, Tick, NEW r \in Reapers, Reaping(r)
  PROVE  /\ task[r].pc \in {"idle", "refund", "done"}
         /\ At(r, "refund") => elapsed[r] < SEND /\ elapsed'[r] = elapsed[r] + 1
         /\ At(r, "done") => elapsed[r] < MAX_OUTAGE /\ elapsed'[r] = elapsed[r] + 1
<1>1. /\ r \in Tasks /\ elapsed[r] \in Nat /\ elapsed[r] < Patience(r)
      /\ elapsed'[r] = Counting(Patience(r) < Forever, elapsed[r])
      /\ task[r].pc \in ReaperPcs \cup {"idle", "done"}
  BY ReaperHas DEF TimersTyped, Tick, Reaping
<1>2. CASE task[r].pc \in {"inspect", "forget"}
  <2>1. Patience(r) = 0
    BY <1>2, Zenon DEF Patience, At
  <2>2. QED
    BY <1>1, <2>1
<1>3. CASE At(r, "refund")
  <2>1. Patience(r) = SEND
    BY <1>3 DEF Patience, At
  <2>2. SEND \in Nat /\ Horizon \in Nat /\ SEND < Horizon
    BY Numbers, Order
  <2>3. QED
    BY <1>1, <1>3, <2>1, <2>2 DEF At, Counting, Lesser, Forever
<1>4. CASE At(r, "done")
  <2>1. Patience(r) = MAX_OUTAGE
    BY <1>4, Zenon DEF Patience, At
  <2>2. faults \in 0 .. MaxFaults /\ faults > 0
    BY <1>4, TInvParts DEF TypedParts, TypedOthers, Reaping
  <2>3. MAX_OUTAGE < Horizon /\ MAX_OUTAGE < Forever /\ MAX_OUTAGE \in Nat /\ Horizon \in Nat
    BY <2>2, Numbers, OutagesBound DEF Forever
  <2>4. QED
    BY <1>1, <1>4, <2>1, <2>3 DEF At, Counting, Lesser
<1>5. QED
  BY <1>1, <1>2, <1>3, <1>4 DEF At, ReaperPcs

LEMMA TickKeepsReaping ==
  ASSUME TInv, TimersTyped, Tick, \A id \in RequestIds : Listed(id),
         NEW r \in Reapers, Reaping(r)
  PROVE  Reaping(r)'
<1>1. /\ UNCHANGED <<task, gen, bal, inflight, faults>>
      /\ r \in Tasks /\ elapsed[r] \in Nat /\ SEND \in Nat /\ MAX_OUTAGE \in Nat
      /\ Horizon \in Nat /\ REAP_AFTER \in Nat
  BY ReaperHas, Numbers DEF Tick, redis, TimersTyped
<1>2. CASE At(r, "idle")
  BY <1>1, <1>2 DEF Reaping, At, ReaperPcs
<1>3. CASE At(r, "done")
  <2>1. elapsed'[r] <= MAX_OUTAGE
    BY <1>1, <1>3, ReaperTicks
  <2>2. QED
    BY <1>1, <1>3, <2>1 DEF Reaping, At, ReaperPcs
<1>4. CASE At(r, "refund")
  <2>1. elapsed[r] < SEND /\ elapsed'[r] = elapsed[r] + 1
    BY <1>4, ReaperTicks
  <2>2. Hands(r)' = Hands(r) /\ Hands(r) \subseteq RequestIds
    BY <1>1, <1>4, HandSizes DEF Hands, At, ReaperPcs
  <2>3. Spell(r) \in Nat /\ Spell(r)' = Spell(r) + 1
    <3>1. Spell(r) \in Nat
      BY <1>4, SpellBound DEF At, ReaperPcs
    <3>2. PICK lag \in Int : lag = Lag(Cardinality(task[r].work) + 1)
      <4>1. Cardinality(task[r].work) + 1 \in Nat
            /\ Cardinality(task[r].work) + 1 <= Cardinality(RequestIds)
        BY <1>4, HandSizes DEF At, ReaperPcs
      <4>2. QED
        BY <4>1, Lags
    <3>3. Spell(r) = lag + elapsed[r]
      BY <1>4, <3>2 DEF Spell, At
    <3>4. Spell(r)' = lag + elapsed'[r]
      BY <1>1, <1>4, <3>2 DEF Spell, At, Lag
    <3>5. QED
      BY <1>1, <2>1, <3>1, <3>3, <3>4
  <2>4. /\ task[r].attempt = 0 /\ task[r].work \subseteq RequestIds
        /\ task[r].id \in RequestIds /\ task[r].id \notin task[r].work
        /\ bal[task[r].user_id] # Nil
        /\ gen[task[r].id] # Nil
        /\ Over(task[r].id) => ttl[task[r].id] + elapsed[r] >= Horizon
        /\ \A id \in Hands(r) :
             /\ gen[id] # Nil
             /\ Running(id) => age[id] >= REAP_AFTER
             /\ Over(id) => ttl[id] + Spell(r) >= Horizon
    BY <1>4, HandSizes DEF Reaping, At, ReaperPcs, Hands
  <2>5. ASSUME NEW id \in Hands(r)
        PROVE  /\ gen'[id] # Nil
               /\ Running(id)' => age'[id] >= REAP_AFTER
               /\ Over(id)' => ttl'[id] + Spell(r)' >= Horizon
    <3>1. id \in RequestIds /\ age[id] \in Nat /\ age'[id] \in Nat /\ ttl[id] \in Nat
          /\ ttl'[id] = ttl[id] - 1 /\ gen'[id] = gen[id] /\ gen[id] # Nil
      BY <1>1, <2>2, <2>4, <2>5, TickKeepsTimers DEF TimersTyped
    <3>2. Running(id) => id \in inflight
      BY <3>1 DEF Listed, Running
    <3>3. Running(id) => age'[id] >= age[id]
      BY <3>1, <3>2, TickKeepsTimers
    <3>4. QED
      BY <1>1, <2>3, <2>4, <2>5, <3>1, <3>3 DEF Running, Over
  <2>6. Over(task[r].id) => ttl'[task[r].id] + elapsed'[r] >= Horizon
    <3>1. PICK id \in RequestIds : id = task[r].id
      BY <2>4
    <3>2. ttl'[id] = ttl[id] - 1 /\ ttl[id] \in Nat
      BY <2>4, <3>1, TickKeepsTimers DEF TimersTyped
    <3>3. QED
      BY <1>1, <2>1, <2>4, <3>1, <3>2
  <2>7. QED
    BY <1>1, <1>4, <2>1, <2>2, <2>4, <2>5, <2>6 DEF Reaping, At, ReaperPcs, Over
<1>5. QED
  BY <1>2, <1>3, <1>4, ReaperTicks DEF At

LEMMA TickKeepsInTime ==
  ASSUME TInv, TimersTyped, Aged, Tick, NEW r \in Reapers, Reaping(r),
         NEW id \in RequestIds, Listed(id), Running(id), InTime(r, id)
  PROVE  InTime(r, id)'
<1> DEFINE patience == REAP_AFTER + FLUSH_INTERVAL
           spent == Cardinality(Spent(id) \ Refunding(r)) * SEND
<1>1. /\ patience \in Nat /\ Horizon \in Nat /\ spent \in Nat
      /\ ttl[id] \in Nat /\ ttl'[id] = ttl[id] - 1
      /\ age[id] \in Nat /\ age[id] + ttl[id] >= Horizon
      /\ r \in Tasks /\ elapsed[r] \in Nat /\ MAX_OUTAGE \in Nat
  <2>1. patience \in Nat /\ Horizon \in Nat /\ MAX_OUTAGE \in Nat
    BY Numbers
  <2>2. spent \in Nat
    BY SpentSizes
  <2>3. ttl'[id] = ttl[id] - 1 /\ age[id] + ttl[id] >= Horizon
    BY TickKeepsTimers DEF Aged, Running
  <2>4. r \in Tasks
    BY ReaperHas
  <2>5. QED
    BY <2>1, <2>2, <2>3, <2>4 DEF TimersTyped
<1>2. UNCHANGED <<task, gen, inflight, faults>>
  BY DEF Tick, redis
<1>3. Spent(id)' = Spent(id)
  <2>1. ASSUME NEW j \in RequestIds, Over(j)
        PROVE  ttl'[j] = ttl[j] - 1 /\ ttl[j] \in Nat
    BY <2>1, TickKeepsTimers DEF Over, TimersTyped
  <2>2. ASSUME NEW j \in RequestIds, Over(j)
        PROVE  ttl[j] + SEND >= ttl[id] + REAP_AFTER + FLUSH_INTERVAL
                 <=> ttl'[j] + SEND >= ttl'[id] + REAP_AFTER + FLUSH_INTERVAL
    BY <1>1, <2>1, <2>2, Numbers
  <2>3. QED
    BY <1>2, <2>2 DEF Spent, Over
<1>4. Refunding(r)' = Refunding(r)
  BY <1>2 DEF Refunding, At
<1>5. InTime(r, id) <=> Horizon - ttl[id] <= patience + spent + Delay(r)
  BY DEF InTime
<1>6. InTime(r, id)' <=> Horizon - ttl'[id] <= patience + spent + Delay(r)'
  BY <1>3, <1>4 DEF InTime
<1>7. PICK p \in Nat : p = faults * (SEND + MAX_OUTAGE)
  BY TInvParts, OutagesBound DEF TypedParts, TypedOthers, Outages
<1> HIDE DEF spent, patience
<1>8. Delay(r) = p + (IF At(r, "refund") THEN elapsed[r] ELSE 0)
                   + (IF At(r, "done") THEN elapsed[r] - MAX_OUTAGE ELSE 0)
  BY <1>7 DEF Delay
<1>9. Delay(r)' = p + (IF At(r, "refund") THEN elapsed'[r] ELSE 0)
                    + (IF At(r, "done") THEN elapsed'[r] - MAX_OUTAGE ELSE 0)
  BY <1>2, <1>7 DEF Delay, At
<1>10. CASE At(r, "idle")
  <2>1. id \in inflight /\ ~Overlooked(id)
    BY <1>10 DEF Tick, Listed, Running
  <2>2. age[id] < patience
    BY <1>1, <2>1, Numbers DEF Overlooked, patience
  <2>3. Delay(r)' = p
    BY <1>9, <1>10 DEF At
  <2>4. QED
    BY <1>1, <1>6, <1>7, <2>2, <2>3
<1>11. CASE At(r, "refund") \/ At(r, "done")
  <2>1. elapsed'[r] = elapsed[r] + 1
    BY <1>11, ReaperTicks
  <2>2. Delay(r)' = Delay(r) + 1 /\ Delay(r) \in Int
    BY <1>1, <1>7, <1>8, <1>9, <1>11, <2>1 DEF At
  <2>3. QED
    BY <1>1, <1>5, <1>6, <2>2
<1>12. QED
  BY <1>10, <1>11, ReaperTicks DEF At

-----------------------------------------------------------------------------
(***************************************************************************)
(* A record goes.                                                          *)
(***************************************************************************)

\* What runs still has a record: a reaper would have been there.
LEMMA RunningLasts ==
  ASSUME TInv, TimersTyped, NEW r \in Reapers, Reaping(r),
         NEW id \in RequestIds, Running(id), InTime(r, id)
  PROVE  ttl[id] > 0
<1> DEFINE N == Cardinality(RequestIds)
           before == Spent(id) \ Refunding(r)
<1>1. /\ SEND \in Nat /\ N * SEND \in Nat /\ Horizon \in Nat /\ ttl[id] \in Nat
      /\ r \in Tasks /\ elapsed[r] \in Nat /\ MAX_OUTAGE \in Nat
      /\ REAP_AFTER \in Nat /\ FLUSH_INTERVAL \in Nat
      /\ faults \in 0 .. MaxFaults
  BY Numbers, ReaperHas, TInvParts DEF TimersTyped, TypedParts, TypedOthers
<1>2. /\ Cardinality(before) * SEND \in Nat
      /\ Cardinality(before) * SEND + SEND <= N * SEND
  <2>1. before \in SUBSET RequestIds /\ id \in RequestIds \ before
    BY DEF Spent
  <2>2. RequestIds \in SUBSET RequestIds
    OBVIOUS
  <2>3. PICK ids \in SUBSET RequestIds : ids = RequestIds
    BY <2>2
  <2>4. PICK some \in SUBSET RequestIds : some = before
    BY <2>1
  <2>5. Cardinality(some) * SEND + SEND <= Cardinality(ids) * SEND
    BY <2>1, <2>3, <2>4, MoreSpent
  <2>6. Cardinality(some) * SEND \in Nat
    BY <2>3, <2>4, MoreSpent
  <2>7. QED
    BY <2>3, <2>4, <2>5, <2>6
<1>3. PICK p \in Nat : /\ p = faults * (SEND + MAX_OUTAGE)
                       /\ p <= MaxFaults * (SEND + MAX_OUTAGE)
  BY <1>1, OutagesBound DEF Outages
<1> HIDE DEF N, before
<1>4. Delay(r) = p + (IF At(r, "refund") THEN elapsed[r] ELSE 0)
                   + (IF At(r, "done") THEN elapsed[r] - MAX_OUTAGE ELSE 0)
  BY <1>3 DEF Delay
<1>5. /\ At(r, "refund") => elapsed[r] <= SEND
      /\ At(r, "done") => elapsed[r] <= MAX_OUTAGE
  BY DEF Reaping, At, ReaperPcs
<1>6. Delay(r) <= p + SEND
  BY <1>1, <1>4, <1>5 DEF At
<1>7. Delay(r) \in Int
  BY <1>1, <1>3, <1>4
<1>8. Horizon - ttl[id] <=
        REAP_AFTER + FLUSH_INTERVAL + Cardinality(before) * SEND + Delay(r)
  BY DEF InTime, before
<1>9. REAP_AFTER + FLUSH_INTERVAL + N * SEND + MaxFaults * (SEND + MAX_OUTAGE) < Horizon
      /\ MaxFaults * (SEND + MAX_OUTAGE) \in Nat
  BY Numbers DEF N
<1>10. QED
  BY <1>1, <1>2, <1>3, <1>6, <1>7, <1>8, <1>9

LEMMA ExpiresKeepsTask ==
  ASSUME TInv, NEW id \in RequestIds, Expires(id)
  PROVE  Keeps /\ (\A j \in RequestIds : gen'[j] = IF j = id THEN Nil ELSE gen[j])
<1>1. KeysTyped /\ TypedOthers
  BY TInvParts DEF TypedParts
<1>2. /\ UNCHANGED <<row, task, provider_calls>>
      /\ late' \subseteq late /\ faults' \in 0 .. MaxFaults
      /\ lock' \in [Users -> Tasks \cup {Nil}]
  BY <1>1 DEF Expires, TypedOthers, network
<1>3. KeysMove
  BY <1>1 DEF KeysTyped, KeysMove, Expires, Monotone, NonNegative, Vouched, Solvent
<1>4. QED
  BY <1>1, <1>2, <1>3, NobodyStep DEF Expires, KeysTyped

LEMMA ExpiresKeepsReaping ==
  ASSUME TInv, TimersTyped, NEW id \in RequestIds, ~Running(id), Expires(id),
         NEW r \in Reapers, Reaping(r)
  PROVE  Reaping(r)'
<1>1. /\ UNCHANGED <<bal, inflight, task, faults, elapsed, age, ttl>>
      /\ gen[id] # Nil /\ ttl[id] = 0
      /\ \A j \in RequestIds : j # id => gen'[j] = gen[j]
      /\ Over(id)
  BY ExpiresKeepsTask DEF Expires, timers, network, Over, Running
<1>2. CASE task[r].pc \notin ReaperPcs
  BY <1>1, <1>2 DEF Reaping, At, ReaperPcs
<1>3. CASE task[r].pc \in ReaperPcs
  <2>1. Hands(r) \subseteq RequestIds /\ Hands(r)' = Hands(r) /\ Spell(r)' = Spell(r)
    BY <1>1, <1>3, HandSizes DEF Hands, Spell, At, Lag
  <2>2. id \notin Hands(r)
    <3>1. Spell(r) \in Nat /\ Spell(r) < Horizon /\ Horizon \in Nat
      BY <1>3, SpellBound, Numbers
    <3>2. id \in Hands(r) => ttl[id] + Spell(r) >= Horizon
      BY <1>1, <1>3 DEF Reaping
    <3>3. QED
      BY <1>1, <3>1, <3>2
  <2>3. ~At(r, "inspect") => task[r].id \in Hands(r)
    BY DEF Hands
  <2>4. \A j \in Hands(r) : gen'[j] = gen[j]
    BY <1>1, <2>1, <2>2
  <2>5. \A j \in Hands(r) : (Running(j)' <=> Running(j)) /\ (Over(j)' <=> Over(j))
    BY <2>4 DEF Running, Over
  <2>6. (At(r, "forget") \/ At(r, "refund")) => (Over(task[r].id)' <=> Over(task[r].id))
    BY <1>1, <2>3, <2>4 DEF At, Over
  <2>7. QED
    BY <1>1, <1>3, <2>1, <2>4, <2>5, <2>6 DEF Reaping, At
<1>4. QED
  BY <1>2, <1>3

LEMMA ExpiresKeepsInTime ==
  ASSUME TInv, TimersTyped, NEW id \in RequestIds, ~Running(id), Expires(id),
         NEW r \in Reapers, NEW j \in RequestIds, Running(j)',
         Running(j) => InTime(r, j)
  PROVE  InTime(r, j)'
<1>1. /\ UNCHANGED <<inflight, task, faults, elapsed, age, ttl>>
      /\ ttl[id] = 0 /\ gen'[id] = Nil
      /\ \A k \in RequestIds : k # id => gen'[k] = gen[k]
  BY ExpiresKeepsTask DEF Expires, timers, network
<1>2. Running(j)
  BY <1>1 DEF Running
<1>3. ~(ttl[id] + SEND >= ttl[j] + REAP_AFTER + FLUSH_INTERVAL)
  BY <1>1, Numbers DEF TimersTyped
<1>4. Spent(j)' = Spent(j)
  <2>1. ASSUME NEW k \in RequestIds, k # id PROVE Over(k)' <=> Over(k)
    BY <1>1, <2>1 DEF Over
  <2>2. QED
    BY <1>1, <1>3, <2>1 DEF Spent, Over
<1>5. Delay(r)' = Delay(r) /\ Refunding(r)' = Refunding(r)
  BY <1>1 DEF Delay, Refunding, At
<1>6. QED
  BY <1>1, <1>2, <1>4, <1>5 DEF InTime

-----------------------------------------------------------------------------
(***************************************************************************)
(* The theorems.                                                           *)
(***************************************************************************)
LEMMA ClockInitOK == ClockInit => RecordsInv
<1> SUFFICES ASSUME ClockInit PROVE RecordsInv
  OBVIOUS
<1>1. TInv /\ inflight = {} /\ \A id \in RequestIds : gen[id] = Nil
  BY InitOK DEF ClockInit, Init, StoreInit, IInv
<1>2. TimersTyped
  BY Numbers DEF ClockInit, TimersTyped
<1>3. Backed /\ Aged /\ \A id \in RequestIds : Listed(id) /\ ~Running(id)
  BY <1>1 DEF Backed, Aged, Listed, Running
<1>4. ASSUME NEW r \in Reapers PROVE Reaping(r)
  <2>1. task[r] = Blank /\ Blank.pc = "idle" /\ Blank.attempt = 0
    BY <1>1, ReaperHas DEF ClockInit, Init, Blank
  <2>2. QED
    BY <2>1 DEF Reaping, At, ReaperPcs
<1>5. QED
  BY <1>1, <1>2, <1>3, <1>4 DEF RecordsInv

LEMMA WorkOK == RecordsInv /\ Work => RecordsInv'
<1> SUFFICES ASSUME RecordsInv, Work PROVE RecordsInv'
  OBVIOUS
<1>1. /\ TInv /\ TimersTyped /\ Backed /\ Aged
      /\ \A id \in RequestIds : Listed(id)
      /\ \A r \in Reapers : Reaping(r) /\ \A id \in RequestIds : Running(id) => InTime(r, id)
  BY DEF RecordsInv
<1>2. TInv' /\ TimersTyped' /\ Backed'
  BY <1>1, WorkIsStep, WorkKeepsTimers, WorkKeepsBacked
<1>3. \A id \in RequestIds : Listed(id)'
  BY <1>1, WorkKeepsListed
<1>4. Aged'
  BY <1>1, <1>3, WorkKeepsAged
<1>5. \A r \in Reapers : Reaping(r)'
  BY <1>1, <1>3, WorkKeepsReaping
<1>6. \A r \in Reapers : \A id \in RequestIds : Running(id)' => InTime(r, id)'
  BY <1>1, <1>5, WorkKeepsInTime
<1>7. QED
  BY <1>2, <1>3, <1>4, <1>5, <1>6 DEF RecordsInv

LEMMA TickOK == RecordsInv /\ Tick => RecordsInv'
<1> SUFFICES ASSUME RecordsInv, Tick PROVE RecordsInv'
  OBVIOUS
<1>1. /\ TInv /\ TimersTyped /\ Backed /\ Aged
      /\ \A id \in RequestIds : Listed(id)
      /\ \A r \in Reapers : Reaping(r) /\ \A id \in RequestIds : Running(id) => InTime(r, id)
  BY DEF RecordsInv
<1>2. TInv' /\ TimersTyped'
  BY <1>1, TickKeepsTask, TickKeepsTimers DEF Keeps
<1>3. UNCHANGED <<gen, bal, inflight, task>>
  BY DEF Tick, redis
<1>4. Backed' /\ \A id \in RequestIds : Listed(id)' /\ (Running(id)' <=> Running(id))
  <2>1. Backed'
    BY <1>1, <1>3 DEF Backed
  <2>2. \A id \in RequestIds : Listed(id)' /\ (Running(id)' <=> Running(id))
    BY <1>1, <1>3 DEF Listed, Running
  <2>3. QED
    BY <2>1, <2>2
<1>5. Aged'
  <2>1. ASSUME NEW id \in RequestIds, Running(id)
        PROVE  age'[id] + ttl'[id] >= Horizon
    <3>1. /\ age[id] \in 0 .. Horizon /\ age'[id] \in Nat /\ ttl[id] \in Nat
          /\ Horizon \in Nat
          /\ age[id] + ttl[id] >= Horizon
      BY <1>1, <1>2, <2>1, Numbers DEF TimersTyped, Aged
    <3>2. ttl[id] > 0 /\ ttl'[id] = ttl[id] - 1
      BY <1>1, <2>1, TickKeepsTimers DEF Running, Tick
    <3>3. /\ age[id] < Horizon => age'[id] = age[id] + 1
          /\ age'[id] >= age[id]
      BY <1>1, <2>1, TickKeepsTimers DEF Running, Listed
    <3>4. QED
      BY <3>1, <3>2, <3>3
  <2>2. QED
    BY <1>4, <2>1 DEF Aged
<1>6. \A r \in Reapers : Reaping(r)'
  BY <1>1, TickKeepsReaping
<1>7. \A r \in Reapers : \A id \in RequestIds : Running(id)' => InTime(r, id)'
  BY <1>1, <1>4, TickKeepsInTime
<1>8. QED
  BY <1>2, <1>4, <1>5, <1>6, <1>7 DEF RecordsInv

LEMMA ExpiresOK ==
  ASSUME RecordsInv, Reapers # {}, NEW id \in RequestIds, Expires(id)
  PROVE  RecordsInv'
<1>1. /\ TInv /\ TimersTyped /\ Backed /\ Aged
      /\ \A j \in RequestIds : Listed(j)
      /\ \A r \in Reapers : Reaping(r) /\ \A j \in RequestIds : Running(j) => InTime(r, j)
  BY DEF RecordsInv
<1>2. ~Running(id)
  BY <1>1, RunningLasts DEF Expires
<1>3. /\ TInv' /\ UNCHANGED <<bal, inflight, timers>>
      /\ \A j \in RequestIds : gen'[j] = IF j = id THEN Nil ELSE gen[j]
  BY <1>1, ExpiresKeepsTask DEF Keeps, Expires
<1>4. TimersTyped' /\ Backed' /\ Aged' /\ \A j \in RequestIds : Listed(j)'
  <2>1. TimersTyped'
    BY <1>1, <1>3 DEF TimersTyped, timers
  <2>2. Backed' /\ Aged'
    BY <1>1, <1>3 DEF Backed, Aged, Running, timers
  <2>3. \A j \in RequestIds : Listed(j)'
    BY <1>1, <1>2, <1>3 DEF Listed, Running
  <2>4. QED
    BY <2>1, <2>2, <2>3
<1>5. \A r \in Reapers : Reaping(r)'
  BY <1>1, <1>2, ExpiresKeepsReaping
<1>6. \A r \in Reapers : \A j \in RequestIds : Running(j)' => InTime(r, j)'
  BY <1>1, <1>2, ExpiresKeepsInTime
<1>7. QED
  BY <1>3, <1>4, <1>5, <1>6 DEF RecordsInv

LEMMA ClockRests == RecordsInv /\ UNCHANGED <<vars, timers>> => RecordsInv'
<1> SUFFICES ASSUME RecordsInv, UNCHANGED <<vars, timers>> PROVE RecordsInv'
  OBVIOUS
<1>1. TInv' /\ UNCHANGED <<bal, gen, inflight, faults, task, elapsed, left, started, age,
                           ttl, called, silent>>
  BY NextKeeps DEF RecordsInv, Keeps, vars, redis, network, timers
<1>2. QED
  BY <1>1
  DEF RecordsInv, TimersTyped, Backed, Aged, Listed, Reaping, Running, Over, At, Hands,
      Spell, Lag, InTime, Spent, Refunding, Delay

\* A record outlives its reservation (GENERATION_RECORD_TTL_SECONDS against
\* REAP_AFTER_SECONDS): while any background process comes back from its faults, each
\* record that runs is reaped before its TTL has run out.
THEOREM NothingLapses ==
  ASSUME Reapers # {}
  PROVE  ClockSpec => []RecordsOutliveReservations
<1>1. RecordsInv /\ [ClockNext]_<<vars, timers>> => RecordsInv'
  BY WorkOK, TickOK, ExpiresOK, ClockRests DEF ClockNext, Work
<1>2. RecordsInv => RecordsOutliveReservations
  BY RunningLasts DEF RecordsInv, RecordsOutliveReservations, Running
<1>3. QED
  BY ClockInitOK, <1>1, <1>2, PTL DEF ClockSpec

-----------------------------------------------------------------------------
(***************************************************************************)
(* The queue at a load lock.  Each fault costs the loaders in it one TTL   *)
(* of the lock at most, and the holder that is loading one more.           *)
(***************************************************************************)
Living(u) == lock[u] # Nil /\ Holding(lock[u], u)

\* A holder that has seen the balance lets go without a pause.
Leaving(u) == Living(u) /\ bal[u] # Nil /\ task[lock[u]].pc # "select"

Queued(a, u) ==
  /\ task[a].user_id = u
  /\ At(a, "lock") \/ (At(a, "load") /\ bal[u] = Nil)

Due(n) == n * LOAD_LOCK_TTL

\* How long a loader may have been in the queue when nothing of the TTL is left, and
\* what is left of it.
Grace(u) == Due(IF bal[u] # Nil \/ Living(u) THEN faults + 1 ELSE faults)
Rest(u) == IF Leaving(u) THEN 0 ELSE left[u]

LockTimes(u) ==
  /\ left[u] <= LOAD_LOCK_TTL
  /\ lock[u] = Nil => left[u] = 0
  /\ lock[u] # Nil /\ ~Living(u) => faults > 0

ReleasesLoaded == \A a \in Tasks : At(a, "release") => bal[task[a].user_id] # Nil

QueueInv ==
  /\ IInv
  /\ TimersTyped
  /\ ReleasesLoaded
  /\ \A u \in Users :
       /\ LockTimes(u)
       /\ \A a \in Tasks : Queued(a, u) => elapsed[a] + Rest(u) <= Grace(u)

\* What may happen to a lock.
Held(u) ==
  /\ lock'[u] = lock[u] /\ left'[u] = left[u]
  /\ Living(u)' => Living(u)
  /\ Living(u) => faults' = faults + 1
                  \/ (Living(u)' /\ (Leaving(u) => Leaving(u)'))

Seized(u) ==
  /\ lock[u] = Nil /\ left'[u] = LOAD_LOCK_TTL
  /\ Living(u)' /\ task'[lock'[u]].pc = "recheck"

LetGo(u) == lock'[u] = Nil /\ left'[u] = 0 /\ (Leaving(u) \/ lock[u] = Nil)

Expired(u) ==
  /\ lock[u] # Nil /\ left[u] = 0
  /\ lock'[u] = Nil /\ left'[u] = 0
  /\ Living(u) => faults' = faults + 1

LEMMA DueAdd ==
  ASSUME NEW n \in Nat
  PROVE  Due(n) \in Nat /\ Due(n + 1) = Due(n) + LOAD_LOCK_TTL
BY Product, TimesAssumption DEF Due

QueueTyped ==
  \A u \in Users : Rest(u) \in Nat /\ Grace(u) \in Nat /\ Grace(u) <= Due(faults + 1)

LEMMA GraceTyped == TimersTyped /\ faults \in Nat => QueueTyped
<1> SUFFICES ASSUME TimersTyped, faults \in Nat, NEW u \in Users
             PROVE  Rest(u) \in Nat /\ Grace(u) \in Nat /\ Grace(u) <= Due(faults + 1)
  BY DEF QueueTyped
<1>1. /\ Due(faults) \in Nat /\ Due(faults + 1) = Due(faults) + LOAD_LOCK_TTL
      /\ LOAD_LOCK_TTL \in Nat
  BY DueAdd, TimesAssumption
<1>2. PICK d : d = Due(faults)
  OBVIOUS
<1>3. Grace(u) \in {d, d + LOAD_LOCK_TTL}
  BY <1>1, <1>2 DEF Grace
<1>4. Rest(u) \in Nat
  BY DEF Rest, TimersTyped
<1>5. QED
  BY <1>1, <1>2, <1>3, <1>4

LEMMA LockMoves ==
  ASSUME TimersTyped, TimersTyped', Monotone, NEW u \in Users, LockTimes(u),
         faults \in Nat, faults' = faults \/ faults' = faults + 1,
         Held(u) \/ Seized(u) \/ LetGo(u) \/ Expired(u)
  PROVE  LockTimes(u)' /\ Rest(u)' <= Grace(u)' /\ Rest(u)' + Grace(u) <= Rest(u) + Grace(u)'
<1> DEFINE n == faults
           ttl_ms == LOAD_LOCK_TTL
<1>1. PICK d : d = Due(n)
  OBVIOUS
<1>2. d \in Nat /\ ttl_ms \in Nat /\ Due(n + 1) = d + ttl_ms
  BY <1>1, DueAdd, TimesAssumption
<1>3. Due((n + 1) + 1) = d + ttl_ms + ttl_ms
  BY <1>1, <1>2, DueAdd
<1>4. Grace(u) = IF bal[u] # Nil \/ Living(u) THEN d + ttl_ms ELSE d
  BY <1>1, <1>2 DEF Grace
<1>5. Grace(u)' =
        IF bal'[u] # Nil \/ Living(u)'
          THEN IF faults' = faults THEN d + ttl_ms ELSE d + ttl_ms + ttl_ms
          ELSE IF faults' = faults THEN d ELSE d + ttl_ms
  BY <1>1, <1>2, <1>3 DEF Grace
<1>6. /\ left[u] \in Nat /\ left'[u] \in Nat /\ left[u] <= ttl_ms
      /\ bal[u] # Nil => bal'[u] # Nil
      /\ faults > 0 => d >= ttl_ms
  <2>1. ASSUME faults > 0 PROVE d >= ttl_ms
    <3>1. n - 1 \in Nat /\ (n - 1) + 1 = n
      BY <2>1
    <3>2. Due(n - 1) \in Nat /\ Due((n - 1) + 1) = Due(n - 1) + LOAD_LOCK_TTL
      BY <3>1, DueAdd
    <3>3. QED
      BY <1>1, <1>2, <3>1, <3>2
  <2>2. QED
    BY <2>1 DEF TimersTyped, LockTimes, Monotone
<1>7. Rest(u) = IF Leaving(u) THEN 0 ELSE left[u]
  BY DEF Rest
<1>8. Rest(u)' = IF Leaving(u)' THEN 0 ELSE left'[u]
  BY DEF Rest
<1>9. Leaving(u) => Living(u) /\ bal[u] # Nil
  BY DEF Leaving
<1>10. Leaving(u)' => Living(u)' /\ bal'[u] # Nil
  BY DEF Leaving
<1> HIDE DEF ttl_ms
<1>11. /\ LockTimes(u) <=> /\ left[u] <= ttl_ms
                           /\ lock[u] = Nil => left[u] = 0
                           /\ lock[u] # Nil /\ ~Living(u) => faults > 0
       /\ LockTimes(u)' <=> /\ left'[u] <= ttl_ms
                            /\ lock'[u] = Nil => left'[u] = 0
                            /\ lock'[u] # Nil /\ ~Living(u)' => faults' > 0
  BY DEF LockTimes, ttl_ms
<1>12. CASE Held(u)
  <2>1. /\ lock'[u] = lock[u] /\ left'[u] = left[u]
        /\ Living(u)' => Living(u)
        /\ Living(u) => faults' = faults + 1
                        \/ (Living(u)' /\ (Leaving(u) => Leaving(u)'))
    BY <1>12 DEF Held
  <2>2. LockTimes(u)'
    BY <1>11, <2>1
  <2>3. CASE Living(u) /\ faults' = faults
    BY <1>2, <1>4, <1>5, <1>6, <1>7, <1>8, <1>9, <1>10, <2>1, <2>2, <2>3
  <2>4. CASE Living(u) /\ faults' # faults
    BY <1>2, <1>4, <1>5, <1>6, <1>7, <1>8, <1>9, <1>10, <2>1, <2>2, <2>4
  <2>5. CASE ~Living(u)
    <3>1. Rest(u) = left[u] /\ Rest(u)' = left[u] /\ Grace(u) <= Grace(u)'
      BY <1>2, <1>4, <1>5, <1>6, <1>7, <1>8, <1>9, <1>10, <2>1, <2>5
    <3>2. left[u] <= Grace(u)'
      BY <1>2, <1>4, <1>5, <1>6, <1>11, <2>1, <2>5
    <3>3. QED
      BY <1>2, <1>4, <1>5, <1>6, <2>2, <3>1, <3>2
  <2>6. QED
    BY <2>3, <2>4, <2>5
<1>13. CASE Seized(u)
  <2>1. /\ lock[u] = Nil /\ left'[u] = ttl_ms /\ left[u] = 0
        /\ Living(u)' /\ ~Living(u) /\ lock'[u] # Nil
        /\ bal'[u] # Nil => Leaving(u)'
    BY <1>11, <1>13 DEF Seized, Living, Leaving, ttl_ms
  <2>2. LockTimes(u)'
    BY <1>2, <1>11, <2>1
  <2>3. QED
    BY <1>2, <1>4, <1>5, <1>6, <1>7, <1>8, <1>9, <1>10, <2>1, <2>2
<1>14. CASE LetGo(u) \/ Expired(u)
  <2>1. lock'[u] = Nil /\ left'[u] = 0 /\ ~Living(u)' /\ Rest(u)' = 0
    BY <1>8, <1>10, <1>14 DEF LetGo, Expired, Living
  <2>2. LockTimes(u)'
    BY <1>2, <1>11, <2>1
  <2>3. Grace(u)' \in Nat /\ Rest(u) \in Nat
    BY <1>2, <1>5, <1>6, <1>7
  <2>4. Grace(u) <= Grace(u)'
    BY <1>2, <1>4, <1>5, <1>6, <1>9, <1>14, <2>1 DEF LetGo, Expired, Living
  <2>5. QED
    BY <1>2, <1>4, <2>1, <2>2, <2>3, <2>4
<1>15. QED
  BY <1>12, <1>13, <1>14

\* A step of a in ensure_loaded: what it does to the lock of its user.
Quits(a) ==
  /\ task[a].pc \in {"load", "lock"} /\ task'[a].pc \notin LoaderPcs
  /\ lock' = lock

Misses(a) ==
  /\ At(a, "load") /\ bal[task[a].user_id] = Nil
  /\ task'[a].pc = "lock" /\ task'[a].user_id = task[a].user_id
  /\ lock' = lock

Retries(a) ==
  /\ At(a, "lock") /\ task'[a].pc = "load" /\ task'[a].user_id = task[a].user_id
  /\ lock' = lock

Seizes(a) ==
  /\ At(a, "lock") /\ lock[task[a].user_id] = Nil
  /\ task'[a].pc = "recheck" /\ task'[a].user_id = task[a].user_id
  /\ lock' = [lock EXCEPT ![task[a].user_id] = a]

Presses(a) ==
  /\ task[a].pc \in {"recheck", "select", "seed"}
  /\ task'[a].pc \in {"select", "seed", "release"}
  /\ task'[a].user_id = task[a].user_id
  /\ task'[a].pc = "select" => bal[task[a].user_id] = Nil
  /\ task'[a].pc = "release" => bal'[task[a].user_id] # Nil
  /\ lock' = lock

Frees(a) ==
  /\ At(a, "release")
  /\ \/ task'[a].pc = "load" /\ task'[a].user_id = task[a].user_id
     \/ task'[a].pc \notin LoaderPcs
  /\ lock' = IF lock[task[a].user_id] = a
               THEN [lock EXCEPT ![task[a].user_id] = Nil] ELSE lock

Rounds(a) ==
  /\ task[a].user_id \in Users
  /\ \A b \in Tasks \ {a} : task'[b] = task[b]
  /\ Quits(a) \/ Misses(a) \/ Retries(a) \/ Seizes(a) \/ Presses(a) \/ Frees(a)

LEMMA EnsureRounds ==
  ASSUME IInv, NEW a \in Tasks, Ensure(a)
  PROVE  Rounds(a)
<1> DEFINE u == task[a].user_id
           t == task[a]
<1>1. /\ t.pc \in LoaderPcs /\ DOMAIN task = Tasks
      /\ DOMAIN bal = Users
      /\ "pc" \in DOMAIN t /\ "user_id" \in DOMAIN t
  BY TaskHasPc, IInvParts
  DEF Ensure, Load, TryAcquireLoadLock, LoadTimesOut, Recheck, LoadFromDb, Seed,
      ReleaseLoadLock, At, LoaderPcs, Parts, Others, TypedOthers, KeysOK
<1>2. u \in Users /\ t.ret \notin LoaderPcs
  BY <1>1, LoaderFacts
<1>3. ASSUME NEW s, Set(a, s)
      PROVE  task'[a] = s /\ \A b \in Tasks \ {a} : task'[b] = task[b]
  BY <1>1, <1>3 DEF Set
<1>4. CASE Load(a)
  <2> DEFINE t1 == [t EXCEPT !.pc = t.ret, !.snap = bal[u]]
             t2 == [t EXCEPT !.pc = "lock"]
  <2>1. t1.pc \notin LoaderPcs /\ t2.pc = "lock" /\ t2.user_id = u
    BY <1>1, <1>2
  <2>2. /\ At(a, "load") /\ lock' = lock
        /\ (bal[u] # Nil /\ Set(a, t1)) \/ (bal[u] = Nil /\ Set(a, t2))
    BY <1>4 DEF Load, Goto
  <2> HIDE DEF t1, t2
  <2>3. QED
    BY <1>2, <1>3, <2>1, <2>2 DEF Rounds, Quits, Misses, At
<1>5. CASE TryAcquireLoadLock(a)
  <2> DEFINE t1 == [t EXCEPT !.pc = "recheck"]
             t2 == [t EXCEPT !.pc = "load"]
  <2>1. t1.pc = "recheck" /\ t1.user_id = u /\ t2.pc = "load" /\ t2.user_id = u
    BY <1>1
  <2>2. /\ At(a, "lock")
        /\ \/ lock[u] = Nil /\ Set(a, t1) /\ lock' = [lock EXCEPT ![u] = a]
           \/ lock[u] # Nil /\ Set(a, t2) /\ lock' = lock
    BY <1>5 DEF TryAcquireLoadLock, Goto
  <2> HIDE DEF t1, t2
  <2>3. QED
    BY <1>2, <1>3, <2>1, <2>2 DEF Rounds, Seizes, Retries
<1>6. CASE LoadTimesOut(a)
  <2> DEFINE t1 == Ended(t, Raised("BalanceContention"))
  <2>1. t1.pc = "done"
    BY DEF Ended, Blank
  <2>2. At(a, "lock") /\ Set(a, t1) /\ lock' = lock
    BY <1>6 DEF LoadTimesOut
  <2> HIDE DEF t1
  <2>3. QED
    BY <1>2, <1>3, <2>1, <2>2 DEF Rounds, Quits, At, LoaderPcs
<1>7. CASE Recheck(a)
  <2> DEFINE t1 == [t EXCEPT !.pc = "release", !.snap = bal[u]]
             t2 == [t EXCEPT !.pc = "select"]
  <2>1. t1.pc = "release" /\ t1.user_id = u /\ t2.pc = "select" /\ t2.user_id = u
    BY <1>1
  <2>2. /\ At(a, "recheck") /\ lock' = lock /\ bal' = bal
        /\ (bal[u] # Nil /\ Set(a, t1)) \/ (bal[u] = Nil /\ Set(a, t2))
    BY <1>7 DEF Recheck, LoadedMeanwhile, Goto, redis
  <2> HIDE DEF t1, t2
  <2>3. QED
    BY <1>2, <1>3, <2>1, <2>2 DEF Rounds, Presses, At
<1>8. CASE LoadFromDb(a)
  <2> DEFINE t1 == [t EXCEPT !.pc = "seed", !.snap = StoredBalance(u)]
  <2>1. t1.pc = "seed" /\ t1.user_id = u
    BY <1>1
  <2>2. At(a, "select") /\ lock' = lock /\ Set(a, t1)
    BY <1>8 DEF LoadFromDb
  <2> HIDE DEF t1
  <2>3. QED
    BY <1>2, <1>3, <2>1, <2>2 DEF Rounds, Presses, At
<1>9. CASE Seed(a)
  <2> DEFINE t1 == [t EXCEPT !.pc = "release", !.snap = Nil]
  <2>1. t1.pc = "release" /\ t1.user_id = u
    BY <1>1
  <2>2. At(a, "seed") /\ lock' = lock /\ Set(a, t1)
        /\ SEED_IF_ABSENT(u, t.snap)
    BY <1>9 DEF Seed
  <2>3. t.snap \in Balances
    BY <1>1, <2>2 DEF IInv, TInv, LoaderShape, At
  <2>4. t.snap # Nil
    BY <2>3, NilAssumption DEF Balances, Snapshots
  <2>5. bal'[u] # Nil
    BY <1>1, <1>2, <2>2, <2>4 DEF SEED_IF_ABSENT
  <2> HIDE DEF t1
  <2>6. QED
    BY <1>2, <1>3, <2>1, <2>2, <2>5 DEF Rounds, Presses, At
<1>10. CASE ReleaseLoadLock(a)
  <2> DEFINE t1 == [t EXCEPT !.pc = "load"]
             t2 == [t EXCEPT !.pc = t.ret]
  <2>1. t1.pc = "load" /\ t1.user_id = u /\ t2.pc \notin LoaderPcs
    BY <1>1, <1>2
  <2>2. /\ At(a, "release")
        /\ Set(a, t1) \/ Set(a, t2)
        /\ lock' = IF lock[u] = a THEN [lock EXCEPT ![u] = Nil] ELSE lock
    BY <1>10 DEF ReleaseLoadLock, Goto
  <2> HIDE DEF t1, t2
  <2>3. QED
    BY <1>2, <1>3, <2>1, <2>2 DEF Rounds, Frees
<1>11. QED
  BY <1>4, <1>5, <1>6, <1>7, <1>8, <1>9, <1>10 DEF Ensure

\* Outside ensure_loaded a task that is in it can only be stopped.
LEMMA LoaderStopped ==
  ASSUME NEW a, task[a].pc \in LoaderPcs,
         CallWorksOn(a) \/ TopUpWorksOn(a) \/ ReaderWorksOn(a) \/ ReaperWorksOn(a)
  PROVE  \E sent : Abandon(a, sent)
<1>1. /\ ~At(a, "idle") /\ ~At(a, "done") /\ ~At(a, "authorize") /\ ~At(a, "reserve")
      /\ ~At(a, "denied") /\ ~At(a, "wait") /\ ~At(a, "provider") /\ ~At(a, "settle")
      /\ ~At(a, "refund") /\ ~At(a, "top_up") /\ ~At(a, "balance")
      /\ ~At(a, "inspect") /\ ~At(a, "forget")
      /\ task[a].pc \notin LoopHeads /\ ~CallSending(a)
  BY DEF LoaderPcs, LoopHeads, CallSending, At
<1>2. CASE CallWorksOn(a)
  BY <1>1, <1>2, Zenon
  DEF CallWorksOn, CallProgress, ExecuteGeneration, AuthorizeSnapshot, Reserve,
      ReserveConflict, ReserveMissing, ReserveDuplicate, DeniedOrDuplicate, PollRecord,
      WaitTimesOut, ProviderReturns, ProviderRaises, RefundCall, RefundReturns,
      RefundMissing, Settle, SettleStale, SettleMissing, GiveUp, CallLosesReply,
      CallAbandoned
<1>3. CASE TopUpWorksOn(a)
  BY <1>1, <1>3, Zenon
  DEF TopUpWorksOn, TopUpProgress, ApplyTopUp, TopUp, TopUpMissing, GiveUp,
      TopUpLosesReply, TopUpAbandoned
<1>4. CASE ReaderWorksOn(a)
  BY <1>1, <1>4, Zenon DEF ReaderWorksOn, GetBalance, ReturnBalance
<1>5. CASE ReaperWorksOn(a)
  BY <1>1, <1>5, Zenon
  DEF ReaperWorksOn, ReaperProgress, StaleInflight, InspectStale, Forget, RefundStale,
      RefundReturns, RefundMissing, GiveUp, RestartReaper, ReaperLosesReply,
      ReaperAbandoned
<1>6. QED
  BY <1>2, <1>3, <1>4, <1>5

\* A step of a outside ensure_loaded, or the end of a in it.
Works(a) ==
  /\ Elsewhere(a)
  /\ task[a].pc \in LoaderPcs => faults' = faults + 1 /\ task'[a].pc \notin LoaderPcs

LEMMA LoaderWorks ==
  ASSUME IInv, NEW a \in Tasks, Elsewhere(a),
         CallWorksOn(a) \/ TopUpWorksOn(a) \/ ReaderWorksOn(a) \/ ReaperWorksOn(a)
  PROVE  Works(a)
<1>1. ASSUME task[a].pc \in LoaderPcs
      PROVE  faults' = faults + 1 /\ task'[a].pc \notin LoaderPcs
  <2>1. PICK sent : Abandon(a, sent)
    BY <1>1, LoaderStopped
  <2>2. faults' = faults + 1 /\ Set(a, Ended(task[a], Raised("aborted")))
    BY <2>1 DEF Abandon
  <2>3. Ended(task[a], Raised("aborted")).pc \notin LoaderPcs
    BY DEF Ended, Blank, LoaderPcs
  <2>4. DOMAIN task = Tasks
    BY IInvParts DEF Parts, Others, TypedOthers
  <2>5. QED
    BY <2>2, <2>3, <2>4 DEF Set
<1>2. QED
  BY <1>1 DEF Works

LEMMA WorkTurns ==
  ASSUME IInv, Work
  PROVE  \/ \E a \in Tasks : Rounds(a) /\ faults' = faults
         \/ \E a \in Tasks : Works(a)
         \/ \E u \in Users : LockExpires(u)
         \/ UNCHANGED <<task, lock>>
<1>1. \A a \in Tasks : Ensure(a) => Rounds(a) /\ faults' = faults
  BY EnsureRounds, EnsureUntouched
<1>2. \A c \in Calls : c \in Tasks /\ (CallWorksOn(c) => Works(c))
  BY RolesAssumption, CallElsewhere, LoaderWorks
<1>3. \A t \in TopUps : t \in Tasks /\ (TopUpWorksOn(t) => Works(t))
  BY RolesAssumption, TopUpElsewhere, LoaderWorks
<1>4. \A t \in Readers : t \in Tasks /\ (ReaderWorksOn(t) => Works(t))
  BY RolesAssumption, ReaderElsewhere, LoaderWorks
<1>5. \A r \in Reapers : r \in Tasks /\ (ReaperWorksOn(r) => Works(r))
  BY RolesAssumption, ReaperElsewhere, LoaderWorks
<1>6. ASSUME NEW c \in Calls, CallStep(c)
      PROVE  c \in Tasks /\ ((Rounds(c) /\ faults' = faults) \/ Works(c))
  BY <1>1, <1>2, <1>6, Zenon DEF CallStep, CallWorksOn
<1>7. ASSUME NEW t \in TopUps, TopUpStep(t)
      PROVE  t \in Tasks /\ ((Rounds(t) /\ faults' = faults) \/ Works(t))
  BY <1>1, <1>3, <1>7, Zenon DEF TopUpStep, TopUpWorksOn
<1>8. ASSUME NEW t \in Readers, ReaderStep(t)
      PROVE  t \in Tasks /\ ((Rounds(t) /\ faults' = faults) \/ Works(t))
  BY <1>1, <1>4, <1>8, Zenon DEF ReaderStep, ReaderWorksOn
<1>9. ASSUME NEW r \in Reapers, ReaperStep(r)
      PROVE  r \in Tasks /\ ((Rounds(r) /\ faults' = faults) \/ Works(r))
  BY <1>1, <1>5, <1>9, Zenon DEF ReaperStep, ReaperWorksOn
<1>10. Next
  BY DEF Work
<1>11. QED
  BY <1>6, <1>7, <1>8, <1>9, <1>10, Zenon DEF Next, Quiet, vars

\* Every step of the service is one of those the queue allows for.
LEMMA LocksMove ==
  ASSUME QueueInv, Work, Monotone, NEW u \in Users
  PROVE  Held(u) \/ Seized(u) \/ LetGo(u) \/ Expired(u)
<1>1. /\ LockTimes(u) /\ ReleasesLoaded /\ lock \in [Users -> Tasks \cup {Nil}]
      /\ DOMAIN task = Tasks /\ Nil \notin Tasks /\ IInv
  BY IInvParts, RolesAssumption DEF QueueInv, Parts, Others, TypedOthers
<1>2. left'[u] = IF lock'[u] = lock[u] THEN left[u]
                 ELSE IF lock'[u] = Nil THEN 0 ELSE LOAD_LOCK_TTL
  BY DEF Work, Timers, LockTtl
<1>3. bal[u] # Nil => bal'[u] # Nil
  BY DEF Monotone
<1>4. UnderLock \subseteq LoaderPcs
  BY DEF UnderLock, LoaderPcs
<1>5. Living(u) <=> /\ lock[u] # Nil /\ task[lock[u]].pc \in UnderLock
                    /\ task[lock[u]].user_id = u
  BY DEF Living, Holding, UnderLock
<1>6. Living(u)' <=> /\ lock'[u] # Nil /\ task'[lock'[u]].pc \in UnderLock
                     /\ task'[lock'[u]].user_id = u
  BY DEF Living, Holding, UnderLock
<1>7. ASSUME lock'[u] = lock[u],
             lock[u] # Nil => task'[lock[u]] = task[lock[u]]
      PROVE  Held(u)
  BY <1>2, <1>3, <1>5, <1>6, <1>7 DEF Held, Leaving
<1>8. ASSUME NEW a \in Tasks, Rounds(a)
      PROVE  Held(u) \/ Seized(u) \/ LetGo(u)
  <2> DEFINE v == task[a].user_id
  <2>1. v \in Users /\ \A b \in Tasks \ {a} : task'[b] = task[b]
    BY <1>8 DEF Rounds
  <2>2. CASE lock[u] # a /\ lock'[u] = lock[u]
    BY <1>1, <1>7, <2>1, <2>2
  <2>3. CASE lock[u] = a /\ lock'[u] = lock[u] /\ ~Presses(a)
    <3>1. task[a].pc \notin {"recheck", "select", "seed"}
          /\ (task[a].pc = "release" => v # u)
      BY <1>1, <1>8, <2>3 DEF Rounds, Quits, Misses, Retries, Seizes, Frees, At
    <3>2. ~Living(u)
      BY <1>5, <2>3, <3>1 DEF UnderLock
    <3>3. ~Living(u)'
      <4>1. CASE task'[a].pc \notin UnderLock
        BY <1>6, <2>3, <4>1
      <4>2. CASE task'[a].pc \in UnderLock
        <5>1. Seizes(a)
          BY <1>4, <1>8, <2>3, <4>2
          DEF Rounds, Quits, Misses, Retries, Frees, UnderLock, At
        <5>2. task'[a].user_id = v /\ lock[v] = Nil
          BY <5>1 DEF Seizes
        <5>3. QED
          BY <1>1, <1>6, <2>3, <5>2
      <4>3. QED
        BY <4>1, <4>2
    <3>4. QED
      BY <1>2, <2>3, <3>2, <3>3 DEF Held
  <2>4. CASE lock[u] = a /\ lock'[u] = lock[u] /\ Presses(a)
    <3>1. /\ task[a].pc \in {"recheck", "select", "seed"}
          /\ task'[a].pc \in {"select", "seed", "release"}
          /\ task'[a].user_id = v
          /\ task'[a].pc = "select" => bal[v] = Nil
      BY <2>4 DEF Presses
    <3>2. CASE v = u
      <4>1. Living(u) /\ Living(u)'
        BY <1>1, <1>5, <1>6, <2>4, <3>1, <3>2 DEF UnderLock
      <4>2. Leaving(u) => Leaving(u)'
        BY <1>3, <2>4, <3>1, <3>2, <4>1 DEF Leaving
      <4>3. QED
        BY <1>2, <2>4, <4>1, <4>2 DEF Held
    <3>3. CASE v # u
      BY <1>2, <1>5, <1>6, <2>4, <3>1, <3>3 DEF Held
    <3>4. QED
      BY <3>2, <3>3
  <2>5. CASE lock'[u] # lock[u]
    <3>1. Seizes(a) \/ Frees(a)
      BY <1>8, <2>5 DEF Rounds, Quits, Misses, Retries, Presses
    <3>2. CASE Seizes(a)
      <4>1. u = v /\ lock[u] = Nil /\ lock'[u] = a
            /\ task'[a].pc = "recheck" /\ task'[a].user_id = u
        BY <1>1, <2>1, <2>5, <3>2 DEF Seizes
      <4>2. QED
        BY <1>1, <1>2, <1>6, <4>1 DEF Seized, UnderLock
    <3>3. CASE Frees(a)
      <4>1. u = v /\ lock[u] = a /\ lock'[u] = Nil /\ task[a].pc = "release"
        BY <1>1, <2>1, <2>5, <3>3 DEF Frees, At
      <4>2. bal[u] # Nil
        BY <1>1, <4>1 DEF ReleasesLoaded, At
      <4>3. Leaving(u)
        BY <1>1, <1>5, <4>1, <4>2 DEF Leaving, UnderLock
      <4>4. QED
        BY <1>1, <1>2, <4>1, <4>3 DEF LetGo
    <3>4. QED
      BY <3>1, <3>2, <3>3
  <2>6. QED
    BY <2>2, <2>3, <2>4, <2>5
<1>9. ASSUME NEW a \in Tasks, Works(a)
      PROVE  Held(u)
  <2>1. /\ \A b \in Tasks \ {a} : task'[b] = task[b]
        /\ task'[a].pc \notin UnderLock /\ lock' = lock
        /\ task[a].pc \in LoaderPcs => faults' = faults + 1
    BY <1>9 DEF Works, Elsewhere
  <2>2. CASE lock[u] # a
    BY <1>1, <1>7, <2>1, <2>2
  <2>3. CASE lock[u] = a
    BY <1>2, <1>4, <1>5, <1>6, <2>1, <2>3 DEF Held
  <2>4. QED
    BY <2>2, <2>3
<1>10. ASSUME NEW v \in Users, LockExpires(v)
       PROVE  Held(u) \/ Expired(u)
  <2>1. task' = task /\ lock[v] # Nil /\ lock' = [lock EXCEPT ![v] = Nil]
    BY <1>10 DEF LockExpires
  <2>2. CASE v # u
    BY <1>1, <1>7, <2>1, <2>2
  <2>3. CASE v = u
    <3>1. lock'[u] = Nil /\ left[u] = 0
      BY <1>1, <2>1, <2>3 DEF Work, Timely
    <3>2. Living(u) => faults' = faults + 1
      BY <1>1, <1>10, <2>3 DEF LockExpires, Living
    <3>3. QED
      BY <1>2, <2>1, <2>3, <3>1, <3>2 DEF Expired
  <2>4. QED
    BY <2>2, <2>3
<1>11. CASE UNCHANGED <<task, lock>>
  BY <1>7, <1>11
<1>12. QED
  BY <1>1, <1>8, <1>9, <1>10, <1>11, WorkTurns

\* Who queues has queued before, or is new.
LEMMA QueueMoves ==
  ASSUME QueueInv, Work, Monotone, NEW b \in Tasks
  PROVE  /\ \A u \in Users : Queued(b, u)' =>
              elapsed'[b] = 0 \/ (Queued(b, u) /\ elapsed'[b] = elapsed[b])
         /\ At(b, "release")' => bal'[task'[b].user_id] # Nil
<1>1. /\ IInv /\ ReleasesLoaded
      /\ task[b].pc \in LoaderPcs => task[b].user_id \in Users
  BY LoaderFacts DEF QueueInv
<1>2. elapsed'[b] = IF Doing(task'[b]) = Doing(task[b]) THEN elapsed[b] ELSE 0
  BY DEF Work, Timers
<1>3. \A u \in Users : bal[u] # Nil => bal'[u] # Nil
  BY DEF Monotone
<1>4. /\ \A u : Queued(b, u)' <=>
           /\ task'[b].user_id = u
           /\ task'[b].pc = "lock" \/ (task'[b].pc = "load" /\ bal'[u] = Nil)
      /\ \A u : Queued(b, u) <=>
           /\ task[b].user_id = u
           /\ task[b].pc = "lock" \/ (task[b].pc = "load" /\ bal[u] = Nil)
      /\ At(b, "release")' <=> task'[b].pc = "release"
  BY DEF Queued, At
<1>5. CASE task'[b] = task[b]
  <2>1. elapsed'[b] = elapsed[b]
    BY <1>2, <1>5
  <2>2. At(b, "release")' => bal'[task'[b].user_id] # Nil
    BY <1>1, <1>3, <1>4, <1>5 DEF ReleasesLoaded, At, LoaderPcs
  <2>3. QED
    BY <1>3, <1>4, <1>5, <2>1, <2>2
<1>6. CASE Rounds(b)
  <2>1. task[b].user_id \in Users
    BY <1>6 DEF Rounds
  <2>2. CASE Quits(b) \/ Seizes(b)
    BY <1>4, <2>2 DEF Quits, Seizes, LoaderPcs
  <2>3. CASE Misses(b) \/ Retries(b)
    <3>1. /\ task[b].pc \in LoaderPcs /\ task'[b].pc \in LoaderPcs
          /\ task'[b].pc # "release"
      BY <2>3 DEF Misses, Retries, At, LoaderPcs
    <3>2. elapsed'[b] = elapsed[b]
      BY <1>2, <3>1 DEF Doing
    <3>3. \A u \in Users : Queued(b, u)' => Queued(b, u)
      BY <1>4, <2>3 DEF Misses, Retries, At
    <3>4. QED
      BY <1>4, <3>1, <3>2, <3>3
  <2>4. CASE Presses(b)
    BY <1>4, <2>4 DEF Presses
  <2>5. CASE Frees(b)
    <3>1. bal'[task[b].user_id] # Nil
      BY <1>1, <1>3, <2>1, <2>5 DEF Frees, ReleasesLoaded
    <3>2. QED
      BY <1>4, <2>5, <3>1 DEF Frees, LoaderPcs
  <2>6. QED
    BY <1>6, <2>2, <2>3, <2>4, <2>5 DEF Rounds
<1>7. CASE Works(b)
  <2>1. task'[b].pc # "release"
    BY <1>7 DEF Works, Elsewhere, UnderLock
  <2>2. CASE task[b].pc \in LoaderPcs
    BY <1>4, <1>7, <2>1, <2>2 DEF Works, LoaderPcs
  <2>3. CASE task[b].pc \notin LoaderPcs
    <3>1. Doing(task[b]) # "load"
      BY <2>3 DEF Doing, LoaderPcs
    <3>2. task'[b].pc \in {"lock", "load"} => Doing(task'[b]) = "load"
      BY DEF Doing, LoaderPcs
    <3>3. QED
      BY <1>2, <1>4, <2>1, <3>1, <3>2
  <2>4. QED
    BY <2>2, <2>3
<1>8. QED
  <2>1. ASSUME NEW a \in Tasks, Rounds(a) \/ Works(a)
        PROVE  task'[b] = task[b] \/ Rounds(b) \/ Works(b)
    BY <2>1 DEF Rounds, Works, Elsewhere
  <2>2. ASSUME NEW u \in Users, LockExpires(u) PROVE task' = task
    BY <2>2 DEF LockExpires
  <2>3. task'[b] = task[b] \/ Rounds(b) \/ Works(b)
    BY <1>1, <2>1, <2>2, WorkTurns
  <2>4. QED
    BY <1>5, <1>6, <1>7, <2>3

LEMMA WorkKeepsQueue == QueueInv /\ Work => QueueInv'
<1> SUFFICES ASSUME QueueInv, Work PROVE QueueInv'
  OBVIOUS
<1>1. /\ IInv /\ TInv /\ TimersTyped /\ TimersTyped' /\ Monotone
      /\ faults \in Nat /\ (faults' = faults \/ faults' = faults + 1)
  BY WorkIsStep, WorkKeepsTimers, FaultsAddUp DEF QueueInv, IInv, Work
<1>2. IInv'
  BY <1>1, NextKeeps DEF Work, Keeps, IInv
<1>3. ReleasesLoaded'
  BY <1>1, QueueMoves DEF ReleasesLoaded
<1>4. ASSUME NEW u \in Users
      PROVE  /\ LockTimes(u)' /\ Rest(u)' <= Grace(u)'
             /\ Rest(u)' + Grace(u) <= Rest(u) + Grace(u)'
  BY <1>1, LocksMove, LockMoves DEF QueueInv
<1>5. ASSUME NEW u \in Users, NEW a \in Tasks, Queued(a, u)'
      PROVE  elapsed'[a] + Rest(u)' <= Grace(u)'
  <2>1. elapsed'[a] = 0 \/ (Queued(a, u) /\ elapsed'[a] = elapsed[a])
    BY <1>1, <1>5, QueueMoves
  <2>2. elapsed[a] \in Nat /\ elapsed'[a] \in Nat
    BY <1>1 DEF TimersTyped
  <2>3. /\ Rest(u) \in Nat /\ Rest(u)' \in Nat
        /\ Grace(u) \in Nat /\ Grace(u)' \in Nat
    <3>1. faults' \in Nat
      BY <1>1
    <3>2. QueueTyped'
      <4>1. (TimersTyped /\ faults \in Nat)' => QueueTyped'
        BY GraceTyped, PTL
      <4>2. QED
        BY <1>1, <3>1, <4>1
    <3>3. QED
      BY <1>1, <3>2, GraceTyped DEF QueueTyped
  <2>4. Queued(a, u) => elapsed[a] + Rest(u) <= Grace(u)
    BY DEF QueueInv
  <2>5. QED
    BY <1>4, <2>1, <2>2, <2>3, <2>4
<1>6. QED
  BY <1>1, <1>2, <1>3, <1>4, <1>5 DEF QueueInv

LEMMA TickKeepsQueue == QueueInv /\ Tick => QueueInv'
<1> SUFFICES ASSUME QueueInv, Tick PROVE QueueInv'
  OBVIOUS
<1>1. /\ IInv /\ TInv /\ TimersTyped /\ TimersTyped'
      /\ UNCHANGED <<task, lock, bal, faults>>
      /\ lock \in [Users -> Tasks \cup {Nil}]
  BY TickKeepsTimers, IInvParts
  DEF QueueInv, IInv, Tick, redis, Parts, Others, TypedOthers
<1>2. IInv'
  BY <1>1, TickKeepsTask DEF Keeps, IInv
<1>3. ReleasesLoaded'
  BY <1>1 DEF QueueInv, ReleasesLoaded, At
<1>4. ASSUME NEW a \in Tasks
      PROVE  /\ elapsed[a] \in Nat /\ elapsed'[a] \in Nat
             /\ task[a].pc \notin {"load", "recheck", "seed", "release"}
             /\ elapsed'[a] <= elapsed[a] + 1
  <2>1. elapsed[a] \in Nat /\ elapsed'[a] \in Nat
    BY <1>1 DEF TimersTyped
  <2>2. elapsed[a] < Patience(a)
    BY DEF Tick
  <2>3. task[a].pc \in {"load", "recheck", "seed", "release"} => Patience(a) = 0
    BY DEF Patience, At
  <2>4. elapsed'[a] = Counting(Patience(a) < Forever, elapsed[a])
    BY DEF Tick
  <2>5. elapsed'[a] <= elapsed[a] + 1
    BY <2>1, <2>4, Numbers DEF Counting, Lesser
  <2>6. QED
    BY <2>1, <2>2, <2>3, <2>5
<1>5. ASSUME NEW u \in Users
      PROVE  /\ left[u] \in Nat /\ (lock[u] # Nil => left[u] > 0)
             /\ left'[u] = IF left[u] = 0 THEN 0 ELSE left[u] - 1
             /\ LockTimes(u) /\ ~Leaving(u) /\ ~Leaving(u)'
             /\ (Living(u)' <=> Living(u)) /\ Grace(u)' = Grace(u)
  <2>1. left[u] \in Nat /\ (lock[u] # Nil => left[u] > 0) /\ LockTimes(u)
    BY <1>1 DEF TimersTyped, Tick, QueueInv
  <2>2. left'[u] = IF left[u] = 0 THEN 0 ELSE left[u] - 1
    BY <2>1 DEF Tick, Greater
  <2>3. Living(u)' <=> Living(u)
    BY <1>1 DEF Living, Holding
  <2>4. ~Leaving(u)
    BY <1>1, <1>4 DEF Leaving, Living, Holding
  <2>5. ~Leaving(u)' /\ Grace(u)' = Grace(u)
    BY <1>1, <2>3, <2>4 DEF Leaving, Grace, Due
  <2>6. QED
    BY <2>1, <2>2, <2>3, <2>4, <2>5
<1>6. ASSUME NEW u \in Users PROVE LockTimes(u)'
  BY <1>1, <1>5, TimesAssumption DEF LockTimes
<1>7. ASSUME NEW u \in Users, NEW a \in Tasks, Queued(a, u)'
      PROVE  elapsed'[a] + Rest(u)' <= Grace(u)'
  <2>1. Queued(a, u) /\ lock[u] # Nil
    BY <1>1, <1>4, <1>7 DEF Queued, At, Tick
  <2>2. Rest(u) = left[u] /\ Rest(u)' = left[u] - 1
    BY <1>5, <2>1 DEF Rest
  <2>3. Grace(u) \in Nat
    BY <1>1, GraceTyped, IInvParts, MaxFaultsAssumption
    DEF QueueTyped, Parts, Others, TypedOthers
  <2>4. elapsed[a] + Rest(u) <= Grace(u)
    BY <2>1 DEF QueueInv
  <2>5. QED
    BY <1>4, <1>5, <2>2, <2>3, <2>4
<1>8. QED
  BY <1>1, <1>2, <1>3, <1>6, <1>7 DEF QueueInv

LEMMA ExpiresKeepsQueue ==
  ASSUME QueueInv, NEW id \in RequestIds, Expires(id)
  PROVE  QueueInv'
<1>1. /\ IInv' /\ UNCHANGED <<bal, task, lock, faults, elapsed, left, started, age, ttl,
                              called, silent>>
  BY ExpiresKeepsTask DEF QueueInv, IInv, Keeps, Expires, network, timers
<1>2. QED
  BY <1>1
  DEF QueueInv, TimersTyped, ReleasesLoaded, LockTimes, Queued, Rest, Grace, Due, Leaving,
      Living, Holding, At

LEMMA QueueRests == QueueInv /\ UNCHANGED <<vars, timers>> => QueueInv'
<1> SUFFICES ASSUME QueueInv, UNCHANGED <<vars, timers>> PROVE QueueInv'
  OBVIOUS
<1>1. /\ IInv' /\ UNCHANGED <<bal, task, lock, faults, elapsed, left, started, age, ttl,
                              called, silent>>
  BY NextKeeps DEF QueueInv, IInv, Keeps, vars, redis, network, timers
<1>2. QED
  BY <1>1
  DEF QueueInv, TimersTyped, ReleasesLoaded, LockTimes, Queued, Rest, Grace, Due, Leaving,
      Living, Holding, At

LEMMA QueueStarts == ClockInit => QueueInv
<1> SUFFICES ASSUME ClockInit PROVE QueueInv
  OBVIOUS
<1>1. IInv /\ lock = [u \in Users |-> Nil] /\ \A a \in Tasks : task[a].pc = "idle"
  BY InitOK DEF ClockInit, Init, LoaderInit, Blank
<1>2. TimersTyped
  BY Numbers DEF ClockInit, TimersTyped
<1>3. QED
  BY <1>1, <1>2, TimesAssumption
  DEF ClockInit, QueueInv, ReleasesLoaded, LockTimes, Queued, Living, At

\* A load lock whose holder died, and the next holder's load, fit into one wait
\* (LOAD_LOCK_TTL_SECONDS against LOAD_WAIT_TIMEOUT_SECONDS): one TTL for every fault
\* there may be, and one for the load that succeeds.
THEOREM NoLoaderTimesOut ==
  ASSUME (MaxFaults + 1) * LOAD_LOCK_TTL < LOAD_WAIT_TIMEOUT
  PROVE  ClockSpec => []LoadersOutlastACrash
<1>1. QueueInv /\ [ClockNext]_<<vars, timers>> => QueueInv'
  BY WorkKeepsQueue, TickKeepsQueue, ExpiresKeepsQueue, QueueRests DEF ClockNext, Work
<1>2. QueueInv => LoadersOutlastACrash
  <2>1. SUFFICES ASSUME QueueInv, NEW a \in Tasks, At(a, "lock"),
                        lock[task[a].user_id] # Nil
                 PROVE  elapsed[a] < LOAD_WAIT_TIMEOUT
    BY DEF LoadersOutlastACrash
  <2> DEFINE u == task[a].user_id
  <2>2. u \in Users /\ faults \in 0 .. MaxFaults /\ elapsed[a] \in Nat
    BY <2>1, LoaderFacts, IInvParts
    DEF QueueInv, TimersTyped, At, LoaderPcs, Parts, Others, TypedOthers
  <2>3. elapsed[a] + Rest(u) <= Grace(u)
    BY <2>1, <2>2 DEF QueueInv, Queued
  <2>4. Rest(u) \in Nat /\ Grace(u) \in Nat /\ Grace(u) <= Due(faults + 1)
    BY <2>1, <2>2, GraceTyped, MaxFaultsAssumption DEF QueueInv, QueueTyped
  <2>5. Due(faults + 1) <= Due(MaxFaults + 1) /\ Due(faults + 1) \in Nat
    <3>1. /\ faults + 1 \in Nat /\ MaxFaults + 1 \in Nat /\ faults + 1 <= MaxFaults + 1
          /\ LOAD_LOCK_TTL \in Nat
      BY <2>2, MaxFaultsAssumption, TimesAssumption
    <3>2. QED
      BY <3>1, Product DEF Due
  <2>6. PICK d : d = Due(MaxFaults + 1)
    OBVIOUS
  <2>7. d < LOAD_WAIT_TIMEOUT /\ d \in Nat /\ LOAD_WAIT_TIMEOUT \in Nat
    BY <2>6, DueAdd, MaxFaultsAssumption, TimesAssumption DEF Due
  <2>8. QED
    BY <2>2, <2>3, <2>4, <2>5, <2>6, <2>7
<1>3. QED
  BY QueueStarts, <1>1, <1>2, PTL DEF ClockSpec

-----------------------------------------------------------------------------
(***************************************************************************)
(* What a call, and a script on its way, know of the record they are       *)
(* about: how old it is, and who else may have ended it.                   *)
(***************************************************************************)

\* A call that has called the provider, and has not ended the reservation.
Serves(c) == task[c].pc \in {"provider", "settle", "refund"}

\* A call.  From RESERVE to its end its own record runs, younger than what a reaper
\* takes; a record that ended under it ended no longer ago than it has been at it.
Calling(c) ==
  LET t == task[c]
      id == t.id
  IN
  /\ t.pc \in LoaderPcs => t.ret = "authorize"
  /\ At(c, "reserve") =>
       /\ elapsed[c] <= SEND /\ started[Token(c)] <= elapsed[c]
       /\ OwnRecord(c) =>
            /\ Running(id) /\ age[id] <= elapsed[c]
            /\ provider_calls[id] = 0 \/ called[id] >= Horizon
  /\ At(c, "provider") =>
       /\ elapsed[c] <= PROVIDER_TIMEOUT
       /\ Running(id) /\ age[id] <= SEND + elapsed[c]
  /\ t.pc \in {"settle", "refund"} =>
       /\ elapsed[c] <= SEND
       /\ Running(id) => age[id] <= SEND + PROVIDER_TIMEOUT + elapsed[c]
       /\ Over(id) => ttl[id] + elapsed[c] >= Horizon
  /\ Serves(c) => gen[id] # Nil /\ gen[id].reservation_token[1] = c
  /\ At(c, "settle") => gen[id].status # "failed"

\* Where a call sends a script that ends a reservation.
EndsIn(inv) == IF inv.script = "SETTLE" THEN "settle" ELSE "refund"

\* Such a script that was lost.  Its record is still there; if it runs, it is one
\* for the reaper, or its call is still trying the same, or has given up.
Stray(inv) ==
  inv.script \in {"SETTLE", "REFUND"} =>
    /\ gen[inv.id] # Nil
    /\ Over(inv.id) => ttl[inv.id] + faults * SEND + silent >= Horizon
    /\ Running(inv.id) =>
         \/ age[inv.id] >= REAP_AFTER
         \/ task[gen[inv.id].reservation_token[1]].pc \in {"done", EndsIn(inv)}

\* As long as the provider's call is remembered its record is there, or its TTL over.
Remembered(id) ==
  provider_calls[id] > 0 =>
    /\ gen[id] = Nil => called[id] >= Horizon
    /\ Over(id) => ttl[id] + called[id] >= Horizon

CallsInv ==
  /\ RecordsInv
  /\ BInv
  /\ \A c \in Calls : Calling(c)
  /\ \A inv \in late : Stray(inv)
  /\ late # {} => silent <= SEND /\ faults > 0
  /\ \A id \in RequestIds : Remembered(id)

-----------------------------------------------------------------------------
(***************************************************************************)
(* The steps of a call that never has to load a balance to end what it     *)
(* reserved.                                                               *)
(***************************************************************************)

\* Nothing, or the same script again.
Stands(c) ==
  /\ task'[c].pc = task[c].pc /\ task'[c].ret = task[c].ret
  /\ task'[c].id = task[c].id /\ task'[c].attempt = task[c].attempt

Asks(c) ==
  /\ At(c, "authorize") /\ task'[c].pc = "reserve" /\ gen' = gen
  /\ task'[c].id = task[c].id /\ task'[c].attempt = task[c].attempt

\* The provider has answered, or failed.
Hears(c) ==
  /\ At(c, "provider") /\ task'[c].pc \in {"settle", "refund"} /\ gen' = gen
  /\ task'[c].id = task[c].id

\* It has nothing to do with a reservation, or no longer.
Departs(c) ==
  /\ task'[c].pc \notin {"reserve", "provider", "settle", "refund"}
  /\ task'[c].pc \in LoaderPcs => task'[c].ret = "authorize"
  /\ Serves(c) \/ At(c, "done") => task'[c].pc = "done"

CallTurns(c) == Stands(c) \/ Asks(c) \/ Hears(c) \/ Departs(c) \/ Reserve(c)

LEMMA CallHolds ==
  ASSUME CallsInv, NEW c \in Calls
  PROVE  /\ TInv /\ IInv /\ BInv /\ Backed /\ TimersTyped /\ KeysTyped
         /\ c \in Tasks /\ DOMAIN task = Tasks
         /\ task[c] \in CallRecords /\ CallShape(task[c]) /\ Calling(c)
         /\ CallFits(task[c], gen)
         /\ task[c].pc \in CallPcs \cup LoaderPcs \cup {"idle", "done"}
<1>1. TInv /\ BInv /\ IInv /\ Backed /\ TimersTyped /\ Calling(c)
  BY DEF CallsInv, RecordsInv, BInv
<1>2. DOMAIN task = Tasks
  BY <1>1, TInvParts DEF TypedParts, TypedOthers
<1>3. task[c] \in CallRecords /\ CallShape(task[c]) /\ KeysTyped /\ c \in Tasks
  BY <1>1, CallTyped
<1>4. task[c].pc \in CallPcs \cup LoaderPcs \cup {"idle", "done"}
  BY <1>3 DEF CallRecords, TaskRecords
<1>5. QED
  BY <1>1, <1>2, <1>3, <1>4, CallFitsOf

LEMMA EndDeparts ==
  ASSUME CallsInv, NEW c \in Calls, NEW t, NEW outcome, Set(c, Ended(t, outcome))
  PROVE  Departs(c)
<1>1. task'[c] = Ended(t, outcome)
  BY CallHolds DEF Set
<1>2. task'[c].pc = "done"
  BY <1>1, EndedFields
<1>3. QED
  BY <1>2 DEF Departs, LoaderPcs

LEMMA ReloadDeparts ==
  ASSUME CallsInv, NEW c \in Calls, ~Serves(c), ~At(c, "done"),
         Set(c, Reload(task[c], "authorize"))
  PROVE  Departs(c)
<1> DEFINE u == Reload(task[c], "authorize")
<1>1. task'[c] = u
  BY CallHolds DEF Set
<1>2. u.pc = "load" /\ u.ret = "authorize"
  BY CallHolds DEF Reload, CallRecords, TaskRecords
<1> HIDE DEF u
<1>3. QED
  BY <1>1, <1>2 DEF Departs

LEMMA FollowDeparts ==
  ASSUME CallsInv, NEW c \in Calls, task[c].pc \in {"reserve", "denied", "wait"},
         gen[task[c].id] # Nil, Set(c, FollowRecord(task[c], gen[task[c].id]))
  PROVE  Departs(c)
<1> DEFINE record == gen[task[c].id]
           u == FollowRecord(task[c], record)
<1>1. task'[c] = u
  BY CallHolds DEF Set
<1>2. record \in Records
  BY CallHolds, RecordFound DEF CallPcs
<1>3. record.status = "done" \/ record.status = "failed" \/ record.status = "running"
  BY <1>2 DEF Records, Statuses
<1> HIDE DEF record
<1>4. CASE record.status = "done"
  <2>1. u = Ended(task[c], Returned(RedeliveredCost(record)))
    BY <1>4, Zenon DEF FollowRecord
  <2>2. QED
    BY <1>1, <2>1, EndDeparts DEF record
<1>5. CASE record.status = "failed"
  <2>1. u = Ended(task[c], Raised("GenerationFailed"))
    BY <1>5, Zenon DEF FollowRecord
  <2>2. QED
    BY <1>1, <2>1, EndDeparts DEF record
<1>6. CASE record.status = "running"
  <2>1. u = [task[c] EXCEPT !.pc = "wait"]
    BY <1>6, Zenon DEF FollowRecord
  <2>2. u.pc = "wait"
    BY <2>1, CallHolds DEF CallRecords, TaskRecords
  <2>3. QED
    BY <1>1, <2>2 DEF Departs, LoaderPcs, Serves, At
<1>7. QED
  BY <1>3, <1>4, <1>5, <1>6

LEMMA DuplicateDeparts ==
  ASSUME CallsInv, NEW c \in Calls, task[c].pc \in {"reserve", "denied"},
         gen[task[c].id] # Nil,
         Set(c, ResolveDuplicate(c, gen[task[c].id]))
  PROVE  Departs(c)
<1>1. CASE SamePayload(Request(c), gen[task[c].id])
  BY <1>1, FollowDeparts DEF ResolveDuplicate
<1>2. CASE ~SamePayload(Request(c), gen[task[c].id])
  BY <1>2, EndDeparts DEF ResolveDuplicate
<1>3. QED
  BY <1>1, <1>2

LEMMA LoaderDeparts ==
  ASSUME CallsInv, NEW c \in Calls, Ensure(c)
  PROVE  Departs(c)
<1>1. /\ task[c].pc \in LoaderPcs /\ ~Serves(c) /\ ~At(c, "done")
      /\ task[c].ret = "authorize" /\ task[c] \in CallRecords
  <2>1. task[c].pc \in LoaderPcs
    BY DEF Ensure, Load, TryAcquireLoadLock, LoadTimesOut, Recheck, LoadFromDb,
           Seed, ReleaseLoadLock, At, LoaderPcs
  <2>2. QED
    BY <2>1, CallHolds DEF Calling, LoaderPcs, Serves, At
<1>2. ASSUME NEW pc \in LoaderPcs \cup {"authorize"}, NEW snap, NEW u, Set(c, u),
             u = [task[c] EXCEPT !.pc = pc] \/ u = [task[c] EXCEPT !.pc = pc, !.snap = snap]
      PROVE  Departs(c)
  <2>1. task'[c] = u
    BY <1>2, CallHolds DEF Set
  <2>2. u.pc = pc /\ u.ret = "authorize"
    BY <1>1, <1>2 DEF CallRecords, TaskRecords
  <2>3. pc \notin {"reserve", "provider", "settle", "refund"}
    BY DEF LoaderPcs
  <2>4. QED
    BY <1>1, <2>1, <2>2, <2>3 DEF Departs
<1>3. {"load", "lock", "recheck", "select", "seed", "release"} = LoaderPcs
  BY DEF LoaderPcs
<1>4. CASE Load(c)
  BY <1>1, <1>2, <1>3, <1>4 DEF Load, Goto
<1>5. CASE TryAcquireLoadLock(c)
  BY <1>2, <1>3, <1>5 DEF TryAcquireLoadLock, Goto
<1>6. CASE LoadTimesOut(c)
  BY <1>6, EndDeparts DEF LoadTimesOut
<1>7. CASE Recheck(c)
  BY <1>2, <1>3, <1>7 DEF Recheck, Goto
<1>8. CASE LoadFromDb(c)
  BY <1>2, <1>3, <1>8 DEF LoadFromDb
<1>9. CASE Seed(c)
  BY <1>2, <1>3, <1>9 DEF Seed
<1>10. CASE ReleaseLoadLock(c)
  BY <1>1, <1>2, <1>3, <1>10 DEF ReleaseLoadLock, Goto
<1>11. QED
  BY <1>4, <1>5, <1>6, <1>7, <1>8, <1>9, <1>10 DEF Ensure

LEMMA BeginDeparts ==
  ASSUME CallsInv, NEW c \in Calls, NEW request \in Requests, ExecuteGeneration(c, request)
  PROVE  Departs(c)
<1> DEFINE asked == [task[c] EXCEPT !.work = request]
           begun == [asked EXCEPT !.pc = "load", !.ret = "authorize",
                                  !.user_id = request.user_id,
                                  !.id = request.client_request_id]
<1>1. task[c].pc = "idle" /\ task[c] \in CallRecords /\ DOMAIN task = Tasks /\ c \in Tasks
  BY CallHolds DEF ExecuteGeneration, At
<1>2. CASE request.model_name \in DOMAIN MODELS
  <2>1. task'[c] = begun
    BY <1>1, <1>2 DEF ExecuteGeneration, Set
  <2>2. begun.pc = "load" /\ begun.ret = "authorize"
    BY <1>1 DEF CallRecords, TaskRecords
  <2> HIDE DEF begun
  <2>3. QED
    BY <1>1, <2>1, <2>2 DEF Departs, Serves, At
<1>3. CASE request.model_name \notin DOMAIN MODELS
  <2>1. Set(c, Ended(asked, Raised("InvalidInput")))
    BY <1>1, <1>3 DEF ExecuteGeneration
  <2> HIDE DEF asked
  <2>2. QED
    BY <2>1, EndDeparts
<1>4. QED
  BY <1>2, <1>3

LEMMA PolicyDecides ==
  ASSUME CallsInv, NEW c \in Calls, AuthorizeSnapshot(c)
  PROVE  Asks(c) \/ Departs(c)
<1> DEFINE auth == Authorize(Request(c), task[c].snap)
<1>1. /\ task[c].pc = "authorize" /\ task[c] \in CallRecords /\ gen' = gen
  BY CallHolds DEF AuthorizeSnapshot, At, redis
<1> HIDE DEF auth
<1>2. Set(c, CASE auth.verdict = "authorized" ->
                    [task[c] EXCEPT !.pc = "reserve", !.auth = auth,
                                    !.plan = auth.debit_plan, !.tries = 0]
               [] auth.verdict \in AccessErrors ->
                    [task[c] EXCEPT !.pc = "denied", !.auth = auth]
               [] OTHER -> Ended(task[c], Raised(auth.verdict)))
  BY DEF AuthorizeSnapshot, auth
<1>3. CASE auth.verdict = "authorized"
  <2> DEFINE t == [task[c] EXCEPT !.pc = "reserve", !.auth = auth,
                                  !.plan = auth.debit_plan, !.tries = 0]
  <2>1. auth.verdict \notin AccessErrors
    BY <1>3 DEF AccessErrors
  <2>2. Set(c, t)
    BY <1>2, <1>3, <2>1, Zenon
  <2>3. t.pc = "reserve" /\ t.id = task[c].id /\ t.attempt = task[c].attempt
    BY <1>1 DEF CallRecords, TaskRecords
  <2> HIDE DEF t
  <2>4. task'[c] = t
    BY <2>2, CallHolds DEF Set
  <2>5. QED
    BY <1>1, <2>3, <2>4 DEF Asks, At
<1>4. CASE auth.verdict \in AccessErrors
  <2> DEFINE t == [task[c] EXCEPT !.pc = "denied", !.auth = auth]
  <2>1. auth.verdict # "authorized"
    BY <1>4 DEF AccessErrors
  <2>2. Set(c, t)
    BY <1>2, <1>4, <2>1, Zenon
  <2>3. t.pc = "denied"
    BY <1>1 DEF CallRecords, TaskRecords
  <2> HIDE DEF t
  <2>4. task'[c] = t
    BY <2>2, CallHolds DEF Set
  <2>5. QED
    BY <1>1, <2>3, <2>4 DEF Departs, Serves, At, LoaderPcs
<1>5. CASE auth.verdict # "authorized" /\ auth.verdict \notin AccessErrors
  <2>1. Set(c, Ended(task[c], Raised(auth.verdict)))
    BY <1>2, <1>5, Zenon
  <2>2. QED
    BY <2>1, EndDeparts
<1>6. QED
  BY <1>3, <1>4, <1>5

LEMMA ProviderHears ==
  ASSUME CallsInv, NEW c \in Calls,
         \/ \E bill \in Bills : ProviderReturns(c, bill)
         \/ \E error \in {"GenerationFailed", "cancelled"} : ProviderRaises(c, error)
  PROVE  Hears(c)
<1>1. /\ task[c].pc = "provider" /\ task[c] \in CallRecords /\ DOMAIN task = Tasks
      /\ c \in Tasks /\ gen' = gen
  BY CallHolds DEF ProviderReturns, ProviderRaises, At, redis
<1>2. ASSUME NEW bill \in Bills, ProviderReturns(c, bill) PROVE Hears(c)
  <2> DEFINE charged == Charged(bill, task[c].plan)
             refund == SurplusRefund(task[c].plan, task[c].auth.debit_policy, charged)
             t == [task[c] EXCEPT !.pc = "settle", !.charged = charged,
                                  !.refund = refund]
  <2>1. task'[c] = t
    BY <1>1, <1>2 DEF ProviderReturns, Set
  <2> HIDE DEF charged, refund
  <2>2. t.pc = "settle" /\ t.id = task[c].id
    BY <1>1 DEF CallRecords, TaskRecords
  <2>3. QED
    BY <1>1, <2>1, <2>2 DEF Hears, At
<1>3. ASSUME NEW error \in {"GenerationFailed", "cancelled"}, ProviderRaises(c, error)
      PROVE  Hears(c)
  <2> DEFINE t == [task[c] EXCEPT !.pc = "refund", !.outcome = Raised(error)]
  <2>1. task'[c] = t
    BY <1>1, <1>3 DEF ProviderRaises, Set, Caught
  <2>2. t.pc = "refund" /\ t.id = task[c].id
    BY <1>1 DEF CallRecords, TaskRecords
  <2>3. QED
    BY <1>1, <2>1, <2>2 DEF Hears, At
<1>4. QED
  BY <1>2, <1>3

LEMMA ReplyLost ==
  ASSUME CallsInv, NEW c \in Calls, CallLosesReply(c)
  PROVE  Stands(c) \/ Departs(c)
<1>1. CASE task[c].tries + 1 < RETRY_ATTEMPTS
  <2> DEFINE t == [task[c] EXCEPT !.tries = @ + 1]
  <2>1. task'[c] = t
    BY <1>1, CallHolds DEF CallLosesReply, LoseReply, Set
  <2>2. t.pc = task[c].pc /\ t.ret = task[c].ret /\ t.id = task[c].id /\ t.attempt = task[c].attempt
    BY CallHolds DEF CallRecords, TaskRecords
  <2>3. QED
    BY <2>1, <2>2 DEF Stands
<1>2. CASE ~(task[c].tries + 1 < RETRY_ATTEMPTS)
  BY <1>2, EndDeparts DEF CallLosesReply, LoseReply
<1>3. QED
  BY <1>1, <1>2

LEMMA ConflictDeparts ==
  ASSUME CallsInv, NEW c \in Calls, ReserveConflict(c)
  PROVE  Departs(c)
<1> DEFINE t == [task[c] EXCEPT !.pc = "authorize", !.snap = bal[task[c].user_id],
                                !.attempt = @ + 1]
<1>1. task'[c] = t /\ At(c, "reserve")
  BY CallHolds DEF ReserveConflict, Set
<1>2. t.pc = "authorize"
  BY CallHolds DEF CallRecords, TaskRecords
<1> HIDE DEF t
<1>3. QED
  BY <1>1, <1>2 DEF Departs, Serves, At, LoaderPcs

\* _resolve_duplicate, from its three callers.
LEMMA DuplicatesDepart ==
  ASSUME CallsInv, NEW c \in Calls,
         ReserveDuplicate(c) \/ DeniedOrDuplicate(c) \/ PollRecord(c)
  PROVE  Departs(c)
<1>1. CASE ReserveDuplicate(c)
  BY <1>1, CallHolds, DuplicateFound, DuplicateDeparts DEF ReserveDuplicate, At
<1>2. CASE DeniedOrDuplicate(c)
  <2>1. CASE gen[task[c].id] = Nil
    BY <1>2, <2>1, EndDeparts DEF DeniedOrDuplicate
  <2>2. CASE gen[task[c].id] # Nil
    BY <1>2, <2>2, DuplicateDeparts DEF DeniedOrDuplicate, At
  <2>3. QED
    BY <2>1, <2>2
<1>3. CASE PollRecord(c)
  <2>1. CASE gen[task[c].id] = Nil
    BY <1>3, <2>1, ReloadDeparts DEF PollRecord, At, Serves
  <2>2. CASE gen[task[c].id] # Nil
    BY <1>3, <2>2, FollowDeparts DEF PollRecord, At
  <2>3. QED
    BY <2>1, <2>2
<1>4. QED
  BY <1>1, <1>2, <1>3

\* Who ends a reservation finds the balance: SETTLE and REFUND do not miss it.
LEMMA NothingMissing ==
  ASSUME CallsInv, NEW c \in Calls
  PROVE  ~SettleMissing(c) /\ ~RefundMissing(c)
<1>1. ASSUME task[c].pc \in {"settle", "refund"}
      PROVE  gen[task[c].id] \in Records /\ gen[task[c].id] # Nil /\ bal[task[c].user_id] # Nil
  <2>1. task[c].id \in RequestIds /\ Where(task[c]) = task[c].pc
    BY <1>1, CallHolds, CallWorks DEF CallPcs
  <2>2. Returns(task[c].id, task[c].user_id, task[c].plan, gen)
    BY <1>1, <2>1, CallHolds DEF CallFits
  <2>3. QED
    BY <2>1, <2>2, CallHolds DEF Returns, Backed, KeysTyped
<1>2. ASSUME SettleMissing(c) PROVE FALSE
  <2>1. task[c].pc = "settle" /\ SettleReply(SettleInvocation(c)) = "MISSING"
    BY <1>2 DEF SettleMissing, At, SettleOutcome
  <2>2. SettleInvocation(c).id = task[c].id /\ SettleInvocation(c).user_id = task[c].user_id
    BY DEF SettleInvocation
  <2>3. gen[task[c].id] # Nil /\ bal[task[c].user_id] # Nil /\ gen[task[c].id] \in Records
    BY <1>1, <2>1
  <2>4. \/ gen[task[c].id].status = "done" \/ gen[task[c].id].status = "failed"
        \/ gen[task[c].id].status = "running"
    BY <2>3 DEF Records, Statuses
  <2>5. SettleReply(SettleInvocation(c)) \in {"DONE", "STALE", "OK"}
    BY <2>2, <2>3, <2>4, SMT DEF SettleReply
  <2>6. QED
    BY <2>1, <2>5
<1>3. ASSUME RefundMissing(c) PROVE FALSE
  <2>1. task[c].pc = "refund" /\ RefundReply(RefundInvocation(c)) = "MISSING"
    BY <1>3 DEF RefundMissing, At
  <2>2. RefundInvocation(c).id = task[c].id /\ RefundInvocation(c).user_id = task[c].user_id
    BY DEF RefundInvocation
  <2>3. gen[task[c].id] # Nil /\ bal[task[c].user_id] # Nil
    BY <1>1, <2>1
  <2>4. RefundReply(RefundInvocation(c)) \in {"STALE", "OK"}
    BY <2>2, <2>3, SMT DEF RefundReply
  <2>5. QED
    BY <2>1, <2>4
<1>4. QED
  BY <1>2, <1>3

LEMMA CallTakesTurn ==
  ASSUME CallsInv, NEW c \in Calls, CallStep(c)
  PROVE  CallTurns(c)
<1>1. ASSUME NEW request \in Requests, ExecuteGeneration(c, request) PROVE Departs(c)
  BY <1>1, BeginDeparts
<1>2. CASE AuthorizeSnapshot(c) \/ ReserveConflict(c)
  BY <1>2, PolicyDecides, ConflictDeparts DEF CallTurns
<1>3. CASE ReserveMissing(c)
  BY <1>3, ReloadDeparts DEF ReserveMissing, At, Serves, CallTurns
<1>4. CASE ReserveDuplicate(c) \/ DeniedOrDuplicate(c) \/ PollRecord(c)
  BY <1>4, DuplicatesDepart DEF CallTurns
<1>5. CASE WaitTimesOut(c) \/ RefundCall(c) \/ Settle(c) \/ SettleStale(c) \/ GiveUp(c)
  BY <1>5, EndDeparts DEF WaitTimesOut, RefundCall, RefundReturns, Settle, SettleStale,
                          GiveUp, CallTurns
<1>6. CASE CallProgress(c)
  BY <1>2, <1>3, <1>4, <1>5, <1>6, ProviderHears, NothingMissing DEF CallProgress, CallTurns
<1>7. CASE CallAbandoned(c)
  BY <1>7, EndDeparts DEF CallAbandoned, Abandon, CallTurns
<1>8. QED
  BY <1>1, <1>6, <1>7, LoaderDeparts, ReplyLost DEF CallStep, CallTurns

\* Each call, in a step of the service.
LEMMA CallsTurn ==
  ASSUME CallsInv, Work, NEW c \in Calls
  PROVE  CallTurns(c)
<1>1. task'[c] = task[c] \/ CallStep(c)
  BY CallHolds, OneMoves DEF Work
<1>2. QED
  BY <1>1, CallTakesTurn DEF CallTurns, Stands

-----------------------------------------------------------------------------
(***************************************************************************)
(* Whose script it is that runs, and what joins the scripts on their way.  *)
(***************************************************************************)
Runner(inv) ==
  \/ inv \in late /\ UNCHANGED provider_calls
  \/ \E c \in Calls : Reserve(c) /\ inv = ReserveInvocation(c)
  \/ /\ UNCHANGED provider_calls
     /\ \/ \E c \in Calls :
             /\ task'[c].pc = "done"
             /\ \/ At(c, "settle") /\ inv = SettleInvocation(c)
                \/ At(c, "refund") /\ inv = RefundInvocation(c)
        \/ \E r \in Reapers : At(r, "refund") /\ inv = RefundInvocation(r)

Runs ==
  \/ gen' = gen /\ UNCHANGED provider_calls
  \/ \E inv \in Invocations : Execute(inv) /\ Runner(inv)

LEMMA CallRuns ==
  ASSUME CallsInv, NEW c \in Calls, CallStep(c)
  PROVE  Runs
<1>1. CASE Ensure(c) /\ UNCHANGED provider_calls
  BY <1>1, EnsureUntouched DEF Runs
<1>2. CASE Reserve(c)
  BY <1>2, CallHolds, ReserveSendable, ReserveInvocationKind DEF Reserve, Runs, Runner
<1>3. CASE Settle(c)
  <2>1. At(c, "settle") /\ Set(c, Ended(task[c], Returned(SettleInvocation(c).billed_cost_usd)))
        /\ Execute(SettleInvocation(c)) /\ UNCHANGED provider_calls
    BY <1>3 DEF Settle
  <2>2. task'[c].pc = "done"
    BY <2>1, CallHolds, EndedFields DEF Set
  <2>3. SettleInvocation(c) \in Invocations
    BY <2>1, CallHolds, CallSettleOK
  <2>4. QED
    BY <2>1, <2>2, <2>3 DEF Runs, Runner
<1>4. CASE RefundCall(c)
  <2>1. At(c, "refund") /\ Set(c, Ended(task[c], task[c].outcome))
        /\ Execute(RefundInvocation(c)) /\ UNCHANGED provider_calls
    BY <1>4 DEF RefundCall, RefundReturns
  <2>2. task'[c].pc = "done"
    BY <2>1, CallHolds, EndedFields DEF Set
  <2>3. RefundInvocation(c) \in Invocations
    BY <2>1, CallHolds, CallRefundOK
  <2>4. QED
    BY <2>1, <2>2, <2>3 DEF Runs, Runner
<1>5. CASE CallProgress(c) /\ ~Reserve(c) /\ ~Settle(c) /\ ~RefundCall(c)
  BY <1>5 DEF CallProgress, AuthorizeSnapshot, ReserveConflict, ReserveMissing,
       ReserveDuplicate, DeniedOrDuplicate, PollRecord, WaitTimesOut,
       ProviderReturns, ProviderRaises, RefundMissing, SettleStale, SettleMissing,
       GiveUp, redis, Runs
<1>6. CASE \E request \in Requests : ExecuteGeneration(c, request)
  BY <1>6 DEF ExecuteGeneration, redis, Runs
<1>7. CASE CallLosesReply(c) \/ CallAbandoned(c)
  BY <1>7 DEF CallLosesReply, LoseReply, SendAndLose, CallAbandoned, Abandon,
              redis, Runs
<1>8. QED
  BY <1>1, <1>2, <1>3, <1>4, <1>5, <1>6, <1>7 DEF CallStep, CallProgress

LEMMA TopUpRuns ==
  ASSUME NEW t \in TopUps, TopUpStep(t), UNCHANGED provider_calls
  PROVE  Runs
<1>1. CASE Ensure(t)
  BY <1>1, EnsureUntouched DEF Runs
<1>2. CASE TopUp(t)
  <2>1. Execute(TopUpInvocation(t)) /\ TopUpInvocation(t).script = "TOP_UP"
    BY <1>2 DEF TopUp, TopUpInvocation
  <2>2. gen' = gen
    BY <2>1 DEF Execute, TOP_UP, redis
  <2>3. QED
    BY <2>2 DEF Runs
<1>3. CASE ~Ensure(t) /\ ~TopUp(t)
  BY <1>3 DEF TopUpStep, TopUpProgress, ApplyTopUp, TopUpMissing, GiveUp,
       TopUpLosesReply, LoseReply, SendAndLose, TopUpAbandoned, Abandon, redis, Runs
<1>4. QED
  BY <1>1, <1>2, <1>3

LEMMA ReaderRuns ==
  ASSUME NEW t \in Readers, ReaderStep(t), UNCHANGED provider_calls
  PROVE  Runs
<1>1. CASE Ensure(t)
  BY <1>1, EnsureUntouched DEF Runs
<1>2. CASE ~Ensure(t)
  BY <1>2 DEF ReaderStep, GetBalance, ReturnBalance, Abandon, redis, Runs
<1>3. QED
  BY <1>1, <1>2

LEMMA ReaperRuns ==
  ASSUME CallsInv, NEW r \in Reapers, ReaperStep(r), UNCHANGED provider_calls
  PROVE  Runs
<1>1. CASE Ensure(r)
  BY <1>1, EnsureUntouched DEF Runs
<1>2. CASE RefundStale(r)
  <2>1. TInv
    BY DEF CallsInv, RecordsInv
  <2>2. QED
    BY <1>2, <2>1, ReaperRefundOK DEF RefundStale, RefundReturns, Runs, Runner
<1>3. CASE Forget(r)
  BY <1>3 DEF Forget, ForgetInflight, Runs
<1>4. CASE ~Ensure(r) /\ ~RefundStale(r) /\ ~Forget(r)
  BY <1>4 DEF ReaperStep, ReaperProgress, StaleInflight, InspectStale, RefundMissing,
       GiveUp, RestartReaper, ReaperLosesReply, LoseReply, SendAndLose,
       ReaperAbandoned, Abandon, redis, Runs
<1>5. QED
  BY <1>1, <1>2, <1>3, <1>4

LEMMA NextRuns ==
  ASSUME CallsInv, Next
  PROVE  Runs
<1>1. CASE UNCHANGED vars
  BY <1>1 DEF vars, redis, Runs
<1>2. ASSUME NEW u \in Users, LockExpires(u), UNCHANGED provider_calls PROVE Runs
  BY <1>2 DEF LockExpires, redis, Runs
<1>3. ASSUME NEW inv \in late, Land(inv), UNCHANGED provider_calls PROVE Runs
  <2>1. TInv
    BY DEF CallsInv, RecordsInv
  <2>2. QED
    BY <1>3, <2>1, TInvParts DEF TypedParts, TypedOthers, Land, Runs, Runner
<1>4. QED
  BY <1>1, <1>2, <1>3, CallRuns, TopUpRuns, ReaderRuns, ReaperRuns DEF Next, Quiet

\* Who ends a reservation: its call, a reaper, or a script that was lost.
EndedBy(id) ==
  \/ \E inv \in late :
       /\ inv.script \in {"SETTLE", "REFUND"} /\ inv.id = id
       /\ inv.script = "SETTLE" => gen'[id].status = "done"
  \/ \E c \in Calls :
       task[c].pc \in {"settle", "refund"} /\ task[c].id = id /\ task'[c].pc = "done"
  \/ \E r \in Reapers : At(r, "refund") /\ task[r].id = id

LEMMA EndsBy ==
  ASSUME CallsInv, Work, NEW id \in RequestIds, Ends(id)
  PROVE  EndedBy(id)
<1>1. KeysTyped /\ KeysTyped' /\ Next /\ gen'[id] # gen[id]
  <2>1. TInv
    BY DEF CallsInv, RecordsInv
  <2>2. QED
    BY <2>1, WorkIsStep DEF Work, Ends, Running, Over
<1>2. PICK inv \in Invocations : Execute(inv) /\ Runner(inv)
  BY <1>1, NextRuns DEF Runs
<1>3. inv.script \in {"SETTLE", "REFUND"} /\ inv.id = id
      /\ (inv.script = "SETTLE" => gen'[id].status = "done")
  <2>1. CASE inv \in ReserveInvocations
    <3>1. RESERVE(inv)
      BY <1>2, <2>1 DEF Execute, ReserveInvocations
    <3>2. gen[id] # Nil /\ inv.id \in RequestIds
      BY <2>1 DEF Ends, Running, ReserveInvocations
    <3>3. ReserveReply(inv) = "OK"
      BY <1>1, <3>1 DEF RESERVE, redis
    <3>4. gen[inv.id] = Nil /\ gen' = [gen EXCEPT ![inv.id] = NewRecord(inv)]
      BY <3>1, <3>3, ReserveOK DEF RESERVE
    <3>5. QED
      BY <1>1, <3>2, <3>4 DEF KeysTyped
  <2>2. CASE inv \in SettleInvocations
    <3>1. SETTLE(inv) /\ inv.script = "SETTLE" /\ inv.id \in RequestIds
      BY <1>2, <2>2 DEF Execute, SettleInvocations
    <3>2. SettleReply(inv) = "OK"
      BY <1>1, <3>1 DEF SETTLE, redis
    <3>3. gen' = [gen EXCEPT ![inv.id] = SettledRecord(gen[inv.id], inv)]
      BY <3>1, <3>2 DEF SETTLE
    <3>4. inv.id = id /\ gen[id] \in Records
      BY <1>1, <3>1, <3>3 DEF KeysTyped, Ends, Running
    <3>5. gen'[id].status = "done"
      BY <1>1, <3>3, <3>4 DEF SettledRecord, Records, KeysTyped
    <3>6. QED
      BY <3>1, <3>4, <3>5
  <2>3. CASE inv \in RefundInvocations
    <3>1. REFUND(inv) /\ inv.script = "REFUND" /\ inv.id \in RequestIds
      BY <1>2, <2>3 DEF Execute, RefundInvocations
    <3>2. RefundReply(inv) = "OK"
      BY <1>1, <3>1 DEF REFUND, redis
    <3>3. gen' = [gen EXCEPT ![inv.id].status = "failed"]
      BY <3>1, <3>2 DEF REFUND
    <3>4. inv.id = id
      BY <1>1, <3>1, <3>3 DEF KeysTyped
    <3>5. QED
      BY <3>1, <3>4
  <2>4. CASE inv \in TopUpInvocations
    <3>1. TOP_UP(inv)
      BY <1>2, <2>4 DEF Execute, TopUpInvocations
    <3>2. gen' = gen
      BY <3>1 DEF TOP_UP, redis
    <3>3. QED
      BY <1>1, <3>2
  <2>5. QED
    BY <2>1, <2>2, <2>3, <2>4 DEF Invocations
<1>4. \A c \in Calls : inv # ReserveInvocation(c)
  BY <1>3 DEF ReserveInvocation
<1>5. /\ \A c \in Calls : SettleInvocation(c).id = task[c].id
      /\ \A a \in Calls \cup Reapers : RefundInvocation(a).id = task[a].id
  BY DEF SettleInvocation, RefundInvocation
<1>6. QED
  BY <1>2, <1>3, <1>4, <1>5 DEF Runner, EndedBy, At

\* Who calls the provider: a call that has its reservation now.
LEMMA CalledBy ==
  ASSUME CallsInv, Work, NEW id \in RequestIds, provider_calls'[id] # provider_calls[id]
  PROVE  \E c \in Calls :
           /\ Reserve(c) /\ task[c].id = id
           /\ \/ OwnRecord(c) /\ gen'[id] = gen[id]
              \/ Begins(id)
           /\ gen'[id].reservation_token = Token(c)
<1>1. KeysTyped /\ KeysTyped' /\ Next /\ TInv /\ provider_calls \in [RequestIds -> Nat]
  <2>1. TInv
    BY DEF CallsInv, RecordsInv
  <2>2. QED
    BY <2>1, WorkIsStep, TInvParts DEF Work, TypedParts, TypedOthers
<1>2. PICK c \in Calls : Reserve(c)
  BY <1>1, NextRuns DEF Runs, Runner
<1> DEFINE inv == ReserveInvocation(c)
<1>3. /\ At(c, "reserve") /\ inv.id = task[c].id /\ inv.token = Token(c)
      /\ inv \in ReserveInvocations /\ RESERVE(inv)
      /\ ReserveReply(inv) = "OK" \/ (ReserveReply(inv) = "DUP" /\ OwnRecord(c))
      /\ provider_calls' = [provider_calls EXCEPT ![inv.id] = @ + 1]
  <2>1. At(c, "reserve") /\ Execute(inv) /\ inv.script = "RESERVE"
    BY <1>2 DEF Reserve, ReserveInvocation
  <2>2. inv.id = task[c].id /\ inv.token = Token(c)
    BY DEF ReserveInvocation
  <2>3. inv \in ReserveInvocations
    BY <1>1, <2>1, ReserveSendable
  <2>4. QED
    BY <1>2, <2>1, <2>2, <2>3 DEF Reserve, Execute
<1> HIDE DEF inv
<1>4. task[c].id = id
  BY <1>1, <1>3 DEF ReserveInvocations
<1>5. CASE ReserveReply(inv) = "OK"
  <2>1. gen[id] = Nil /\ gen'[id] = NewRecord(inv)
    BY <1>1, <1>3, <1>4, <1>5, ReserveOK DEF RESERVE, KeysTyped
  <2>2. gen'[id].status = "running" /\ gen'[id].reservation_token = Token(c)
    BY <1>3, <2>1, NewRecordHas
  <2>3. gen'[id] # Nil
    <3>1. inv.id \in RequestIds /\ NewRecord(inv) \in Records
      BY <1>3 DEF ReserveInvocations, NewRecord, Records, Statuses
    <3>2. QED
      BY <2>1, <3>1, NilAssumption
  <2>4. Begins(id)
    BY <1>1, <2>1, <2>3, RecordSteps DEF Stays, Ends, Running
  <2>5. QED
    BY <1>2, <1>4, <2>2, <2>4
<1>6. CASE ReserveReply(inv) = "DUP" /\ OwnRecord(c)
  <2>1. gen' = gen
    BY <1>3, <1>6 DEF RESERVE, redis
  <2>2. QED
    BY <1>2, <1>4, <1>6, <2>1 DEF OwnRecord
<1>7. QED
  BY <1>3, <1>5, <1>6

\* A script that is lost: what its sender was at, and that it is a fault.
SentBy(inv) ==
  inv.script \in {"SETTLE", "REFUND"} =>
    \/ \E c \in Calls :
         /\ task[c].pc = EndsIn(inv) /\ inv.id = task[c].id
         /\ task'[c].pc \in {EndsIn(inv), "done"}
    \/ \E r \in Reapers : At(r, "refund") /\ inv.id = task[r].id

Sends ==
  \A inv \in late' : inv \in late \/ (SentBy(inv) /\ gen' = gen /\ faults' = faults + 1)

LEMMA NoneSent == ASSUME late' \subseteq late PROVE Sends
BY DEF Sends

LEMMA CallSends ==
  ASSUME CallsInv, NEW c \in Calls, CallSending(c), task'[c].pc \in {task[c].pc, "done"}
  PROVE  SentBy(CallInvocation(c))
<1> DEFINE inv == CallInvocation(c)
<1>1. CASE task[c].pc = "reserve"
  <2>1. inv = ReserveInvocation(c)
    BY <1>1 DEF CallInvocation, At
  <2>2. inv.script = "RESERVE"
    BY <2>1 DEF ReserveInvocation
  <2>3. QED
    BY <2>2 DEF SentBy
<1>2. CASE task[c].pc = "settle"
  <2>1. inv = SettleInvocation(c)
    BY <1>2, SMT DEF CallInvocation, At
  <2>2. inv.script = "SETTLE" /\ inv.id = task[c].id
    BY <2>1 DEF SettleInvocation
  <2>3. QED
    BY <1>2, <2>2 DEF SentBy, EndsIn
<1>3. CASE task[c].pc = "refund"
  <2>1. inv = RefundInvocation(c)
    BY <1>3, SMT DEF CallInvocation, At
  <2>2. inv.script = "REFUND" /\ inv.id = task[c].id
    BY <2>1 DEF RefundInvocation
  <2>3. QED
    BY <1>3, <2>2 DEF SentBy, EndsIn
<1>4. QED
  BY <1>1, <1>2, <1>3 DEF CallSending

LEMMA CallLosses ==
  ASSUME CallsInv, NEW c \in Calls, CallStep(c)
  PROVE  Sends
<1>1. CASE CallLosesReply(c)
  <2>1. late' = late \cup {CallInvocation(c)} /\ faults' = faults + 1 /\ gen' = gen
          /\ CallSending(c)
    BY <1>1 DEF CallLosesReply, LoseReply, SendAndLose, redis
  <2>2. task'[c].pc \in {task[c].pc, "done"}
    <3>1. CASE task[c].tries + 1 < RETRY_ATTEMPTS
      <4>1. task'[c] = [task[c] EXCEPT !.tries = @ + 1]
        BY <1>1, <3>1, CallHolds DEF CallLosesReply, LoseReply, Set
      <4>2. QED
        BY <4>1, CallHolds DEF CallRecords, TaskRecords
    <3>2. CASE ~(task[c].tries + 1 < RETRY_ATTEMPTS)
      <4>1. task'[c] = Ended(task[c], Raised("RedisError"))
        BY <1>1, <3>2, CallHolds DEF CallLosesReply, LoseReply, Set
      <4>2. QED
        BY <4>1, EndedFields
    <3>3. QED
      BY <3>1, <3>2
  <2>3. SentBy(CallInvocation(c))
    BY <2>1, <2>2, CallSends
  <2>4. QED
    BY <2>1, <2>3 DEF Sends
<1>2. CASE CallAbandoned(c)
  <2>1. /\ late' = late \cup (IF CallSending(c) THEN {CallInvocation(c)} ELSE {})
        /\ faults' = faults + 1 /\ gen' = gen
    BY <1>2 DEF CallAbandoned, Abandon, redis
  <2>2. task'[c].pc = "done"
    <3>1. task'[c] = Ended(task[c], Raised("aborted"))
      BY <1>2, CallHolds DEF CallAbandoned, Abandon, Set
    <3>2. QED
      BY <3>1, EndedFields
  <2>3. CallSending(c) => SentBy(CallInvocation(c))
    BY <2>2, CallSends
  <2>4. QED
    BY <2>1, <2>3 DEF Sends
<1>3. CASE CallProgress(c)
  <2>1. late' = late
    BY <1>3, Zenon DEF CallProgress, AuthorizeSnapshot, Reserve, ReserveConflict, ReserveMissing,
       ReserveDuplicate, DeniedOrDuplicate, PollRecord, WaitTimesOut, ProviderReturns,
       ProviderRaises, RefundCall, RefundReturns, RefundMissing,
       Settle, SettleStale, SettleMissing, GiveUp, network
  <2>2. QED
    BY <2>1, NoneSent
<1>4. CASE \E request \in Requests : ExecuteGeneration(c, request)
  BY <1>4, NoneSent DEF ExecuteGeneration, network
<1>5. CASE Ensure(c)
  BY <1>5, EnsureUntouched, NoneSent
<1>6. QED
  BY <1>1, <1>2, <1>3, <1>4, <1>5 DEF CallStep

LEMMA OtherLosses ==
  ASSUME NEW a, NEW inv, SentBy(inv),
         \/ LoseReply(a, inv)
         \/ \E sent \in SUBSET {inv} : Abandon(a, sent)
  PROVE  Sends
BY DEF Sends, LoseReply, SendAndLose, Abandon, redis

LEMMA TopUpLosses ==
  ASSUME NEW t \in TopUps, TopUpStep(t)
  PROVE  Sends
<1>1. SentBy(TopUpInvocation(t))
  BY DEF TopUpInvocation, SentBy
<1>2. CASE TopUpLosesReply(t) \/ TopUpAbandoned(t)
  <2> DEFINE inv == TopUpInvocation(t)
             sent == IF At(t, "top_up") THEN {inv} ELSE {}
  <2>1. LoseReply(t, inv) \/ Abandon(t, sent)
    BY <1>2 DEF TopUpLosesReply, TopUpAbandoned
  <2>2. SentBy(inv) /\ sent \in SUBSET {inv}
    BY <1>1
  <2> HIDE DEF inv, sent
  <2>3. QED
    BY <2>1, <2>2, OtherLosses
<1>3. CASE TopUpProgress(t) \/ \E command \in Commands : ApplyTopUp(t, command)
  BY <1>3, NoneSent DEF TopUpProgress, TopUp, TopUpMissing, GiveUp, ApplyTopUp, network
<1>4. CASE Ensure(t)
  BY <1>4, EnsureUntouched, NoneSent
<1>5. QED
  BY <1>2, <1>3, <1>4 DEF TopUpStep

LEMMA ReaderLosses ==
  ASSUME NEW t \in Readers, ReaderStep(t)
  PROVE  Sends
<1>1. CASE Ensure(t)
  BY <1>1, EnsureUntouched, NoneSent
<1>2. CASE ~Ensure(t)
  BY <1>2, NoneSent DEF ReaderStep, GetBalance, ReturnBalance, Abandon, network
<1>3. QED
  BY <1>1, <1>2

LEMMA ReaperLosses ==
  ASSUME NEW r \in Reapers, ReaperStep(r)
  PROVE  Sends
<1>1. CASE ReaperLosesReply(r) \/ ReaperAbandoned(r)
  <2> DEFINE inv == RefundInvocation(r)
             sent == IF At(r, "refund") THEN {inv} ELSE {}
  <2>1. LoseReply(r, inv) \/ Abandon(r, sent)
    BY <1>1 DEF ReaperLosesReply, ReaperAbandoned
  <2>2. CASE At(r, "refund")
    <3>1. SentBy(inv) /\ sent \in SUBSET {inv}
      BY <2>2 DEF RefundInvocation, SentBy
    <3> HIDE DEF inv, sent
    <3>2. QED
      BY <2>1, <3>1, OtherLosses
  <2>3. CASE ~At(r, "refund")
    BY <1>1, <2>3, NoneSent DEF ReaperLosesReply, ReaperAbandoned, Abandon
  <2>4. QED
    BY <2>2, <2>3
<1>2. CASE \/ ReaperProgress(r)
           \/ \E batch \in SUBSET inflight : StaleInflight(r, batch)
  BY <1>2, NoneSent DEF ReaperProgress, InspectStale, Forget, RefundStale, RefundReturns,
     RefundMissing, GiveUp, RestartReaper, StaleInflight, network
<1>3. CASE Ensure(r)
  BY <1>3, EnsureUntouched, NoneSent
<1>4. QED
  BY <1>1, <1>2, <1>3 DEF ReaperStep

LEMMA NextSends ==
  ASSUME CallsInv, Next
  PROVE  Sends
<1>1. CASE UNCHANGED vars
  BY <1>1, NoneSent DEF vars, network
<1>2. ASSUME NEW u \in Users, LockExpires(u) PROVE Sends
  BY <1>2, NoneSent DEF LockExpires
<1>3. ASSUME NEW inv \in late, Land(inv) PROVE Sends
  BY <1>3, NoneSent DEF Land
<1>4. QED
  BY <1>1, <1>2, <1>3, CallLosses, TopUpLosses, ReaderLosses, ReaperLosses DEF Next, Quiet

-----------------------------------------------------------------------------
(***************************************************************************)
(* Nobody ends the reservation of a call underneath it.                    *)
(***************************************************************************)

\* The record c is waiting for something with.
HasRecord(c, id) ==
  /\ task[c].id = id /\ gen[id] # Nil /\ gen[id].reservation_token[1] = c
  /\ (At(c, "reserve") /\ OwnRecord(c)) \/ At(c, "provider") \/ At(c, "settle")

LEMMA Undisturbed ==
  ASSUME CallsInv, Work, NEW c \in Calls, Stands(c), NEW id \in RequestIds,
         HasRecord(c, id), Ends(id)
  PROVE  At(c, "settle") /\ gen'[id].status = "done"
<1>1. Calling(c) /\ TimersTyped /\ c \in Tasks /\ Running(id)
  BY CallHolds DEF Ends
<1>2. age[id] < REAP_AFTER
  <2>1. /\ age[id] \in Nat /\ elapsed[c] \in Nat
        /\ SEND \in Nat /\ PROVIDER_TIMEOUT \in Nat /\ REAP_AFTER \in Nat
        /\ SEND + PROVIDER_TIMEOUT + SEND < REAP_AFTER
    BY <1>1, Numbers DEF TimersTyped
  <2>2. CASE At(c, "reserve")
    BY <1>1, <2>1, <2>2 DEF Calling, HasRecord, At
  <2>3. CASE At(c, "provider")
    BY <1>1, <2>1, <2>3 DEF Calling, HasRecord, At
  <2>4. CASE At(c, "settle")
    BY <1>1, <2>1, <2>4 DEF Calling, HasRecord, At
  <2>5. QED
    BY <2>2, <2>3, <2>4 DEF HasRecord
<1>3. REAP_AFTER \in Nat /\ age[id] \in Nat
  BY <1>1, Numbers DEF TimersTyped
<1>4. ASSUME NEW inv \in late, inv.script \in {"SETTLE", "REFUND"}, inv.id = id,
             inv.script = "SETTLE" => gen'[id].status = "done"
      PROVE  At(c, "settle") /\ gen'[id].status = "done"
  <2>1. Stray(inv)
    BY DEF CallsInv
  <2>2. task[c].pc \in {"done", EndsIn(inv)}
    BY <1>1, <1>2, <1>3, <1>4, <2>1 DEF Stray, HasRecord
  <2>3. QED
    BY <1>4, <2>2 DEF EndsIn, HasRecord, At
<1>5. ASSUME NEW d \in Calls, task[d].pc \in {"settle", "refund"}, task[d].id = id,
             task'[d].pc = "done"
      PROVE  FALSE
  <2>1. d = c
    BY <1>5, CallHolds DEF Calling, Serves, HasRecord
  <2>2. QED
    BY <1>5, <2>1 DEF Stands
<1>6. ASSUME NEW r \in Reapers, At(r, "refund"), task[r].id = id
      PROVE  FALSE
  <2>1. Reaping(r)
    BY DEF CallsInv, RecordsInv
  <2>2. id \in Hands(r) /\ task[r].pc \in ReaperPcs
    BY <1>6 DEF Hands, At, ReaperPcs
  <2>3. age[id] >= REAP_AFTER
    BY <1>1, <2>1, <2>2 DEF Reaping
  <2>4. QED
    BY <1>2, <1>3, <2>3
<1>7. QED
  BY <1>4, <1>5, <1>6, EndsBy DEF EndedBy

LEMMA RecordKept ==
  ASSUME CallsInv, Work, NEW c \in Calls, Stands(c), NEW id \in RequestIds, HasRecord(c, id)
  PROVE  \/ Stays(id)
         \/ At(c, "settle") /\ Ends(id) /\ gen'[id].status = "done"
<1>1. TInv /\ ~Begins(id)
  BY CallHolds DEF Begins, HasRecord
<1>2. QED
  BY <1>1, Undisturbed, RecordSteps

\* The provider is not called meanwhile.
LEMMA NotCalled ==
  ASSUME CallsInv, Work, NEW c \in Calls, Stands(c), NEW id \in RequestIds,
         gen'[id].reservation_token = Token(c)
  PROVE  provider_calls'[id] = provider_calls[id] /\ called'[id] = called[id]
<1>1. provider_calls'[id] = provider_calls[id]
  <2> SUFFICES ASSUME provider_calls'[id] # provider_calls[id] PROVE FALSE
    OBVIOUS
  <2>1. PICK d \in Calls : Reserve(d) /\ gen'[id].reservation_token = Token(d)
    BY CalledBy
  <2>2. d = c
    BY <2>1 DEF Token
  <2>3. task'[c] = [task[c] EXCEPT !.pc = "provider", !.snap = Nil,
                                   !.attempt = 0, !.tries = 0]
    BY <2>1, <2>2, CallHolds DEF Reserve, Set
  <2>4. task'[c].pc = "provider" /\ task[c].pc = "reserve"
    BY <2>1, <2>2, <2>3, CallHolds DEF CallRecords, TaskRecords, Reserve, At
  <2>5. QED
    BY <2>4 DEF Stands
<1>2. QED
  BY <1>1 DEF Work, Timers

LEMMA TokenTyped ==
  ASSUME CallsInv, NEW c \in Calls
  PROVE  Token(c) \in Tokens /\ Token(c)[1] = c /\ Token(c)[2] = task[c].attempt
<1>1. task[c].attempt \in 0 .. RESERVE_MAX_ATTEMPTS
  BY CallHolds DEF CallRecords, TaskRecords
<1>2. QED
  BY <1>1, TokensAssumption DEF Token

LEMMA CallStands ==
  ASSUME CallsInv, RecordsInv', Work, NEW c \in Calls, Stands(c)
  PROVE  Calling(c)'
<1>1. /\ Calling(c) /\ TimersTyped /\ TInv /\ c \in Tasks /\ Kept
      /\ elapsed[c] \in Nat /\ SEND \in Nat /\ PROVIDER_TIMEOUT \in Nat /\ Horizon \in Nat
  BY CallHolds, WorkIsStep, Numbers DEF TimersTyped
<1>2. /\ task'[c].pc = task[c].pc /\ task'[c].ret = task[c].ret
      /\ task'[c].id = task[c].id /\ task'[c].attempt = task[c].attempt
      /\ Token(c)' = Token(c)
  BY DEF Stands, Token
<1>3. elapsed'[c] = elapsed[c]
  BY <1>1, <1>2 DEF Work, Timers, Doing
<1>4. CASE ~Serves(c) /\ ~At(c, "reserve")
  BY <1>1, <1>2, <1>4 DEF Calling, Serves, At
<1>5. CASE At(c, "reserve")
  <2>1. PICK id \in RequestIds : id = task[c].id
    BY <1>1, <1>5, CallWorks DEF At, CallPcs
  <2>2. started'[Token(c)] = started[Token(c)] /\ started[Token(c)] \in Nat
    <3>1. ~Enters(c)
      BY <1>5 DEF Enters, At
    <3>2. QED
      BY <1>1, <3>1, TokenTyped DEF Work, Timers, TimersTyped
  <2>3. ASSUME OwnRecord(c)'
        PROVE  /\ Running(id)' /\ age'[id] <= elapsed[c]
               /\ provider_calls'[id] = 0 \/ called'[id] >= Horizon
    <3>1. gen'[id] # Nil /\ gen'[id].reservation_token = Token(c) /\ id \in RequestIds
      BY <1>2, <2>1, <2>3 DEF OwnRecord
    <3>2. provider_calls'[id] = provider_calls[id] /\ called'[id] = called[id]
      BY <3>1, NotCalled
    <3>3. CASE gen[id] = Nil
      <4>1. Begins(id)
        BY <1>1, <3>1, <3>3, RecordSteps DEF Stays, Ends, Running
      <4>2. age'[id] = started[Token(c)]
        BY <3>1, <4>1 DEF Begins
      <4>3. provider_calls[id] = 0 \/ called[id] >= Horizon
        <5>1. Remembered(id) /\ provider_calls[id] \in Nat
          BY <1>1, TInvParts DEF CallsInv, TypedParts, TypedOthers
        <5>2. QED
          BY <3>3, <5>1 DEF Remembered
      <4>4. QED
        BY <1>1, <1>5, <3>2, <4>1, <4>2, <4>3 DEF Begins, Calling
    <3>4. CASE gen[id] # Nil
      <4>1. OwnRecord(c)
        BY <1>1, <2>1, <3>1, <3>4 DEF Kept, OwnRecord
      <4>2. /\ Running(id) /\ age[id] <= elapsed[c]
            /\ provider_calls[id] = 0 \/ called[id] >= Horizon
        BY <1>1, <1>5, <2>1, <4>1 DEF Calling
      <4>3. HasRecord(c, id)
        BY <1>5, <2>1, <3>4, <4>1, TokenTyped DEF HasRecord, OwnRecord
      <4>4. Stays(id)
        BY <1>5, <4>3, RecordKept DEF At
      <4>5. Running(id)' /\ age'[id] = age[id]
        BY <4>2, <4>4 DEF Stays, Running, RecordsInv, Listed
      <4>6. QED
        BY <3>2, <4>2, <4>5
    <3>5. QED
      BY <3>3, <3>4
  <2>4. QED
    BY <1>1, <1>2, <1>3, <1>5, <2>1, <2>2, <2>3 DEF Calling, Serves, At, LoaderPcs
<1>6. CASE Serves(c)
  <2>1. PICK id \in RequestIds : id = task[c].id
    BY <1>1, <1>6, CallWorks DEF Serves, CallPcs
  <2>2. gen[id] # Nil /\ gen[id].reservation_token[1] = c
    BY <1>1, <1>6, <2>1 DEF Calling
  <2>3. /\ gen'[id] # Nil /\ gen'[id].reservation_token[1] = c
    BY <1>1, <2>2 DEF Kept
  <2>4. Stays(id) \/ Ends(id)
    BY <1>1, <2>2, RecordSteps DEF Begins
  <2>5. Stays(id) => /\ Running(id)' <=> Running(id)
                     /\ Over(id)' <=> Over(id)
                     /\ Running(id) => age'[id] = age[id]
                     /\ ttl'[id] = ttl[id] /\ gen'[id] = gen[id]
    BY DEF Stays, Running, Over, RecordsInv, Listed
  <2>6. age[id] \in Nat /\ ttl[id] \in Nat
    BY <1>1 DEF TimersTyped
  <2>7. CASE At(c, "provider")
    <3>1. HasRecord(c, id)
      BY <2>1, <2>2, <2>7 DEF HasRecord
    <3>2. Stays(id)
      BY <2>7, <3>1, RecordKept DEF At
    <3>3. Running(id)' /\ age'[id] = age[id]
      BY <1>1, <2>1, <2>5, <2>7, <3>2 DEF Calling
    <3>4. QED
      BY <1>1, <1>2, <1>3, <2>1, <2>3, <2>7, <3>3 DEF Calling, Serves, At, LoaderPcs
  <2>8. CASE task[c].pc \in {"settle", "refund"}
    <3>1. /\ Running(id)' => age'[id] <= SEND + PROVIDER_TIMEOUT + elapsed[c]
          /\ Over(id)' => ttl'[id] + elapsed[c] >= Horizon
      <4>1. CASE Stays(id)
        BY <1>1, <2>1, <2>5, <2>8, <4>1 DEF Calling
      <4>2. CASE Ends(id)
        BY <1>1, <4>2 DEF Ends, Running, Over
      <4>3. QED
        BY <2>4, <4>1, <4>2
    <3>2. At(c, "settle") => gen'[id].status # "failed"
      <4> SUFFICES ASSUME At(c, "settle") PROVE gen'[id].status # "failed"
        OBVIOUS
      <4>1. HasRecord(c, id)
        BY <2>1, <2>2 DEF HasRecord
      <4>2. gen'[id] = gen[id] \/ gen'[id].status = "done"
        BY <4>1, RecordKept DEF Stays
      <4>3. QED
        BY <1>1, <2>1, <4>2 DEF Calling
    <3>3. QED
      BY <1>1, <1>2, <1>3, <2>1, <2>3, <2>8, <3>1, <3>2 DEF Calling, Serves, At, LoaderPcs
  <2>9. QED
    BY <1>6, <2>7, <2>8 DEF Serves, At
<1>7. QED
  BY <1>4, <1>5, <1>6

\* A call that has not sent this token yet finds no record with it.
LEMMA CallAsks ==
  ASSUME CallsInv, Work, NEW c \in Calls, Asks(c)
  PROVE  Calling(c)'
<1>1. /\ TInv /\ BInv /\ c \in Tasks /\ TimersTyped /\ SEND \in Nat
      /\ task[c].pc = "authorize" /\ task'[c].pc = "reserve" /\ gen' = gen
      /\ task'[c].id = task[c].id /\ task'[c].attempt = task[c].attempt
      /\ Token(c)' = Token(c) /\ Token(c) \in Tokens
      /\ Token(c)[1] = c /\ Token(c)[2] = task[c].attempt
  BY CallHolds, Numbers, TokenTyped DEF Asks, At, Token
<1>2. elapsed'[c] = 0 /\ started'[Token(c)] = 0
  BY <1>1 DEF Work, Timers, Doing, LoaderPcs, Enters
<1>3. ~OwnRecord(c)'
  <2> SUFFICES ASSUME OwnRecord(c)' PROVE FALSE
    OBVIOUS
  <2>1. PICK id \in RequestIds : id = task[c].id
    BY <1>1, CallWorks DEF CallPcs
  <2>2. gen[id] # Nil /\ gen[id].reservation_token = Token(c)
    BY <1>1, <2>1 DEF OwnRecord
  <2>3. TokenFits(Token(c), id, gen[id].user_id, gen[id].plan, task[c])
    BY <1>1, <2>2 DEF BInv, TokensFit
  <2>4. Where(task[c]) = "authorize" /\ task[c].attempt \in Nat
    BY <1>1, CallHolds, CallRecordFields DEF Where, LoaderPcs
  <2>5. QED
    BY <1>1, <2>3, <2>4 DEF TokenFits
<1>4. QED
  BY <1>1, <1>2, <1>3 DEF Calling, Serves, At, LoaderPcs

LEMMA CallHears ==
  ASSUME CallsInv, RecordsInv', Work, NEW c \in Calls, Hears(c)
  PROVE  Calling(c)'
<1>1. /\ Calling(c) /\ TimersTyped /\ TInv /\ c \in Tasks
      /\ elapsed[c] \in Nat /\ SEND \in Nat /\ PROVIDER_TIMEOUT \in Nat
      /\ task[c].pc = "provider" /\ task'[c].pc \in {"settle", "refund"} /\ gen' = gen
      /\ task'[c].id = task[c].id
  BY CallHolds, Numbers DEF TimersTyped, Hears, At
<1>2. elapsed'[c] = 0
  BY <1>1 DEF Work, Timers, Doing, LoaderPcs
<1>3. PICK id \in RequestIds : id = task[c].id
  BY <1>1, CallWorks DEF CallPcs
<1>4. /\ Running(id) /\ age[id] <= SEND + elapsed[c] /\ elapsed[c] <= PROVIDER_TIMEOUT
      /\ gen[id] # Nil /\ gen[id].reservation_token[1] = c
  BY <1>1, <1>3 DEF Calling, Serves, At
<1>5. age'[id] = age[id] /\ Running(id)' /\ ~Over(id)' /\ gen'[id].status = "running"
  <2>1. Stays(id)
    BY <1>1, <1>4, RecordSteps DEF Begins, Ends, Running, Over
  <2>2. QED
    BY <1>1, <1>4, <2>1 DEF Stays, Running, Over, RecordsInv, Listed
<1>6. age'[id] <= SEND + PROVIDER_TIMEOUT + elapsed'[c] /\ elapsed'[c] <= SEND
  <2>1. age[id] \in Nat
    BY <1>1 DEF TimersTyped
  <2>2. QED
    BY <1>1, <1>2, <1>4, <1>5, <2>1
<1>7. QED
  BY <1>1, <1>3, <1>4, <1>5, <1>6 DEF Calling, Serves, At, LoaderPcs

LEMMA CallDeparts ==
  ASSUME NEW c, Departs(c)
  PROVE  Calling(c)'
BY DEF Departs, Calling, Serves, At

\* The provider is called for a reservation as old as its RESERVE at most.
LEMMA CallReserves ==
  ASSUME CallsInv, RecordsInv', Work, NEW c \in Calls, Reserve(c)
  PROVE  Calling(c)'
<1>1. /\ Calling(c) /\ TimersTyped /\ TInv /\ c \in Tasks
      /\ elapsed[c] \in Nat /\ SEND \in Nat /\ PROVIDER_TIMEOUT \in Nat
      /\ task[c].pc = "reserve" /\ provider_calls \in [RequestIds -> Nat]
  BY CallHolds, Numbers, TInvParts DEF TimersTyped, Reserve, At, TypedParts, TypedOthers
<1>2. task'[c].pc = "provider" /\ task'[c].id = task[c].id
  <2>1. task'[c] = [task[c] EXCEPT !.pc = "provider", !.snap = Nil,
                                   !.attempt = 0, !.tries = 0]
    BY CallHolds DEF Reserve, Set
  <2>2. QED
    BY <2>1, CallHolds DEF CallRecords, TaskRecords
<1>3. PICK id \in RequestIds : id = task[c].id
  BY <1>1, CallWorks DEF CallPcs
<1>4. PICK d \in Calls :
        /\ Reserve(d)
        /\ (OwnRecord(d) /\ gen'[id] = gen[id]) \/ Begins(id)
        /\ gen'[id].reservation_token = Token(d) /\ task[d].id = id
  <2>1. provider_calls'[id] = provider_calls[id] + 1
    BY <1>1, <1>3 DEF Reserve, ReserveInvocation
  <2>2. QED
    BY <1>1, <2>1, CalledBy
<1>5. d = c
  <2> SUFFICES ASSUME d # c PROVE FALSE
    OBVIOUS
  <2>1. task'[c] = task[c]
    BY <1>4, CallHolds DEF Reserve, Set
  <2>2. QED
    BY <1>1, <1>2, <2>1
<1>6. elapsed'[c] = 0
  BY <1>1, <1>2 DEF Work, Timers, Doing, LoaderPcs
<1>7. /\ Running(id)' /\ age'[id] <= SEND
      /\ gen'[id] # Nil /\ gen'[id].reservation_token[1] = c
  <2>1. gen'[id].reservation_token = Token(c) /\ Token(c)[1] = c
    BY <1>4, <1>5, TokenTyped
  <2>2. CASE Begins(id)
    <3>1. age'[id] = started[Token(c)] /\ Running(id)'
      BY <2>1, <2>2 DEF Begins
    <3>2. started[Token(c)] \in Nat /\ started[Token(c)] <= elapsed[c] /\ elapsed[c] <= SEND
      BY <1>1, TokenTyped DEF Calling, At, TimersTyped
    <3>3. QED
      BY <1>1, <2>1, <3>1, <3>2 DEF Running
  <2>3. CASE OwnRecord(c) /\ gen'[id] = gen[id]
    <3>1. Running(id) /\ age[id] <= elapsed[c] /\ elapsed[c] <= SEND
      BY <1>1, <1>3, <2>3 DEF Calling, At
    <3>2. Stays(id)
      BY <1>1, <2>3, <3>1, RecordSteps DEF Begins, Ends, Running, Over
    <3>3. Running(id)' /\ age'[id] = age[id] /\ age[id] \in Nat
      BY <1>1, <3>1, <3>2 DEF Stays, Running, RecordsInv, Listed, TimersTyped
    <3>4. QED
      BY <1>1, <2>1, <3>1, <3>3 DEF Running
  <2>4. QED
    BY <1>4, <1>5, <2>2, <2>3
<1>8. QED
  BY <1>1, <1>2, <1>3, <1>6, <1>7 DEF Calling, Serves, At, LoaderPcs

LEMMA WorkKeepsCalling ==
  ASSUME CallsInv, RecordsInv', Work, NEW c \in Calls
  PROVE  Calling(c)'
BY CallsTurn, CallStands, CallAsks, CallHears, CallDeparts, CallReserves DEF CallTurns

\* The faults behind a lost script, and what it may have taken since the last.
LEMMA LossesAdd ==
  ASSUME NEW n \in Nat
  PROVE  /\ n * SEND \in Nat /\ (n + 1) * SEND = n * SEND + SEND
BY Numbers, Product

\* Whose token it is in a record.
LEMMA OwnerCalls ==
  ASSUME CallsInv, NEW id \in RequestIds, gen[id] # Nil
  PROVE  gen[id].reservation_token[1] \in Calls
<1>1. gen[id].reservation_token \in Attempts
  BY DEF CallsInv, BInv, TokensFit
<1>2. QED
  BY <1>1 DEF Attempts

\* A call that has not ended what it reserved does not turn to anything else.
LEMMA OwnerStays ==
  ASSUME CallsInv, Work, NEW c \in Calls, NEW pc \in {"settle", "refund"},
         task[c].pc \in {"done", pc}
  PROVE  task'[c].pc \in {"done", pc}
<1>1. task[c].pc \notin {"authorize", "provider", "reserve"}
  OBVIOUS
<1>2. Stands(c) \/ Departs(c)
  BY <1>1, CallsTurn, Zenon DEF CallTurns, Asks, Hears, Reserve, At
<1>3. Serves(c) \/ At(c, "done")
  BY DEF Serves, At
<1>4. QED
  BY <1>2, <1>3 DEF Stands, Departs

LEMMA StrayStays ==
  ASSUME CallsInv, RecordsInv', Work, NEW inv \in late, faults \in Nat
  PROVE  Stray(inv)'
<1> SUFFICES ASSUME inv.script \in {"SETTLE", "REFUND"} PROVE Stray(inv)'
  BY DEF Stray
<1>1. /\ TInv /\ TimersTyped /\ Kept /\ Stray(inv) /\ inv \in Invocations /\ Next
      /\ silent <= SEND /\ silent \in Nat /\ SEND \in Nat /\ Horizon \in Nat /\ REAP_AFTER \in Nat
  <2>1. TInv /\ TimersTyped /\ Stray(inv) /\ silent <= SEND
    BY DEF CallsInv, RecordsInv
  <2>2. QED
    BY <2>1, WorkIsStep, Numbers DEF TimersTyped, Work
<1>2. PICK id \in RequestIds : id = inv.id
  BY <1>1 DEF Invocations, ReserveInvocations, SettleInvocations, RefundInvocations, TopUpInvocations
<1>3. /\ gen[id] # Nil
      /\ Over(id) => ttl[id] + faults * SEND + silent >= Horizon
      /\ Running(id) => \/ age[id] >= REAP_AFTER
                        \/ task[gen[id].reservation_token[1]].pc \in {"done", EndsIn(inv)}
  BY <1>1, <1>2 DEF Stray
<1>4. gen'[id] # Nil /\ (Stays(id) \/ Ends(id))
  BY <1>1, <1>3, RecordSteps DEF Kept, Begins
<1>5. Over(id)' => ttl'[id] + faults' * SEND + silent' >= Horizon
  <2>1. PICK m \in Nat : m = faults * SEND
    BY LossesAdd
  <2>2. (faults' * SEND = m /\ silent' = silent) \/ (faults' * SEND = m + SEND /\ silent' = 0)
    <3>1. faults' = faults \/ faults' = faults + 1
      BY <1>1, FaultsAddUp
    <3>2. (faults + 1) * SEND = m + SEND
      BY <2>1, LossesAdd
    <3>3. silent' = IF faults' = faults THEN silent ELSE 0
      BY DEF Work, Timers
    <3>4. QED
      BY <2>1, <3>1, <3>2, <3>3
  <2>3. PICK k \in Nat : k = faults' * SEND
    BY <1>1, <2>1, <2>2
  <2>4. ttl[id] \in Nat
    BY <1>1 DEF TimersTyped
  <2>5. CASE Stays(id)
    <3>1. (Over(id)' <=> Over(id)) /\ ttl'[id] = ttl[id]
      BY <2>5 DEF Stays, Over
    <3>2. Over(id) => ttl[id] + m + silent >= Horizon
      BY <1>3, <2>1
    <3>3. QED
      BY <1>1, <2>2, <2>3, <2>4, <3>1, <3>2
  <2>6. CASE Ends(id)
    <3>1. ttl'[id] = Horizon
      BY <2>6 DEF Ends
    <3>2. QED
      BY <1>1, <2>2, <2>3, <3>1
  <2>7. QED
    BY <1>4, <2>5, <2>6
<1>6. ASSUME Running(id)'
      PROVE  \/ age'[id] >= REAP_AFTER
             \/ task'[gen'[id].reservation_token[1]].pc \in {"done", EndsIn(inv)}
  <2>1. Stays(id)
    BY <1>4, <1>6 DEF Ends, Running, Over
  <2>2. gen'[id] = gen[id] /\ Running(id) /\ age'[id] = age[id]
    BY <1>6, <2>1 DEF Stays, Running, RecordsInv, Listed
  <2>3. PICK c \in Calls : c = gen[id].reservation_token[1]
    BY <1>3, OwnerCalls
  <2>4. task[c].pc \in {"done", EndsIn(inv)} => task'[c].pc \in {"done", EndsIn(inv)}
    <3>1. EndsIn(inv) \in {"settle", "refund"}
      BY DEF EndsIn
    <3>2. QED
      BY <3>1, OwnerStays
  <2>5. QED
    BY <1>3, <2>2, <2>3, <2>4
<1>7. EndsIn(inv)' = EndsIn(inv)
  BY DEF EndsIn
<1>8. QED
  BY <1>2, <1>4, <1>5, <1>6, <1>7 DEF Stray

\* A script that joins them.
LEMMA NewStray ==
  ASSUME CallsInv, RecordsInv', Work, NEW inv \in Invocations, SentBy(inv), gen' = gen,
         faults \in Nat, faults' = faults + 1
  PROVE  Stray(inv)'
<1> SUFFICES ASSUME inv.script \in {"SETTLE", "REFUND"} PROVE Stray(inv)'
  BY DEF Stray
<1>1. /\ TInv /\ TimersTyped /\ silent' = 0
      /\ SEND \in Nat /\ Horizon \in Nat /\ REAP_AFTER \in Nat
  <2>1. TInv /\ TimersTyped
    BY DEF CallsInv, RecordsInv
  <2>2. QED
    BY <2>1, Numbers DEF Work, Timers
<1>2. PICK id \in RequestIds : id = inv.id
  BY DEF Invocations, ReserveInvocations, SettleInvocations, RefundInvocations, TopUpInvocations
<1>3. PICK m \in Nat : faults' * SEND = m + SEND
  BY LossesAdd
<1>4. ASSUME gen[id] # Nil
      PROVE  /\ ttl'[id] = ttl[id] /\ ttl[id] \in Nat
             /\ (Running(id)' <=> Running(id)) /\ (Over(id)' <=> Over(id))
             /\ Running(id) => age'[id] = age[id]
  <2>1. Stays(id)
    BY <1>1, <1>4, RecordSteps DEF Begins, Ends, Running, Over
  <2>2. QED
    BY <1>1, <2>1 DEF Stays, Running, Over, RecordsInv, Listed, TimersTyped
<1>5. EndsIn(inv)' = EndsIn(inv) /\ EndsIn(inv) \in {"settle", "refund"}
  BY DEF EndsIn
<1>6. ASSUME NEW s \in Nat, s <= SEND, gen[id] # Nil, Over(id) => ttl[id] + s >= Horizon
      PROVE  Over(id)' => ttl'[id] + faults' * SEND + silent' >= Horizon
  <2>1. PICK k \in Nat : k = faults' * SEND /\ k = m + SEND
    BY <1>1, <1>3
  <2>2. QED
    BY <1>1, <1>4, <1>6, <2>1
<1>7. ASSUME NEW c \in Calls, task[c].pc = EndsIn(inv), id = task[c].id,
             task'[c].pc \in {EndsIn(inv), "done"}
      PROVE  Stray(inv)'
  <2>1. /\ gen[id] # Nil /\ gen[id].reservation_token[1] = c
        /\ Over(id) => ttl[id] + elapsed[c] >= Horizon
        /\ elapsed[c] \in Nat /\ elapsed[c] <= SEND
    BY <1>5, <1>7, CallHolds DEF Calling, Serves, TimersTyped
  <2>2. QED
    BY <1>2, <1>5, <1>6, <1>7, <2>1 DEF Stray
<1>8. ASSUME NEW r \in Reapers, At(r, "refund"), id = task[r].id
      PROVE  Stray(inv)'
  <2>1. Reaping(r) /\ r \in Tasks
    BY <1>1, ReaperHas DEF CallsInv, RecordsInv
  <2>2. id \in Hands(r) /\ task[r].pc \in ReaperPcs
    BY <1>8 DEF Hands, At, ReaperPcs
  <2>3. /\ gen[id] # Nil
        /\ Running(id) => age[id] >= REAP_AFTER
        /\ Over(id) => ttl[id] + elapsed[r] >= Horizon
        /\ elapsed[r] \in Nat /\ elapsed[r] <= SEND
    BY <1>1, <1>8, <2>1, <2>2 DEF Reaping, TimersTyped
  <2>4. QED
    BY <1>2, <1>4, <1>6, <2>3 DEF Stray
<1>9. QED
  BY <1>2, <1>7, <1>8 DEF SentBy

LEMMA WorkKeepsStrays ==
  ASSUME CallsInv, RecordsInv', Work
  PROVE  /\ \A inv \in late' : Stray(inv)'
         /\ late' # {} => silent' <= SEND /\ faults' > 0
<1>1. /\ TInv /\ Next /\ faults \in Nat /\ faults' \in Nat
      /\ silent \in Nat /\ SEND \in Nat /\ late' \subseteq Invocations
      /\ late # {} => silent <= SEND /\ faults > 0
      /\ silent' = IF faults' = faults THEN silent ELSE 0
      /\ faults' = faults \/ faults' = faults + 1
  <2>1. TInv /\ TInv' /\ TimersTyped /\ (late # {} => silent <= SEND /\ faults > 0)
    BY DEF CallsInv, RecordsInv
  <2>2. TInv' => (late \subseteq Invocations)'
    BY TInvParts, PTL DEF TypedParts, TypedOthers
  <2>3. QED
    BY <2>1, <2>2, WorkIsStep, Numbers, FaultsAddUp DEF Work, Timers, TimersTyped
<1>2. Sends
  BY <1>1, NextSends
<1>3. ASSUME NEW inv \in late' PROVE Stray(inv)'
  <2>1. CASE inv \in late
    BY <1>1, <2>1, StrayStays
  <2>2. CASE SentBy(inv) /\ gen' = gen /\ faults' = faults + 1
    BY <1>1, <1>3, <2>2, NewStray
  <2>3. QED
    BY <1>2, <2>1, <2>2 DEF Sends
<1>4. ASSUME late' # {} PROVE silent' <= SEND /\ faults' > 0
  <2>1. late # {} \/ faults' = faults + 1
    BY <1>2, <1>4 DEF Sends
  <2>2. QED
    BY <1>1, <2>1
<1>5. QED
  BY <1>3, <1>4

\* The provider is called where nothing is remembered of the id.
LEMMA WorkKeepsRemembered ==
  ASSUME CallsInv, RecordsInv', Work, NEW id \in RequestIds
  PROVE  Remembered(id)'
<1>1. /\ TInv /\ TimersTyped /\ Remembered(id) /\ Kept
      /\ Horizon \in Nat /\ called[id] \in Nat /\ ttl[id] \in Nat
      /\ called'[id] = IF provider_calls'[id] = provider_calls[id] THEN called[id] ELSE 0
  <2>1. TInv /\ TimersTyped /\ Remembered(id)
    BY DEF CallsInv, RecordsInv
  <2>2. QED
    BY <2>1, WorkIsStep, Numbers DEF TimersTyped, Work, Timers
<1>2. CASE provider_calls'[id] # provider_calls[id]
  <2>1. PICK c \in Calls : /\ Reserve(c) /\ task[c].id = id
                           /\ (OwnRecord(c) /\ gen'[id] = gen[id]) \/ Begins(id)
    BY <1>2, CalledBy
  <2>2. Running(id)'
    BY <2>1, CallHolds DEF Begins, Calling, Reserve, Running
  <2>3. QED
    BY <2>2 DEF Remembered, Running, Over
<1>3. CASE provider_calls'[id] = provider_calls[id]
  <2>1. CASE Stays(id)
    BY <1>1, <1>3, <2>1 DEF Stays, Remembered, Over
  <2>2. CASE Begins(id)
    BY <2>2 DEF Begins, Remembered, Running, Over
  <2>3. CASE Ends(id)
    BY <1>1, <1>3, <2>3 DEF Ends, Remembered, Over
  <2>4. QED
    BY <1>1, <2>1, <2>2, <2>3, RecordSteps
<1>4. QED
  BY <1>2, <1>3

LEMMA CallsWorkOK == CallsInv /\ Work => CallsInv'
<1> SUFFICES ASSUME CallsInv, Work PROVE CallsInv'
  OBVIOUS
<1>1. RecordsInv'
  BY WorkOK DEF CallsInv
<1>2. BInv'
  BY NextFits DEF CallsInv, Work
<1>3. \A c \in Calls : Calling(c)'
  BY <1>1, WorkKeepsCalling
<1>4. /\ \A inv \in late' : Stray(inv)'
      /\ late' # {} => silent' <= SEND /\ faults' > 0
  BY <1>1, WorkKeepsStrays
<1>5. \A id \in RequestIds : Remembered(id)'
  BY <1>1, WorkKeepsRemembered
<1>6. QED
  BY <1>1, <1>2, <1>3, <1>4, <1>5 DEF CallsInv

-----------------------------------------------------------------------------
(***************************************************************************)
(* Time passes for the calls.                                              *)
(***************************************************************************)
LEMMA CallTicks ==
  ASSUME CallsInv, Tick, NEW c \in Calls
  PROVE  /\ task[c].pc \in {"reserve", "settle", "refund"} =>
              elapsed[c] < SEND /\ elapsed'[c] = elapsed[c] + 1
         /\ At(c, "provider") =>
              elapsed[c] < PROVIDER_TIMEOUT /\ elapsed'[c] = elapsed[c] + 1
<1>1. /\ c \in Tasks /\ elapsed[c] \in Nat /\ elapsed[c] < Patience(c)
      /\ elapsed'[c] = Counting(Patience(c) < Forever, elapsed[c])
  BY CallHolds DEF TimersTyped, Tick
<1>2. /\ SEND \in Nat /\ PROVIDER_TIMEOUT \in Nat /\ Horizon \in Nat
      /\ SEND < Horizon /\ PROVIDER_TIMEOUT < Horizon
  BY Numbers, Order
<1>3. ASSUME task[c].pc \in {"reserve", "settle", "refund"} PROVE Patience(c) = SEND
  BY <1>3 DEF Patience, At
<1>4. ASSUME At(c, "provider") PROVE Patience(c) = PROVIDER_TIMEOUT
  BY <1>4 DEF Patience, At, ProviderPatience
<1>5. QED
  BY <1>1, <1>2, <1>3, <1>4 DEF Counting, Lesser, Forever

LEMMA RecordTicks ==
  ASSUME CallsInv, Tick, NEW id \in RequestIds
  PROVE  /\ age[id] \in Nat /\ age'[id] \in Nat /\ age'[id] <= age[id] + 1
         /\ Running(id) => age'[id] >= age[id]
         /\ ttl[id] \in Nat /\ ttl'[id] \in Nat /\ (gen[id] # Nil => ttl'[id] = ttl[id] - 1)
         /\ called[id] \in 0 .. Horizon /\ provider_calls[id] \in Nat
         /\ provider_calls[id] > 0 =>
              called'[id] = IF called[id] = Horizon THEN Horizon ELSE called[id] + 1
<1>1. /\ TimersTyped /\ TimersTyped' /\ Horizon \in Nat
      /\ provider_calls \in [RequestIds -> Nat] /\ Listed(id)
  BY TickKeepsTimers, Numbers, TInvParts DEF CallsInv, RecordsInv, TypedParts, TypedOthers
<1>2. /\ age[id] \in 0 .. Horizon /\ age'[id] \in Nat /\ ttl[id] \in Nat /\ ttl'[id] \in Nat
      /\ called[id] \in 0 .. Horizon /\ provider_calls[id] \in Nat
  BY <1>1 DEF TimersTyped
<1>3. age'[id] = Counting(id \in inflight, age[id])
      /\ called'[id] = Counting(provider_calls[id] > 0, called[id])
  BY DEF Tick
<1>4. age'[id] <= age[id] + 1
  BY <1>1, <1>2, <1>3 DEF Counting, Lesser
<1>5. Running(id) => age'[id] >= age[id]
  BY <1>1, TickKeepsTimers DEF Running, Listed
<1>6. gen[id] # Nil => ttl'[id] = ttl[id] - 1
  BY <1>1, TickKeepsTimers
<1>7. provider_calls[id] > 0 =>
        called'[id] = IF called[id] = Horizon THEN Horizon ELSE called[id] + 1
  BY <1>1, <1>2, <1>3 DEF Counting, Lesser
<1>8. QED
  BY <1>2, <1>4, <1>5, <1>6, <1>7

LEMMA TickKeepsCalling ==
  ASSUME CallsInv, Tick, NEW c \in Calls
  PROVE  Calling(c)'
<1>1. /\ TInv /\ TimersTyped /\ Calling(c) /\ c \in Tasks /\ elapsed[c] \in Nat
      /\ UNCHANGED <<task, gen, provider_calls>>
      /\ SEND \in Nat /\ PROVIDER_TIMEOUT \in Nat /\ Horizon \in Nat
  BY CallHolds, Numbers DEF Tick, redis, TimersTyped
<1>2. \A id \in RequestIds : (Running(id)' <=> Running(id)) /\ (Over(id)' <=> Over(id))
  BY <1>1 DEF Running, Over
<1>3. CASE ~Serves(c) /\ ~At(c, "reserve")
  BY <1>1, <1>3 DEF Calling, Serves, At
<1>4. CASE At(c, "reserve")
  <2>1. PICK id \in RequestIds : id = task[c].id
    BY <1>1, <1>4, CallWorks DEF At, CallPcs
  <2>2. elapsed[c] < SEND /\ elapsed'[c] = elapsed[c] + 1
    BY <1>4, CallTicks DEF At
  <2>3. Token(c)' = Token(c) /\ (OwnRecord(c)' <=> OwnRecord(c))
    BY <1>1 DEF Token, OwnRecord
  <2>4. started'[Token(c)] <= elapsed'[c]
    <3>1. PICK token \in Tokens : token = Token(c)
      BY TokenTyped
    <3>2. Pending(token)
      BY <1>4, <3>1, TokenTyped DEF Pending
    <3>3. started'[token] = Lesser(started[token] + 1, Horizon)
      BY <3>2 DEF Tick, Counting
    <3>4. started[token] \in Nat /\ started[token] <= elapsed[c]
      BY <1>1, <1>4, <3>1 DEF TimersTyped, Calling
    <3>5. QED
      BY <1>1, <2>2, <3>1, <3>3, <3>4 DEF Lesser
  <2>5. ASSUME OwnRecord(c)
        PROVE  /\ Running(id) /\ age'[id] <= elapsed'[c]
               /\ provider_calls[id] = 0 \/ called'[id] >= Horizon
    <3>1. /\ Running(id) /\ age[id] <= elapsed[c]
          /\ provider_calls[id] = 0 \/ called[id] >= Horizon
      BY <1>1, <1>4, <2>1, <2>5 DEF Calling
    <3>2. age'[id] <= elapsed'[c]
      BY <1>1, <2>2, <3>1, RecordTicks
    <3>3. provider_calls[id] = 0 \/ called'[id] >= Horizon
      BY <1>1, <3>1, RecordTicks
    <3>4. QED
      BY <3>1, <3>2, <3>3
  <2>6. elapsed'[c] <= SEND
    BY <1>1, <2>2
  <2>7. QED
    BY <1>1, <1>2, <1>4, <2>1, <2>3, <2>4, <2>5, <2>6 DEF Calling, Serves, At, LoaderPcs
<1>5. CASE At(c, "provider")
  <2>1. PICK id \in RequestIds : id = task[c].id
    BY <1>1, <1>5, CallWorks DEF At, CallPcs
  <2>2. elapsed[c] < PROVIDER_TIMEOUT /\ elapsed'[c] = elapsed[c] + 1
    BY <1>5, CallTicks
  <2>3. Running(id) /\ age[id] <= SEND + elapsed[c]
    BY <1>1, <1>5, <2>1 DEF Calling
  <2>4. age'[id] <= SEND + elapsed'[c] /\ elapsed'[c] <= PROVIDER_TIMEOUT
    BY <1>1, <2>2, <2>3, RecordTicks
  <2>5. QED
    BY <1>1, <1>2, <1>5, <2>1, <2>3, <2>4 DEF Calling, Serves, At, LoaderPcs
<1>6. CASE task[c].pc \in {"settle", "refund"}
  <2>1. PICK id \in RequestIds : id = task[c].id
    BY <1>1, <1>6, CallWorks DEF CallPcs
  <2>2. elapsed[c] < SEND /\ elapsed'[c] = elapsed[c] + 1
    BY <1>6, CallTicks
  <2>3. /\ Running(id) => age[id] <= SEND + PROVIDER_TIMEOUT + elapsed[c]
        /\ Over(id) => ttl[id] + elapsed[c] >= Horizon
        /\ gen[id] # Nil
    BY <1>1, <1>6, <2>1 DEF Calling, Serves
  <2>4. Running(id) => age'[id] <= SEND + PROVIDER_TIMEOUT + elapsed'[c]
    BY <1>1, <2>2, <2>3, RecordTicks
  <2>5. Over(id) => ttl'[id] + elapsed'[c] >= Horizon
    BY <1>1, <2>2, <2>3, RecordTicks
  <2>6. elapsed'[c] <= SEND
    BY <1>1, <2>2
  <2>7. QED
    BY <1>1, <1>2, <1>6, <2>1, <2>4, <2>5, <2>6 DEF Calling, Serves, At, LoaderPcs
<1>7. QED
  BY <1>3, <1>4, <1>5, <1>6 DEF Serves, At

LEMMA TickKeepsStrays ==
  ASSUME CallsInv, Tick
  PROVE  /\ \A inv \in late' : Stray(inv)'
         /\ late' # {} => silent' <= SEND /\ faults' > 0
<1> SUFFICES ASSUME late' # {}
             PROVE  silent' <= SEND /\ faults' > 0 /\ \A inv \in late' : Stray(inv)'
  OBVIOUS
<1>1. /\ TInv /\ TimersTyped /\ silent \in Nat /\ SEND \in Nat /\ REAP_AFTER \in Nat
      /\ SEND < Horizon /\ Horizon \in Nat
      /\ UNCHANGED <<task, gen, faults>> /\ faults \in Nat
  <2>1. TInv /\ TimersTyped
    BY DEF CallsInv, RecordsInv
  <2>2. QED
    BY <2>1, Numbers, Order, TInvParts DEF Tick, redis, TimersTyped, TypedParts, TypedOthers
<1>2. late' = late /\ silent < SEND /\ silent' = Counting(late # {}, silent)
  BY DEF Tick
<1>3. silent' = silent + 1
  BY <1>1, <1>2 DEF Counting, Lesser
<1>4. silent' <= SEND /\ faults' > 0
  BY <1>1, <1>2, <1>3 DEF CallsInv
<1>5. ASSUME NEW inv \in late, inv.script \in {"SETTLE", "REFUND"}
      PROVE  Stray(inv)'
  <2>1. Stray(inv) /\ inv \in Invocations
    BY <1>1, TInvParts DEF CallsInv, TypedParts, TypedOthers
  <2>2. PICK id \in RequestIds : id = inv.id
    BY <1>5, <2>1 DEF Invocations, ReserveInvocations, SettleInvocations, RefundInvocations,
                TopUpInvocations
  <2>3. PICK m \in Nat : m = faults * SEND
    BY <1>1, LossesAdd
  <2>4. /\ gen[id] # Nil
        /\ Over(id) => ttl[id] + m + silent >= Horizon
        /\ Running(id) => \/ age[id] >= REAP_AFTER
                          \/ task[gen[id].reservation_token[1]].pc \in {"done", EndsIn(inv)}
    BY <1>5, <2>1, <2>2, <2>3 DEF Stray
  <2>5. Over(id)' => ttl'[id] + faults' * SEND + silent' >= Horizon
    <3>1. Over(id)' => Over(id)
      BY <1>1 DEF Over
    <3>2. ttl[id] \in Nat /\ ttl'[id] = ttl[id] - 1
      BY <2>4, RecordTicks
    <3>3. faults' * SEND = m
      BY <1>1, <2>3
    <3>4. QED
      BY <1>1, <1>3, <2>4, <3>1, <3>2, <3>3
  <2>6. Running(id) => age'[id] >= age[id] /\ age[id] \in Nat /\ age'[id] \in Nat
    BY RecordTicks
  <2>7. Running(id)' => \/ age'[id] >= REAP_AFTER
                        \/ task'[gen'[id].reservation_token[1]].pc \in {"done", EndsIn(inv)}
    BY <1>1, <2>4, <2>6 DEF Running
  <2>8. EndsIn(inv)' = EndsIn(inv)
    BY DEF EndsIn
  <2>9. QED
    BY <1>1, <2>2, <2>4, <2>5, <2>7, <2>8 DEF Stray
<1>6. \A inv \in late' : Stray(inv)'
  BY <1>2, <1>5 DEF Stray
<1>7. QED
  BY <1>4, <1>6

LEMMA CallsTickOK == CallsInv /\ Tick => CallsInv'
<1> SUFFICES ASSUME CallsInv, Tick PROVE CallsInv'
  OBVIOUS
<1>1. RecordsInv'
  BY TickOK DEF CallsInv
<1>2. BInv'
  <2>1. BInv /\ TInv /\ IInv
    BY DEF CallsInv, RecordsInv, BInv
  <2>2. IInv'
    BY <2>1, TickKeepsTask DEF Keeps, IInv
  <2>3. UNCHANGED <<gen, bal, row, task>> /\ late' \subseteq late
    BY DEF Tick, redis
  <2>4. QED
    BY <2>1, <2>2, <2>3 DEF BInv, TokensFit
<1>3. \A c \in Calls : Calling(c)'
  BY TickKeepsCalling
<1>4. ASSUME NEW id \in RequestIds PROVE Remembered(id)'
  <2>1. UNCHANGED <<gen, provider_calls>> /\ Horizon \in Nat
    BY Numbers DEF Tick, redis
  <2>2. Remembered(id)
    BY DEF CallsInv
  <2>3. ASSUME provider_calls[id] > 0, gen[id] = Nil PROVE called'[id] >= Horizon
    BY <2>1, <2>2, <2>3, RecordTicks DEF Remembered
  <2>4. ASSUME provider_calls[id] > 0, Over(id) PROVE ttl'[id] + called'[id] >= Horizon
    <3>1. gen[id] # Nil
      BY <2>4 DEF Over
    <3>2. QED
      BY <2>1, <2>2, <2>4, <3>1, RecordTicks DEF Remembered
  <2>5. QED
    BY <2>1, <2>3, <2>4 DEF Remembered, Over
<1>5. QED
  BY <1>1, <1>2, <1>3, <1>4, TickKeepsStrays DEF CallsInv

-----------------------------------------------------------------------------
(***************************************************************************)
(* Nobody needs a record that goes.                                        *)
(***************************************************************************)
LEMMA FaultsBound ==
  ASSUME NEW n \in 0 .. MaxFaults
  PROVE  n * SEND \in Nat /\ n * SEND + SEND < Horizon
<1>1. /\ n \in Nat /\ SEND \in Nat /\ MAX_OUTAGE \in Nat /\ SEND + MAX_OUTAGE \in Nat
      /\ SEND <= SEND + MAX_OUTAGE
  BY Numbers
<1>2. PICK p \in Nat : p = n * (SEND + MAX_OUTAGE) /\ p <= MaxFaults * (SEND + MAX_OUTAGE)
  BY OutagesBound DEF Outages
<1>3. n * SEND \in Nat /\ n * SEND <= p
  <2>1. SEND * n <= (SEND + MAX_OUTAGE) * n
    BY <1>1, Product
  <2>2. SEND * n = n * SEND /\ (SEND + MAX_OUTAGE) * n = n * (SEND + MAX_OUTAGE)
    BY <1>1
  <2>3. QED
    BY <1>1, <1>2, <2>1, <2>2, LossesAdd
<1>4. PICK m \in Nat : m = n * SEND /\ m <= p
  BY <1>3
<1>5. PICK q \in Nat, k \in Nat :
        q = MaxFaults * (SEND + MAX_OUTAGE) /\ k = Cardinality(RequestIds) * SEND
  BY Numbers
<1>6. /\ REAP_AFTER + FLUSH_INTERVAL + k + q < Horizon /\ SEND < REAP_AFTER
      /\ REAP_AFTER \in Nat /\ FLUSH_INTERVAL \in Nat /\ Horizon \in Nat
  BY <1>5, Numbers, Order
<1>7. m + SEND < Horizon
  BY <1>1, <1>2, <1>4, <1>5, <1>6
<1>8. QED
  BY <1>4, <1>7

\* Nobody who has still to end a reservation is about a record that goes.
Unneeded(id) ==
  /\ Over(id) /\ ttl[id] = 0
  /\ \A c \in Calls : Where(task[c]) \in {"provider", "settle", "refund"} =>
       Serves(c) /\ task[c].id \in RequestIds \ {id}
  /\ \A r \in Reapers : Where(task[r]) = "refund" => task[r].id \in RequestIds \ {id}
  /\ \A inv \in late : inv.script \in {"SETTLE", "REFUND"} => inv.id \in RequestIds \ {id}

LEMMA NobodyNeeds ==
  ASSUME CallsInv, Reapers # {}, NEW id \in RequestIds, Expires(id)
  PROVE  Unneeded(id)
<1>1. /\ TInv /\ IInv /\ TimersTyped /\ SEND \in Nat /\ Horizon \in Nat /\ SEND < Horizon
      /\ gen[id] # Nil /\ ttl[id] = 0
      /\ \A r \in Reapers : Reaping(r) /\ (Running(id) => InTime(r, id))
  BY Numbers, Order DEF CallsInv, RecordsInv, BInv, Expires
<1>2. Over(id) /\ ~Running(id)
  BY <1>1, RunningLasts DEF Over, Running
<1>3. ASSUME NEW c \in Calls, Where(task[c]) \in {"provider", "settle", "refund"}
      PROVE  Serves(c) /\ task[c].id \in RequestIds \ {id}
  <2>1. Serves(c)
    BY <1>3, CallHolds DEF Calling, Where, Serves
  <2>2. task[c].id \in RequestIds
    BY <1>1, <1>3, EndingIds
  <2>3. elapsed[c] \in Nat
    BY <1>1, CallHolds DEF TimersTyped
  <2>4. task[c].id # id
    BY <1>1, <1>2, <2>1, <2>3, CallHolds DEF Calling, Serves, At
  <2>5. QED
    BY <2>1, <2>2, <2>4
<1>4. ASSUME NEW r \in Reapers, Where(task[r]) = "refund"
      PROVE  task[r].id \in RequestIds \ {id}
  <2>1. At(r, "refund") /\ task[r].pc \in ReaperPcs
    BY <1>1, <1>4 DEF Reaping, ReaperPcs, Where, LoaderPcs, At
  <2>2. task[r].id \in RequestIds
    BY <1>1, <1>4, EndingIds
  <2>3. elapsed[r] \in Nat
    BY <1>1, ReaperHas DEF TimersTyped
  <2>4. task[r].id # id
    BY <1>1, <1>2, <2>1, <2>3 DEF Reaping
  <2>5. QED
    BY <2>2, <2>4
<1>5. ASSUME NEW inv \in late, inv.script \in {"SETTLE", "REFUND"}
      PROVE  inv.id \in RequestIds \ {id}
  <2>1. /\ Stray(inv) /\ inv \in Invocations /\ silent <= SEND /\ silent \in Nat
        /\ faults \in 0 .. MaxFaults
    BY <1>1, TInvParts DEF CallsInv, TypedParts, TypedOthers, TimersTyped
  <2>2. inv.id \in RequestIds
    BY <1>5, <2>1 DEF Invocations, ReserveInvocations, SettleInvocations, RefundInvocations,
                TopUpInvocations
  <2>3. PICK m \in Nat : m = faults * SEND /\ m + SEND < Horizon
    BY <2>1, FaultsBound
  <2>4. Over(inv.id) => ttl[inv.id] + m + silent >= Horizon
    BY <1>5, <2>1, <2>3 DEF Stray
  <2>5. inv.id # id
    BY <1>1, <1>2, <2>1, <2>3, <2>4
  <2>6. QED
    BY <2>2, <2>5
<1>6. QED
  BY <1>1, <1>2, <1>3, <1>4, <1>5 DEF Unneeded

LEMMA ExpiresKeepsFits ==
  ASSUME CallsInv, NEW id \in RequestIds, Expires(id), Unneeded(id)
  PROVE  BInv'
<1>1. /\ BInv /\ IInv'
      /\ UNCHANGED <<bal, row, task, late>>
      /\ \A j \in RequestIds : gen'[j] = IF j = id THEN Nil ELSE gen[j]
  BY ExpiresKeepsTask DEF CallsInv, RecordsInv, BInv, IInv, Keeps, Expires, network
<1>2. ASSUME NEW c \in Calls PROVE CallFits(task[c], gen')
  <2>1. Where(task[c]) \in {"provider", "settle", "refund"} =>
          gen'[task[c].id] = gen[task[c].id]
    BY <1>1 DEF Unneeded
  <2>2. CallFits(task[c], gen)
    BY <1>1 DEF BInv
  <2>3. QED
    BY <2>1, <2>2 DEF CallFits, Returns, Splits
<1>3. ASSUME NEW r \in Reapers PROVE ReaperFits(task[r], gen')
  <2>1. Where(task[r]) = "refund" => gen'[task[r].id] = gen[task[r].id]
    BY <1>1 DEF Unneeded
  <2>2. ReaperFits(task[r], gen)
    BY <1>1 DEF BInv
  <2>3. QED
    BY <2>1, <2>2 DEF ReaperFits, Returns
<1>4. ASSUME NEW inv \in late PROVE InvocationFits(inv, gen', bal)
  <2>1. inv.script \in {"SETTLE", "REFUND"} => gen'[inv.id] = gen[inv.id]
    BY <1>1 DEF Unneeded
  <2>2. InvocationFits(inv, gen, bal)
    BY <1>1 DEF BInv
  <2>3. QED
    BY <2>1, <2>2 DEF InvocationFits, Returns, Splits
<1>5. TokensFit'
  <2>1. ASSUME NEW j \in RequestIds, gen'[j] # Nil
        PROVE  /\ gen'[j].reservation_token \in Attempts
               /\ TokenFits(gen'[j].reservation_token, j, gen'[j].user_id, gen'[j].plan,
                            task[gen'[j].reservation_token[1]])
    BY <1>1, <2>1 DEF BInv, TokensFit
  <2>2. TokensFit
    BY <1>1 DEF BInv
  <2>3. QED
    BY <1>1, <2>1, <2>2 DEF TokensFit
<1>6. \A a \in Tasks : SeedFits(task[a], row)
  BY <1>1 DEF BInv
<1>7. QED
  BY <1>1, <1>2, <1>3, <1>4, <1>5, <1>6 DEF BInv

LEMMA CallsExpiresOK ==
  ASSUME CallsInv, Reapers # {}, NEW id \in RequestIds, Expires(id)
  PROVE  CallsInv'
<1>1. Unneeded(id)
  BY NobodyNeeds
<1>2. RecordsInv' /\ BInv'
  BY <1>1, ExpiresOK, ExpiresKeepsFits DEF CallsInv
<1>3. /\ UNCHANGED <<task, late, faults, provider_calls, elapsed, started, age, ttl, called,
                     silent>>
      /\ \A j \in RequestIds : gen'[j] = IF j = id THEN Nil ELSE gen[j]
  BY ExpiresKeepsTask DEF CallsInv, RecordsInv, Expires, network, timers
<1>4. \A j \in RequestIds \ {id} :
        gen'[j] = gen[j] /\ (Running(j)' <=> Running(j)) /\ (Over(j)' <=> Over(j))
  BY <1>3 DEF Running, Over
<1>5. ASSUME NEW c \in Calls PROVE Calling(c)'
  <2>1. Calling(c)
    BY DEF CallsInv
  <2>2. CASE Serves(c)
    <3>1. Where(task[c]) \in {"provider", "settle", "refund"}
      BY <2>2 DEF Serves, Where, LoaderPcs
    <3>2. PICK j \in RequestIds \ {id} : j = task[c].id
      BY <1>1, <3>1 DEF Unneeded
    <3>3. QED
      BY <1>3, <1>4, <2>1, <2>2, <3>2 DEF Calling, Serves, At
  <2>3. CASE At(c, "reserve")
    <3>1. PICK j \in RequestIds : j = task[c].id
      BY <2>3, CallHolds, CallWorks DEF At, CallPcs
    <3>2. OwnRecord(c)' => j # id /\ OwnRecord(c)
      BY <1>3, <3>1 DEF OwnRecord, Token
    <3>3. Token(c)' = Token(c)
      BY <1>3 DEF Token
    <3>4. QED
      BY <1>3, <1>4, <2>1, <2>3, <3>1, <3>2, <3>3 DEF Calling, Serves, At, LoaderPcs
  <2>4. CASE ~Serves(c) /\ ~At(c, "reserve")
    BY <1>3, <2>1, <2>4 DEF Calling, Serves, At
  <2>5. QED
    BY <2>2, <2>3, <2>4
<1>6. ASSUME NEW inv \in late, inv.script \in {"SETTLE", "REFUND"} PROVE Stray(inv)'
  <2>1. PICK j \in RequestIds \ {id} : j = inv.id
    BY <1>1, <1>6 DEF Unneeded
  <2>2. Stray(inv) /\ EndsIn(inv)' = EndsIn(inv)
    BY DEF CallsInv, EndsIn
  <2>3. QED
    BY <1>3, <1>4, <1>6, <2>1, <2>2 DEF Stray
<1>7. \A inv \in late' : Stray(inv)'
  BY <1>3, <1>6 DEF Stray
<1>8. late' # {} => silent' <= SEND /\ faults' > 0
  BY <1>3 DEF CallsInv
<1>9. ASSUME NEW j \in RequestIds PROVE Remembered(j)'
  <2>1. Remembered(j)
    BY DEF CallsInv
  <2>2. CASE j # id
    BY <1>3, <1>4, <2>1, <2>2 DEF Remembered
  <2>3. CASE j = id
    <3>1. Over(id) /\ ttl[id] = 0 /\ called[id] \in Nat /\ Horizon \in Nat
      BY <1>1, Numbers DEF Unneeded, CallsInv, RecordsInv, TimersTyped
    <3>2. QED
      BY <1>3, <2>1, <2>3, <3>1 DEF Remembered, Over
  <2>4. QED
    BY <2>2, <2>3
<1>10. QED
  BY <1>2, <1>5, <1>7, <1>8, <1>9 DEF CallsInv

-----------------------------------------------------------------------------
(***************************************************************************)
(* The theorems.                                                           *)
(***************************************************************************)
LEMMA CallsRest == CallsInv /\ UNCHANGED <<vars, timers>> => CallsInv'
<1> SUFFICES ASSUME CallsInv, UNCHANGED <<vars, timers>> PROVE CallsInv'
  OBVIOUS
<1>1. RecordsInv' /\ BInv'
  BY ClockRests, NextFits DEF CallsInv
<1>2. UNCHANGED <<task, gen, late, faults, provider_calls, elapsed, started, age, ttl, called,
                  silent>>
  BY DEF vars, redis, network, timers
<1>3. \A c \in Calls : Calling(c)'
  BY <1>2 DEF CallsInv, Calling, Serves, At, OwnRecord, Token, Running, Over
<1>4. (\A inv \in late' : Stray(inv)') /\ (late' # {} => silent' <= SEND /\ faults' > 0)
  BY <1>2 DEF CallsInv, Stray, EndsIn, Running, Over
<1>5. \A id \in RequestIds : Remembered(id)'
  BY <1>2 DEF CallsInv, Remembered, Over
<1>6. QED
  BY <1>1, <1>3, <1>4, <1>5 DEF CallsInv

LEMMA CallsStart == ClockInit => CallsInv
<1> SUFFICES ASSUME ClockInit PROVE CallsInv
  OBVIOUS
<1>1. RecordsInv /\ BInv
  BY ClockInitOK, InitFits DEF ClockInit
<1>2. /\ \A c \in Calls : task[c].pc = "idle"
      /\ late = {} /\ \A id \in RequestIds : provider_calls[id] = 0
  BY RolesAssumption DEF ClockInit, Init, StoreInit, Blank
<1>3. \A c \in Calls : Calling(c)
  BY <1>2 DEF Calling, Serves, At, LoaderPcs
<1>4. \A id \in RequestIds : Remembered(id)
  BY <1>2 DEF Remembered
<1>5. QED
  BY <1>1, <1>2, <1>3, <1>4 DEF CallsInv

LEMMA CallsKept ==
  ASSUME Reapers # {}
  PROVE  CallsInv /\ [ClockNext]_<<vars, timers>> => CallsInv'
BY CallsWorkOK, CallsTickOK, CallsExpiresOK, CallsRest DEF ClockNext, Work

LEMMA CalledAnew ==
  ASSUME CallsInv, [ClockNext]_<<vars, timers>>, NEW id \in RequestIds,
         provider_calls'[id] # provider_calls[id], provider_calls[id] > 0
  PROVE  called[id] >= GENERATION_RECORD_TTL
<1>1. Work
  BY DEF ClockNext, Work, Tick, Expires, vars
<1>2. PICK c \in Calls : /\ Reserve(c) /\ task[c].id = id
                         /\ OwnRecord(c) \/ Begins(id)
  BY <1>1, CalledBy
<1>3. CASE OwnRecord(c)
  <2>1. At(c, "reserve") /\ Calling(c)
    BY <1>2, CallHolds DEF Reserve
  <2>2. QED
    BY <1>2, <1>3, <2>1 DEF Calling, Horizon
<1>4. CASE Begins(id)
  BY <1>4 DEF Begins, CallsInv, Remembered, Horizon
<1>5. QED
  BY <1>2, <1>3, <1>4

\* A slow provider is given up by its own call, never reaped underneath it
\* (PROVIDER_TIMEOUT_SECONDS against REAP_AFTER_SECONDS): from its reservation to its
\* settlement a call finds the record it made, and has not been refunded when it settles.
THEOREM CallsKeepReservations ==
  ASSUME Reapers # {}
  PROVE  ClockSpec => []CallsKeepTheirReservation
<1>1. CallsInv => CallsKeepTheirReservation
  BY DEF CallsInv, Calling, Serves, At, Running, CallsKeepTheirReservation
<1>2. QED
  BY CallsStart, CallsKept, <1>1, PTL DEF ClockSpec

\* The provider is called at most once for a request within the TTL of its record
\* (GENERATION_RECORD_TTL_SECONDS), however often it is delivered and whatever is lost.
THEOREM CalledOncePerTtl ==
  ASSUME Reapers # {}
  PROVE  ClockSpec => OncePerTtl
<1> DEFINE CallsAnew == \A id \in RequestIds :
             (provider_calls'[id] # provider_calls[id] /\ provider_calls[id] > 0)
               => called[id] >= GENERATION_RECORD_TTL
<1>1. CallsInv /\ [ClockNext]_<<vars, timers>> => [CallsAnew]_<<vars, timers>>
  BY CalledAnew
<1>2. ClockSpec => [][CallsAnew]_<<vars, timers>>
  <2> HIDE DEF CallsAnew
  <2>1. QED
    BY CallsStart, CallsKept, <1>1, PTL DEF ClockSpec
<1>3. QED
  BY <1>2 DEF OncePerTtl
=================================================================================
