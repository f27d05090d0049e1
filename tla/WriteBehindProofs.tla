--------------------------- MODULE WriteBehindProofs ---------------------------
(***************************************************************************)
(* WInv is an invariant of WriteBehind, for any number of clients,         *)
(* flushers, users, faults and losses, any batch size and any tables.      *)
(* With it: rows only advance, PostgreSQL is never ahead of a Redis that   *)
(* keeps its data, and a flag that is off is off for a reason.  The        *)
(* transactions of UpsertTransactions implement it.                        *)
(***************************************************************************)
EXTENDS WriteBehindInvariant, UpsertTransactions, TLAPS, FiniteSetTheorems

-----------------------------------------------------------------------------
(***************************************************************************)
(* Clients: what their steps make of the keys and of their locals.         *)
(***************************************************************************)

\* A script moved the balance: the version with it, and the flag is up.
Grows(u) ==
  /\ bal[u] # Nil
  /\ bal'[u] \in Versioned
  /\ bal'[u].version > bal[u].version
  /\ u \in dirty'

\* A loader filled it in.
Fills(u) ==
  /\ bal[u] = Nil
  /\ \E a \in Tasks :
       task[a].pc = "seed" /\ task[a].user_id = u /\ bal'[u] = task[a].snap

Stored == \A u \in Users : bal'[u] = bal[u] \/ Grows(u) \/ Fills(u)

\* A seed that is new has just been read.
Fresh(t) == t.pc = "seed" => t.snap = StoredBalance(t.user_id)

LEMMA NilApart == /\ Nil \notin Versioned /\ Nil \notin Users /\ Nil \notin OperationIds
                  /\ Zero \in Versioned
BY NilAssumption DEF Versioned, Zero, Snapshots

LEMMA StoredVersioned ==
  ASSUME KeysTyped, NEW u \in Users
  PROVE  StoredBalance(u) \in Versioned
BY NilApart DEF KeysTyped, Caches, StoredBalance

LEMMA CommandCredits ==
  ASSUME NEW command \in Commands, ~InvalidTopUp(command)
  PROVE  CommandAmounts(command) \in DebitPlans
<1>1. /\ command.paid_usd \in Int /\ command.bonus_usd \in Int
      /\ command.free_requests \in Int
  BY CommandsAssumption
<1>2. /\ command.paid_usd >= 0 /\ command.bonus_usd >= 0
      /\ command.free_requests >= 0
  BY <1>1 DEF InvalidTopUp
<1>3. command.paid_usd \div Grain \in Nat /\ command.bonus_usd \div Grain \in Nat
  BY <1>1, <1>2, GrainAssumption
<1>4. QED
  BY <1>1, <1>2, <1>3 DEF CommandAmounts, DebitPlans

LEMMA CreditedGrows ==
  ASSUME NEW b \in Versioned, NEW amounts \in DebitPlans
  PROVE  Credited(b, amounts) \in Versioned /\ Credited(b, amounts).version > b.version
BY DEF Versioned, Snapshots, DebitPlans, Credited

LEMMA TopUpRuns ==
  ASSUME KeysTyped, NEW inv \in TopUpInvocations, Execute(inv)
  PROVE  /\ bal' \in Caches /\ gen' = gen /\ inflight' = inflight
         /\ topup' \subseteq OperationIds /\ dirty' \subseteq Users
         /\ dirty \subseteq dirty' /\ Stored
<1> DEFINE u == inv.user_id
<1>1. /\ inv.script = "TOP_UP" /\ u \in Users /\ inv.id \in OperationIds
      /\ inv.amounts \in DebitPlans
  BY DEF TopUpInvocations
<1>2. TOP_UP(inv)
  BY <1>1 DEF Execute
<1>3. CASE TopUpReply(inv) # "OK"
  BY <1>2, <1>3 DEF TOP_UP, redis, KeysTyped, Stored
<1>4. CASE TopUpReply(inv) = "OK"
  <2>1. bal[u] # Nil
    BY <1>4, SMT DEF TopUpReply
  <2>2. bal[u] \in Versioned
    BY <1>1, <2>1 DEF KeysTyped, Caches
  <2> DEFINE b == Credited(bal[u], inv.amounts)
  <2>3. b \in Versioned /\ b.version > bal[u].version
    BY <1>1, <2>2, CreditedGrows
  <2>4. /\ bal' = [bal EXCEPT ![u] = b] /\ dirty' = dirty \cup {u}
        /\ topup' = topup \cup {inv.id} /\ gen' = gen /\ inflight' = inflight
    BY <1>2, <1>4 DEF TOP_UP
  <2> HIDE DEF b, u
  <2>5. bal' \in Caches
    BY <1>1, <2>3, <2>4 DEF KeysTyped, Caches
  <2>6. Stored
    BY <1>1, <2>1, <2>3, <2>4 DEF KeysTyped, Caches, Stored, Grows
  <2>7. QED
    BY <1>1, <2>4, <2>5, <2>6 DEF KeysTyped
<1>5. QED
  BY <1>3, <1>4

LEMMA EndedSound ==
  ASSUME NEW t, t.work \in Commands \cup Versioned \cup {Nil}, NEW o \in Outcomes
  PROVE  ClientSound(Ended(t, o)) /\ Fresh(Ended(t, o))
<1> DEFINE u == Ended(t, o)
<1>1. u \in ClientRecords
  BY DEF Ended, Blank, ClientRecords, ClientPcs
<1>2. u.pc = "done"
  BY DEF Ended, Blank
<1> HIDE DEF u
<1>3. ClientSound(u) /\ Fresh(u)
  BY <1>1, <1>2 DEF ClientSound, Fresh, Where, LoaderPcs
<1>4. QED
  BY <1>3 DEF u

LEMMA RaisedOutcomes ==
  /\ \A kind \in OutcomeKinds : Raised(kind) \in Outcomes
  /\ Returned(0) \in Outcomes
BY DEF Raised, Returned, Outcomes, OutcomeKinds

LEMMA ClientHas ==
  ASSUME ClientsSound, NEW a \in Tasks
  PROVE  /\ DOMAIN task = Tasks /\ task[a] \in ClientRecords /\ ClientSound(task[a])
         /\ task[a].work \in Commands \cup Versioned \cup {Nil}
BY DEF ClientsSound, ClientSound, ClientRecords

\* What a step leaves a client with.
Leaves(a) ==
  \E t : Set(a, t) /\ ClientSound(t) /\ Fresh(t)

\* A record that differs from a sound one in where it is, in its snapshot and in
\* its counters.
LEMMA MovesSound ==
  ASSUME NEW t, ClientSound(t), NEW u, u \in ClientRecords,
         u.work = t.work, u.id = t.id, u.user_id = t.user_id,
         Where(u) = Where(t) \/ Where(u) \in {"idle", "done", "balance"},
         u.pc \in LoaderPcs => u.user_id \in Users,
         u.pc = "seed" => u.snap # Nil /\ u.snap = StoredBalance(u.user_id)
  PROVE  ClientSound(u) /\ Fresh(u)
BY DEF ClientSound, Fresh

LEMMA EnsureLeaves ==
  ASSUME KeysTyped, ClientsSound, NEW a \in Tasks, Ensure(a)
  PROVE  Leaves(a)
<1> DEFINE t == task[a]
           user == t.user_id
<1>1. t.pc \in LoaderPcs
  BY DEF Ensure, Load, TryAcquireLoadLock, LoadTimesOut, Recheck, LoadFromDb, Seed,
         ReleaseLoadLock, At, LoaderPcs
<1>2. /\ t \in ClientRecords /\ ClientSound(t) /\ user \in Users
      /\ t.work \in Commands \cup Versioned \cup {Nil}
  BY <1>1, ClientHas DEF ClientSound
<1>3. bal[user] \in Versioned \cup {Nil} /\ StoredBalance(user) \in Versioned
  BY <1>2, StoredVersioned DEF KeysTyped, Caches
<1>4. Where(t) = t.ret /\ t.ret \in ClientPcs
  BY <1>1, <1>2 DEF Where, ClientRecords
<1>5. ASSUME NEW pc \in LoaderPcs \cup {t.ret}, NEW snap \in Versioned \cup {Nil},
             NEW u, Set(a, u), u = [t EXCEPT !.pc = pc, !.snap = snap],
             pc = "seed" => snap = StoredBalance(user)
      PROVE  Leaves(a)
  <2>1. u \in ClientRecords
    BY <1>2, <1>4, <1>5 DEF ClientRecords
  <2>2. /\ u.work = t.work /\ u.id = t.id /\ u.user_id = user /\ u.pc = pc
        /\ u.ret = t.ret /\ u.snap = snap
    BY <1>2, <1>5 DEF ClientRecords
  <2>3. Where(u) = Where(t)
    BY <1>4, <2>2, <1>5 DEF Where, LoaderPcs, ClientPcs
  <2>4. u.pc = "seed" => u.snap # Nil /\ u.snap = StoredBalance(u.user_id)
    BY <1>3, <1>5, <2>2, NilApart
  <2> HIDE DEF t, user
  <2>5. ClientSound(u) /\ Fresh(u)
    BY <1>2, <2>1, <2>2, <2>3, <2>4, MovesSound DEF user
  <2>6. QED
    BY <1>5, <2>5 DEF Leaves
<1>6. ASSUME NEW pc \in (LoaderPcs \cup {t.ret}) \ {"seed"}, Goto(a, pc)
      PROVE  Leaves(a)
  <2>1. t.snap \in Versioned \cup {Nil}
    BY <1>2 DEF ClientRecords
  <2>2. [t EXCEPT !.pc = pc] = [t EXCEPT !.pc = pc, !.snap = t.snap]
    BY <1>2 DEF ClientRecords
  <2>3. QED
    BY <1>5, <1>6, <2>1, <2>2 DEF Goto
<1>7. t.ret # "seed" /\ {"load", "lock", "recheck", "select", "seed", "release"} = LoaderPcs
  BY <1>4 DEF ClientPcs, LoaderPcs
<1>8. CASE Load(a)
  BY <1>3, <1>5, <1>6, <1>7, <1>8 DEF Load
<1>9. CASE TryAcquireLoadLock(a)
  BY <1>6, <1>7, <1>9 DEF TryAcquireLoadLock
<1>10. CASE LoadTimesOut(a)
  BY <1>2, <1>10, EndedSound, RaisedOutcomes DEF LoadTimesOut, Leaves, OutcomeKinds
<1>11. CASE Recheck(a)
  BY <1>3, <1>5, <1>6, <1>7, <1>11 DEF Recheck
<1>12. CASE LoadFromDb(a)
  BY <1>3, <1>5, <1>7, <1>12 DEF LoadFromDb
<1>13. CASE Seed(a)
  BY <1>5, <1>7, <1>13 DEF Seed
<1>14. CASE ReleaseLoadLock(a)
  BY <1>6, <1>7, <1>14 DEF ReleaseLoadLock
<1>15. QED
  BY <1>8, <1>9, <1>10, <1>11, <1>12, <1>13, <1>14 DEF Ensure

\* What a step of a client does to the keys.
Keeps ==
  /\ KeysTyped' /\ Stored /\ dirty \subseteq dirty'
  /\ UNCHANGED <<row, disk, losses>>

LEMMA NothingKeeps ==
  ASSUME KeysTyped, UNCHANGED <<redis, row, late, disk, losses>>,
         faults' \in 0 .. MaxFaults, lock' \in Locks
  PROVE  Keeps
BY DEF KeysTyped, redis, Keeps, Stored

LEMMA FaultTyped == ASSUME KeysTyped, faults < MaxFaults PROVE faults + 1 \in 0 .. MaxFaults
BY MaxFaultsAssumption DEF KeysTyped

\* Scripts that are sent and not waited for.
LEMMA SendingKeeps ==
  ASSUME KeysTyped, NEW sent, sent \subseteq TopUpInvocations, late' = late \cup sent,
         UNCHANGED <<redis, row, lock, disk, losses>>,
         faults < MaxFaults, faults' = faults + 1
  PROVE  Keeps
BY FaultTyped DEF KeysTyped, redis, Keeps, Stored

LEMMA RunKeeps ==
  ASSUME KeysTyped, NEW inv \in TopUpInvocations, Execute(inv),
         UNCHANGED <<row, faults, lock, disk, losses>>, late' \subseteq late
  PROVE  Keeps
BY TopUpRuns DEF KeysTyped, Keeps

LEMMA EnsureKeeps ==
  ASSUME KeysTyped, ClientsSound, NEW a \in Tasks, Ensure(a), UNCHANGED <<disk, losses>>
  PROVE  Keeps
<1> DEFINE user == task[a].user_id
<1>1. task[a].pc \in LoaderPcs
  BY DEF Ensure, Load, TryAcquireLoadLock, LoadTimesOut, Recheck, LoadFromDb, Seed,
         ReleaseLoadLock, At, LoaderPcs
<1>2. user \in Users /\ ClientSound(task[a]) /\ task[a] \in ClientRecords
  BY <1>1, ClientHas DEF ClientSound
<1>3. CASE Load(a) \/ LoadTimesOut(a) \/ Recheck(a) \/ LoadFromDb(a)
  BY <1>3, NothingKeeps
  DEF Load, LoadTimesOut, Recheck, LoadFromDb, network, KeysTyped
<1>4. CASE TryAcquireLoadLock(a)
  <2>1. lock' \in Locks
    BY <1>2, <1>4 DEF TryAcquireLoadLock, KeysTyped, Locks
  <2>2. QED
    BY <1>4, <2>1, NothingKeeps DEF TryAcquireLoadLock, network, KeysTyped
<1>5. CASE ReleaseLoadLock(a)
  <2>1. lock' \in Locks
    BY <1>2, <1>5 DEF ReleaseLoadLock, KeysTyped, Locks
  <2>2. QED
    BY <1>5, <2>1, NothingKeeps DEF ReleaseLoadLock, network, KeysTyped
<1>6. CASE Seed(a)
  <2>1. task[a].snap \in Versioned /\ task[a].pc = "seed"
    BY <1>2, <1>6 DEF Seed, At, ClientSound, ClientRecords
  <2>2. /\ bal' = IF bal[user] = Nil THEN [bal EXCEPT ![user] = task[a].snap] ELSE bal
        /\ UNCHANGED <<gen, topup, dirty, inflight, row, network, lock>>
    BY <1>6 DEF Seed, SEED_IF_ABSENT
  <2>3. bal' \in Caches
    BY <1>2, <2>1, <2>2 DEF KeysTyped, Caches
  <2>4. Stored
    BY <1>2, <2>1, <2>2 DEF KeysTyped, Caches, Stored, Fills
  <2>5. QED
    BY <2>2, <2>3, <2>4 DEF KeysTyped, Keeps, network
<1>7. QED
  BY <1>3, <1>4, <1>5, <1>6 DEF Ensure

LEMMA GiveUpLeaves ==
  ASSUME ClientsSound, NEW a \in Tasks, GiveUp(a)
  PROVE  Leaves(a)
BY ClientHas, EndedSound, RaisedOutcomes DEF GiveUp, Leaves, OutcomeKinds

LEMMA AbandonLeaves ==
  ASSUME ClientsSound, NEW a \in Tasks, NEW sent, Abandon(a, sent)
  PROVE  Leaves(a)
BY ClientHas, EndedSound, RaisedOutcomes DEF Abandon, Leaves, OutcomeKinds

LEMMA SendsTopUp ==
  ASSUME ClientsSound, NEW t \in Tasks, At(t, "top_up")
  PROVE  TopUpInvocation(t) \in TopUpInvocations
<1>1. Where(task[t]) = "top_up"
  BY DEF At, Where, LoaderPcs
<1>2. /\ task[t].user_id \in Users /\ task[t].id \in OperationIds
      /\ CommandAmounts(task[t].work) \in DebitPlans
  BY <1>1, ClientHas, CommandCredits DEF ClientSound
<1>3. QED
  BY <1>2 DEF TopUpInvocation, TopUpInvocations

LEMMA ApplyTopUpLeaves ==
  ASSUME ClientsSound, NEW t \in Tasks, NEW command \in Commands, ApplyTopUp(t, command)
  PROVE  Leaves(t)
<1> DEFINE asked == [task[t] EXCEPT !.work = command]
           begun == [asked EXCEPT !.pc = "top_up", !.id = command.operation_id,
                                  !.user_id = command.user_id]
<1>1. task[t] \in ClientRecords /\ asked \in ClientRecords
  BY ClientHas DEF ClientRecords
<1>2. asked.work = command /\ command.operation_id \in OperationIds /\ command.user_id \in Users
  BY <1>1, CommandsAssumption DEF ClientRecords
<1>3. CASE InvalidTopUp(command)
  <2>1. Set(t, Ended(asked, Raised("InvalidInput")))
    BY <1>3 DEF ApplyTopUp
  <2> HIDE DEF asked
  <2>2. QED
    BY <1>2, <2>1, EndedSound, RaisedOutcomes DEF Leaves, OutcomeKinds
<1>4. CASE ~InvalidTopUp(command)
  <2>1. Set(t, begun)
    BY <1>4 DEF ApplyTopUp
  <2>2. begun \in ClientRecords
    BY <1>1, <1>2 DEF ClientRecords, ClientPcs
  <2>3. /\ begun.pc = "top_up" /\ begun.work = command
        /\ begun.id = command.operation_id /\ begun.user_id = command.user_id
    BY <1>1 DEF ClientRecords
  <2> HIDE DEF begun
  <2>4. ClientSound(begun) /\ Fresh(begun)
    BY <1>2, <1>4, <2>2, <2>3 DEF ClientSound, Fresh, LoaderPcs
  <2>5. QED
    BY <2>1, <2>4 DEF Leaves
<1>5. QED
  BY <1>3, <1>4

LEMMA ReloadedRecord ==
  ASSUME NEW t \in ClientRecords
  PROVE  LET u == Reload(t, "top_up")
         IN  /\ u \in ClientRecords /\ u.pc = "load" /\ u.ret = "top_up"
             /\ u.work = t.work /\ u.id = t.id /\ u.user_id = t.user_id
<1> DEFINE next == t.attempt + 1
           u == [t EXCEPT !.pc = "load", !.ret = "top_up", !.attempt = next, !.tries = 0]
<1>1. next \in Nat
  BY DEF ClientRecords
<1>2. Reload(t, "top_up") = u
  BY DEF Reload
<1> HIDE DEF next
<1>3. /\ u \in ClientRecords /\ u.pc = "load" /\ u.ret = "top_up"
      /\ u.work = t.work /\ u.id = t.id /\ u.user_id = t.user_id
  BY <1>1 DEF ClientRecords, ClientPcs, LoaderPcs
<1>4. QED
  BY <1>2, <1>3

LEMMA MissingLeaves ==
  ASSUME ClientsSound, NEW t \in Tasks, TopUpMissing(t)
  PROVE  Leaves(t)
<1> DEFINE u == Reload(task[t], "top_up")
<1>1. task[t] \in ClientRecords /\ task[t].pc = "top_up" /\ ClientSound(task[t])
  BY ClientHas DEF TopUpMissing, At
<1>2. /\ Where(task[t]) = "top_up"
      /\ task[t].user_id \in Users
  BY <1>1 DEF Where, LoaderPcs, ClientSound
<1>3. /\ u \in ClientRecords /\ u.pc = "load" /\ u.ret = "top_up" /\ u.work = task[t].work
      /\ u.id = task[t].id /\ u.user_id = task[t].user_id
  BY <1>1, ReloadedRecord
<1> HIDE DEF u
<1>4. Where(u) = "top_up"
  BY <1>3 DEF Where, LoaderPcs
<1>5. ClientSound(u) /\ Fresh(u)
  BY <1>1, <1>2, <1>3, <1>4, MovesSound
<1>6. QED
  BY <1>5 DEF Leaves, TopUpMissing, u

LEMMA LosesReplyLeaves ==
  ASSUME ClientsSound, NEW t \in Tasks, TopUpLosesReply(t)
  PROVE  Leaves(t)
<1> DEFINE u == [task[t] EXCEPT !.tries = @ + 1]
<1>1. task[t] \in ClientRecords /\ task[t].pc = "top_up" /\ ClientSound(task[t])
  BY ClientHas DEF TopUpLosesReply, At
<1>2. CASE task[t].tries + 1 < RETRY_ATTEMPTS
  <2>1. /\ u \in ClientRecords /\ u.pc = "top_up" /\ u.work = task[t].work
        /\ u.id = task[t].id /\ u.user_id = task[t].user_id /\ u.ret = task[t].ret
    BY <1>1 DEF ClientRecords
  <2>2. Set(t, u)
    BY <1>2 DEF TopUpLosesReply, LoseReply
  <2> HIDE DEF u
  <2>3. Where(u) = Where(task[t]) /\ u.pc \notin LoaderPcs
    BY <1>1, <2>1 DEF Where, LoaderPcs
  <2>4. ClientSound(u) /\ Fresh(u)
    BY <1>1, <2>1, <2>3, MovesSound DEF LoaderPcs
  <2>5. QED
    BY <2>2, <2>4 DEF Leaves
<1>3. CASE ~(task[t].tries + 1 < RETRY_ATTEMPTS)
  <2>1. Set(t, Ended(task[t], Raised("RedisError")))
    BY <1>3 DEF TopUpLosesReply, LoseReply
  <2>2. QED
    BY <2>1, ClientHas, EndedSound, RaisedOutcomes DEF Leaves, OutcomeKinds
<1>4. QED
  BY <1>2, <1>3

LEMMA TopUpStepLeaves ==
  ASSUME KeysTyped, ClientsSound, NEW t \in Tasks, TopUpStep(t), UNCHANGED <<disk, losses>>
  PROVE  Leaves(t) /\ Keeps
<1>1. CASE \E command \in Commands : ApplyTopUp(t, command)
  BY <1>1, ApplyTopUpLeaves, NothingKeeps DEF ApplyTopUp, network, KeysTyped
<1>2. CASE Ensure(t)
  BY <1>2, EnsureLeaves, EnsureKeeps
<1>3. CASE TopUp(t)
  <2>1. TopUpInvocation(t) \in TopUpInvocations
    BY <1>3, SendsTopUp DEF TopUp
  <2>2. Keeps
    BY <1>3, <2>1, RunKeeps DEF TopUp, network
  <2>3. Leaves(t)
    BY <1>3, ClientHas, EndedSound, RaisedOutcomes DEF TopUp, Leaves
  <2>4. QED
    BY <2>2, <2>3
<1>4. CASE TopUpMissing(t)
  BY <1>4, MissingLeaves, NothingKeeps DEF TopUpMissing, network, KeysTyped
<1>5. CASE GiveUp(t)
  BY <1>5, GiveUpLeaves, NothingKeeps DEF GiveUp, network, KeysTyped
<1>6. CASE TopUpLosesReply(t)
  <2>1. TopUpInvocation(t) \in TopUpInvocations
    BY <1>6, SendsTopUp DEF TopUpLosesReply
  <2>2. Keeps
    BY <1>6, <2>1, SendingKeeps DEF TopUpLosesReply, LoseReply, SendAndLose
  <2>3. QED
    BY <1>6, <2>2, LosesReplyLeaves
<1>7. CASE TopUpAbandoned(t)
  <2> DEFINE sent == IF At(t, "top_up") THEN {TopUpInvocation(t)} ELSE {}
  <2>1. sent \subseteq TopUpInvocations
    BY SendsTopUp
  <2>2. Abandon(t, sent)
    BY <1>7 DEF TopUpAbandoned
  <2> HIDE DEF sent
  <2>3. Keeps
    BY <2>1, <2>2, SendingKeeps DEF Abandon
  <2>4. QED
    BY <2>2, <2>3, AbandonLeaves
<1>8. QED
  BY <1>1, <1>2, <1>3, <1>4, <1>5, <1>6, <1>7 DEF TopUpStep, TopUpProgress

LEMMA ReaderStepLeaves ==
  ASSUME KeysTyped, ClientsSound, NEW t \in Tasks, ReaderStep(t), UNCHANGED <<disk, losses>>
  PROVE  Leaves(t) /\ Keeps
<1>1. ASSUME NEW user \in Users, GetBalance(t, user)
      PROVE  Leaves(t) /\ Keeps
  <2> DEFINE u == [task[t] EXCEPT !.pc = "load", !.ret = "balance", !.user_id = user]
  <2>1. u \in ClientRecords /\ u.pc = "load" /\ u.ret = "balance" /\ u.user_id = user
    BY ClientHas DEF ClientRecords, ClientPcs, LoaderPcs
  <2>2. Set(t, u)
    BY <1>1 DEF GetBalance
  <2> HIDE DEF u
  <2>3. ClientSound(u) /\ Fresh(u)
    BY <2>1 DEF ClientSound, Fresh, Where, LoaderPcs
  <2>4. Keeps
    BY <1>1, NothingKeeps DEF GetBalance, network, KeysTyped
  <2>5. QED
    BY <2>2, <2>3, <2>4 DEF Leaves
<1>2. CASE Ensure(t)
  BY <1>2, EnsureLeaves, EnsureKeeps
<1>3. CASE ReturnBalance(t)
  <2> DEFINE u == [task[t] EXCEPT !.work = task[t].snap]
  <2>1. u.work \in Commands \cup Versioned \cup {Nil}
    BY ClientHas DEF ClientRecords
  <2>2. Set(t, Ended(u, Returned(0)))
    BY <1>3 DEF ReturnBalance
  <2> HIDE DEF u
  <2>3. Leaves(t)
    BY <2>1, <2>2, EndedSound, RaisedOutcomes DEF Leaves
  <2>4. QED
    BY <1>3, <2>3, NothingKeeps DEF ReturnBalance, network, KeysTyped
<1>4. CASE Abandon(t, {})
  <2>1. Keeps
    <3> DEFINE sent == {}
    <3>1. sent \subseteq TopUpInvocations
      OBVIOUS
    <3>2. Abandon(t, sent)
      BY <1>4
    <3> HIDE DEF sent
    <3>3. QED
      BY <3>1, <3>2, SendingKeeps DEF Abandon
  <2>2. QED
    BY <1>4, <2>1, AbandonLeaves
<1>5. QED
  BY <1>1, <1>2, <1>3, <1>4 DEF ReaderStep

\* Every client but one stays, and what one is left with is sound.
LEMMA ClientMoves ==
  ASSUME KeysTyped, ClientsSound, ClientStep
  PROVE  /\ Keeps /\ ClientsSound' /\ flush' = flush
         /\ \A a \in Tasks : task'[a] = task[a] \/ Fresh(task'[a])
<1>1. UNCHANGED <<flush, disk, losses>>
  BY DEF ClientStep
<1>2. ASSUME NEW a \in Tasks, Leaves(a)
      PROVE  /\ ClientsSound'
             /\ \A b \in Tasks : task'[b] = task[b] \/ Fresh(task'[b])
  <2>1. PICK t : Set(a, t) /\ ClientSound(t) /\ Fresh(t)
    BY <1>2 DEF Leaves
  <2>2. /\ DOMAIN task' = Tasks /\ task'[a] = t
        /\ \A b \in Tasks : b # a => task'[b] = task[b]
    BY <2>1, ClientHas DEF Set
  <2>3. \A b \in Tasks : ClientSound(task'[b])
    BY <2>1, <2>2, ClientHas
  <2>4. QED
    BY <2>1, <2>2, <2>3 DEF ClientsSound
<1>3. ASSUME UNCHANGED task
      PROVE  /\ ClientsSound'
             /\ \A b \in Tasks : task'[b] = task[b] \/ Fresh(task'[b])
  BY <1>3 DEF ClientsSound
<1>4. CASE \E t \in TopUps : TopUpStep(t)
  BY <1>1, <1>2, <1>4, TopUpStepLeaves, ClientsAssumption
<1>5. CASE \E t \in Readers : ReaderStep(t)
  BY <1>1, <1>2, <1>5, ReaderStepLeaves, ClientsAssumption
<1>6. CASE \E u \in Users : LockExpires(u)
  <2>1. PICK u \in Users : LockExpires(u)
    BY <1>6
  <2>2. lock' \in Locks /\ faults' \in 0 .. MaxFaults
    BY <2>1, FaultTyped DEF LockExpires, KeysTyped, Locks
  <2>3. Keeps
    BY <1>1, <2>1, <2>2, NothingKeeps DEF LockExpires
  <2>4. QED
    BY <1>1, <1>3, <2>1, <2>3 DEF LockExpires
<1>7. CASE (\E inv \in late : Land(inv)) /\ UNCHANGED <<task, lock>>
  <2>1. PICK inv \in late : Land(inv)
    BY <1>7
  <2>2. inv \in TopUpInvocations
    BY DEF KeysTyped
  <2>3. Keeps
    BY <1>1, <1>7, <2>1, <2>2, RunKeeps DEF Land
  <2>4. QED
    BY <1>1, <1>3, <1>7, <2>3
<1>8. QED
  BY <1>4, <1>5, <1>6, <1>7 DEF ClientStep

-----------------------------------------------------------------------------
(***************************************************************************)
(* Flushers: what their steps leave in hand.                               *)
(***************************************************************************)
FlushPcs == {"idle", "load", "upsert", "repair", "clear", "stopped"}
FlushRecords ==
  [pc : FlushPcs, users : SUBSET Users, snapshots : Caches, todo : SUBSET Users,
   stored : Caches, stopping : BOOLEAN]

LEMMA FlusherHas ==
  ASSUME FlushersSound, NEW f \in Flushers
  PROVE  FlusherSound(flush[f]) /\ flush[f] \in FlushRecords /\ DOMAIN flush = Flushers
BY DEF FlushersSound, FlusherSound, FlushRecords, FlushPcs

LEMMA NewFlush ==
  ASSUME FlushersSound, NEW f \in Flushers, NEW r, SetFlush(f, r)
  PROVE  /\ flush'[f] = r /\ \A g \in Flushers : g # f => flush'[g] = flush[g]
         /\ FlusherSound(r) => FlushersSound'
BY DEF FlushersSound, SetFlush

Stopping == [Resting EXCEPT !.stopping = TRUE]

LEMMA RestingSound ==
  ASSUME NEW f, flush[f].stopping \in BOOLEAN
  PROVE  /\ FlusherSound(Resting) /\ FlusherSound(Stopping) /\ FlusherSound(Rested(f))
         /\ \A u \in Users : /\ Resting.snapshots[u] = Nil
                             /\ Stopping.snapshots[u] = Nil
                             /\ Rested(f).snapshots[u] = Nil
         /\ Rested(f).pc \in {"idle", "stopped"}
<1>1. [u \in Users |-> Nil] \in Caches
  BY DEF Caches
<1>2. QED
  BY <1>1 DEF Resting, Stopping, Rested, FlusherSound

LEMMA PicksSound ==
  ASSUME FlushersSound, KeysTyped, NEW f \in Flushers, NEW batch, DirtyUsers(f, batch)
  PROVE  /\ FlusherSound(flush'[f]) /\ FlushersSound'
         /\ flush'[f].pc \in {"idle", "stopped", "load"}
         /\ \A u \in Users : flush'[f].snapshots[u] = Nil
<1> DEFINE picked == [flush[f] EXCEPT !.pc = "load", !.users = batch, !.todo = batch]
<1>1. /\ flush[f] \in FlushRecords /\ flush[f].pc = "idle" /\ flush[f].stopping \in BOOLEAN
      /\ \A u \in Users : flush[f].snapshots[u] = Nil
  BY FlusherHas DEF DirtyUsers, Flushing, FlusherSound, FlushRecords
<1>2. CASE batch = {}
  BY <1>1, <1>2, RestingSound, NewFlush DEF DirtyUsers
<1>3. CASE batch # {}
  <2>1. batch \in SUBSET Users /\ SetFlush(f, picked)
    BY <1>3 DEF DirtyUsers, KeysTyped
  <2>2. /\ picked \in FlushRecords /\ picked.pc = "load"
        /\ picked.snapshots = flush[f].snapshots
    BY <1>1, <2>1 DEF FlushRecords, FlushPcs
  <2> HIDE DEF picked
  <2>3. FlusherSound(picked)
    BY <2>2 DEF FlusherSound, FlushRecords, FlushPcs
  <2>4. QED
    BY <1>1, <2>1, <2>2, <2>3, NewFlush
<1>4. QED
  BY <1>2, <1>3

LEMMA LoadOneSound ==
  ASSUME FlushersSound, KeysTyped, NEW f \in Flushers, NEW u \in Users, LoadOne(f, u)
  PROVE  /\ FlushersSound'
         /\ flush'[f].pc \in {"load", "upsert"}
         /\ flush'[f].snapshots = [flush[f].snapshots EXCEPT ![u] = bal[u]]
<1> DEFINE rest == flush[f].todo \ {u}
           snaps == [flush[f].snapshots EXCEPT ![u] = bal[u]]
           pc == IF rest = {} THEN "upsert" ELSE "load"
           r == [flush[f] EXCEPT !.snapshots = snaps, !.todo = rest, !.pc = pc]
<1>1. flush[f] \in FlushRecords /\ flush[f].pc = "load" /\ bal[u] \in Versioned \cup {Nil}
  BY FlusherHas DEF LoadOne, Flushing, KeysTyped, Caches
<1>2. SetFlush(f, r)
  BY <1>1 DEF LoadOne
<1>3. snaps \in Caches /\ rest \in SUBSET Users
  BY <1>1 DEF Caches, FlushRecords
<1>4. pc \in {"load", "upsert"}
  OBVIOUS
<1> HIDE DEF snaps, rest, pc
<1>5. r \in FlushRecords /\ r.pc = pc /\ r.snapshots = snaps
  BY <1>1, <1>3, <1>4 DEF FlushRecords, FlushPcs
<1> HIDE DEF r
<1>6. FlusherSound(r)
  BY <1>4, <1>5 DEF FlusherSound, FlushRecords, FlushPcs
<1>7. QED
  BY <1>2, <1>4, <1>5, <1>6, NewFlush DEF snaps

\* What the transaction of a flush has written.
Written(f) ==
  {u \in Users : /\ u \in flush[f].users /\ flush[f].snapshots[u] # Nil
                 /\ Accepts(u, flush[f].snapshots[u])}

LEMMA UpsertSound ==
  ASSUME FlushersSound, KeysTyped, NEW f \in Flushers, UpsertMany(f)
  PROVE  /\ FlushersSound'
         /\ row' = [u \in Users |-> IF u \in Written(f) THEN flush[f].snapshots[u]
                                                        ELSE row[u]]
         /\ row' \in Caches
         /\ flush'[f].pc \in {"repair", "clear"}
         /\ flush'[f].users = flush[f].users
         /\ flush'[f].snapshots = flush[f].snapshots
         /\ \A u \in flush[f].users \ Written(f) : flush[f].snapshots[u] # Nil =>
              \/ row[u] = flush[f].snapshots[u]
              \/ flush'[f].pc = "repair" /\ u \in flush'[f].todo
<1> DEFINE r     == flush[f]
           snaps == r.snapshots
           rows     == {u \in r.users : snaps[u] # Nil}
           written  == {u \in rows : Accepts(u, snaps[u])}
           differs  == {u \in rows \ written : row[u] # snaps[u]}
           stored == [u \in Users |-> IF u \in differs THEN row[u] ELSE Nil]
           pc == IF differs = {} THEN "clear" ELSE "repair"
           todo == IF differs = {} THEN r.users ELSE differs
           next == [r EXCEPT !.stored = stored, !.pc = pc, !.todo = todo]
<1>1. r \in FlushRecords /\ row \in Caches
  BY FlusherHas DEF KeysTyped
<1>2. /\ row' = [u \in Users |-> IF u \in written THEN snaps[u] ELSE row[u]]
      /\ SetFlush(f, next)
  BY DEF UpsertMany
<1>3. written = Written(f)
  BY <1>1 DEF Written, FlushRecords
<1>4. stored \in Caches /\ todo \in SUBSET Users /\ todo \subseteq r.users
  BY <1>1 DEF Caches, FlushRecords
<1>5. pc \in {"repair", "clear"}
  OBVIOUS
<1>6. \A u \in differs : /\ u \in Users /\ snaps[u] # Nil /\ stored[u] # Nil
                         /\ stored[u].version >= snaps[u].version
  <2> TAKE u \in differs
  <2>1. u \in Users /\ snaps[u] # Nil /\ ~Accepts(u, snaps[u]) /\ stored[u] = row[u]
    BY <1>1 DEF FlushRecords
  <2>2. row[u] # Nil /\ ~(snaps[u].version > row[u].version)
    BY <2>1 DEF Accepts
  <2>3. row[u] \in Versioned /\ snaps[u] \in Versioned
    BY <1>1, <2>1, <2>2 DEF Caches, FlushRecords
  <2>4. row[u].version >= snaps[u].version
    BY <2>2, <2>3 DEF Versioned, Snapshots
  <2>5. QED
    BY <2>1, <2>2, <2>4
<1>7. pc = "repair" => todo = differs
  OBVIOUS
<1>8. \A u \in r.users \ written : snaps[u] # Nil =>
        row[u] = snaps[u] \/ (pc = "repair" /\ u \in todo)
  OBVIOUS
<1>9. row' \in Caches
  BY <1>1, <1>2 DEF Caches, FlushRecords
<1> HIDE DEF stored, pc, todo, differs, written, rows
<1>10. /\ next \in FlushRecords /\ next.pc = pc /\ next.users = r.users /\ next.todo = todo
       /\ next.stored = stored /\ next.snapshots = snaps
  BY <1>1, <1>4, <1>5 DEF FlushRecords, FlushPcs
<1> HIDE DEF next
<1>11. FlusherSound(next)
  BY <1>4, <1>5, <1>6, <1>7, <1>10 DEF FlusherSound, FlushRecords, FlushPcs
<1>12. flush'[f] = next /\ FlushersSound'
  BY <1>2, <1>11, NewFlush
<1>13. QED
  BY <1>2, <1>3, <1>5, <1>8, <1>9, <1>10, <1>12
LEMMA RepairSound ==
  ASSUME FlushersSound, KeysTyped, NEW f \in Flushers, NEW u \in Users,
         RepairRegressed(f, u), UNCHANGED <<lock, disk, losses>>
  PROVE  /\ FlushersSound' /\ Keeps
         /\ flush'[f].users = flush[f].users
         /\ flush'[f].snapshots = flush[f].snapshots
         /\ flush[f].pc = "repair" /\ flush'[f].pc \in {"repair", "clear"}
         /\ flush'[f].pc = "repair" => flush'[f].todo = flush[f].todo \ {u}
         /\ flush'[f].pc = "clear" => flush[f].todo = {u}
         /\ bal'[u] # Nil => bal'[u].version # flush[f].snapshots[u].version
<1> DEFINE r == flush[f]
           rest == r.todo \ {u}
           todo == IF rest = {} THEN r.users ELSE rest
           pc == IF rest = {} THEN "clear" ELSE "repair"
           next == [r EXCEPT !.todo = todo, !.pc = pc]
           to == r.stored[u].version + 1
<1>1. r \in FlushRecords /\ r.pc = "repair" /\ u \in r.todo /\ r.todo \subseteq r.users
  BY FlusherHas DEF RepairRegressed, Flushing, FlusherSound
<1>2. SetFlush(f, next) /\ UNCHANGED <<row, network>>
  BY <1>1 DEF RepairRegressed
<1>3. /\ r.snapshots[u] \in Versioned /\ r.stored[u] \in Versioned
      /\ r.stored[u].version >= r.snapshots[u].version
  <2>1. /\ r.snapshots[u] # Nil /\ r.stored[u] # Nil
        /\ r.stored[u].version >= r.snapshots[u].version
    BY <1>1, FlusherHas DEF FlusherSound
  <2>2. QED
    BY <1>1, <2>1 DEF FlushRecords, Caches
<1>4. todo \in SUBSET Users /\ todo \subseteq r.users /\ pc \in {"repair", "clear"}
  BY <1>1 DEF FlushRecords
<1>5. /\ pc = "repair" => todo = rest
      /\ pc = "clear" => r.todo = {u}
  BY <1>1
<1>6. \A v \in rest : /\ r.snapshots[v] # Nil /\ r.stored[v] # Nil
                      /\ r.stored[v].version >= r.snapshots[v].version
  <2>1. \A v \in r.todo : /\ r.snapshots[v] # Nil /\ r.stored[v] # Nil
                          /\ r.stored[v].version >= r.snapshots[v].version
    BY <1>1, FlusherHas DEF FlusherSound
  <2>2. QED
    BY <2>1
<1>7. /\ to \in Int /\ to > r.snapshots[u].version /\ to >= 0
  BY <1>3 DEF Versioned, Snapshots
<1>8. /\ IF bal[u] # Nil /\ bal[u].version = r.snapshots[u].version
           THEN bal' = [bal EXCEPT ![u] = [bal[u] EXCEPT !.version = to]]
                /\ dirty' = dirty \cup {u}
           ELSE bal' = bal /\ dirty' = dirty
      /\ UNCHANGED <<gen, topup, inflight>>
  BY DEF RepairRegressed, ADVANCE_VERSION, NextVersion
<1>9. Keeps /\ (bal'[u] # Nil => bal'[u].version # r.snapshots[u].version)
  <2>1. CASE bal[u] # Nil /\ bal[u].version = r.snapshots[u].version
    <3> DEFINE b == [bal[u] EXCEPT !.version = to]
    <3>1. bal[u] \in Versioned
      BY <2>1 DEF KeysTyped, Caches
    <3>2. b \in Versioned /\ b.version = to
      BY <1>7, <3>1 DEF Versioned, Snapshots
    <3>3. bal' = [bal EXCEPT ![u] = b] /\ dirty' = dirty \cup {u}
      BY <1>8, <2>1
    <3>4. to > bal[u].version /\ to # r.snapshots[u].version
      BY <1>3, <1>7, <2>1 DEF Versioned, Snapshots
    <3> HIDE DEF b, to, r, rest, todo, pc, next
    <3>5. bal' \in Caches /\ bal'[u] = b
      BY <3>2, <3>3 DEF KeysTyped, Caches
    <3>6. Stored
      BY <2>1, <3>2, <3>3, <3>4 DEF KeysTyped, Caches, Stored, Grows
    <3>7. KeysTyped'
      BY <1>2, <1>8, <3>3, <3>5 DEF KeysTyped, network
    <3>8. QED
      BY <1>2, <3>2, <3>3, <3>4, <3>5, <3>6, <3>7 DEF Keeps
  <2>2. CASE ~(bal[u] # Nil /\ bal[u].version = r.snapshots[u].version)
    BY <1>2, <1>8, <2>2 DEF KeysTyped, network, Keeps, Stored
  <2>3. QED
    BY <2>1, <2>2
<1> HIDE DEF todo, pc, rest
<1>10. /\ next \in FlushRecords /\ next.pc = pc /\ next.todo = todo
       /\ next.users = r.users /\ next.snapshots = r.snapshots /\ next.stored = r.stored
  BY <1>1, <1>4 DEF FlushRecords, FlushPcs
<1> HIDE DEF next
<1>11. FlusherSound(next)
  BY <1>4, <1>5, <1>6, <1>10 DEF FlusherSound, FlushRecords, FlushPcs
<1>12. flush'[f] = next /\ FlushersSound'
  BY <1>2, <1>11, NewFlush
<1>13. QED
  BY <1>1, <1>4, <1>5, <1>9, <1>10, <1>12 DEF rest

LEMMA ClearSound ==
  ASSUME FlushersSound, KeysTyped, NEW f \in Flushers, NEW u \in Users, ClearOne(f, u)
  PROVE  /\ FlushersSound' /\ bal' = bal /\ dirty' \subseteq dirty
         /\ \A v \in dirty \ dirty' :
              v = u /\ (bal[u] = Nil \/ bal[u].version = FlushedVersion(f, u))
         /\ flush[f].pc = "clear" /\ u \in flush[f].users
         /\ \/ \A v \in Users : flush'[f].snapshots[v] = Nil
            \/ /\ flush'[f].pc = "clear" /\ flush'[f].users = flush[f].users
               /\ flush'[f].snapshots = flush[f].snapshots
<1> DEFINE r == flush[f]
           rest == r.todo \ {u}
           next == [r EXCEPT !.todo = rest]
<1>1. /\ r \in FlushRecords /\ r.pc = "clear" /\ u \in r.todo /\ r.todo \subseteq r.users
      /\ r.stopping \in BOOLEAN
  BY FlusherHas DEF ClearOne, Flushing, FlusherSound, FlushRecords
<1>2. SetFlush(f, IF rest = {} THEN Rested(f) ELSE next)
  BY DEF ClearOne
<1>3. /\ bal' = bal
      /\ dirty' = IF bal[u] = Nil \/ bal[u].version = FlushedVersion(f, u)
                    THEN dirty \ {u} ELSE dirty
  BY DEF ClearOne, CLEAR_DIRTY
<1>4. /\ dirty' \subseteq dirty
      /\ \A v \in dirty \ dirty' :
           v = u /\ (bal[u] = Nil \/ bal[u].version = FlushedVersion(f, u))
  BY <1>3
<1>5. rest \in SUBSET Users /\ rest \subseteq r.users
  BY <1>1 DEF FlushRecords
<1>6. CASE rest = {}
  <2>1. SetFlush(f, Rested(f))
    BY <1>2, <1>6
  <2>2. FlusherSound(Rested(f)) /\ \A v \in Users : Rested(f).snapshots[v] = Nil
    BY <1>1, RestingSound
  <2>3. QED
    BY <1>1, <1>3, <1>4, <2>1, <2>2, NewFlush
<1>7. CASE rest # {}
  <2>1. SetFlush(f, next)
    BY <1>2, <1>7
  <2> HIDE DEF rest
  <2>2. /\ next \in FlushRecords /\ next.pc = "clear" /\ next.todo = rest
        /\ next.users = r.users /\ next.snapshots = r.snapshots
    BY <1>1, <1>5 DEF FlushRecords, FlushPcs
  <2> HIDE DEF next
  <2>3. FlusherSound(next)
    BY <1>5, <2>2 DEF FlusherSound, FlushRecords, FlushPcs
  <2>4. QED
    BY <1>1, <1>3, <1>4, <2>1, <2>2, <2>3, NewFlush
<1>8. QED
  BY <1>6, <1>7

\* A flusher that is stopped or dies lets go of what it had.
LEMMA DropsSound ==
  ASSUME FlushersSound, KeysTyped, NEW f \in Flushers, StopFlusher(f) \/ FlusherCrashes(f)
  PROVE  /\ FlushersSound' /\ \A u \in Users : flush'[f].snapshots[u] = Nil
         /\ UNCHANGED <<redis, row, late>> /\ faults' \in 0 .. MaxFaults
<1>1. flush[f].stopping \in BOOLEAN
  BY FlusherHas DEF FlushRecords
<1>2. CASE StopFlusher(f)
  <2>1. FlusherSound(Stopping) /\ \A u \in Users : Stopping.snapshots[u] = Nil
    BY <1>1, RestingSound
  <2>2. SetFlush(f, Stopping) /\ UNCHANGED <<redis, row, network>>
    BY <1>2 DEF StopFlusher, Stopping
  <2>3. QED
    BY <2>1, <2>2, NewFlush DEF network, KeysTyped
<1>3. CASE FlusherCrashes(f)
  BY <1>1, <1>3, RestingSound, NewFlush, FaultTyped DEF FlusherCrashes
<1>4. QED
  BY <1>2, <1>3
-----------------------------------------------------------------------------
(***************************************************************************)
(* What the steps make of the balances and the rows.                       *)
(***************************************************************************)
LEMMA EmptyHanded ==
  ASSUME NEW r, \A u \in Users : r.snapshots[u] = Nil, NEW balances, NEW rows
  PROVE  FlushOK(r, balances, rows)
BY DEF FlushOK, Current, FromZero, Flushed

LEMMA StoredIsDurable ==
  ASSUME NEW t, Fresh(t), NEW balances
  PROVE  SeedOK(t, row) /\ SeedExact(t, balances, row)
BY DEF Fresh, SeedOK, SeedExact, Durable, RowOf, StoredBalance

\* Balances that grow, or are filled in.
LEMMA StoredCalm ==
  ASSUME KeysTyped, bal' \in Caches, CalmOK, Stored, dirty \subseteq dirty'
  PROVE  CleanOK(bal', dirty', row) /\ RootsOK(bal', row)
<1> SUFFICES ASSUME NEW u \in Users
             PROVE  /\ (bal'[u] # Nil /\ u \notin dirty') => Durable(u, bal'[u], row)
                    /\ FromZero(u, bal'[u], row)
  BY DEF CleanOK, RootsOK
<1>1. CASE bal'[u] = bal[u]
  BY <1>1 DEF CalmOK, CleanOK, RootsOK
<1>2. CASE Grows(u)
  <2>1. bal[u] \in Versioned
    BY <1>2 DEF KeysTyped, Caches, Grows
  <2>2. bal'[u].version # 0
    BY <1>2, <2>1 DEF Grows, Versioned, Snapshots
  <2>3. QED
    BY <1>2, <2>2 DEF Grows, FromZero
<1>3. CASE Fills(u)
  <2>1. PICK a \in Tasks : task[a].pc = "seed" /\ task[a].user_id = u /\ bal'[u] = task[a].snap
    BY <1>3 DEF Fills
  <2>2. Durable(u, bal'[u], row)
    BY <2>1 DEF CalmOK, SeedOK
  <2>3. FromZero(u, bal'[u], row)
    BY <2>2 DEF FromZero, Durable, RowOf
  <2>4. QED
    BY <2>2, <2>3
<1>4. QED
  BY <1>1, <1>2, <1>3 DEF Stored

LEMMA StoredFlush ==
  ASSUME KeysTyped, Stored, NEW r \in FlushRecords, FlushOK(r, bal, row)
  PROVE  FlushOK(r, bal', row)
<1> SUFFICES ASSUME NEW u \in Users, r.snapshots[u] # Nil
             PROVE  Current(r, u, bal') /\ Flushed(r, u, bal', row)
  BY DEF FlushOK, Current, Flushed
<1>1. /\ Current(r, u, bal) /\ Flushed(r, u, bal, row)
  BY DEF FlushOK
<1>2. bal[u] # Nil /\ ~Fills(u)
  BY <1>1 DEF Current, Fills
<1>3. bal[u] \in Versioned /\ r.snapshots[u] \in Versioned
  BY <1>2 DEF KeysTyped, Caches, FlushRecords
<1>4. CASE bal'[u] = bal[u]
  BY <1>1, <1>4 DEF Current, Flushed
<1>5. CASE Grows(u)
  <2>1. bal'[u] \in Versioned /\ bal'[u].version > bal[u].version
    BY <1>5 DEF Grows
  <2>2. bal[u].version >= r.snapshots[u].version
    BY <1>1 DEF Current
  <2>3. bal'[u].version > r.snapshots[u].version
    BY <1>3, <2>1, <2>2 DEF Versioned, Snapshots
  <2>4. QED
    BY <1>3, <2>1, <2>3, NilApart DEF Current, Flushed, Versioned, Snapshots
<1>6. QED
  BY <1>2, <1>4, <1>5 DEF Stored

LEMMA StoredKept ==
  ASSUME KeysTyped, Stored, KeptOK, ClientsSound
  PROVE  /\ NotAhead(bal', row)
         /\ \A a \in Tasks : SeedExact(task[a], bal', row)
<1>1. ASSUME NEW u \in Users, row[u] # Nil, bal'[u] # Nil
      PROVE  /\ row[u].version <= bal'[u].version
             /\ row[u].version = bal'[u].version => row[u] = bal'[u]
  <2>1. row[u] \in Versioned
    BY <1>1 DEF KeysTyped, Caches
  <2>2. CASE bal'[u] = bal[u]
    BY <1>1, <2>2 DEF KeptOK, NotAhead
  <2>3. CASE Grows(u)
    <3>1. bal[u] \in Versioned /\ bal'[u] \in Versioned
      BY <2>3 DEF Grows, KeysTyped, Caches
    <3>2. row[u].version <= bal[u].version
      BY <1>1, <2>3 DEF KeptOK, NotAhead, Grows
    <3>3. row[u].version < bal'[u].version
      BY <2>1, <2>3, <3>1, <3>2 DEF Grows, Versioned, Snapshots
    <3>4. QED
      BY <2>1, <3>1, <3>3 DEF Versioned, Snapshots
  <2>4. CASE Fills(u)
    <3>1. bal'[u] = row[u]
      BY <1>1, <2>4 DEF Fills, KeptOK, SeedExact, RowOf
    <3>2. QED
      BY <2>1, <3>1 DEF Versioned, Snapshots
  <2>5. QED
    BY <2>2, <2>3, <2>4 DEF Stored
<1>2. ASSUME NEW a \in Tasks, task[a].pc = "seed", bal'[task[a].user_id] = Nil
      PROVE  task[a].snap = RowOf(task[a].user_id, row)
  <2> DEFINE u == task[a].user_id
  <2>1. u \in Users
    BY <1>2, ClientHas DEF ClientSound, LoaderPcs
  <2>2. ~Grows(u)
    BY <1>2, NilApart DEF Grows
  <2>3. ~Fills(u)
    <3>1. ASSUME NEW b \in Tasks, task[b].pc = "seed" PROVE task[b].snap # Nil
      BY <3>1, ClientHas DEF ClientSound
    <3>2. QED
      BY <1>2, <3>1 DEF Fills
  <2>4. bal[u] = Nil
    BY <1>2, <2>1, <2>2, <2>3 DEF Stored
  <2>5. QED
    BY <1>2, <2>4 DEF KeptOK, SeedExact
<1>3. QED
  BY <1>1, <1>2 DEF NotAhead, SeedExact
\* What a row becomes: a later version, and what had no row started from nothing.
Advances(rows) ==
  \A u \in Users : rows[u] # row[u] =>
    /\ rows[u] # Nil
    /\ row[u] # Nil => rows[u].version > row[u].version
    /\ row[u] = Nil => FromZero(u, rows[u], row)

LEMMA DurableStays ==
  ASSUME row \in Caches, NEW rows \in Caches, Advances(rows),
         NEW u \in Users, NEW b \in Versioned, Durable(u, b, row)
  PROVE  Durable(u, b, rows)
<1>1. CASE rows[u] = row[u]
  BY <1>1 DEF Durable, RowOf
<1>2. CASE rows[u] # row[u]
  <2>1. rows[u] \in Versioned /\ rows[u] # Nil
    BY <1>2 DEF Caches, Advances
  <2>2. CASE row[u] = Nil
    <3>1. b = Zero
      BY <2>2 DEF Durable, RowOf
    <3>2. rows[u].version = 0 => rows[u] = Zero
      BY <1>2, <2>1, <2>2 DEF Advances, FromZero
    <3>3. rows[u].version >= 0 /\ rows[u].version \in Int /\ Zero.version = 0
      BY <2>1 DEF Versioned, Snapshots, Zero
    <3>4. QED
      BY <2>1, <3>1, <3>2, <3>3 DEF Durable, RowOf
  <2>3. CASE row[u] # Nil
    <3>1. row[u] \in Versioned
      BY <2>3 DEF Caches
    <3>2. row[u].version >= b.version
      BY <2>3, <3>1 DEF Durable, RowOf, Versioned, Snapshots
    <3>3. rows[u].version > b.version
      BY <1>2, <2>1, <2>3, <3>1, <3>2 DEF Advances, Versioned, Snapshots
    <3>4. QED
      BY <2>1, <3>3 DEF Durable
  <2>4. QED
    BY <2>2, <2>3
<1>3. QED
  BY <1>1, <1>2

LEMMA FromZeroStays ==
  ASSUME NEW rows, Advances(rows), NEW u \in Users, NEW b, FromZero(u, b, row)
  PROVE  FromZero(u, b, rows)
BY DEF Advances, FromZero

LEMMA CleanStays ==
  ASSUME row \in Caches, NEW rows \in Caches, Advances(rows),
         NEW balances \in Caches, NEW flags, CleanOK(balances, flags, row),
         RootsOK(balances, row)
  PROVE  CleanOK(balances, flags, rows) /\ RootsOK(balances, rows)
<1>1. ASSUME NEW u \in Users, balances[u] # Nil, u \notin flags
      PROVE  Durable(u, balances[u], rows)
  <2>1. balances[u] \in Versioned /\ Durable(u, balances[u], row)
    BY <1>1 DEF Caches, CleanOK
  <2>2. QED
    BY <2>1, DurableStays
<1>2. QED
  BY <1>1, FromZeroStays DEF CleanOK, RootsOK

LEMMA SeedStays ==
  ASSUME row \in Caches, NEW rows \in Caches, Advances(rows),
         NEW t, ClientSound(t), SeedOK(t, row)
  PROVE  SeedOK(t, rows)
<1> SUFFICES ASSUME t.pc = "seed" PROVE Durable(t.user_id, t.snap, rows)
  BY DEF SeedOK
<1>1. t.user_id \in Users /\ t.snap \in Versioned /\ Durable(t.user_id, t.snap, row)
  BY DEF ClientSound, ClientRecords, LoaderPcs, SeedOK
<1>2. QED
  BY <1>1, DurableStays

LEMMA FlushStays ==
  ASSUME row \in Caches, NEW rows \in Caches, Advances(rows),
         NEW r \in FlushRecords, NEW balances, FlushOK(r, balances, row)
  PROVE  FlushOK(r, balances, rows)
<1> SUFFICES ASSUME NEW u \in Users
             PROVE  /\ Current(r, u, balances) /\ FromZero(u, r.snapshots[u], rows)
                    /\ Flushed(r, u, balances, rows)
  BY DEF FlushOK
<1>1. /\ Current(r, u, balances) /\ FromZero(u, r.snapshots[u], row)
      /\ Flushed(r, u, balances, row)
  BY DEF FlushOK
<1>2. FromZero(u, r.snapshots[u], rows)
  BY <1>1, FromZeroStays
<1>3. r.snapshots[u] # Nil => r.snapshots[u] \in Versioned
  BY DEF FlushRecords, Caches
<1>4. Flushed(r, u, balances, rows)
  BY <1>1, <1>3, DurableStays DEF Flushed
<1>5. QED
  BY <1>1, <1>2, <1>4

\* The transaction advances the rows.
LEMMA WritingAdvances ==
  ASSUME KeysTyped, FlushersSound, NEW f \in Flushers, FlushOK(flush[f], bal, row),
         row' = [u \in Users |-> IF u \in Written(f) THEN flush[f].snapshots[u]
                                                    ELSE row[u]]
  PROVE  Advances(row')
<1> SUFFICES ASSUME NEW u \in Users, row'[u] # row[u]
             PROVE  /\ row'[u] # Nil
                    /\ row[u] # Nil => row'[u].version > row[u].version
                    /\ row[u] = Nil => FromZero(u, row'[u], row)
  BY DEF Advances
<1>1. u \in Written(f) /\ row'[u] = flush[f].snapshots[u]
  OBVIOUS
<1>2. row'[u] # Nil /\ Accepts(u, row'[u])
  BY <1>1 DEF Written
<1>3. FromZero(u, row'[u], row)
  BY <1>1 DEF FlushOK
<1>4. QED
  BY <1>2, <1>3 DEF Accepts

LEMMA UpsertCalm ==
  ASSUME KeysTyped, FlushersSound, ClientsSound, CalmOK,
         NEW f \in Flushers, UpsertMany(f), UNCHANGED <<task, disk>>
  PROVE  CalmOK'
<1>1. /\ row' = [u \in Users |-> IF u \in Written(f) THEN flush[f].snapshots[u]
                                                     ELSE row[u]]
      /\ row \in Caches /\ row' \in Caches
  BY UpsertSound DEF KeysTyped
<1>2. Advances(row')
  BY <1>1, WritingAdvances DEF CalmOK
<1>3. UNCHANGED redis /\ \A g \in Flushers : g # f => flush'[g] = flush[g]
  BY NewFlush DEF UpsertMany
<1>4. bal \in Caches /\ disk.bal \in Caches
  BY DEF KeysTyped, Disks
<1>5. CleanOK(bal, dirty, row') /\ RootsOK(bal, row')
  BY <1>1, <1>2, <1>4, CleanStays DEF CalmOK
<1>6. CleanOK(disk.bal, disk.dirty, row') /\ RootsOK(disk.bal, row')
  BY <1>1, <1>2, <1>4, CleanStays DEF CalmOK
<1>7. \A a \in Tasks : SeedOK(task[a], row')
  BY <1>1, <1>2, ClientHas, SeedStays DEF CalmOK
<1>8. \A g \in Flushers : FlushOK(flush[g], bal, row')
  BY <1>1, <1>2, FlusherHas, FlushStays DEF CalmOK
<1>9. FlushOK(flush'[f], bal, row')
  <2> DEFINE r == flush[f]
             s == flush'[f]
  <2>1. /\ s.users = r.users /\ s.snapshots = r.snapshots
        /\ \A u \in r.users \ Written(f) : r.snapshots[u] # Nil =>
             row[u] = r.snapshots[u] \/ (s.pc = "repair" /\ u \in s.todo)
    BY UpsertSound
  <2>2. ASSUME NEW u \in Users, u \in r.users, r.snapshots[u] # Nil
        PROVE  Durable(u, r.snapshots[u], row') \/ (s.pc = "repair" /\ u \in s.todo)
    <3>1. CASE u \in Written(f)
      BY <1>1, <2>2, <3>1 DEF Durable, RowOf
    <3>2. CASE u \notin Written(f)
      BY <1>1, <2>1, <2>2, <3>2 DEF Durable, RowOf
    <3>3. QED
      BY <3>1, <3>2
  <2>3. FlushOK(r, bal, row')
    BY <1>8
  <2> HIDE DEF r, s
  <2>4. QED
    BY <2>1, <2>2, <2>3 DEF FlushOK, Current, Flushed, s
<1>10. bal' = bal /\ dirty' = dirty
  BY <1>3 DEF redis
<1>11. \A g \in Flushers : FlushOK(flush'[g], bal', row')
  BY <1>3, <1>8, <1>9, <1>10
<1>12. /\ CleanOK(bal', dirty', row') /\ CleanOK(disk'.bal, disk'.dirty, row')
       /\ RootsOK(bal', row') /\ RootsOK(disk'.bal, row')
       /\ \A a \in Tasks : SeedOK(task'[a], row')
  BY <1>5, <1>6, <1>7, <1>10
<1>13. QED
  BY <1>11, <1>12 DEF CalmOK

LEMMA UpsertKept ==
  ASSUME KeysTyped, FlushersSound, ClientsSound, CalmOK, KeptOK,
         NEW f \in Flushers, UpsertMany(f), UNCHANGED task
  PROVE  KeptOK'
<1>1. /\ row' = [u \in Users |-> IF u \in Written(f) THEN flush[f].snapshots[u]
                                                     ELSE row[u]]
      /\ bal' = bal
  BY UpsertSound DEF UpsertMany, redis
<1>2. \A u \in Written(f) :
        /\ bal[u] # Nil
        /\ bal[u].version >= flush[f].snapshots[u].version
        /\ bal[u].version = flush[f].snapshots[u].version => bal[u] = flush[f].snapshots[u]
  BY DEF CalmOK, FlushOK, Current, Written
<1>3. \A u \in Written(f) :
        flush[f].snapshots[u] \in Versioned /\ bal[u] \in Versioned
  BY <1>2, FlusherHas DEF Written, FlushRecords, KeysTyped, Caches
<1>4. NotAhead(bal, row')
  <2> SUFFICES ASSUME NEW u \in Users, row'[u] # Nil, bal[u] # Nil
               PROVE  /\ row'[u].version <= bal[u].version
                      /\ row'[u].version = bal[u].version => row'[u] = bal[u]
    BY DEF NotAhead
  <2>1. CASE u \in Written(f)
    BY <1>1, <1>2, <1>3, <2>1 DEF Versioned, Snapshots
  <2>2. CASE u \notin Written(f)
    BY <1>1, <2>2 DEF KeptOK, NotAhead
  <2>3. QED
    BY <2>1, <2>2
<1>5. \A a \in Tasks : SeedExact(task[a], bal, row')
  <2> SUFFICES ASSUME NEW a \in Tasks, task[a].pc = "seed", bal[task[a].user_id] = Nil
               PROVE  task[a].snap = RowOf(task[a].user_id, row')
    BY DEF SeedExact
  <2>1. task[a].snap = RowOf(task[a].user_id, row)
    BY DEF KeptOK, SeedExact
  <2>2. row'[task[a].user_id] = row[task[a].user_id]
    <3>1. task[a].user_id \in Users \ Written(f)
      BY <1>2, ClientHas DEF ClientSound, LoaderPcs
    <3>2. QED
      BY <1>1, <3>1
  <2>3. QED
    BY <2>1, <2>2 DEF RowOf
<1>6. QED
  BY <1>1, <1>4, <1>5 DEF KeptOK
\* A step of a flusher that leaves the keys and the table alone.
LEMMA AsideCalm ==
  ASSUME CalmOK, NEW f \in Flushers, UNCHANGED <<redis, row, task, disk>>,
         \A g \in Flushers : g # f => flush'[g] = flush[g],
         FlushOK(flush'[f], bal, row)
  PROVE  CalmOK'
<1>1. bal' = bal /\ dirty' = dirty /\ row' = row /\ disk' = disk /\ task' = task
  BY DEF redis
<1>2. \A g \in Flushers : FlushOK(flush'[g], bal', row')
  BY <1>1 DEF CalmOK
<1>3. /\ CleanOK(bal', dirty', row') /\ CleanOK(disk'.bal, disk'.dirty, row')
      /\ RootsOK(bal', row') /\ RootsOK(disk'.bal, row')
      /\ \A a \in Tasks : SeedOK(task'[a], row')
  BY <1>1 DEF CalmOK
<1>4. QED
  BY <1>2, <1>3 DEF CalmOK

LEMMA LoadCalm ==
  ASSUME KeysTyped, FlushersSound, CalmOK, NEW f \in Flushers, NEW u \in Users,
         LoadOne(f, u)
  PROVE  FlushOK(flush'[f], bal, row)
<1>1. /\ flush'[f].pc \in {"load", "upsert"}
      /\ flush'[f].snapshots = [flush[f].snapshots EXCEPT ![u] = bal[u]]
  BY LoadOneSound
<1>2. DOMAIN flush[f].snapshots = Users
  BY FlusherHas DEF FlushRecords, Caches
<1>3. bal[u] \in Versioned \cup {Nil}
  BY DEF KeysTyped, Caches
<1>4. SUFFICES ASSUME NEW v \in Users
               PROVE  /\ Current(flush'[f], v, bal)
                      /\ FromZero(v, flush'[f].snapshots[v], row)
  BY <1>1 DEF FlushOK, Flushed
<1>5. CASE v = u
  <2>1. flush'[f].snapshots[v] = bal[v]
    BY <1>1, <1>2, <1>5
  <2>2. QED
    BY <1>3, <1>5, <2>1 DEF Current, CalmOK, RootsOK, Versioned, Snapshots
<1>6. CASE v # u
  <2>1. flush'[f].snapshots[v] = flush[f].snapshots[v]
    BY <1>1, <1>2, <1>6
  <2>2. Current(flush[f], v, bal) /\ FromZero(v, flush[f].snapshots[v], row)
    BY DEF CalmOK, FlushOK
  <2>3. QED
    BY <2>1, <2>2 DEF Current
<1>7. QED
  BY <1>5, <1>6

LEMMA RepairCalm ==
  ASSUME KeysTyped, FlushersSound, ClientsSound, CalmOK, NEW f \in Flushers, NEW u \in Users,
         RepairRegressed(f, u), UNCHANGED <<task, lock, disk, losses>>
  PROVE  CalmOK'
<1> DEFINE r == flush[f]
           s == flush'[f]
<1>1. /\ Keeps /\ s.users = r.users /\ s.snapshots = r.snapshots
      /\ r.pc = "repair" /\ s.pc \in {"repair", "clear"}
      /\ s.pc = "repair" => s.todo = r.todo \ {u}
      /\ s.pc = "clear" => r.todo = {u}
      /\ bal'[u] # Nil => bal'[u].version # r.snapshots[u].version
  BY RepairSound
<1>2. /\ bal' \in Caches /\ row' = row /\ disk' = disk /\ Stored /\ dirty \subseteq dirty'
  BY <1>1 DEF Keeps, KeysTyped
<1>3. CleanOK(bal', dirty', row) /\ RootsOK(bal', row)
  BY <1>2, StoredCalm
<1>4. \A g \in Flushers : FlushOK(flush[g], bal', row)
  BY <1>2, FlusherHas, StoredFlush DEF CalmOK
<1>5. FlushOK(s, bal', row)
  <2>1. \A v \in Users : /\ Current(r, v, bal') /\ FromZero(v, r.snapshots[v], row)
                         /\ Flushed(r, v, bal', row)
    BY <1>4 DEF FlushOK
  <2>2. ASSUME NEW v \in Users, v \in r.users, r.snapshots[v] # Nil
        PROVE  \/ Durable(v, r.snapshots[v], row)
               \/ bal'[v].version > r.snapshots[v].version
               \/ s.pc = "repair" /\ v \in s.todo
    <3>1. CASE v = u
      <4>1. /\ bal'[u] # Nil /\ bal'[u].version >= r.snapshots[u].version
        BY <2>1, <2>2, <3>1 DEF Current
      <4>2. bal'[u] \in Versioned /\ r.snapshots[u] \in Versioned
        BY <1>2, <2>2, <3>1, <4>1, FlusherHas DEF Caches, FlushRecords
      <4>3. QED
        BY <1>1, <3>1, <4>1, <4>2 DEF Versioned, Snapshots
    <3>2. CASE v # u
      <4>1. \/ Durable(v, r.snapshots[v], row)
            \/ bal'[v].version > r.snapshots[v].version
            \/ v \in r.todo
        BY <1>1, <2>1, <2>2 DEF Flushed
      <4>2. v \in r.todo => s.pc = "repair" /\ v \in s.todo
        BY <1>1, <3>2
      <4>3. QED
        BY <4>1, <4>2
    <3>3. QED
      BY <3>1, <3>2
  <2>3. s.users = r.users /\ s.snapshots = r.snapshots
    BY <1>1
  <2> HIDE DEF r, s
  <2>4. QED
    BY <2>1, <2>2, <2>3 DEF FlushOK, Current, Flushed
<1>6. \A g \in Flushers : g # f => flush'[g] = flush[g]
  BY NewFlush DEF RepairRegressed
<1>7. \A g \in Flushers : FlushOK(flush'[g], bal', row')
  BY <1>2, <1>4, <1>5, <1>6
<1>8. /\ CleanOK(bal', dirty', row') /\ CleanOK(disk'.bal, disk'.dirty, row')
      /\ RootsOK(bal', row') /\ RootsOK(disk'.bal, row')
      /\ \A a \in Tasks : SeedOK(task'[a], row')
  BY <1>2, <1>3 DEF CalmOK
<1>9. QED
  BY <1>7, <1>8 DEF CalmOK

LEMMA ClearCalm ==
  ASSUME KeysTyped, FlushersSound, CalmOK, NEW f \in Flushers, NEW u \in Users,
         ClearOne(f, u), UNCHANGED <<task, disk>>
  PROVE  CalmOK'
<1> DEFINE r == flush[f]
           s == flush'[f]
<1>1. /\ bal' = bal
      /\ \A v \in dirty \ dirty' :
           v = u /\ (bal[u] = Nil \/ bal[u].version = FlushedVersion(f, u))
      /\ r.pc = "clear" /\ u \in r.users
      /\ \/ \A v \in Users : s.snapshots[v] = Nil
         \/ s.pc = "clear" /\ s.users = r.users /\ s.snapshots = r.snapshots
  BY ClearSound
<1>2. row' = row /\ \A g \in Flushers : g # f => flush'[g] = flush[g]
  BY NewFlush DEF ClearOne
<1>3. FlushOK(r, bal, row)
  BY DEF CalmOK
<1>4. ASSUME bal[u] # Nil, u \in dirty \ dirty'
      PROVE  Durable(u, bal[u], row)
  <2>1. bal[u] \in Versioned /\ bal[u].version = FlushedVersion(f, u)
    BY <1>1, <1>4 DEF KeysTyped, Caches
  <2>2. r.snapshots[u] # Nil
    BY <2>1 DEF FlushedVersion, Versioned, Snapshots
  <2>3. r.snapshots[u] \in Versioned /\ bal[u].version = r.snapshots[u].version
    BY <2>1, <2>2, FlusherHas DEF FlushedVersion, FlushRecords, Caches
  <2>4. bal[u] = r.snapshots[u]
    BY <1>3, <2>2, <2>3 DEF FlushOK, Current
  <2>5. Durable(u, r.snapshots[u], row) \/ bal[u].version > r.snapshots[u].version
    BY <1>1, <1>3, <2>2 DEF FlushOK, Flushed
  <2>6. QED
    BY <2>1, <2>3, <2>4, <2>5 DEF Versioned, Snapshots
<1>5. CleanOK(bal, dirty', row)
  BY <1>1, <1>4 DEF CalmOK, CleanOK
<1>6. FlushOK(s, bal, row)
  <2>1. CASE \A v \in Users : s.snapshots[v] = Nil
    BY <2>1, EmptyHanded
  <2>2. CASE s.pc = "clear" /\ s.users = r.users /\ s.snapshots = r.snapshots
    BY <1>1, <1>3, <2>2 DEF FlushOK, Current, Flushed
  <2>3. QED
    BY <1>1, <2>1, <2>2
<1>7. \A g \in Flushers : FlushOK(flush'[g], bal', row')
  BY <1>1, <1>2, <1>6 DEF CalmOK
<1>8. /\ CleanOK(bal', dirty', row') /\ CleanOK(disk'.bal, disk'.dirty, row')
      /\ RootsOK(bal', row') /\ RootsOK(disk'.bal, row')
      /\ \A a \in Tasks : SeedOK(task'[a], row')
  BY <1>1, <1>2, <1>5 DEF CalmOK
<1>9. QED
  BY <1>7, <1>8 DEF CalmOK
-----------------------------------------------------------------------------
(***************************************************************************)
(* The steps, one kind of actor after the other.                           *)
(***************************************************************************)
LEMMA StillKept ==
  ASSUME KeptOK, bal' = bal, row' = row, task' = task
  PROVE  KeptOK'
<1>1. NotAhead(bal', row') /\ \A a \in Tasks : SeedExact(task'[a], bal', row')
  BY DEF KeptOK
<1>2. QED
  BY <1>1 DEF KeptOK

LEMMA StillTyped ==
  ASSUME KeysTyped, UNCHANGED <<redis, row, late, lock, disk, losses>>,
         faults' \in 0 .. MaxFaults
  PROVE  KeysTyped'
BY DEF KeysTyped, redis

LEMMA ClientInvariant ==
  ASSUME WInv, ClientStep
  PROVE  WInv'
<1>1. KeysTyped /\ ClientsSound /\ FlushersSound
  BY DEF WInv
<1>2. /\ Keeps /\ ClientsSound' /\ flush' = flush
      /\ \A a \in Tasks : task'[a] = task[a] \/ Fresh(task'[a])
  BY <1>1, ClientMoves
<1>3. /\ KeysTyped' /\ bal' \in Caches /\ Stored /\ dirty \subseteq dirty'
      /\ row' = row /\ disk' = disk /\ losses' = losses
  BY <1>2 DEF Keeps, KeysTyped
<1>4. FlushersSound'
  BY <1>1, <1>2 DEF FlushersSound
<1>5. ASSUME CalmOK PROVE CalmOK'
  <2>1. CleanOK(bal', dirty', row) /\ RootsOK(bal', row)
    BY <1>1, <1>3, <1>5, StoredCalm
  <2>2. \A f \in Flushers : FlushOK(flush[f], bal', row)
    BY <1>1, <1>3, <1>5, FlusherHas, StoredFlush DEF CalmOK
  <2>3. \A a \in Tasks : SeedOK(task'[a], row)
    BY <1>2, <1>5, StoredIsDurable DEF CalmOK
  <2>4. /\ CleanOK(bal', dirty', row') /\ CleanOK(disk'.bal, disk'.dirty, row')
        /\ RootsOK(bal', row') /\ RootsOK(disk'.bal, row')
        /\ \A a \in Tasks : SeedOK(task'[a], row')
        /\ \A f \in Flushers : FlushOK(flush'[f], bal', row')
    BY <1>2, <1>3, <1>5, <2>1, <2>2, <2>3 DEF CalmOK
  <2>5. QED
    BY <2>4 DEF CalmOK
<1>6. ASSUME KeptOK PROVE KeptOK'
  <2>1. NotAhead(bal', row) /\ \A a \in Tasks : SeedExact(task[a], bal', row)
    BY <1>1, <1>3, <1>6, StoredKept
  <2>2. \A a \in Tasks : SeedExact(task'[a], bal', row)
    BY <1>2, <2>1, StoredIsDurable
  <2>3. NotAhead(bal', row') /\ \A a \in Tasks : SeedExact(task'[a], bal', row')
    BY <1>3, <2>1, <2>2
  <2>4. QED
    BY <2>3 DEF KeptOK
<1>7. QED
  BY <1>2, <1>3, <1>4, <1>5, <1>6 DEF WInv, Calm

\* A flusher moves, and everybody else stays.
LEMMA FlusherMoves ==
  ASSUME KeysTyped, ClientsSound, FlushersSound,
         NEW f \in Flushers, FlusherStep(f)
  PROVE  /\ KeysTyped' /\ FlushersSound'
         /\ CalmOK => CalmOK'
         /\ (CalmOK /\ KeptOK) => KeptOK'
<1>1. UNCHANGED <<task, lock, disk, losses>>
  BY DEF FlusherStep
<1>2. ASSUME NEW batch, DirtyUsers(f, batch)
      PROVE  KeysTyped' /\ FlushersSound' /\ (CalmOK => CalmOK') /\ (KeptOK => KeptOK')
  <2>1. /\ FlushersSound' /\ \A u \in Users : flush'[f].snapshots[u] = Nil
        /\ \A g \in Flushers : g # f => flush'[g] = flush[g]
    BY <1>2, PicksSound, NewFlush DEF DirtyUsers
  <2>2. UNCHANGED <<redis, row, network>>
    BY <1>2 DEF DirtyUsers
  <2>3. FlushOK(flush'[f], bal, row)
    BY <2>1, EmptyHanded
  <2>4. CalmOK => CalmOK'
    BY <1>1, <2>1, <2>2, <2>3, AsideCalm
  <2>5. KeysTyped' /\ (KeptOK => KeptOK')
    BY <1>1, <2>2, StillTyped, StillKept DEF network, redis, KeysTyped
  <2>6. QED
    BY <2>1, <2>4, <2>5
<1>3. ASSUME NEW u \in Users, LoadOne(f, u)
      PROVE  KeysTyped' /\ FlushersSound' /\ (CalmOK => CalmOK') /\ (KeptOK => KeptOK')
  <2>1. FlushersSound' /\ \A g \in Flushers : g # f => flush'[g] = flush[g]
    BY <1>3, LoadOneSound, NewFlush DEF LoadOne
  <2>2. UNCHANGED <<redis, row, network>>
    BY <1>3 DEF LoadOne
  <2>3. CalmOK => CalmOK'
    BY <1>1, <1>3, <2>1, <2>2, LoadCalm, AsideCalm
  <2>4. KeysTyped' /\ (KeptOK => KeptOK')
    BY <1>1, <2>2, StillTyped, StillKept DEF network, redis, KeysTyped
  <2>5. QED
    BY <2>1, <2>3, <2>4
<1>4. CASE UpsertMany(f)
  <2>1. FlushersSound' /\ row' \in Caches /\ UNCHANGED <<redis, network>>
    BY <1>4, UpsertSound DEF UpsertMany
  <2>2. KeysTyped'
    BY <1>1, <2>1 DEF KeysTyped, redis, network
  <2>3. (CalmOK => CalmOK') /\ (CalmOK /\ KeptOK => KeptOK')
    BY <1>1, <1>4, UpsertCalm, UpsertKept
  <2>4. QED
    BY <2>1, <2>2, <2>3
<1>5. ASSUME NEW u \in Users, RepairRegressed(f, u)
      PROVE  KeysTyped' /\ FlushersSound' /\ (CalmOK => CalmOK') /\ (KeptOK => KeptOK')
  <2>1. FlushersSound' /\ Keeps
    BY <1>1, <1>5, RepairSound
  <2>2. CalmOK => CalmOK'
    BY <1>1, <1>5, RepairCalm
  <2>3. KeysTyped' /\ Stored /\ row' = row /\ task' = task
    BY <1>1, <2>1 DEF Keeps
  <2>4. ASSUME KeptOK PROVE KeptOK'
    <3>1. NotAhead(bal', row') /\ \A a \in Tasks : SeedExact(task'[a], bal', row')
      BY <2>3, <2>4, StoredKept
    <3>2. QED
      BY <3>1 DEF KeptOK
  <2>5. QED
    BY <2>1, <2>2, <2>3, <2>4
<1>6. ASSUME NEW u \in Users, ClearOne(f, u)
      PROVE  KeysTyped' /\ FlushersSound' /\ (CalmOK => CalmOK') /\ (KeptOK => KeptOK')
  <2>1. FlushersSound' /\ bal' = bal /\ dirty' \subseteq dirty
    BY <1>6, ClearSound
  <2>2. UNCHANGED <<gen, topup, inflight, row, network>>
    BY <1>6 DEF ClearOne, CLEAR_DIRTY
  <2>3. KeysTyped'
    BY <1>1, <2>1, <2>2 DEF KeysTyped, network
  <2>4. (CalmOK => CalmOK') /\ (KeptOK => KeptOK')
    BY <1>1, <1>6, <2>1, <2>2, ClearCalm, StillKept
  <2>5. QED
    BY <2>1, <2>3, <2>4
<1>7. CASE StopFlusher(f) \/ FlusherCrashes(f)
  <2>1. /\ FlushersSound' /\ \A u \in Users : flush'[f].snapshots[u] = Nil
        /\ UNCHANGED <<redis, row, late>> /\ faults' \in 0 .. MaxFaults
    BY <1>7, DropsSound
  <2>2. \A g \in Flushers : g # f => flush'[g] = flush[g]
    BY <1>7, NewFlush DEF StopFlusher, FlusherCrashes
  <2>3. FlushOK(flush'[f], bal, row)
    BY <2>1, EmptyHanded
  <2>4. CalmOK => CalmOK'
    BY <1>1, <2>1, <2>2, <2>3, AsideCalm
  <2>5. KeysTyped' /\ (KeptOK => KeptOK')
    BY <1>1, <2>1, StillTyped, StillKept DEF redis
  <2>6. QED
    BY <2>1, <2>4, <2>5
<1>8. QED
  BY <1>2, <1>3, <1>4, <1>5, <1>6, <1>7 DEF FlusherStep, FlushStep

LEMMA FlusherInvariant ==
  ASSUME WInv, NEW f \in Flushers, FlusherStep(f)
  PROVE  WInv'
<1>1. /\ KeysTyped /\ ClientsSound /\ FlushersSound
      /\ Calm => CalmOK
      /\ losses = 0 => KeptOK
  BY DEF WInv
<1>2. UNCHANGED <<task, losses>>
  BY DEF FlusherStep
<1>3. ClientsSound'
  BY <1>1, <1>2 DEF ClientsSound
<1>4. /\ KeysTyped' /\ FlushersSound'
      /\ CalmOK => CalmOK'
      /\ (CalmOK /\ KeptOK) => KeptOK'
  BY <1>1, FlusherMoves
<1>5. QED
  BY <1>1, <1>2, <1>3, <1>4 DEF WInv, Calm
\* With flushers at rest the snapshots are gone, whatever Redis comes back with.
LEMMA AtRest ==
  ASSUME FlushersSound, MayLose, ~LossesMidFlush, NEW f \in Flushers,
         NEW balances, NEW rows
  PROVE  FlushOK(flush[f], balances, rows)
BY FlusherHas, EmptyHanded DEF MayLose, FlusherSound

LEMMA ServerInvariant ==
  ASSUME WInv, ServerStep
  PROVE  WInv'
<1>1. /\ KeysTyped /\ ClientsSound /\ FlushersSound
      /\ Calm => CalmOK
      /\ losses = 0 => KeptOK
  BY DEF WInv
<1>2. /\ UNCHANGED <<flush, task>> /\ row' = row /\ late' = late /\ faults' = faults
  BY DEF ServerStep, Fsync, Lose, Restart, Evict, network
<1>3. ClientsSound' /\ FlushersSound'
  BY <1>1, <1>2 DEF ClientsSound, FlushersSound
<1>4. CASE Fsync
  <2>1. UNCHANGED <<bal, gen, topup, dirty, inflight, lock, losses>> /\ disk' = Memory
    BY <1>4 DEF Fsync, redis
  <2>2. Memory \in Disks
    BY <1>1 DEF Memory, Disks, KeysTyped
  <2>3. KeysTyped'
    BY <1>1, <1>2, <2>1, <2>2 DEF KeysTyped
  <2>4. ASSUME CalmOK PROVE CalmOK'
    <3>1. disk'.bal = bal /\ disk'.dirty = dirty
      BY <2>1 DEF Memory
    <3>2. /\ CleanOK(bal', dirty', row') /\ CleanOK(disk'.bal, disk'.dirty, row')
          /\ RootsOK(bal', row') /\ RootsOK(disk'.bal, row')
          /\ \A a \in Tasks : SeedOK(task'[a], row')
          /\ \A f \in Flushers : FlushOK(flush'[f], bal', row')
      BY <1>2, <2>1, <2>4, <3>1 DEF CalmOK
    <3>3. QED
      BY <3>2 DEF CalmOK
  <2>5. KeptOK => KeptOK'
    BY <1>2, <2>1, StillKept
  <2>6. QED
    BY <1>1, <1>3, <2>1, <2>3, <2>4, <2>5 DEF WInv, Calm
<1>5. CASE MayLose /\ Lose
  <2>1. losses < MaxLosses /\ losses' = losses + 1
    BY <1>5 DEF Lose, Restart, Evict
  <2>2. losses' \in 0 .. MaxLosses /\ losses' # 0
    BY <1>1, <2>1, LossesAssumption DEF KeysTyped
  <2>3. ASSUME ~LossesMidFlush
        PROVE  CalmOK /\ \A f \in Flushers : FlushOK(flush'[f], bal', row')
    BY <1>1, <1>2, <1>5, <2>3, AtRest DEF Calm
  <2>4. CASE Restart
    <3>1. /\ bal' = disk.bal /\ gen' = disk.gen /\ topup' = disk.topup
          /\ dirty' = disk.dirty /\ inflight' = disk.inflight /\ lock' = disk.lock
          /\ disk' = disk
      BY <2>4 DEF Restart
    <3>2. KeysTyped'
      BY <1>1, <1>2, <2>2, <3>1 DEF KeysTyped, Disks
    <3>3. ASSUME ~LossesMidFlush PROVE CalmOK'
      <4>1. /\ CleanOK(bal', dirty', row') /\ CleanOK(disk'.bal, disk'.dirty, row')
            /\ RootsOK(bal', row') /\ RootsOK(disk'.bal, row')
            /\ \A a \in Tasks : SeedOK(task'[a], row')
        BY <1>2, <2>3, <3>1, <3>3 DEF CalmOK
      <4>2. QED
        BY <2>3, <3>3, <4>1 DEF CalmOK
    <3>4. QED
      BY <1>3, <2>2, <3>2, <3>3 DEF WInv, Calm
  <2>5. ASSUME NEW u \in Users, Evict(u)
        PROVE  WInv'
    <3>1. /\ bal' = [bal EXCEPT ![u] = Nil]
          /\ UNCHANGED <<gen, topup, dirty, inflight, lock, disk>>
      BY <2>5 DEF Evict, Evicted
    <3>2. bal' \in Caches /\ \A v \in Users : bal'[v] = bal[v] \/ bal'[v] = Nil
      BY <1>1, <3>1 DEF KeysTyped, Caches
    <3>3. KeysTyped'
      BY <1>1, <1>2, <2>2, <3>1, <3>2 DEF KeysTyped
    <3>4. ASSUME ~LossesMidFlush PROVE CalmOK'
      <4>1. CleanOK(bal', dirty', row) /\ RootsOK(bal', row)
        BY <2>3, <3>1, <3>2, <3>4 DEF CalmOK, CleanOK, RootsOK, FromZero
      <4>2. /\ CleanOK(bal', dirty', row') /\ CleanOK(disk'.bal, disk'.dirty, row')
            /\ RootsOK(bal', row') /\ RootsOK(disk'.bal, row')
            /\ \A a \in Tasks : SeedOK(task'[a], row')
        BY <1>2, <2>3, <3>1, <3>4, <4>1 DEF CalmOK
      <4>3. QED
        BY <2>3, <3>4, <4>2 DEF CalmOK
    <3>5. QED
      BY <1>3, <2>2, <3>3, <3>4 DEF WInv, Calm
  <2>6. QED
    BY <1>5, <2>4, <2>5 DEF Lose
<1>6. QED
  BY <1>4, <1>5 DEF ServerStep

LEMMA StutterInvariant ==
  ASSUME WInv, UNCHANGED vars
  PROVE  WInv'
<1>1. /\ bal' = bal /\ gen' = gen /\ topup' = topup /\ dirty' = dirty
      /\ inflight' = inflight /\ row' = row /\ late' = late /\ faults' = faults
      /\ task' = task /\ lock' = lock /\ flush' = flush /\ disk' = disk
      /\ losses' = losses
  BY DEF vars, redis, network
<1>2. KeysTyped' /\ ClientsSound' /\ FlushersSound'
  BY <1>1 DEF WInv, KeysTyped, ClientsSound, FlushersSound
<1>3. ASSUME CalmOK PROVE CalmOK'
  <2>1. /\ CleanOK(bal', dirty', row') /\ CleanOK(disk'.bal, disk'.dirty, row')
        /\ RootsOK(bal', row') /\ RootsOK(disk'.bal, row')
        /\ \A a \in Tasks : SeedOK(task'[a], row')
        /\ \A f \in Flushers : FlushOK(flush'[f], bal', row')
    BY <1>1, <1>3 DEF CalmOK
  <2>2. QED
    BY <2>1 DEF CalmOK
<1>4. KeptOK => KeptOK'
  BY <1>1, StillKept
<1>5. QED
  BY <1>1, <1>2, <1>3, <1>4 DEF WInv, Calm

LEMMA StepInvariant == WInv /\ [Next]_vars => WInv'
<1> SUFFICES ASSUME WInv, [Next]_vars PROVE WInv'
  OBVIOUS
<1>1. CASE Next
  BY <1>1, ClientInvariant, FlusherInvariant, ServerInvariant DEF Next
<1>2. CASE UNCHANGED vars
  BY <1>2, StutterInvariant
<1>3. QED
  BY <1>1, <1>2
LEMMA InitInvariant == Init => WInv
<1> SUFFICES ASSUME Init PROVE WInv
  OBVIOUS
<1>1. /\ bal = [u \in Users |-> Nil] /\ gen = NoRecords /\ topup = {} /\ dirty = {}
      /\ inflight = {} /\ late = {} /\ faults = 0 /\ lock = [u \in Users |-> Nil]
      /\ task = [a \in Tasks |-> Blank] /\ flush = [f \in Flushers |-> Resting]
      /\ disk = Memory /\ losses = 0 /\ row \in InitialRows
  BY DEF Init, StoreInit, LoaderInit, FlusherInit, ServerInit, NoRecords
<1>2. row \in Caches
  BY <1>1, RowsAssumption, SMT DEF Caches, Versioned, Snapshots, Balances
<1>3. bal \in Caches /\ lock \in Locks
  BY <1>1 DEF Caches, Locks
<1>4. Memory \in Disks
  BY <1>1, <1>3 DEF Memory, Disks
<1>5. KeysTyped
  BY <1>1, <1>2, <1>3, <1>4, MaxFaultsAssumption, LossesAssumption DEF KeysTyped
<1>6. ClientSound(Blank) /\ Blank.pc = "idle"
  <2>1. Blank \in ClientRecords
    BY DEF Blank, ClientRecords, ClientPcs
  <2>2. Blank.pc = "idle"
    BY DEF Blank
  <2>3. QED
    BY <2>1, <2>2 DEF ClientSound, Where, LoaderPcs
<1>7. ClientsSound /\ \A a \in Tasks : task[a].pc = "idle"
  BY <1>1, <1>6 DEF ClientsSound
<1>8. FlusherSound(Resting) /\ \A u \in Users : Resting.snapshots[u] = Nil
  <2>1. [u \in Users |-> Nil] \in Caches
    BY DEF Caches
  <2>2. QED
    BY <2>1 DEF Resting, FlusherSound
<1>9. FlushersSound /\ \A f \in Flushers : \A u \in Users : flush[f].snapshots[u] = Nil
  BY <1>1, <1>8 DEF FlushersSound
<1>10. CalmOK
  <2>1. \A u \in Users : bal[u] = Nil /\ disk.bal[u] = Nil
    BY <1>1 DEF Memory
  <2>2. \A f \in Flushers : FlushOK(flush[f], bal, row)
    BY <1>9, EmptyHanded
  <2>3. \A a \in Tasks : SeedOK(task[a], row)
    BY <1>7 DEF SeedOK
  <2>4. QED
    BY <2>1, <2>2, <2>3 DEF CalmOK, CleanOK, RootsOK, FromZero
<1>11. KeptOK
  <2>1. \A u \in Users : bal[u] = Nil
    BY <1>1
  <2>2. QED
    BY <1>7, <2>1 DEF KeptOK, NotAhead, SeedExact
<1>12. QED
  BY <1>5, <1>7, <1>9, <1>10, <1>11 DEF WInv

\* WInv is an invariant of the write-behind path: as long as no flush spans a loss
\* of data, what a flusher has read is an older version of the balance or the
\* balance itself, and what it wrote is durable or no longer current.
THEOREM WInvInvariant == Spec => []WInv
BY InitInvariant, StepInvariant, PTL DEF Spec

\* Keys, rows and the locals of the flushers have their types, whatever is lost.
THEOREM WriteBehindTyped == Spec => []TypeOK
<1>1. WInv => TypeOK
  <2> SUFFICES ASSUME WInv PROVE TypeOK
    OBVIOUS
  <2>1. KeysTyped /\ FlushersSound
    BY DEF WInv
  <2>2. Versioned \subseteq Snapshots
    BY DEF Versioned
  <2>3. /\ bal \in [Users -> Snapshots \cup {Nil}] /\ row \in [Users -> Snapshots \cup {Nil}]
    BY <2>1, <2>2 DEF KeysTyped, Caches
  <2>4. gen \in [RequestIds -> Records \cup {Nil}] /\ late \subseteq Invocations
    BY <2>1 DEF KeysTyped, NoRecords, Invocations
  <2>5. StoreTypeOK
    BY <2>1, <2>3, <2>4 DEF StoreTypeOK, KeysTyped
  <2>6. Caches \subseteq [Users -> Snapshots \cup {Nil}]
    BY <2>2 DEF Caches
  <2> DEFINE Locals ==
               [pc : {"idle", "load", "upsert", "repair", "clear", "stopped"},
                users : SUBSET Users, snapshots : [Users -> Snapshots \cup {Nil}],
                todo : SUBSET Users, stored : [Users -> Snapshots \cup {Nil}],
                stopping : BOOLEAN]
  <2>7. FlushRecords \subseteq Locals
    BY <2>6 DEF FlushRecords, FlushPcs
  <2>8. flush = [f \in Flushers |-> flush[f]] /\ \A f \in Flushers : flush[f] \in Locals
    BY <2>1, <2>7, FlusherHas DEF FlushersSound
  <2>9. FlusherTypeOK
    BY <2>8 DEF FlusherTypeOK
  <2>10. QED
    BY <2>1, <2>5, <2>9 DEF TypeOK, KeysTyped, Locks
<1>2. QED
  BY <1>1, WInvInvariant, PTL

\* A row is only ever replaced by a newer version of it, whatever is lost and
\* however slow a flusher is: the WHERE of the upsert.
THEOREM RowsAdvance == Spec => RowOnlyAdvances
<1> DEFINE Advance == \A u \in Users : (row[u] # Nil /\ row'[u] # row[u])
                        => row'[u] # Nil /\ row'[u].version > row[u].version
<1>1. WInv /\ [Next]_vars => [Advance]_row
  <2> SUFFICES ASSUME WInv, Next, row' # row PROVE Advance
    BY DEF vars
  <2>1. KeysTyped /\ ClientsSound /\ FlushersSound
    BY DEF WInv
  <2>2. ~ClientStep
    BY <2>1, ClientMoves DEF Keeps
  <2>3. ~ServerStep
    BY DEF ServerStep, Fsync, Lose, Restart, Evict
  <2>4. PICK f \in Flushers : FlusherStep(f)
    BY <2>2, <2>3 DEF Next
  <2>5. UpsertMany(f)
    BY <2>4 DEF FlusherStep, FlushStep, DirtyUsers, LoadOne, RepairRegressed, ClearOne,
                StopFlusher, FlusherCrashes
  <2>6. row' = [u \in Users |-> IF u \in Written(f) THEN flush[f].snapshots[u] ELSE row[u]]
    BY <2>1, <2>5, UpsertSound
  <2>7. QED
    BY <2>6 DEF Written, Accepts
<1>2. QED
  BY <1>1, WInvInvariant, PTL DEF Spec, RowOnlyAdvances

\* As long as Redis keeps its data PostgreSQL is never ahead of it, and holds no
\* other balance under the same version, however many flushers race.
THEOREM RowsNeverAhead == Spec => []RowNeverAhead
<1>1. WInv => RowNeverAhead
  BY DEF WInv, KeptOK, NotAhead, RowNeverAhead
<1>2. QED
  BY <1>1, WInvInvariant, PTL

\* If nothing is lost under a flush, a flag that is off is off for a reason: the
\* table holds the balance, or Redis came back older than the row.
THEOREM CleanDurable ==
  ASSUME ~LossesMidFlush
  PROVE  Spec => []CleanIsDurable
<1>1. WInv => CleanIsDurable
  <2> SUFFICES ASSUME WInv, NEW u \in Users, bal[u] # Nil, u \notin dirty
               PROVE  \/ StoredBalance(u) = bal[u]
                      \/ losses > 0 /\ row[u] # Nil /\ row[u].version > bal[u].version
    BY DEF CleanIsDurable
  <2>1. Durable(u, bal[u], row)
    BY DEF WInv, Calm, CalmOK, CleanOK
  <2>2. CASE RowOf(u, row) = bal[u]
    BY <2>2 DEF RowOf, StoredBalance
  <2>3. CASE row[u] # Nil /\ row[u].version > bal[u].version
    <3>1. bal[u] \in Versioned /\ row[u] \in Versioned /\ losses \in Nat
      BY <2>3, LossesAssumption DEF WInv, KeysTyped, Caches
    <3>2. losses # 0
      BY <2>3, <3>1 DEF WInv, KeptOK, NotAhead, Versioned, Snapshots
    <3>3. QED
      BY <2>3, <3>1, <3>2
  <2>4. QED
    BY <2>1, <2>2, <2>3 DEF Durable
<1>2. QED
  BY <1>1, WInvInvariant, PTL

\* Under the same condition a change made while a flush is running is not lost;
\* without it it may be (run restart_mid_flush).
THEOREM ChangesKept ==
  ASSUME ~LossesMidFlush
  PROVE  Spec => []ChangeDuringFlushIsKept
<1>1. WInv => ChangeDuringFlushIsKept
  <2> SUFFICES ASSUME WInv, NEW u \in Users, bal[u] # Nil, row[u] # Nil, u \notin dirty,
                      bal[u].version = row[u].version
               PROVE  bal[u] = row[u]
    BY DEF ChangeDuringFlushIsKept
  <2>1. Durable(u, bal[u], row)
    BY DEF WInv, Calm, CalmOK, CleanOK
  <2>2. row[u] \in Versioned
    BY DEF WInv, KeysTyped, Caches
  <2>3. QED
    BY <2>1, <2>2 DEF Durable, RowOf, Versioned, Snapshots
<1>2. QED
  BY <1>1, WInvInvariant, PTL

-----------------------------------------------------------------------------
(***************************************************************************)
(* The transactions.  Whatever transactions of whichever flushers do, they *)
(* are the one step UpsertMany that WriteBehind makes of them, and they    *)
(* never wait for each other in a circle: a row that was locked stays as   *)
(* it was met until the transaction that locked it ends, and rows are      *)
(* locked in ascending order.                                              *)
(***************************************************************************)
RowsIn(r) == {u \in r.users : r.snapshots[u] # Nil}

TxnRecords ==
  [open : BOOLEAN, todo : SUBSET Users, written : SUBSET Users,
   rejected : SUBSET Users, stored : Caches]

\* The rows a transaction has locked, of the flush with locals r.
Locked(t, r) == IF t.open THEN RowsIn(r) \ t.todo ELSE {}

Takes(u, snapshot, rows) == rows[u] = Nil \/ snapshot.version > rows[u].version

\* What transaction t of flusher f has found out still holds.
TxnSound(f, t, r, rows, lk) ==
  /\ t \in TxnRecords
  /\ ~t.open => t = NoTxn
  /\ t.open => r.pc = "upsert" /\ RowsIn(r) # {} /\ t.todo \subseteq RowsIn(r)
  /\ t.written \cup t.rejected \subseteq Locked(t, r)
  /\ \A u \in Users : lk[u] = f <=> u \in Locked(t, r)
  /\ \A u \in Locked(t, r) :
       /\ u \in t.written <=> Takes(u, r.snapshots[u], rows)
       /\ u \notin t.written \cup t.rejected => t.stored[u] = rows[u]
       /\ \A v \in t.todo : KeyOf[u] < KeyOf[v]

TInv ==
  /\ DOMAIN txn = Flushers /\ DOMAIN locks = Users
  /\ \A f \in Flushers : TxnSound(f, txn[f], flush[f], row, locks)

-----------------------------------------------------------------------------
LEMMA NoTxnTyped == NoTxn \in TxnRecords /\ NoTxn.open = FALSE
BY DEF NoTxn, TxnRecords, Caches

LEMMA Closed ==
  ASSUME NEW f, NEW r, NEW rows, NEW lk, \A u \in Users : lk[u] # f
  PROVE  TxnSound(f, NoTxn, r, rows, lk)
<1>1. NoTxn \in TxnRecords /\ ~NoTxn.open /\ NoTxn.written = {} /\ NoTxn.rejected = {}
  BY NoTxnTyped DEF NoTxn
<1>2. Locked(NoTxn, r) = {}
  BY <1>1 DEF Locked
<1>3. QED
  BY <1>1, <1>2 DEF TxnSound

\* A transaction keeps what it knows as long as its flush, its locks and the rows
\* it has locked stay.
LEMMA Undisturbed ==
  ASSUME NEW f, NEW t, NEW r, NEW rows, NEW lk, TxnSound(f, t, r, rows, lk),
         NEW rows1, NEW lk1,
         \A u \in Users : lk1[u] = f <=> lk[u] = f,
         \A u \in Users : lk[u] = f => rows1[u] = rows[u],
         r.users \subseteq Users
  PROVE  TxnSound(f, t, r, rows1, lk1)
<1>1. Locked(t, r) \subseteq Users
  BY DEF Locked, RowsIn
<1>2. \A u \in Locked(t, r) : rows1[u] = rows[u]
  BY <1>1 DEF TxnSound
<1>3. QED
  BY <1>1, <1>2 DEF TxnSound, Takes

\* Only the transaction of f moves; what it locks or frees was nobody's or its own.
LEMMA OneMoves ==
  ASSUME TInv, FlushersSound, NEW f \in Flushers, NEW t, SetTxn(f, t),
         DOMAIN locks' = Users,
         \A g \in Flushers : g # f => flush'[g] = flush[g],
         \A u \in Users : locks'[u] = locks[u] \/ locks[u] \in {f, Nil},
         \A u \in Users : locks'[u] = locks[u] \/ locks'[u] \in {f, Nil},
         \A u \in Users : locks[u] # f => row'[u] = row[u],
         TxnSound(f, t, flush'[f], row', locks')
  PROVE  TInv'
<1>1. DOMAIN txn' = Flushers /\ txn'[f] = t /\ \A g \in Flushers : g # f => txn'[g] = txn[g]
  BY DEF SetTxn, TInv
<1>2. ASSUME NEW g \in Flushers, g # f
      PROVE  TxnSound(g, txn'[g], flush'[g], row', locks')
  <2>1. TxnSound(g, txn[g], flush[g], row, locks) /\ flush[g].users \subseteq Users
    BY FlusherHas DEF TInv, FlushRecords
  <2>2. g # Nil
    BY NobodyAssumption
  <2>3. TxnSound(g, txn[g], flush[g], row', locks')
    BY <1>2, <2>1, <2>2, Undisturbed
  <2>4. QED
    BY <1>1, <1>2, <2>3
<1>3. \A g \in Flushers : TxnSound(g, txn'[g], flush'[g], row', locks')
  BY <1>1, <1>2
<1>4. QED
  BY <1>1, <1>3 DEF TInv

LEMMA AllStill ==
  ASSUME TInv, UNCHANGED <<flush, row, txn, locks>>
  PROVE  TInv'
<1>1. \A g \in Flushers : TxnSound(g, txn'[g], flush'[g], row', locks')
  BY DEF TInv
<1>2. QED
  BY <1>1 DEF TInv

-----------------------------------------------------------------------------
LEMMA BeginKeeps ==
  ASSUME TInv, FlushersSound, NEW f \in Flushers, BeginUpsert(f)
  PROVE  TInv'
<1> DEFINE r == flush[f]
           t == [NoTxn EXCEPT !.open = TRUE, !.todo = RowsIn(r)]
<1>1. /\ r.pc = "upsert" /\ ~txn[f].open /\ RowsIn(r) # {} /\ SetTxn(f, t)
      /\ UNCHANGED <<flush, row, locks>>
  BY DEF BeginUpsert, RowsOf, RowsIn, Snapshot, Flushing, vars
<1>2. RowsIn(r) \subseteq Users
  BY FlusherHas DEF RowsIn, FlushRecords
<1>3. /\ t \in TxnRecords /\ t.open /\ t.todo = RowsIn(r) /\ t.written = {}
      /\ t.rejected = {}
  BY <1>2, NoTxnTyped DEF NoTxn, TxnRecords
<1>4. \A u \in Users : locks[u] # f
  BY <1>1 DEF TInv, TxnSound, Locked
<1> HIDE DEF t, r
<1>5. Locked(t, r) = {}
  BY <1>3 DEF Locked
<1>6. TxnSound(f, t, r, row, locks)
  BY <1>1, <1>3, <1>4, <1>5 DEF TxnSound
<1>7. QED
  BY <1>1, <1>6, OneMoves DEF TInv, r

LEMMA LockKeeps ==
  ASSUME TInv, FlushersSound, NEW f \in Flushers, NEW u \in Users, LockRow(f, u)
  PROVE  TInv'
<1> DEFINE r == flush[f]
           t == txn[f]
           takes == Takes(u, r.snapshots[u], row)
           todo == t.todo \ {u}
           written == IF takes THEN t.written \cup {u} ELSE t.written
           rejected == IF takes THEN t.rejected ELSE t.rejected \cup {u}
           s == [t EXCEPT !.todo = todo, !.written = written, !.rejected = rejected]
<1>1. TxnSound(f, t, r, row, locks) /\ t \in TxnRecords
  BY DEF TInv, TxnSound
<1>2. /\ t.open /\ u \in t.todo /\ \A v \in t.todo : KeyOf[u] <= KeyOf[v]
      /\ locks[u] = Nil /\ locks' = [locks EXCEPT ![u] = f]
      /\ UNCHANGED <<flush, row>>
  BY DEF LockRow, LocksRow, NextRow, vars
<1>3. SetTxn(f, s)
  <2>1. CASE takes
    <3>1. SetTxn(f, [t EXCEPT !.todo = @ \ {u}, !.written = @ \cup {u}])
      BY <2>1 DEF LockRow, Accepts, Takes, Snapshot
    <3>2. s = [t EXCEPT !.todo = @ \ {u}, !.written = @ \cup {u}]
      BY <1>1, <2>1 DEF TxnRecords
    <3>3. QED
      BY <3>1, <3>2
  <2>2. CASE ~takes
    <3>1. SetTxn(f, [t EXCEPT !.todo = @ \ {u}, !.rejected = @ \cup {u}])
      BY <2>2 DEF LockRow, Accepts, Takes, Snapshot
    <3>2. s = [t EXCEPT !.todo = @ \ {u}, !.rejected = @ \cup {u}]
      BY <1>1, <2>2 DEF TxnRecords
    <3>3. QED
      BY <3>1, <3>2
  <2>3. QED
    BY <2>1, <2>2
<1>4. /\ todo \in SUBSET Users /\ written \in SUBSET Users /\ rejected \in SUBSET Users
  BY <1>1 DEF TxnRecords
<1>5. /\ u \in written <=> takes
      /\ u \in rejected <=> ~takes
      /\ \A v \in Users : v # u => /\ v \in written <=> v \in t.written
                                   /\ v \in rejected <=> v \in t.rejected
  <2>1. u \notin Locked(t, r)
    BY <1>2 DEF Locked
  <2>2. u \notin t.written /\ u \notin t.rejected
    BY <1>1, <2>1 DEF TxnSound
  <2>3. QED
    BY <2>2
<1>6. u \in RowsIn(r) /\ t.todo \subseteq RowsIn(r) /\ RowsIn(r) \subseteq Users
      /\ RowsIn(r) # {} /\ r.pc = "upsert"
  BY <1>1, <1>2, FlusherHas DEF TxnSound, RowsIn, FlushRecords
<1>7. takes <=> Takes(u, r.snapshots[u], row)
  OBVIOUS
<1> HIDE DEF written, rejected, takes
<1>8. /\ s \in TxnRecords /\ s.open /\ s.todo = todo /\ s.written = written
      /\ s.rejected = rejected /\ s.stored = t.stored
  BY <1>1, <1>2, <1>4 DEF TxnRecords
<1> HIDE DEF s
<1>9. Locked(s, r) = Locked(t, r) \cup {u} /\ u \notin Locked(t, r)
  BY <1>2, <1>6, <1>8 DEF Locked
<1>10. \A v \in Users : locks'[v] = f <=> v \in Locked(s, r)
  BY <1>1, <1>2, <1>9 DEF TInv, TxnSound
<1>11. \A v \in t.todo : v # u => KeyOf[u] < KeyOf[v]
  <2> TAKE v \in t.todo
  <2>1. v \in Users /\ KeyOf[u] \in Nat /\ KeyOf[v] \in Nat
    BY <1>6, KeysAssumption
  <2>2. v # u => KeyOf[u] # KeyOf[v]
    BY <2>1, KeysAssumption
  <2>3. QED
    BY <1>2, <2>1, <2>2
<1>12. \A v \in Locked(s, r) :
         /\ v \in s.written <=> Takes(v, r.snapshots[v], row)
         /\ v \notin s.written \cup s.rejected => s.stored[v] = row[v]
         /\ \A w \in s.todo : KeyOf[v] < KeyOf[w]
  <2> TAKE v \in Locked(s, r)
  <2>1. CASE v = u
    BY <1>5, <1>7, <1>8, <1>11, <2>1
  <2>2. CASE v # u
    <3>1. v \in Locked(t, r) /\ v \in Users
      BY <1>6, <1>9, <2>2 DEF Locked
    <3>2. QED
      BY <1>1, <1>5, <1>8, <2>2, <3>1 DEF TxnSound
  <2>3. QED
    BY <2>1, <2>2
<1>13. s.written \cup s.rejected \subseteq Locked(s, r)
  <2>1. t.written \cup t.rejected \subseteq Locked(t, r)
    BY <1>1 DEF TxnSound
  <2>2. QED
    BY <1>4, <1>5, <1>8, <1>9, <2>1
<1>14. s.todo \subseteq RowsIn(r)
  BY <1>6, <1>8
<1> HIDE DEF todo, r, t
<1>15. TxnSound(f, s, r, row, locks')
  BY <1>6, <1>8, <1>10, <1>12, <1>13, <1>14 DEF TxnSound
<1>16. /\ DOMAIN locks' = Users
       /\ \A v \in Users : locks'[v] = locks[v] \/ locks[v] \in {f, Nil}
       /\ \A v \in Users : locks'[v] = locks[v] \/ locks'[v] \in {f, Nil}
  BY <1>2 DEF TInv
<1>17. QED
  BY <1>2, <1>3, <1>15, <1>16, OneMoves DEF r
LEMMA SelectKeeps ==
  ASSUME TInv, KeysTyped, FlushersSound, NEW f \in Flushers, NEW u \in Users,
         SelectRejected(f, u)
  PROVE  TInv'
<1> DEFINE r == flush[f]
           t == txn[f]
           stored == [t.stored EXCEPT ![u] = row[u]]
           rejected == t.rejected \ {u}
           s == [t EXCEPT !.stored = stored, !.rejected = rejected]
<1>1. TxnSound(f, t, r, row, locks) /\ t \in TxnRecords
  BY DEF TInv, TxnSound
<1>2. u \in t.rejected /\ UNCHANGED <<flush, row, locks>>
  BY DEF SelectRejected, vars
<1>3. SetTxn(f, s)
  <2>1. SetTxn(f, [t EXCEPT !.stored[u] = row[u], !.rejected = @ \ {u}])
    BY DEF SelectRejected
  <2>2. s = [t EXCEPT !.stored[u] = row[u], !.rejected = @ \ {u}]
    BY <1>1 DEF TxnRecords
  <2>3. QED
    BY <2>1, <2>2
<1>4. /\ stored \in Caches /\ stored[u] = row[u]
      /\ \A v \in Users : v # u => stored[v] = t.stored[v]
  BY <1>1 DEF TxnRecords, Caches, KeysTyped
<1>5. rejected \in SUBSET Users /\ rejected \subseteq t.rejected
      /\ \A v \in Users : v # u => (v \in rejected <=> v \in t.rejected)
  BY <1>1 DEF TxnRecords
<1> HIDE DEF stored, rejected
<1>6. /\ s \in TxnRecords /\ s.open = t.open /\ s.todo = t.todo /\ s.written = t.written
      /\ s.rejected = rejected /\ s.stored = stored
  BY <1>1, <1>4, <1>5 DEF TxnRecords
<1> HIDE DEF s
<1>7. Locked(s, r) = Locked(t, r) /\ Locked(t, r) \subseteq Users
  BY <1>6, FlusherHas DEF Locked, RowsIn, FlushRecords
<1>8. t.open
  <2>1. u \in Locked(t, r)
    BY <1>1, <1>2 DEF TxnSound
  <2>2. QED
    BY <2>1 DEF Locked
<1>9. \A v \in Locked(s, r) :
        /\ v \in s.written <=> Takes(v, r.snapshots[v], row)
        /\ v \notin s.written \cup s.rejected => s.stored[v] = row[v]
        /\ \A w \in s.todo : KeyOf[v] < KeyOf[w]
  BY <1>1, <1>4, <1>5, <1>6, <1>7 DEF TxnSound
<1>10. s.written \cup s.rejected \subseteq Locked(s, r)
  BY <1>1, <1>5, <1>6, <1>7 DEF TxnSound
<1>11. /\ r.pc = "upsert" /\ RowsIn(r) # {} /\ s.todo \subseteq RowsIn(r)
       /\ \A v \in Users : locks[v] = f <=> v \in Locked(s, r)
  BY <1>1, <1>6, <1>7, <1>8 DEF TxnSound
<1> HIDE DEF t, r
<1>12. TxnSound(f, s, r, row, locks)
  BY <1>6, <1>8, <1>9, <1>10, <1>11 DEF TxnSound
<1>13. QED
  BY <1>2, <1>3, <1>12, OneMoves DEF TInv, r

LEMMA Frees ==
  ASSUME TInv, NEW f \in Flushers, locks' = Unlocked(f)
  PROVE  /\ DOMAIN locks' = Users
         /\ \A u \in Users : locks'[u] # f
         /\ \A u \in Users : locks'[u] = locks[u] \/ locks[u] \in {f, Nil}
         /\ \A u \in Users : locks'[u] = locks[u] \/ locks'[u] \in {f, Nil}
BY NobodyAssumption DEF Unlocked, TInv

\* COMMIT finds what the one step of WriteBehind would find.
LEMMA CommitUpserts ==
  ASSUME TInv, KeysTyped, FlushersSound, NEW f \in Flushers, Commit(f)
  PROVE  FlusherStep(f)
<1> DEFINE r == flush[f]
           t == txn[f]
           rows == RowsIn(r)
           written == {u \in rows : Accepts(u, r.snapshots[u])}
           differs == {u \in rows \ written : row[u] # r.snapshots[u]}
           found == {u \in RowsOf(f) \ t.written : t.stored[u] # Snapshot(f, u)}
<1>1. TxnSound(f, t, r, row, locks) /\ t.open /\ t.todo = {} /\ t.rejected = {}
  BY DEF TInv, Commit
<1>2. Locked(t, r) = rows /\ r.pc = "upsert"
  BY <1>1 DEF Locked, TxnSound
<1>3. t.written \subseteq rows
  BY <1>1, <1>2 DEF TxnSound
<1>4. \A u \in rows : /\ u \in t.written <=> Accepts(u, r.snapshots[u])
                      /\ u \notin t.written => t.stored[u] = row[u]
  BY <1>1, <1>2 DEF TxnSound, Takes, Accepts
<1>5. t.written = written
  BY <1>3, <1>4
<1>6. found = differs /\ \A u \in differs : t.stored[u] = row[u]
  BY <1>4, <1>5 DEF RowsOf, RowsIn, Snapshot
<1>7. /\ row' = [u \in Users |-> IF u \in t.written THEN r.snapshots[u] ELSE row[u]]
      /\ SetFlush(f, [r EXCEPT
                        !.stored = [u \in Users |->
                                      IF u \in found THEN t.stored[u] ELSE Nil],
                        !.pc = IF found = {} THEN "clear" ELSE "repair",
                        !.todo = IF found = {} THEN r.users ELSE found])
      /\ UNCHANGED <<redis, network, task, lock, disk, losses>>
  BY DEF Commit, Snapshot
<1>8. [u \in Users |-> IF u \in found THEN t.stored[u] ELSE Nil]
        = [u \in Users |-> IF u \in differs THEN row[u] ELSE Nil]
  BY <1>6
<1>9. UpsertMany(f)
  <2>1. /\ row' = [u \in Users |-> IF u \in written THEN r.snapshots[u] ELSE row[u]]
        /\ SetFlush(f, [r EXCEPT
                          !.stored = [u \in Users |-> IF u \in differs THEN row[u] ELSE Nil],
                          !.pc = IF differs = {} THEN "clear" ELSE "repair",
                          !.todo = IF differs = {} THEN r.users ELSE differs])
    BY <1>5, <1>6, <1>7, <1>8
  <2>2. QED
    BY <1>2, <1>7, <2>1 DEF UpsertMany, Flushing, RowsIn
<1>10. QED
  BY <1>7, <1>9 DEF FlusherStep, FlushStep

LEMMA CommitKeeps ==
  ASSUME TInv, KeysTyped, FlushersSound, NEW f \in Flushers, Commit(f)
  PROVE  TInv'
<1>1. /\ row' = [u \in Users |-> IF u \in txn[f].written THEN Snapshot(f, u) ELSE row[u]]
      /\ locks' = Unlocked(f) /\ SetTxn(f, NoTxn)
      /\ \A g \in Flushers : g # f => flush'[g] = flush[g]
  BY NewFlush DEF Commit
<1>2. TxnSound(f, txn[f], flush[f], row, locks)
  BY DEF TInv
<1>3. \A u \in Users : locks[u] # f => row'[u] = row[u]
  BY <1>1, <1>2 DEF TxnSound
<1>4. TxnSound(f, NoTxn, flush'[f], row', locks')
  BY <1>1, Frees, Closed
<1>5. QED
  BY <1>1, <1>3, <1>4, Frees, OneMoves

LEMMA RollbackKeeps ==
  ASSUME TInv, FlushersSound, NEW f \in Flushers, Rollback(f)
  PROVE  TInv' /\ FlusherStep(f)
<1>1. /\ locks' = Unlocked(f) /\ SetTxn(f, NoTxn) /\ row' = row
      /\ \A g \in Flushers : g # f => flush'[g] = flush[g]
  BY NewFlush DEF Rollback, StopFlusher, FlusherCrashes
<1>2. TxnSound(f, NoTxn, flush'[f], row', locks')
  BY <1>1, Frees, Closed
<1>3. TInv'
  BY <1>1, <1>2, Frees, OneMoves
<1>4. FlusherStep(f)
  BY DEF Rollback, FlusherStep
<1>5. QED
  BY <1>3, <1>4

\* The rest of a flush happens outside of a transaction and writes no row.
LEMMA OtherKeeps ==
  ASSUME TInv, KeysTyped, FlushersSound, NEW f \in Flushers, OtherStep(f)
  PROVE  TInv' /\ FlusherStep(f)
<1>1. FlusherStep(f) /\ UNCHANGED <<txn, locks>>
  BY DEF OtherStep, FlusherStep
<1>2. ~txn[f].open
  <2>1. TxnSound(f, txn[f], flush[f], row, locks)
    BY DEF TInv
  <2>2. QED
    BY <2>1 DEF TxnSound, OtherStep, Flushing, RowsOf, RowsIn, Snapshot
<1>3. row' = row
  <2>1. CASE UpsertMany(f)
    <3>1. row' = [u \in Users |-> IF u \in Written(f) THEN flush[f].snapshots[u] ELSE row[u]]
      BY <2>1, UpsertSound
    <3>2. Written(f) = {}
      BY <2>1 DEF UpsertMany, OtherStep, Written, RowsOf, Snapshot
    <3>3. QED
      BY <3>1, <3>2 DEF KeysTyped, Caches
  <2>2. CASE ~UpsertMany(f)
    BY <2>2 DEF OtherStep, FlushStep, DirtyUsers, LoadOne, RepairRegressed, ClearOne
  <2>3. QED
    BY <2>1, <2>2
<1>4. \A g \in Flushers : g # f => flush'[g] = flush[g]
  BY NewFlush DEF OtherStep, FlushStep, DirtyUsers, LoadOne, UpsertMany, RepairRegressed,
                  ClearOne
<1>5. TxnSound(f, txn[f], flush[f], row, locks)
  BY DEF TInv
<1>6. TxnSound(f, txn[f], flush'[f], row, locks)
  BY <1>2, <1>5 DEF TxnSound, Locked
<1>7. \A g \in Flushers : TxnSound(g, txn'[g], flush'[g], row', locks')
  BY <1>1, <1>3, <1>4, <1>6 DEF TInv
<1>8. QED
  BY <1>1, <1>7 DEF TInv

-----------------------------------------------------------------------------
LEMMA TxnStep ==
  ASSUME WInv, TInv, [TxnNext]_txnVars
  PROVE  TInv' /\ [Next]_vars
<1>1. KeysTyped /\ ClientsSound /\ FlushersSound
  BY DEF WInv
<1>2. CASE UNCHANGED txnVars
  BY <1>2, AllStill DEF txnVars, vars
<1>3. CASE (ClientStep \/ ServerStep) /\ UNCHANGED <<txn, locks>>
  <2>1. flush' = flush /\ row' = row
    BY <1>1, <1>3, ClientMoves DEF Keeps, ServerStep, Fsync, Lose, Restart, Evict
  <2>2. QED
    BY <1>3, <2>1, AllStill DEF Next
<1>4. CASE Quiet
  BY <1>4, AllStill DEF Quiet, txnVars, vars
<1>5. ASSUME NEW f \in Flushers, UpsertStep(f)
      PROVE  TInv' /\ [Next]_vars
  <2>1. CASE BeginUpsert(f)
    BY <1>1, <2>1, BeginKeeps DEF BeginUpsert
  <2>2. ASSUME NEW u \in Users, LockRow(f, u)
        PROVE  TInv' /\ [Next]_vars
    BY <1>1, <2>2, LockKeeps DEF LockRow
  <2>3. ASSUME NEW u \in Users, SelectRejected(f, u)
        PROVE  TInv' /\ [Next]_vars
    BY <1>1, <2>3, SelectKeeps DEF SelectRejected
  <2>4. CASE Commit(f)
    BY <1>1, <2>4, CommitKeeps, CommitUpserts DEF Next
  <2>5. QED
    BY <1>5, <2>1, <2>2, <2>3, <2>4 DEF UpsertStep
<1>6. ASSUME NEW f \in Flushers, Rollback(f) \/ OtherStep(f)
      PROVE  TInv' /\ [Next]_vars
  BY <1>1, <1>6, RollbackKeeps, OtherKeeps DEF Next
<1>7. QED
  BY <1>2, <1>3, <1>4, <1>5, <1>6 DEF TxnNext

LEMMA TxnStart == TxnInit => WInv /\ TInv
<1> SUFFICES ASSUME TxnInit PROVE WInv /\ TInv
  OBVIOUS
<1>1. WInv
  BY InitInvariant DEF TxnInit
<1>2. /\ txn = [f \in Flushers |-> NoTxn] /\ locks = [u \in Users |-> Nil]
  BY DEF TxnInit
<1>3. \A f \in Flushers : TxnSound(f, NoTxn, flush[f], row, locks)
  BY <1>2, NobodyAssumption, Closed
<1>4. TInv
  BY <1>2, <1>3 DEF TInv
<1>5. QED
  BY <1>1, <1>4

LEMMA TxnInvariant == TxnSpec => [](WInv /\ TInv)
<1>1. WInv /\ TInv /\ [TxnNext]_txnVars => WInv' /\ TInv'
  BY TxnStep, StepInvariant
<1>2. QED
  BY <1>1, TxnStart, PTL DEF TxnSpec

\* A transaction of a flush is as good as one step: the specification with its
\* locks, statements and rollbacks implements the one without.
THEOREM TransactionsAreAtomic == TxnSpec => AtomicUpserts
<1>1. TxnInit => Init
  BY DEF TxnInit
<1>2. WInv /\ TInv /\ [TxnNext]_txnVars => [Next]_vars
  BY TxnStep
<1>3. QED
  BY <1>1, <1>2, TxnInvariant, PTL DEF TxnSpec, AtomicUpserts, Spec

-----------------------------------------------------------------------------
LEMMA SmallestSet ==
  ASSUME NEW S, IsFiniteSet(S), NEW T, T \subseteq SUBSET S, T # {}
  PROVE  \E x \in T : \A y \in T : y \subseteq x => y = x
<1>1. IsWellFoundedOn(StrictSubsetOrdering(S), SUBSET S)
  BY FS_StrictSubsetOrderingWellFounded, FS_FiniteSubsetsOfFinite
<1>2. \E x \in T : \A y \in T : ~(<<y, x>> \in StrictSubsetOrdering(S))
  BY <1>1, WFMin
<1>3. QED
  BY <1>2 DEF StrictSubsetOrdering

\* The users whose rows come after the one a transaction is at.
Ahead(f) == {v \in Users : \E u \in Users : NextRow(f, u) /\ KeyOf[u] < KeyOf[v]}

\* Who waits for another has more rows ahead than the one it waits for.
LEMMA WaitingAscends ==
  ASSUME TInv, FlushersSound, NEW f \in Flushers, NEW g \in Flushers, WaitsFor(f, g),
         NEW h \in Flushers, WaitsFor(g, h)
  PROVE  Ahead(g) \subseteq Ahead(f) /\ Ahead(g) # Ahead(f)
<1>1. PICK u \in Users : NextRow(f, u) /\ locks[u] = g
  BY DEF WaitsFor
<1>2. PICK v \in Users : NextRow(g, v)
  BY DEF WaitsFor
<1>3. TxnSound(g, txn[g], flush[g], row, locks)
  BY DEF TInv
<1>4. KeyOf[u] < KeyOf[v]
  BY <1>1, <1>2, <1>3 DEF TxnSound, NextRow
<1>5. \A w \in Users : KeyOf[w] \in Nat
  BY KeysAssumption
<1>6. \A w \in Users : NextRow(g, w) => KeyOf[w] = KeyOf[v]
  <2> SUFFICES ASSUME NEW w \in Users, NextRow(g, w) PROVE KeyOf[w] = KeyOf[v]
    OBVIOUS
  <2>1. KeyOf[w] <= KeyOf[v] /\ KeyOf[v] <= KeyOf[w]
    BY <1>2 DEF NextRow
  <2>2. QED
    BY <1>5, <2>1
<1>7. v \in Ahead(f) /\ v \notin Ahead(g)
  BY <1>1, <1>4, <1>5, <1>6 DEF Ahead
<1>8. ASSUME NEW w \in Ahead(g) PROVE w \in Ahead(f)
  <2>1. w \in Users /\ KeyOf[v] < KeyOf[w]
    BY <1>6 DEF Ahead
  <2>2. KeyOf[u] < KeyOf[w]
    BY <1>4, <1>5, <2>1
  <2>3. QED
    BY <1>1, <2>1, <2>2 DEF Ahead
<1>9. QED
  BY <1>7, <1>8

\* Any number of flushers with overlapping batches: among any of them there is one
\* that waits for none of the others, because all lock rows in the order of the
\* primary key (upsert_many's sorted).
THEOREM FlushersNeverDeadlock == TxnSpec => []NoCircularWait
<1>1. WInv /\ TInv => NoCircularWait
  <2> SUFFICES ASSUME WInv, TInv, NEW S \in (SUBSET Flushers) \ {{}}
               PROVE  \E f \in S : \A g \in S : ~WaitsFor(f, g)
    BY DEF NoCircularWait
  <2> DEFINE part == [f \in S |-> Ahead(f)]
             waits == {p \in S \X S : WaitsFor(p[1], p[2])}
             T == {part[f] : f \in S}
  <2>1. \A f \in S : part[f] \in SUBSET Users
    BY DEF Ahead
  <2>2. \A f, g, h \in S : <<f, g>> \in waits /\ <<g, h>> \in waits
          => part[g] \subseteq part[f] /\ part[g] # part[f]
    <3> SUFFICES ASSUME NEW f \in S, NEW g \in S, NEW h \in S,
                        WaitsFor(f, g), WaitsFor(g, h)
                 PROVE  Ahead(g) \subseteq Ahead(f) /\ Ahead(g) # Ahead(f)
      OBVIOUS
    <3>1. FlushersSound /\ f \in Flushers /\ g \in Flushers /\ h \in Flushers
      BY DEF WInv
    <3>2. QED
      BY <3>1, WaitingAscends
  <2>3. \A f, g \in S : <<f, g>> \in waits <=> WaitsFor(f, g)
    OBVIOUS
  <2> HIDE DEF part, waits
  <2>4. T \subseteq SUBSET Users /\ T # {}
    <3>1. S # {}
      OBVIOUS
    <3>2. QED
      BY <2>1, <3>1
  <2>5. \E x \in T : \A y \in T : y \subseteq x => y = x
    <3>1. IsFiniteSet(Users)
      BY KeysAssumption
    <3> HIDE DEF T
    <3>2. QED
      BY <2>4, <3>1, SmallestSet
  <2>6. PICK f \in S : \A g \in S : part[g] \subseteq part[f] => part[g] = part[f]
    BY <2>5
  <2>7. \E f1 \in S : \A g \in S : <<f1, g>> \notin waits
    BY <2>2, <2>6
  <2>8. QED
    BY <2>3, <2>7
<1>2. QED
  BY <1>1, TxnInvariant, PTL
=============================================================================
