# Billing of generations: specifications, model checking and proofs

The service sells generations (calls of an AI provider) against a user's prepaid balance. A balance
has three money buckets (`free_usd`, `bonus_usd`, `paid_usd`), a number of `free_requests` and a
`version`. While the service runs, Redis is the source of truth and every change is one Lua script;
a background process copies changed balances to PostgreSQL and gives back reservations nobody
finished. This directory models that code in TLA+, checks the models with TLC and proves what
matters most with TLAPS.

Paths below are relative to `src/backend/`.

## Inventory

| Part | State it keeps | Operations | Talks to |
|---|---|---|---|
| debit policy and money (`domain/generation.py`, `app/shared/ports/billing/balance_store.py`) | none | `authorize`, `_build_plan`, `surplus_refund`, `quantize_money` | called by the generation service |
| hot store (`infra/database/redis`) | `bal:*`, `gen:*`, `topup:*`, `bal:dirty`, `gen:inflight`, `bal:load:*` | eight Lua scripts, `HGETALL`, `SET NX PX`, `ZRANGEBYSCORE`, `ZREM`, `SRANDMEMBER`; up to `RETRY_ATTEMPTS` sends of a script | Redis |
| balance loader (`app/billing/balance_loader.py`) | the token of the load lock | `ensure_loaded` | store, PostgreSQL |
| generation service (`app/billing/generation.py`) | locals of a call: snapshot, authorization, attempt | `execute_generation` | loader, policy, store, provider, refunder |
| balance service (`app/billing/balance.py`) | none | `apply_top_up`, `get_balance` | loader, store |
| refunder (`app/billing/refund.py`) | none | `refund` | store, loader |
| reaper (`app/billing/reaper.py`) | the batch it works on | `reap_once` | store, refunder |
| flusher (`app/billing/flusher.py`) | the batch and its snapshots | `flush_once`, `_repair_regressed`, `run` | store, PostgreSQL, reaper |
| PostgreSQL table (`infra/database/psql/repos/balance.py`) | one row per user | `get_by_user_id`, `upsert_many` | loader, flusher |
| provider (`app/shared/ports/billing/generation_provider.py`) | a count of calls | `generate` | generation service |
| limits (`app/billing/config.py`) | none | deadlines, TTLs and the order their comments ask for | all of the above |
| wiring, command line, parsing of settings, migrations, helpers | none after start | | |

All parts interact through the keys of Redis and the rows of PostgreSQL, from any number of
processes. Redis runs one script at a time; everything between two `await`s of different coroutines
interleaves. What is hard to get right, and what makes each part correct:

- **Reservation.** A plan computed on a snapshot must only be taken from that very balance
  (compare-and-set on `version`); the reply may be lost and the script land late; two deliveries of
  one id must call the provider once. Correct when nothing is overdrawn, money is conserved and
  every applied plan is the policy's.
- **Ending.** Settle, refund by the caller, refund by the reaper and retries of each race for one
  record. Correct when a record ends once and the caller's answer agrees with it.
- **Failure of the caller.** Error, timeout, cancellation, crash. Correct when the plan comes back,
  at once or by the reaper, and every call that is still alive returns.
- **Loading.** Concurrent misses, a lock with a TTL. Correct when one process at a time asks
  PostgreSQL and nobody seeds over a newer balance.
- **Write-behind.** Changes during a flush, several flushers whose transactions lock overlapping
  rows, a crash inside a transaction or between commit and `CLEAR_DIRTY`, a Redis behind the row.
  Correct when a clean balance is durable, rows only advance, nobody deadlocks and dirty flags drain.
- **Time.** A provider timeout, an age for the reaper, waits, and the TTLs of locks and records are
  meant to be in a certain order. Correct when the reaper keeps off living calls, a waiter outlasts
  a dead lock holder, and a record outlives its reservation.
- **Arithmetic.** Three access types, three charge orders, a clamp, a rounding and a LIFO refund.
  Correct when reserving and refunding comes to the same balance as one exact debit.

`PROJECT.json` lists every hazard with its line and the properties that would catch it.

## Modules

```
DebitPolicy ─┬─ DebitSession
             └─ Ledger ─────────────────────────────────────(refinement)──────────────┐
BalanceStore ── BalanceLoader ──┬─ ReservationRefunder ─┬─ GenerationService ─┐       │
     │                │         │                       └─ ReservationReaper ─┼─ Billing ─┬─ BillingInvariant ── BillingLedger ── BillingAnswers
     │                │         └─ BalanceService ──┬─────────────────────────┘           ├─ BillingClock
     │                └─ RedisServer ───────────────┼─────────────────────────────────────┼─ BillingRestart
     │                                              │                                     └─ BillingEviction
     └─ BalanceFlusher ─────────────────────────────┴─ WriteBehind ─┬─ UpsertTransactions
                                                                    └─ WriteBehindInvariant
```

| Module | Models |
|---|---|
| `DebitPolicy` | the arithmetic, as operators. `Authorize` returns an authorization or the kind of the refusal. The loop shared by `_build_plan` and `surplus_refund` is `Walk`, in closed form so that proofs need no recursion; `WalkIsLoop` compares it with the loop as it is written. The two tables of charge orders in the source (`_build_plan`'s and `_CHARGE_ORDER`) are equal and are one operator here |
| `DebitSession` | one request at a time on one balance |
| `BalanceStore` | the keys, as functions and sets, and each script as one action `SCRIPT(invocation)` with `…Reply(invocation)` for what it answers. `late` holds scripts whose caller has lost the connection: each may land once, at any later moment (`Land`) or never |
| `BalanceLoader` | the coroutines: `task[a]` is the record of one call or of one background loop, with a program counter and the locals that outlive an `await`. A step is what happens between two awaits, the reply included. `ensure_loaded` is a subroutine (`pc` in `LoaderPcs`, return address in `ret`). Also here: a lost reply (`LoseReply`), a dying process (`Abandon`), an exhausted loop (`GiveUp`), the TTL of the lock (`LockExpires`) |
| `ReservationRefunder` | the refund loop, used by the next two |
| `GenerationService` | `execute_generation`: one action per await and outcome |
| `BalanceService` | `apply_top_up`, `get_balance` |
| `ReservationReaper` | `reap_once`, id by id, restarted after an exception |
| `Billing` | all of them on one store: `Init`, `Next`, `Spec`, fairness, the safety and liveness properties |
| `Ledger` | what the service promises, without caches, versions, retries or processes: purses and entries; an entry is held once and ends charged or returned, once |
| `BillingInvariant` | the inductive invariant `IInv` of what tasks and scripts carry: `TInv`, which holds whatever Redis loses, and `Vouched`, which needs its data; `LoadersInTurn`, what loaders know under the lock |
| `BillingLedger` | the refinement mapping from `Billing` to `Ledger`, and the invariant `BInv` it needs |
| `BillingAnswers` | the invariant `AInv` of what a call and a reaper know of the record they work on |
| `BillingClock` | `Billing` on a clock: ages, deadlines, TTLs, expiry of records |
| `RedisServer` | fsync, restart on the state of the last fsync, loss of one balance |
| `BillingRestart` | `Billing` on such a server; `interrupted` remembers which ids reapers had in hand at a restart |
| `BillingEviction` | `Billing` on a server that may lose one balance, with fairness |
| `BalanceFlusher` | `flush_once` in five phases: pick, read one by one, upsert (one transaction), repair, clear one by one; stop and crash |
| `WriteBehind` | top-ups and readers, flushers and the server together |
| `WriteBehindInvariant` | the invariant `WInv` behind a clean flag and a row that is never ahead |
| `UpsertTransactions` | the same with the transaction of `upsert_many` taken apart: row locks one after the other, the `SELECT`s of the rejected rows, commit, rollback, cancellation |
| `DebitPolicyProofs`, `DebitSessionProofs`, `BillingProofs`, `BillingLedgerProofs`, `BillingAnswersProofs`, `BillingClockProofs`, `BillingRestartProofs`, `WriteBehindProofs` | theorems |
| `MC*` | instances for TLC |

Definitions named `…Unversioned`, `…Lenient`, `…Always` and the like, marked "Mutant", are wrong
versions of the definition below them; with one in its place TLC finds the listed property violated.

### Correspondence

- Money is integer micro-dollars, as in Redis. A provider's bill may be finer: `Grain` steps to a
  micro. What `quantize_money` and `_validate` do to finer amounts is modelled.
- A reply is handled in the step in which Redis runs the script: nothing of another coroutine can
  be observed in between, except that the reply is lost, which is `LoseReply`.
- `reservation_token` is the call and the number of its attempt: fresh in each `reserve()`, the same
  in each retry of it, as `uuid4` in the source.
- A load lock is held by a task instead of a random token; a task never holds two.
- Deadlines (`RUNNING_WAIT_TIMEOUT_SECONDS`, `LOAD_WAIT_TIMEOUT_SECONDS`, `PROVIDER_TIMEOUT_SECONDS`,
  `REAP_AFTER_SECONDS`) may pass at any moment in `Billing`, and what is shown of it holds without
  their order. `BillingClock` lets them pass when they are due, counted from the event the code
  counts from: the age of a reservation, for one, from the `started_at` its caller took before it
  sent RESERVE.
- `SELECT` under the load lock is one step. The upsert transaction of a flush is one step, its
  commit, in `WriteBehind`; `UpsertTransactions` takes it apart.
- The refinement: a balance, cached or still in PostgreSQL, is a purse whatever its version; a
  running record is a hold, a done one a charge, a failed one a hold given back; the marker of a
  top-up is its credit. Loading, polling, retrying, dying, landing late for nothing and reaping what
  is over are no steps of the ledger.
- `late` is a set: two lost sends of the same script are one element of it and land once. The second
  copy would find its record ended, or its marker, and change nothing while Redis keeps its data.
- A dying flusher is `FlusherCrashes` whether it was working or on its last flush, and the process is
  started again after it. A second SIGTERM, which cancels that last flush, is such a crash.
- Faults (`MaxFaults`) bound lost replies, crashes and lock holders slower than their TTL in one
  behaviour; `MaxLosses` bounds losses of Redis.

## Runs

| Run | Instance | Shows | States |
|---|---|---|---|
| `debit_session` | three models in cents, balances on both sides of every price, six bills | refusals are justified, reserve + refund = exact debit, the bill is a ceiling, a free request is used up exactly at the free price and paid access takes paid money | 3 180 |
| `billing` | 3 calls of 2 requests, with money for either or for both, of an id reused with another dialog or of an unknown model, reaper, no faults | every plan is the policy's, answers agree with records, nobody is denied what was already begun, nothing running is ownerless; no overdraft and conservation are checked in `billing_faults`, with faults | 659 533 |
| `billing_faults` | 2 calls, reaper, 2 faults | every step is a step of the ledger or none; `AInv`, which includes `BInv` and `IInv`; no overdraft and conservation under loss, crash and late scripts; the provider is called once; the index of the reaper is exact; records end once; every change moves the version and the flag | 173 874 |
| `billing_cold` | a call, a top-up, a reader and the reaper on a cold balance, 2 faults | `IInv`; the ledger sees nothing of loading; one loader at a time while locks outlive their holders; a seed never overwrites | 493 722 |
| `billing_live` | 2 deliveries of one request, billed at 0 or more, reaper, cold, 1 fault, which may be the loss of the balance key | calls return, reservations end, through the `MISSING` branches too | 27 587 |
| `restarted_calls` | 2 deliveries of two requests, reaper, 1 fault, one restart on older data | what survived is not reopened and keeps its owner, token and plan; index and records stay in step, but for ids a reaper had in hand at the restart | 2 469 066 |
| `reservation_clock` | 2 deliveries of one request, a reader, a reaper that may be down, a load lock to wait for, 2 faults, on a clock | a call keeps its own reservation until it ends it; a record outlives its reservation; no loader times out behind a dead holder; the provider is called once per TTL | 1 239 674 |
| `write_behind` | 2 users, 2 top-ups of either, 2 flushers with overlapping batches that crash, stop or are cancelled inside a transaction, 1 fault, rows present or absent | clean is durable, a row is never ahead, every step is one of `WriteBehind` or none (so nothing is seen of an uncommitted transaction), nobody waits in a circle | 622 264 |
| `restarted_store` | 2 users, batch of 1, restart on older data or eviction between flushes | `WInv`; repair: rows only advance, flags drain, clean is durable or Redis is known to be behind | 217 822 |
| `redelivery` | violated: `RedeliveryReportsCharge` | see Findings | |
| `restart_overdraft` | violated: `NonNegative` | see Findings | |
| `restart_mid_flush` | violated: `ChangeDuringFlushIsKept` | see Findings | |

**Why the bounds are enough to be interesting.** One user, because keys of different users never
meet in a script (the flusher's batch and its transaction are the exception, hence two users in
`write_behind` and `restarted_store`).
Two requests, with money for one at a time or for both: every order of reserve, denial, conflict and
refund occurs, and a third call is a redelivery of either, of an id with another payload, or a
request for a model that does not exist. `RESERVE_MAX_ATTEMPTS = 3` (2 in `billing`, where the other
calls can move the version often enough) lets a call conflict and still succeed, or run out; `RETRY_ATTEMPTS = 2` lets a script be
sent again once and fail for good. Two faults allow a lost reply followed by a crash, and a slow
lock holder followed by a lost seed. Bills of 0 and of 3 half-micros give a full, a partial and a
rounded charge. `billing_faults` has a warm balance and no top-up, so `Conservation` says nothing there of
cold loads and repeated top-ups; `LedgerSpec` in `billing_cold` does, where a top-up that counted twice or a seed
that brought an old balance back would be a step the ledger does not have. Rows start at version 3 or 2, so that version 0 of an absent row is distinct.
Symmetry is used in safety runs only, over calls, top-ups and flushers.

**The clock.** In `reservation_clock` SETTLE, REFUND and RESERVE with their retries take up to
`SEND = 1`, the provider up to `PROVIDER_TIMEOUT = 1`, the wait for a record 1, the wait for a lock
4 with a lock of 1, a reservation is old at `REAP_AFTER = 4`, the index is scanned every
`FLUSH_INTERVAL = 1`, an outage of the background process lasts up to `MAX_OUTAGE = 1`, and a record
lives for 11. These are the smallest numbers that `OrderAssumption` and the theorems about the clock
allow, so each property has no slack but the one they name. The assumption is what the comments of `config.py` ask for, plus
two facts about the environment the code cannot guarantee: that a script is answered within `SEND`
(the Redis client sets no socket timeout), and that a background process is up again within
`MAX_OUTAGE`. Records last a day and the reaper looks every few seconds, so the second costs nothing;
the first is what the margin between `PROVIDER_TIMEOUT_SECONDS` and `REAP_AFTER_SECONDS` buys.

**Fairness.** `Fairness` of `Billing` (in `FairEvictionSpec`) gives weak fairness to what a living coroutine can do (the event loop
resumes it, the provider call ends because of its timeout, a waiter's deadline passes), to the
expiry of a lock (a TTL), and strong fairness to the reaper picking a given id while it stays in
`gen:inflight`: the reaper scans again and again and old ids come first. Calls need nothing from
`LoadTimesOut`, so its progress is not assumed. In `WriteBehind`'s `FairSpec` a flusher that is not stopped keeps
working and `SRANDMEMBER`, which is random, picks a user who stays dirty sooner or later (strong
fairness). Nothing is assumed of clients, faults, late scripts, fsyncs and losses. `BillingClock`
needs no fairness: its properties are bounds in time, stated as safety.

**Deadlock** is checked everywhere: `Quiet` is the state in which all deliveries are answered and
nothing is left to reap, and it is the only one in which nothing else may happen.

## Proofs

`DebitPolicyProofs` (from `ModelsAssumption`, `GrainAssumption`):

- `AuthorizeCovered`: an authorized plan is natural in each component, covered by the balance,
  worth exactly the estimate, and out of the paid bucket alone under `PAID_ONLY`.
- `ChargedInPlan`: a charge is between 0 and the plan, for any bill.
- `RefundAndCharge`: refund and charge make up the plan, no bucket gets back more than it gave.

`DebitSessionProofs` (from those and `SessionAssumption`, for any catalogue, balance and bill):

- `SessionTyped`: `Spec => []TypeOK`
- `LoopIsWalked`: `Spec => []WalkIsLoop`
- `SettlesExactly`: `Spec => SettledAsIfExact`
- `BillsAreCeilings`: `Spec => BillIsCeiling`
- `PaidStaysPaid`: `Spec => PaidOnlyIsPaid`
- `DenialsJustified`: `Spec => DenialIsJustified`

`Walk` is in closed form, what each bucket gives in terms of what the ones before it have; `Loop` of
`DebitSession` runs through an order as the source does. Orders have at most three buckets, so the
proof unrolls the loop: it gives each bucket its share (`LoopShares`), and so does `Walk`
(`WalkShares`), whence they agree for every amount. The refund walks the order backwards over what
the plan took, so it takes the tail of the plan, and what stays is the walk of the charge
(`ExactRefund`): one exact debit and reserve-then-refund leave the same balance, for bills finer
than a micro too, since the charge is rounded before the refund is computed.

`BillingProofs` (from those and `NilAssumption`, `MaxFaultsAssumption`, `AttemptsAssumption`,
`RolesAssumption`, `InputsAssumption`, `TokensAssumption`, `RowsAssumption`, for any sets of users,
requests, calls, top-ups, readers and reapers, any catalogue and any number of faults):

- `IInvInvariant`: `Spec => []IInv`
- `TypeCorrect`: `Spec => []TypeOK`
- `NeverOverdrawn`: `Spec => []NonNegative`

`NonNegative` is not inductive: RESERVE compares only versions, so it is safe because of what its
caller and history guarantee. `IInv` says what: (1) a snapshot any task holds is not newer than the
balance and, at the same version, *is* the balance (`NotNewer`), which needs that every script that
moves a balance moves its version and that a seed only fills an absent key; (2) at `reserve` the
plan is covered by the snapshot, from `AuthorizeCovers`; (3) the same of every RESERVE that is
still in the network (`LateSound`), which may land after its caller is gone; (4) refunds, settled
surpluses and top-ups are natural (`TypeOK`, `Shape`, `RefundTyped`), so they cannot take anything;
(5) rows are natural. `TypeOK` is not inductive either: what a task does next depends on what it
carries at its `pc` (`Shape`, `LoaderShape`). `IInv` is in two parts for the sake of
`BillingRestartProofs`: `TInv` is inductive alone and survives any loss of data, `Vouched` (1-3 and
`NonNegative`) is what a loss breaks, as the run `restart_overdraft` shows.

The proof goes from the scripts up. Each script keeps the keys typed and solvent and only moves
balances forward (`Monotone`). A task that does not act keeps its half of the invariant under any
such step. So each handler only has to show that the record it leaves behind is sound, one lemma per
handler; `NextKeeps` puts them together, once for `TInv` and once for both parts, and the theorems
follow by temporal logic.

`BillingLedgerProofs` (from all of these and `EntriesAssumption`, that `Nil` is not an entry):

- `BInvInvariant`: `Spec => []BInv`
- `ImplementsLedger`: `Spec => LedgerSpec`, the refinement
- `EndsAreFinal`: `Spec => RecordsEndOnce`
- `PlansPoliced`: `Spec => PlansArePoliced`
- `ChangesSeen`: `Spec => ChangesAreSeen`
- `SeedsNeverOverwrite`: `Spec => SeedNeverOverwrites`
- `LoadsOnce`: `Spec => []OneSelect`

Here too the scripts check less than they rely on. SETTLE and REFUND compare a status: not the token
and not the amounts. A REFUND with another reservation's plan, or a SETTLE whose charge and refund do
not add up to what was held, would be applied. `BInv` adds to `IInv` that nobody can send one:
(1) whoever will end a reservation, its call (`CallFits`), a reaper (`ReaperFits`) or a script still
in the network (`InvocationFits`), carries the plan of the record under that id, and a charge and
refund that make it up; (2) what a RESERVE takes is what the policy makes of the balance, if the
balance still has the version (`ReserveFits`); (3) a seed is the row (`SeedFits`), so loading is
invisible to the ledger; (4) a token stands for one attempt of one call, and while that call may
still meet the token it carries that plan (`TokensFit`): a retry that finds a record with its own
token has found its own reservation, and a late RESERVE of an earlier attempt is not taken for it.
The proof has three layers: what each script does to purses and entries (`…Moves…`), that each
handler keeps `BInv`, and, under `BInv`, that each of these moves is a `Hold`, `Charge`, `Return` or
`TopUp` of `Ledger` or leaves purses and entries alone. `LoadsOnce` needs one thing more,
`LoadersInTurn`: as long as no lock has run out under its holder, whoever is between lock and unlock
holds the very lock, and from the second look at the cache to the seed the balance is absent, so
that a holder cannot be there with another one.

The last part of the module is about sums:

- `MoneyConserved`: `Spec => []Conservation`

`Conservation` compares sums over all generations and top-ups of a user. `Books`, its inductive
invariant, speaks of the ledger's purses and entries and of a command behind each credit: a purse is
the row it started from, plus the credits, minus the holds and charges. Each step of the ledger
changes one term and one purse by the same amount (`EntryKeepsBooks`, `TopUpKeepsBooks`), and
the refinement has shown that there are no other steps. That a sum changes by what its one changed
term does, and that the fold which computes it does not depend on the order it takes (`SumsAgree`, `SumChanges`), is
induction on finite sets; it goes through the well-foundedness of strict subsets, since the
library's induction theorems take an operator as a parameter.

`BillingAnswersProofs` (from the same assumptions):

- `AInvInvariant`: `Spec => []AInv`
- `ProviderCalledOnce`: `Spec => []ProviderOnce`
- `IndexExact`: `Spec => []InflightIsRunning`
- `AnswersAgree`: `Spec => []OutcomeIsRecorded`
- `RunningOwned`: `Spec => []RunningHasOwner`
- `DenialsAreNew`: `Spec => OnlyNewIdsAreDenied`

None of these is inductive, and none follows from `BInv`, which says what a sender carries but not
what the record has come to meanwhile. `AInv` adds that: (1) a record, or a RESERVE still in the
network, is for the request its token's call was sent (`RecordsBelong`); (2) a call that meets its
own token while still at `reserve` has not called the provider and nobody has charged the record
(`CallKnows`), so the retry that recognises its reservation is the first to go on; (3) a call that has
called the provider owns the record, and as long as it is at `provider` or `refund` the record is not
charged and no SETTLE is on its way; at `settle` every charge, made or on its way, is its own; (4) a
record does not go away and one that has ended stays so, hence `forget_inflight` takes out nothing that
runs (`ReaperKnows`); (5) a user with a record has a balance, so SETTLE and REFUND answer `MISSING`
only where Redis loses data (`BalancesStay`); (6) without faults no script is late and every id in
the index has its owner (`OwnersStay`). The proof sorts the steps by what they do to a record: nothing,
one script, or one id forgotten (`Touches`), and the steps of a call by what it has to do with its
record (`Goes`); each part of `AInv` then needs a few cases instead of one per handler. `DenialsAreNew`
reads off the same cases: only the branch of `_denied_or_duplicate` that found no record denies
(`DeniesUnrecorded`), and without a record the provider was not called (`ProviderOnce`).

`BillingClockProofs` (from those of `BillingLedgerProofs`, `TimesAssumption` and `OrderAssumption`):

- `NothingLapses`: `ClockSpec => []RecordsOutliveReservations`, if `Reapers # {}`
- `NoLoaderTimesOut`: `ClockSpec => []LoadersOutlastACrash`, if
  `(MaxFaults + 1) * LOAD_LOCK_TTL < LOAD_WAIT_TIMEOUT`
- `CallsKeepReservations`: `ClockSpec => []CallsKeepTheirReservation`, if `Reapers # {}`
- `CalledOncePerTtl`: `ClockSpec => OncePerTtl`, if `Reapers # {}`

The first two are amortised: what one actor may cost another is charged to something that is used up.
`NothingLapses` says that a record still running is reaped before its TTL is out, with any number of
ids and background processes. A reservation that is old may have to wait for the reaper, and the
reaper may be kept from it by other ids and by faults. `RecordsInv` bounds the wait: what has passed
of the TTL of a running record is at most `REAP_AFTER + FLUSH_INTERVAL`, plus `SEND` for each id that
has ended since (`Spent`), plus `SEND + MAX_OUTAGE` for each fault (`Delay`), for each reaper
(`InTime`). An id is spent once: its own record got a new TTL when it ended, so it counts in `Spent`
from then on, and no longer stands in the way. A refund that is under way counts in either of the two,
not in both. For this the reaper has to find what it took out of the index still there, or ended not
long ago: what has ended under its hands has done so since it took them (`Spell`), so no record it has
in hand can expire. `OrderAssumption` keeps the sum below `GENERATION_RECORD_TTL`. With the numbers of
the source, a day against five minutes and a second, it leaves room for thousands of refunds that each
take seconds. It is coarser than the proof needs: it makes room for all the ids of the model, the sum
only counts those that end while the reservation waits. Without a background process nothing is ever refunded, hence the hypothesis.

`NoLoaderTimesOut` is about the queue at a load lock. Whoever has to queue has done so for at most one
TTL per fault, and one more if the holder is loading now or has loaded (`Grace`), less what is left of
the lock (`Rest`). A fault, be it the death of a holder or a TTL running out under a living one, pays
for a new TTL; a holder that meets no fault leaves the balance behind, so there is no second one after
it (`LocksMove`, `LockMoves`). `OrderAssumption` alone, which is what the comment in `config.py` asks
for, allows for a dead holder whose successor loads in no time; the hypothesis is that comment for
`MaxFaults` of them. The defaults (15 s, 5 s) satisfy it for one fault and, at equality, just miss it
for two: a loader behind two dead holders, and a load that takes a whole TTL, may still find the lock
taken at its deadline.

The other two are about a call and its own record. That nobody ends a reservation underneath the call
that made it is a race of three: the call, the reapers, and the scripts whose replies were lost.
`CallsInv` adds to `RecordsInv` and `BInv` what each of them knows of the record's age. The record of
a call that has still to settle is at most `SEND + PROVIDER_TIMEOUT + SEND` old if it runs, less than
`REAP_AFTER`, so no reaper has it in hand; one that was ended while the call was at it (by its own
earlier attempt) ended no longer ago than the call has been trying (`Calling`). A lost SETTLE or
REFUND finds its record still there; if it runs, it is old enough for a reaper, or its call is still
trying the very same script, or has given up (`Stray`): so a lost REFUND never meets a call that settles.
As long as the provider's call is remembered, the record that came of it is there, or a TTL has
passed (`Remembered`); a retry of RESERVE that recognises its own reservation has not called the
provider before it, within that TTL. No record a call, a reaper or a lost script is
about can expire: what has ended did so less than `MaxFaults * SEND + SEND` ago (`NobodyNeeds`). And
what runs does not expire, for there is a background process: hence the hypothesis. The proof sorts
the steps of a call by what they mean to its reservation (`CallTurns`), and each script that runs or is
lost by who sent it (`EndedBy`, `CalledBy`, `SentBy`).

`BillingRestartProofs` (from the assumptions of `BillingProofs`, for any number of restarts):

- `RestartInvariant`: `LossySpec => []RestartInv`
- `ReservationsStayListed`: `LossySpec => []IndexSurvives`
- `SurvivorsEndThemselvesOnce`: `LossySpec => SurvivorsEndOnce`

After a restart nobody's snapshot, plan or token need fit anything, so nothing of `Vouched`, `BInv`
or `AInv` is left. `RestartInv` says what is: types, in memory and on disk; records and index agree,
in memory and on disk, since a script writes both at once and a restart brings back both of one
moment; and a reaper knows what it needs of an id it took since the last restart, that there is a
record and, when it is about to forget the id, that the record has ended (`StillKnows`). For the ids
in `interrupted` it claims nothing, and that is all that is lost. The step lemmas are those of
`BillingProofs` from `TInv` alone: what a script does to one record and its place in the index
(`ScriptIndexes`), that only scripts and `forget_inflight` touch either (`NextMovesRecords`), and that
between two restarts no script changes more of a record than its end (`MovedRecordsKept`): owner,
token and plan stay.

`WriteBehindProofs` (from `NilAssumption`, `MaxFaultsAssumption`, `LossesAssumption`,
`GrainAssumption`, `ClientsAssumption`, `CommandsAssumption` and `WriteBehind`'s `RowsAssumption`, for
any sets of users, clients and flushers, any batch size and any number of faults and losses):

- `WInvInvariant`: `Spec => []WInv`
- `WriteBehindTyped`: `Spec => []TypeOK`
- `RowsAdvance`: `Spec => RowOnlyAdvances`
- `RowsNeverAhead`: `Spec => []RowNeverAhead`
- `CleanDurable`: `Spec => []CleanIsDurable`, if `~LossesMidFlush`
- `ChangesKept`: `Spec => []ChangeDuringFlushIsKept`, if `~LossesMidFlush`

A flusher compares version numbers only, twice: in the upsert's `WHERE` and in CLEAR_DIRTY. `WInv` says
what makes a number stand for a balance: (1) what a flusher has read is the balance or an older
version of it (`Current`); (2) after the transaction it is durable, no longer current, or on the list
to be repaired, and the repair takes the balance past it (`Flushed`), so CLEAR_DIRTY meets its own
version only on a balance that is durable; (3) a flag that is off, in memory or on disk, stands for a
durable balance (`CleanOK`), and a loader seeds only what is durable or is turned away (`SeedOK`),
which is why a seed needs no flag; (4) a user without a row started from nothing (`FromZero`), since
there the upsert compares nothing. All this is lost with the data of Redis under a flush, so `WInv`
claims it while `Calm`; that nothing is ahead (`KeptOK`) only until the first loss. The types, and
with them `RowsAdvance`, need neither.

`WriteBehindProofs` also has the theorems of `UpsertTransactions` (with `KeysAssumption`, that the
primary key orders finitely many users totally, and `NobodyAssumption`, that `Nil` is no flusher):

- `TransactionsAreAtomic`: `TxnSpec => AtomicUpserts`, that is, the transactions implement
  `WriteBehind`, and the theorems above hold of them too
- `FlushersNeverDeadlock`: `TxnSpec => []NoCircularWait`

`UpsertMany` of `WriteBehind` decides about all rows at once; a transaction meets them one by one,
while others commit. `TInv` says why that makes no difference: a row a transaction has locked, one that
`WHERE` rejected included, is what it was when it was met, until the transaction ends (`Undisturbed`),
so at COMMIT it holds of every row what it held when the row was locked or selected. It also says
that what is left to lock comes after what is locked. So whoever waits has more rows ahead than the
one it waits for, if that one waits as well (`WaitingAscends`); among finitely many users that cannot
go round, for any number of flushers.

**Only model-checked.** Liveness under fairness, and `ENABLED`, are beyond the prover. So is what a
recursive definition computes for every input, and any module that declares a RECURSIVE operator;
none does, since the only loop over data is at most three rounds long and in closed form.

## Findings

1. **A free generation is redelivered as a paid one** (`app/billing/generation.py:146`).
   `record.billed_cost_usd or record.authorized_cost_usd`: a charge of `Decimal(0)` is false, so the
   second delivery reports the authorized cost although nothing was charged. The documentation says
   a redelivery gives what was charged. `OutcomeIsRecorded` excuses exactly this case.
2. **A balance can become negative after Redis restarts behind acknowledged writes**
   (`scripts.py:33`). Versions are numbers that are counted again after the restart. A call that
   waits at RESERVE with a snapshot from before it may meet the same version on another balance. The
   documented window of data loss does not mention it, and "never negative" is stated without it.
   `authorize` then raises `ValueError` for that user until money comes in.
3. **A restart in the middle of a flush can leave a change out of PostgreSQL with its flag down**
   (`flusher.py:61`, CLEAR_DIRTY). Same cause. It heals with the next change of that balance.

A narrower window of the same kind is no finding, since nothing in the repository speaks of it: a reaper
that had an id in hand when Redis restarted may forget it while it is a reservation again, which then
nobody refunds. `IndexSurvives` exempts such ids and shows that there is no other way to lose one.

`NeverOverdrawn`, `CleanIsDurable` and the others hold as long as Redis keeps its data, and
`CleanIsDurable` also across restarts between flushes (`CleanDurable`).

## Not modelled

- The TTL of a top-up marker (a day): a redelivery after it counts again, by design. That of a
  generation record is in `BillingClock`.
- A restart that loses a top-up marker whose balance is already in PostgreSQL.
- `updated_at`; the width of `NUMERIC` and `INTEGER` columns and of Redis integers, hence a row that
  PostgreSQL rejects; unreadable values (dead letters).
- Contents, error texts, logging, jitter and back-off.
- Lost replies of commands whose repetition changes nothing (`ZREM`, `CLEAR_DIRTY`,
  `ADVANCE_VERSION`, `RELEASE_LOAD_LOCK`, `SEED_IF_ABSENT`): a failure of one is a crash of its caller, and
  none of them lands after it. Of these only a seed carries a balance. One that lands late is what
  `Seed` of a slow loader does, which may come at any time, after its lock has run out too.
- Parsing of settings, command line, dependency injection, migrations: no state changes after start.
- The scenarios and statistics of the fake provider: it stands for a service outside.

## Plan

Done: the core (policy, store, loader, services, reaper, flusher, restarts), the ledger and the proof
that the service implements it, the clock, the transactions, the runs above. Left:

1. Bookkeeping across restarts: markers of top-ups, on a Redis that comes back on older data while
   PostgreSQL does not.
2. Widths of columns, and what one row that PostgreSQL rejects does to the flushes after it.
