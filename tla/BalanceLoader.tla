---------------------------- MODULE BalanceLoader ----------------------------
(***************************************************************************)
(* The coroutines that work on the store, and the loader every one of them *)
(* goes through on a cache miss (BalanceLoader.ensure_loaded).             *)
(*                                                                         *)
(* A task is one service call, or the loop of a background process.  Its   *)
(* record holds where it waits (pc) and the locals that outlive an await.  *)
(* What a coroutine does between two awaits is part of the step that       *)
(* resumes it: a reply is handled in the step in which Redis answers.      *)
(*                                                                         *)
(* ensure_loaded is a subroutine: a task enters at pc "load", having set   *)
(* ret to the pc it continues at, and returns with the balance in snap.    *)
(***************************************************************************)
EXTENDS BalanceStore

CONSTANTS
  Tasks,
  RESERVE_MAX_ATTEMPTS,   \* rounds of every retry loop of the services
  RETRY_ATTEMPTS          \* sends of one script before a transport error is raised

ASSUME AttemptsAssumption ==
  /\ RESERVE_MAX_ATTEMPTS \in Nat \ {0}
  /\ RETRY_ATTEMPTS \in Nat \ {0}

VARIABLES
  task,   \* the record of each task
  lock    \* bal:load:{user_id}: the task whose token the key holds

Blank ==
  [pc |-> "idle", ret |-> "idle", work |-> Nil, user_id |-> Nil, id |-> Nil,
   snap |-> Nil, auth |-> Nil, plan |-> NoAmounts,
   charged |-> 0, refund |-> NoAmounts,
   attempt |-> 0, tries |-> 0, outcome |-> Nil]

\* What ends a task: an answer, one of the service's errors, a transport error, or
\* a fault that leaves nobody to tell.
OutcomeKinds ==
  AccessErrors \cup
    {"result", "ValueError", "InvalidInput", "GenerationFailed", "cancelled",
     "GenerationInProgress", "BalanceContention", "RedisError", "aborted"}

Outcomes == [kind : OutcomeKinds, billed_cost_usd : Nat]

Raised(error) == [kind |-> error, billed_cost_usd |-> 0]
Returned(billed) == [kind |-> "result", billed_cost_usd |-> billed]

\* The task is over; only what it was asked and what came of it are kept.
Ended(t, outcome) ==
  [Blank EXCEPT !.pc = "done", !.work = t.work, !.outcome = outcome]

LoaderPcs == {"load", "lock", "recheck", "select", "seed", "release"}

\* Where a task is in its own code: the place ensure_loaded returns to, if there.
Where(t) == IF t.pc \in LoaderPcs THEN t.ret ELSE t.pc

At(a, pc) == task[a].pc = pc

Set(a, t) == task' = [task EXCEPT ![a] = t]

Goto(a, pc) == Set(a, [task[a] EXCEPT !.pc = pc])

\* One more round of a retry loop, after ensure_loaded.
Reload(t, ret) ==
  [t EXCEPT !.pc = "load", !.ret = ret, !.attempt = @ + 1, !.tries = 0]

-----------------------------------------------------------------------------
\* Where a retry loop tests its range; a task that has used it up raises.
LoopHeads == {"authorize", "settle", "refund", "top_up"}

InRange(a) == task[a].attempt < RESERVE_MAX_ATTEMPTS

GiveUp(a) ==
  /\ task[a].pc \in LoopHeads
  /\ ~InRange(a)
  /\ Set(a, Ended(task[a], Raised("BalanceContention")))
  /\ UNCHANGED <<redis, row, network, lock>>

\* _retrying: send the same script again, a bounded number of times.
LoseReply(a, inv) ==
  /\ SendAndLose(inv)
  /\ Set(a, IF task[a].tries + 1 < RETRY_ATTEMPTS
              THEN [task[a] EXCEPT !.tries = @ + 1]
              ELSE Ended(task[a], Raised("RedisError")))
  /\ UNCHANGED <<row, lock>>

\* The process dies, the task is cancelled outside the provider call, or a call
\* nobody retries fails.  A script the task was waiting for may still land.
Abandon(a, sent) ==
  /\ task[a].pc \notin {"idle", "done"}
  /\ faults < MaxFaults
  /\ faults' = faults + 1
  /\ late' = late \cup sent
  /\ Set(a, Ended(task[a], Raised("aborted")))
  /\ UNCHANGED <<redis, row, lock>>

-----------------------------------------------------------------------------
Load(a) ==
  /\ At(a, "load")
  /\ LET u == task[a].user_id
     IN  IF bal[u] # Nil
           THEN Set(a, [task[a] EXCEPT !.pc = task[a].ret, !.snap = bal[u]])
           ELSE Goto(a, "lock")
  /\ UNCHANGED <<redis, row, network, lock>>

TryAcquireLoadLock(a) ==
  /\ At(a, "lock")
  /\ LET u == task[a].user_id
     IN  IF lock[u] = Nil
           THEN /\ lock' = [lock EXCEPT ![u] = a]
                /\ Goto(a, "recheck")
           ELSE /\ Goto(a, "load")
                /\ UNCHANGED lock
  /\ UNCHANGED <<redis, row, network>>

LoadTimesOut(a) ==
  /\ At(a, "lock")
  /\ lock[task[a].user_id] # Nil
  /\ Set(a, Ended(task[a], Raised("BalanceContention")))
  /\ UNCHANGED <<redis, row, network, lock>>

\* The second look, under the lock, and the mutant without it.
NotLoaded(u) == FALSE
LoadedMeanwhile(u) == bal[u] # Nil

Recheck(a) ==
  /\ At(a, "recheck")
  /\ LET u == task[a].user_id
     IN  IF LoadedMeanwhile(u)
           THEN Set(a, [task[a] EXCEPT !.pc = "release", !.snap = bal[u]])
           ELSE Goto(a, "select")
  /\ UNCHANGED <<redis, row, network, lock>>

LoadFromDb(a) ==
  /\ At(a, "select")
  /\ Set(a, [task[a] EXCEPT !.pc = "seed",
                            !.snap = StoredBalance(task[a].user_id)])
  /\ UNCHANGED <<redis, row, network, lock>>

Seed(a) ==
  /\ At(a, "seed")
  /\ SEED_IF_ABSENT(task[a].user_id, task[a].snap)
  /\ Set(a, [task[a] EXCEPT !.pc = "release", !.snap = Nil])
  /\ UNCHANGED <<row, network, lock>>

\* RELEASE_LOAD_LOCK; a loader that found the balance returns, one that seeded
\* it looks again.
ReleaseLoadLock(a) ==
  /\ At(a, "release")
  /\ LET u == task[a].user_id
     IN  lock' = IF lock[u] = a THEN [lock EXCEPT ![u] = Nil] ELSE lock
  /\ Goto(a, IF task[a].snap = Nil THEN "load" ELSE task[a].ret)
  /\ UNCHANGED <<redis, row, network>>

Holding(a, u) ==
  /\ task[a].pc \in {"recheck", "select", "seed", "release"}
  /\ task[a].user_id = u
  /\ lock[u] = a

\* Mutant: SET NX without PX.
LockStays(u) == FALSE

\* PX LOAD_LOCK_TTL_MS: sooner or later for a lock nobody will release; under a
\* living holder only when it is slower than the TTL, which counts as a fault.
LockExpires(u) ==
  /\ lock[u] # Nil
  /\ IF \E a \in Tasks : Holding(a, u)
       THEN faults < MaxFaults /\ faults' = faults + 1
       ELSE UNCHANGED faults
  /\ lock' = [lock EXCEPT ![u] = Nil]
  /\ UNCHANGED <<redis, row, late, task>>

Ensure(a) ==
  \/ Load(a)
  \/ TryAcquireLoadLock(a)
  \/ LoadTimesOut(a)
  \/ Recheck(a)
  \/ LoadFromDb(a)
  \/ Seed(a)
  \/ ReleaseLoadLock(a)

LoaderInit == lock = [u \in Users |-> Nil]

\* Progress of a loader that is not stopped by a fault.  Its deadline is not in
\* it: the TTL of the lock alone lets every loader through.
EnsureProgress(a) ==
  \/ Load(a)
  \/ TryAcquireLoadLock(a)
  \/ Recheck(a)
  \/ LoadFromDb(a)
  \/ Seed(a)
  \/ ReleaseLoadLock(a)

-----------------------------------------------------------------------------
\* Under the lock PostgreSQL is asked for a balance the store does not have:
\* never two at once, never for a user whose balance is already there, unless a
\* holder outlived its lock (ensure_loaded's second look, RELEASE_LOAD_LOCK
\* comparing tokens).
OneSelect ==
  faults = 0 =>
    \A a, b \in Tasks :
      /\ task[a].pc \in {"select", "seed"} =>
           bal[task[a].user_id] = Nil
      /\ (a # b /\ task[a].pc \in {"recheck", "select", "seed"}
                /\ task[b].pc \in {"recheck", "select", "seed"})
           => task[a].user_id # task[b].user_id

\* A balance is seeded only where there is none: once a key exists no loader,
\* however late, puts an older row over it (SEED_IF_ABSENT).
SeedNeverOverwrites ==
  [][\A u \in Users : (bal[u] # Nil /\ bal'[u] # bal[u])
       => bal'[u] # Nil /\ bal'[u].version > bal[u].version]_bal
=============================================================================
