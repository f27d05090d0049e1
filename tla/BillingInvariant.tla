--------------------------- MODULE BillingInvariant ---------------------------
(***************************************************************************)
(* The inductive invariant behind NonNegative, and behind TypeOK, which is *)
(* not inductive alone: what a task may do next depends on what it carries *)
(* at its pc.  BillingProofs proves it, MCBilling checks it.               *)
(***************************************************************************)
EXTENDS Billing

\* A snapshot taken some time ago: the balance has the same version only if it
\* is the same balance.
NotNewer(snap, balance) ==
  /\ balance # Nil
  /\ snap.version <= balance.version
  /\ snap.version = balance.version => snap = balance

\* Any task, in ensure_loaded or with a balance it brought from there.  A task
\* that has not chosen its user carries none.
LoaderShape(t) ==
  /\ t.pc \in {"idle", "inspect"} => t.snap = Nil
  /\ t.pc \in LoaderPcs \/ t.snap # Nil => t.user_id \in Users
  /\ t.pc = "seed" => t.snap \in Balances

Fresh(t, balances) ==
  t.pc # "seed" /\ t.snap # Nil => NotNewer(t.snap, balances[t.user_id])

CallShape(t) ==
  /\ t.pc \in LoaderPcs => t.ret \in {"authorize", "settle", "refund"}
  /\ Where(t) \in CallPcs =>
       /\ t.work \in Requests
       /\ t.work.model_name \in DOMAIN MODELS
       /\ t.user_id = t.work.user_id
       /\ t.id = t.work.client_request_id
  /\ t.pc \in {"authorize", "reserve"} => t.snap # Nil
  /\ t.pc = "denied" => t.auth \in Refusals
  /\ t.pc = "reserve" => t.auth \in Authorizations /\ Covers(t.snap, t.plan)
  /\ t.pc \in {"reserve", "denied", "wait"} => t.attempt < RESERVE_MAX_ATTEMPTS

TopUpShape(t) ==
  /\ t.pc \in LoaderPcs => t.ret = "top_up"
  /\ Where(t) = "top_up" =>
       /\ t.work \in Commands
       /\ ~InvalidTopUp(t.work)
       /\ t.user_id = t.work.user_id
       /\ t.id = t.work.operation_id

ReaderShape(t) == t.pc \in LoaderPcs => t.ret = "balance"

ReaperShape(t) ==
  /\ t.pc \in LoaderPcs => t.ret = "refund"
  /\ Where(t) \in ReaperPcs => t.work \in SUBSET RequestIds
  /\ Where(t) \in {"forget", "refund"} => t.id \in RequestIds
  /\ Where(t) = "refund" => t.user_id \in Users

Shape ==
  /\ \A c \in Calls : CallShape(task[c])
  /\ \A t \in TopUps : TopUpShape(task[t])
  /\ \A t \in Readers : ReaderShape(task[t])
  /\ \A r \in Reapers : ReaperShape(task[r])

\* A RESERVE that is still under way when its caller is gone.
Applicable(inv) ==
  /\ bal[inv.user_id] # Nil
  /\ inv.version <= bal[inv.user_id].version
  /\ inv.version = bal[inv.user_id].version => Covers(bal[inv.user_id], inv.plan)

LateSound == \A inv \in late : inv.script = "RESERVE" => Applicable(inv)

\* What holds of the keys and the tasks whatever Redis loses.
TInv ==
  /\ TypeOK
  /\ Shape
  /\ \A a \in Tasks : LoaderShape(task[a])
  /\ \A u \in Users : row[u] # Nil => row[u] \in Balances

\* What holds besides as long as it loses nothing.
Vouched ==
  /\ \A a \in Tasks : Fresh(task[a], bal)
  /\ LateSound
  /\ NonNegative

\* A plan is only ever carried with a snapshot that covers it, and a snapshot
\* whose version is still current is the balance: so RESERVE, which compares
\* versions alone, never debits what is not there, whoever sent it and whenever
\* it arrives.
IInv == TInv /\ Vouched

\* The places of ensure_loaded between its lock and its unlock.
UnderLock == {"recheck", "select", "seed", "release"}

\* With IInv, and for OneSelect: while nothing is lost a task under the lock is
\* the one whose token the lock has, and one that asks PostgreSQL finds Redis
\* without the balance until it has seeded it.
LoadersInTurn ==
  faults = 0 =>
    \A a \in Tasks :
      /\ task[a].pc \in UnderLock => lock[task[a].user_id] = a
      /\ task[a].pc \in {"select", "seed"} => bal[task[a].user_id] = Nil
=============================================================================
