------------------------------ MODULE WriteBehind ------------------------------
(***************************************************************************)
(* The write-behind path: clients that change and read balances, the       *)
(* background processes that copy them to PostgreSQL, and a Redis that may *)
(* restart on older data.  Top-ups stand for every writer: all a flusher   *)
(* sees of one is a version that moved and a dirty flag.                   *)
(***************************************************************************)
EXTENDS BalanceService, BalanceFlusher, RedisServer

CONSTANTS
  InitialRows,        \* the PostgreSQL tables a run may start from
  Stoppable,          \* flushers an operator may stop
  LossesMidFlush      \* may Redis lose data while a flush is under way

ASSUME ClientsAssumption == TopUps \cup Readers \subseteq Tasks

ASSUME CommandsAssumption ==
  Commands \subseteq
    [operation_id : OperationIds, user_id : Users, paid_usd : Int,
     bonus_usd : Int, free_requests : Int]

ASSUME RowsAssumption == InitialRows \subseteq [Users -> Balances \cup {Nil}]

vars == <<redis, row, network, task, lock, flush, disk, losses>>

Init ==
  /\ row \in InitialRows
  /\ StoreInit
  /\ bal = [u \in Users |-> Nil]
  /\ LoaderInit
  /\ task = [a \in Tasks |-> Blank]
  /\ FlusherInit
  /\ ServerInit

\* Clients, and what a broken connection of theirs still delivers.
ClientStep ==
  /\ \/ \E t \in TopUps : TopUpStep(t)
     \/ \E t \in Readers : ReaderStep(t)
     \/ \E u \in Users : LockExpires(u)
     \/ (\E inv \in late : Land(inv)) /\ UNCHANGED <<task, lock>>
  /\ UNCHANGED <<flush, disk, losses>>

FlusherStep(f) ==
  /\ \/ FlushStep(f)
     \/ f \in Stoppable /\ StopFlusher(f)
     \/ FlusherCrashes(f)
  /\ UNCHANGED <<task, lock, disk, losses>>

MayLose ==
  LossesMidFlush \/ \A f \in Flushers : flush[f].pc \in {"idle", "stopped"}

ServerStep ==
  /\ \/ Fsync
     \/ MayLose /\ Lose
  /\ UNCHANGED flush

Next ==
  \/ ClientStep
  \/ \E f \in Flushers : FlusherStep(f)
  \/ ServerStep

Spec == Init /\ [][Next]_vars

(***************************************************************************)
(* Fairness: a background process keeps going, and SRANDMEMBER, which is   *)
(* random, picks a user who stays dirty sooner or later.  Clients, faults, *)
(* fsyncs and losses owe nothing.                                         *)
(***************************************************************************)
Picks(f, u) ==
  /\ \E batch \in SUBSET dirty : u \in batch /\ DirtyUsers(f, batch)
  /\ UNCHANGED <<task, lock, disk, losses>>

Works(f) ==
  /\ FlushStep(f)
  /\ UNCHANGED <<task, lock, disk, losses>>

Fairness ==
  \A f \in Flushers \ Stoppable :
    WF_vars(Works(f)) /\ \A u \in Users : SF_vars(Picks(f, u))

FairSpec == Spec /\ Fairness

-----------------------------------------------------------------------------
TypeOK ==
  /\ StoreTypeOK
  /\ FlusherTypeOK
  /\ lock \in [Users -> Tasks \cup {Nil}]
  /\ losses \in 0 .. MaxLosses

\* A flag comes off only when PostgreSQL holds the balance as it is: a change
\* that happens while a flush is under way is never dropped, whatever the other
\* flushers do (upsert_many's WHERE, CLEAR_DIRTY's version).  After a restart
\* Redis may also be behind a row it flushed before.
CleanIsDurable ==
  \A u \in Users : (bal[u] # Nil /\ u \notin dirty) =>
    \/ StoredBalance(u) = bal[u]
    \/ losses > 0 /\ row[u] # Nil /\ row[u].version > bal[u].version

\* Redis stays the source of truth: as long as it keeps its data PostgreSQL is
\* never ahead of it, and never holds another balance under the same version.
RowNeverAhead ==
  losses = 0 =>
    \A u \in Users : (row[u] # Nil /\ bal[u] # Nil) =>
      /\ row[u].version <= bal[u].version
      /\ row[u].version = bal[u].version => row[u] = bal[u]

\* The change made while a flush was running is not lost: when the flag is off
\* and the versions agree, so do the balances.
ChangeDuringFlushIsKept ==
  \A u \in Users :
    (bal[u] # Nil /\ row[u] # Nil /\ u \notin dirty
       /\ bal[u].version = row[u].version) => bal[u] = row[u]

\* A row is only ever replaced by a newer version of it: a slow flusher never
\* writes an older snapshot over a newer one (upsert ... WHERE excluded.version
\* > balance.version).
RowOnlyAdvances ==
  [][\A u \in Users : (row[u] # Nil /\ row'[u] # row[u])
       => row'[u] # Nil /\ row'[u].version > row[u].version]_row

\* When the writers fall silent the flags drain, and stay down: every rejected
\* row is repaired or was another flusher's, none is rejected for ever.
DirtyDrains == <>[](dirty = {})
=============================================================================
