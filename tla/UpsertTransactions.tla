--------------------------- MODULE UpsertTransactions ---------------------------
(***************************************************************************)
(* WriteBehind with the transaction of a flush taken apart.  The upsert    *)
(* locks its rows one after the other, in the order of its VALUES, and     *)
(* keeps them until the transaction ends, the rows ON CONFLICT rejects     *)
(* included; a row another transaction has locked, or is inserting, is     *)
(* waited for.  Then come the SELECTs of the rejected rows and COMMIT.     *)
(* Nothing is seen of a transaction before it commits, and nothing stays   *)
(* of one that is rolled back (ImplDatabase.__aexit__).                    *)
(*                                                                         *)
(* What WriteBehind does in one step, UpsertMany, is the COMMIT here.      *)
(***************************************************************************)
EXTENDS WriteBehind

CONSTANT KeyOf   \* the place of a user in the order of the primary key

ASSUME KeysAssumption ==
  /\ IsFiniteSet(Users)
  /\ KeyOf \in [Users -> Nat]
  /\ \A u, v \in Users : KeyOf[u] = KeyOf[v] => u = v

ASSUME NobodyAssumption == Nil \notin Flushers

VARIABLES
  txn,      \* the transaction each flusher has open
  locks     \* whose transaction has locked, or is inserting, a row

txnVars == <<vars, txn, locks>>

NoTxn == [open |-> FALSE, todo |-> {}, written |-> {}, rejected |-> {},
          stored |-> [u \in Users |-> Nil]]

SetTxn(f, t) == txn' = [txn EXCEPT ![f] = t]

Snapshot(f, u) == flush[f].snapshots[u]

RowsOf(f) == {u \in flush[f].users : Snapshot(f, u) # Nil}

\* async with self.db: the session begins, the upsert is sent.
BeginUpsert(f) ==
  /\ Flushing(f, "upsert")
  /\ ~txn[f].open
  /\ RowsOf(f) # {}
  /\ SetTxn(f, [NoTxn EXCEPT !.open = TRUE, !.todo = RowsOf(f)])
  /\ UNCHANGED <<vars, locks>>

\* Mutant: in the order in which Redis drew the users.
DrawnNext(f, u) == u \in txn[f].todo

\* The row the statement has come to.
NextRow(f, u) ==
  /\ u \in txn[f].todo
  /\ \A v \in txn[f].todo : KeyOf[u] <= KeyOf[v]

\* Mutant: a rejected row is not locked.
LockedIfAccepted(f, u) == Accepts(u, Snapshot(f, u))

LocksRow(f, u) == TRUE

LockRow(f, u) ==
  /\ txn[f].open
  /\ NextRow(f, u)
  /\ locks[u] = Nil
  /\ locks' = IF LocksRow(f, u) THEN [locks EXCEPT ![u] = f] ELSE locks
  /\ SetTxn(f, IF Accepts(u, Snapshot(f, u))
                 THEN [txn[f] EXCEPT !.todo = @ \ {u}, !.written = @ \cup {u}]
                 ELSE [txn[f] EXCEPT !.todo = @ \ {u}, !.rejected = @ \cup {u}])
  /\ UNCHANGED vars

\* The rows that RETURNING left out, one SELECT each.
SelectRejected(f, u) ==
  /\ txn[f].todo = {}
  /\ u \in txn[f].rejected
  /\ SetTxn(f, [txn[f] EXCEPT !.stored[u] = row[u], !.rejected = @ \ {u}])
  /\ UNCHANGED <<vars, locks>>

Unlocked(f) == [u \in Users |-> IF locks[u] = f THEN Nil ELSE locks[u]]

\* A row that was stored is repaired unless it is the snapshot.
Commit(f) ==
  LET t       == txn[f]
      differs == {u \in RowsOf(f) \ t.written : t.stored[u] # Snapshot(f, u)}
  IN  /\ t.open
      /\ t.todo = {} /\ t.rejected = {}
      /\ row' = [u \in Users |-> IF u \in t.written THEN Snapshot(f, u) ELSE row[u]]
      /\ SetFlush(f, [flush[f] EXCEPT
                        !.stored = [u \in Users |->
                                      IF u \in differs THEN t.stored[u] ELSE Nil],
                        !.pc = IF differs = {} THEN "clear" ELSE "repair",
                        !.todo = IF differs = {} THEN flush[f].users ELSE differs])
      /\ locks' = Unlocked(f)
      /\ SetTxn(f, NoTxn)
      /\ UNCHANGED <<redis, network, task, lock, disk, losses>>

\* The process dies, is cancelled, or a statement fails: ROLLBACK.
Rollback(f) ==
  /\ (f \in Stoppable /\ StopFlusher(f)) \/ FlusherCrashes(f)
  /\ SetTxn(f, NoTxn)
  /\ locks' = Unlocked(f)
  /\ UNCHANGED <<task, lock, disk, losses>>

UpsertStep(f) ==
  \/ BeginUpsert(f)
  \/ \E u \in Users : LockRow(f, u) \/ SelectRejected(f, u)
  \/ Commit(f)

\* The rest of a flush; with no rows there is no transaction.
OtherStep(f) ==
  /\ FlushStep(f)
  /\ Flushing(f, "upsert") => RowsOf(f) = {}
  /\ UNCHANGED <<task, lock, disk, losses, txn, locks>>

\* Every delivery is answered and the background processes are gone.
Quiet ==
  /\ \A t \in Tasks : At(t, "done")
  /\ \A f \in Flushers : Flushing(f, "stopped")
  /\ UNCHANGED txnVars

TxnInit ==
  /\ Init
  /\ txn = [f \in Flushers |-> NoTxn]
  /\ locks = [u \in Users |-> Nil]

TxnNext ==
  \/ /\ ClientStep \/ ServerStep
     /\ UNCHANGED <<txn, locks>>
  \/ Quiet
  \/ \E f \in Flushers : UpsertStep(f) \/ Rollback(f) \/ OtherStep(f)

TxnSpec == TxnInit /\ [][TxnNext]_txnVars

-----------------------------------------------------------------------------
\* A transaction is as good as one step: what the upsert accepted, rejected and
\* reported is what it would have been at the moment of COMMIT, whatever other
\* flushers commit in between; and a rollback leaves nothing (WriteBehind's own
\* next-state relation).
AtomicUpserts == Spec

WaitsFor(f, g) == f # g /\ \E u \in Users : NextRow(f, u) /\ locks[u] = g

\* Two flushers with overlapping batches never wait for each other (rows sorted
\* by primary key "so concurrent flushers never deadlock on row order").
NoCircularWait ==
  \A S \in (SUBSET Flushers) \ {{}} :
    \E f \in S : \A g \in S : ~WaitsFor(f, g)
=============================================================================
