---------------------------- MODULE BalanceFlusher ----------------------------
(***************************************************************************)
(* BalanceFlusher: the write-behind loop of a background process.  A flush *)
(* takes a batch of dirty users, reads their balances one HGETALL after    *)
(* the other, upserts them in one PostgreSQL transaction, repairs the      *)
(* versions of rejected rows, and clears the flags whose version has not   *)
(* moved.  Anything may happen to Redis between any two of these.          *)
(*                                                                         *)
(* The transaction is one step, its commit: the upsert locks the rows it   *)
(* accepts and the rows it rejects until then, in primary-key order, so    *)
(* the SELECTs that follow see what it saw.  UpsertTransactions takes the  *)
(* transaction apart.                                                      *)
(***************************************************************************)
EXTENDS BalanceStore

CONSTANTS
  Flushers,           \* background processes
  FLUSH_BATCH_SIZE

ASSUME BatchAssumption == FLUSH_BATCH_SIZE \in Nat \ {0}

VARIABLE flush   \* the locals of each flusher

Resting ==
  [pc |-> "idle", users |-> {}, snapshots |-> [u \in Users |-> Nil],
   todo |-> {}, stored |-> [u \in Users |-> Nil], stopping |-> FALSE]

Flushing(f, pc) == flush[f].pc = pc

SetFlush(f, r) == flush' = [flush EXCEPT ![f] = r]

\* The flush is over; a process that was told to stop stops.
Rested(f) ==
  IF flush[f].stopping THEN [Resting EXCEPT !.pc = "stopped"] ELSE Resting

\* SRANDMEMBER bal:dirty: as many distinct users as fit the batch.
DirtyUsers(f, batch) ==
  /\ Flushing(f, "idle")
  /\ batch \subseteq dirty
  /\ Cardinality(batch) = Lesser(FLUSH_BATCH_SIZE, Cardinality(dirty))
  /\ SetFlush(f, IF batch = {} THEN Rested(f)
                 ELSE [flush[f] EXCEPT !.pc = "load", !.users = batch, !.todo = batch])
  /\ UNCHANGED <<redis, row, network>>

\* load_many: a pipeline without a transaction.
LoadOne(f, u) ==
  /\ Flushing(f, "load")
  /\ u \in flush[f].todo
  /\ LET rest == flush[f].todo \ {u}
     IN  SetFlush(f, [flush[f] EXCEPT !.snapshots[u] = bal[u], !.todo = rest,
                                      !.pc = IF rest = {} THEN "upsert" ELSE @])
  /\ UNCHANGED <<redis, row, network>>

\* Mutant: ON CONFLICT DO UPDATE without WHERE.
AcceptsAny(u, snapshot) == TRUE

Accepts(u, snapshot) == row[u] = Nil \/ snapshot.version > row[u].version

\* upsert_many, the SELECT of every rejected row, COMMIT.  Only the rejected
\* rows whose state differs from the snapshot go on to be repaired.
UpsertMany(f) ==
  LET snaps    == flush[f].snapshots
      rows     == {u \in flush[f].users : snaps[u] # Nil}
      written  == {u \in rows : Accepts(u, snaps[u])}
      differs  == {u \in rows \ written : row[u] # snaps[u]}
  IN  /\ Flushing(f, "upsert")
      /\ row' = [u \in Users |-> IF u \in written THEN snaps[u] ELSE row[u]]
      /\ SetFlush(f, [flush[f] EXCEPT
                        !.stored = [u \in Users |-> IF u \in differs THEN row[u] ELSE Nil],
                        !.pc = IF differs = {} THEN "clear" ELSE "repair",
                        !.todo = IF differs = {} THEN flush[f].users ELSE differs])
      /\ UNCHANGED <<redis, network>>

\* Mutant: level with the row instead of past it.
LevelVersion(stored) == stored.version
NextVersion(stored) == stored.version + 1

RepairRegressed(f, u) ==
  /\ Flushing(f, "repair")
  /\ u \in flush[f].todo
  /\ ADVANCE_VERSION(u, flush[f].snapshots[u].version, NextVersion(flush[f].stored[u]))
  /\ LET rest == flush[f].todo \ {u}
     IN  SetFlush(f, [flush[f] EXCEPT
                        !.todo = IF rest = {} THEN flush[f].users ELSE rest,
                        !.pc = IF rest = {} THEN "clear" ELSE @])
  /\ UNCHANGED <<row, network>>

\* Mutant: every user is taken for one who had no balance.
FlushedNothing(f, u) == -1

\* clear_dirty: a pipeline of CLEAR_DIRTY, -1 for a user who had no balance.
FlushedVersion(f, u) ==
  LET snapshot == flush[f].snapshots[u]
  IN  IF snapshot = Nil THEN -1 ELSE snapshot.version

ClearOne(f, u) ==
  /\ Flushing(f, "clear")
  /\ u \in flush[f].todo
  /\ CLEAR_DIRTY(u, FlushedVersion(f, u))
  /\ LET rest == flush[f].todo \ {u}
     IN  SetFlush(f, IF rest = {} THEN Rested(f) ELSE [flush[f] EXCEPT !.todo = rest])
  /\ UNCHANGED <<row, network>>

FlushStep(f) ==
  \/ \E batch \in SUBSET dirty : DirtyUsers(f, batch)
  \/ \E u \in Users : LoadOne(f, u)
  \/ UpsertMany(f)
  \/ \E u \in Users : RepairRegressed(f, u)
  \/ \E u \in Users : ClearOne(f, u)

\* SIGTERM: run() is cancelled wherever it is, flushes once more, and ends.
StopFlusher(f) ==
  /\ flush[f].pc # "stopped"
  /\ ~flush[f].stopping
  /\ SetFlush(f, [Resting EXCEPT !.stopping = TRUE])
  /\ UNCHANGED <<redis, row, network>>

\* The process dies, or an error nobody handles ends it, and it starts again.
FlusherCrashes(f) ==
  /\ flush[f].pc \notin {"idle", "stopped"}
  /\ faults < MaxFaults
  /\ faults' = faults + 1
  /\ SetFlush(f, Resting)
  /\ UNCHANGED <<redis, row, late>>

FlusherInit == flush = [f \in Flushers |-> Resting]

FlusherTypeOK ==
  flush \in [Flushers ->
    [pc : {"idle", "load", "upsert", "repair", "clear", "stopped"},
     users : SUBSET Users, snapshots : [Users -> Snapshots \cup {Nil}],
     todo : SUBSET Users, stored : [Users -> Snapshots \cup {Nil}],
     stopping : BOOLEAN]]
=============================================================================
