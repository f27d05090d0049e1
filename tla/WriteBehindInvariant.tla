-------------------------- MODULE WriteBehindInvariant --------------------------
(***************************************************************************)
(* Why PostgreSQL is never ahead and a clean balance is durable: the       *)
(* invariant behind RowNeverAhead and CleanIsDurable.  CLEAR_DIRTY and the *)
(* upsert compare version numbers; what makes a number stand for a balance *)
(* is that versions only move forward under a flush.  WriteBehindProofs    *)
(* proves it.                                                              *)
(***************************************************************************)
EXTENDS WriteBehind

\* A balance under a version that counts from zero.
Versioned == {b \in Snapshots : b.version >= 0}
Caches == [Users -> Versioned \cup {Nil}]
Locks == [Users -> Tasks \cup {Nil}]
NoRecords == [id \in RequestIds |-> Nil]

Disks ==
  [bal : Caches, gen : {NoRecords}, topup : SUBSET OperationIds,
   dirty : SUBSET Users, inflight : {{}}, lock : Locks]

KeysTyped ==
  /\ bal \in Caches /\ row \in Caches
  /\ gen = NoRecords /\ inflight = {}
  /\ topup \subseteq OperationIds /\ dirty \subseteq Users
  /\ late \subseteq TopUpInvocations
  /\ faults \in 0 .. MaxFaults
  /\ lock \in Locks
  /\ disk \in Disks
  /\ losses \in 0 .. MaxLosses

\* The locals of a client, and what they are good for at its pc.
ClientPcs == {"idle", "done", "top_up", "balance"}

ClientRecords ==
  [pc : ClientPcs \cup LoaderPcs, ret : ClientPcs,
   work : Commands \cup Versioned \cup {Nil}, user_id : Users \cup {Nil},
   id : OperationIds \cup {Nil}, snap : Versioned \cup {Nil}, auth : {Nil},
   plan : {NoAmounts}, charged : {0}, refund : {NoAmounts},
   attempt : Nat, tries : Nat, outcome : Outcomes \cup {Nil}]

ClientSound(t) ==
  /\ t \in ClientRecords
  /\ t.pc \in LoaderPcs => t.user_id \in Users
  /\ t.pc = "seed" => t.snap # Nil
  /\ Where(t) = "top_up" =>
       /\ t.user_id \in Users /\ t.id \in OperationIds
       /\ t.work \in Commands /\ ~InvalidTopUp(t.work)

ClientsSound == DOMAIN task = Tasks /\ \A a \in Tasks : ClientSound(task[a])

\* A flusher at rest has nothing in hand; what is to be repaired was read, and
\* its row was not older.
FlusherSound(r) ==
  /\ r \in [pc : {"idle", "load", "upsert", "repair", "clear", "stopped"},
            users : SUBSET Users, snapshots : Caches, todo : SUBSET Users,
            stored : Caches, stopping : BOOLEAN]
  /\ r.pc \in {"idle", "stopped"} => \A u \in Users : r.snapshots[u] = Nil
  /\ r.pc \in {"repair", "clear"} => r.todo \subseteq r.users
  /\ r.pc = "repair" => \A u \in r.todo :
       /\ r.snapshots[u] # Nil /\ r.stored[u] # Nil
       /\ r.stored[u].version >= r.snapshots[u].version

FlushersSound ==
  /\ flush = [f \in Flushers |-> flush[f]]
  /\ \A f \in Flushers : FlusherSound(flush[f])

-----------------------------------------------------------------------------
\* Redis has not lost anything under a flush.
Calm == losses = 0 \/ ~LossesMidFlush

\* What the table holds of user u.
RowOf(u, rows) == IF rows[u] = Nil THEN Zero ELSE rows[u]

\* PostgreSQL holds balance b of user u, or a newer one.
Durable(u, b, rows) ==
  \/ RowOf(u, rows) = b
  \/ rows[u] # Nil /\ rows[u].version > b.version

\* Who has no row started from nothing.
FromZero(u, b, rows) == (rows[u] = Nil /\ b # Nil /\ b.version = 0) => b = Zero

\* What a flusher has read is the balance, or an older version of it.
Current(r, u, balances) ==
  r.snapshots[u] # Nil =>
    /\ balances[u] # Nil
    /\ balances[u].version >= r.snapshots[u].version
    /\ balances[u].version = r.snapshots[u].version => balances[u] = r.snapshots[u]

\* After the transaction, what it has read is durable, or no longer current,
\* or yet to be repaired.
Flushed(r, u, balances, rows) ==
  (r.pc \in {"repair", "clear"} /\ u \in r.users /\ r.snapshots[u] # Nil) =>
    \/ Durable(u, r.snapshots[u], rows)
    \/ balances[u].version > r.snapshots[u].version
    \/ r.pc = "repair" /\ u \in r.todo

FlushOK(r, balances, rows) ==
  \A u \in Users :
    /\ Current(r, u, balances)
    /\ FromZero(u, r.snapshots[u], rows)
    /\ Flushed(r, u, balances, rows)

\* A flag that is off, in memory or on disk, is off for a reason.
CleanOK(balances, flags, rows) ==
  \A u \in Users : (balances[u] # Nil /\ u \notin flags) => Durable(u, balances[u], rows)

RootsOK(balances, rows) == \A u \in Users : FromZero(u, balances[u], rows)

SeedOK(t, rows) == t.pc = "seed" => Durable(t.user_id, t.snap, rows)

CalmOK ==
  /\ CleanOK(bal, dirty, row) /\ CleanOK(disk.bal, disk.dirty, row)
  /\ RootsOK(bal, row) /\ RootsOK(disk.bal, row)
  /\ \A a \in Tasks : SeedOK(task[a], row)
  /\ \A f \in Flushers : FlushOK(flush[f], bal, row)

\* As long as nothing is lost a row is not ahead, and a first seed is the row.
NotAhead(balances, rows) ==
  \A u \in Users : (rows[u] # Nil /\ balances[u] # Nil) =>
    /\ rows[u].version <= balances[u].version
    /\ rows[u].version = balances[u].version => rows[u] = balances[u]

SeedExact(t, balances, rows) ==
  (t.pc = "seed" /\ balances[t.user_id] = Nil) => t.snap = RowOf(t.user_id, rows)

KeptOK == NotAhead(bal, row) /\ \A a \in Tasks : SeedExact(task[a], bal, row)

WInv ==
  /\ KeysTyped /\ ClientsSound /\ FlushersSound
  /\ Calm => CalmOK
  /\ losses = 0 => KeptOK
=============================================================================
