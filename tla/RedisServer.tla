------------------------------ MODULE RedisServer ------------------------------
(***************************************************************************)
(* The Redis process with appendonly: it answers from memory, and what it  *)
(* finds on disk after a restart is the state of some earlier moment, the  *)
(* last fsync.  The clients reconnect and go on.  One balance may also go  *)
(* alone, evicted or deleted by hand.                                      *)
(***************************************************************************)
EXTENDS BalanceLoader

CONSTANTS
  Losses,      \* which losses happen: "restart", "evict"
  MaxLosses    \* how often, in one behaviour

ASSUME LossesAssumption ==
  /\ Losses \subseteq {"restart", "evict"}
  /\ MaxLosses \in Nat

VARIABLES
  disk,       \* the keys as of the last fsync
  losses      \* losses so far

Memory ==
  [bal |-> bal, gen |-> gen, topup |-> topup, dirty |-> dirty,
   inflight |-> inflight, lock |-> lock]

Fsync ==
  /\ "restart" \in Losses
  /\ losses < MaxLosses
  /\ disk' = Memory
  /\ UNCHANGED <<redis, row, network, task, lock, losses>>

Restart ==
  /\ "restart" \in Losses
  /\ losses < MaxLosses
  /\ losses' = losses + 1
  /\ bal' = disk.bal
  /\ gen' = disk.gen
  /\ topup' = disk.topup
  /\ dirty' = disk.dirty
  /\ inflight' = disk.inflight
  /\ lock' = disk.lock
  /\ UNCHANGED <<row, network, task, disk>>

Evict(u) ==
  /\ "evict" \in Losses
  /\ losses < MaxLosses
  /\ losses' = losses + 1
  /\ Evicted(u)
  /\ UNCHANGED <<row, network, task, lock, disk>>

Lose == Restart \/ \E u \in Users : Evict(u)

ServerInit ==
  /\ disk = Memory
  /\ losses = 0
=============================================================================
