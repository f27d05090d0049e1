-------------------------- MODULE ReservationRefunder --------------------------
(***************************************************************************)
(* ReservationRefunder.refund, the subroutine by which a generation whose  *)
(* provider failed and the reaper both give a reservation back.  A task    *)
(* enters at pc "refund" with user_id, id and plan set; what it does after *)
(* is the caller's business and comes in as the argument next.             *)
(***************************************************************************)
EXTENDS BalanceLoader

RefundInvocation(a) ==
  [script |-> "REFUND", user_id |-> task[a].user_id, id |-> task[a].id,
   plan |-> task[a].plan]

\* Applied, or Stale: the record is not running any more, somebody else ended it.
RefundReturns(a, next) ==
  LET inv == RefundInvocation(a)
  IN  /\ At(a, "refund")
      /\ InRange(a)
      /\ RefundReply(inv) \in {"OK", "STALE"}
      /\ Execute(inv)
      /\ Set(a, next)
      /\ UNCHANGED <<row, network, lock>>

RefundMissing(a) ==
  /\ At(a, "refund")
  /\ InRange(a)
  /\ RefundReply(RefundInvocation(a)) = "MISSING"
  /\ Set(a, Reload(task[a], "refund"))
  /\ UNCHANGED <<redis, row, network, lock>>
=============================================================================
