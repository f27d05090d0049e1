--------------------------- MODULE ReservationReaper ---------------------------
(***************************************************************************)
(* ReservationReaper.reap_once, in the loop of the background process: a   *)
(* reaper task scans gen:inflight and refunds what it finds running.       *)
(*                                                                         *)
(* Any reservation may be old enough here, that of a living call included. *)
(* The code keeps PROVIDER_TIMEOUT_SECONDS below REAP_AFTER_SECONDS, which *)
(* makes that rare; the clock of a reservation runs from before RESERVE to *)
(* SETTLE, which keeps it possible.  BillingClock has that clock.          *)
(***************************************************************************)
EXTENDS ReservationRefunder

CONSTANTS
  Reapers,          \* one task per background process
  REAP_BATCH_SIZE

\* ZRANGEBYSCORE ... LIMIT: as many as fit, if more are old enough.
StaleInflight(r, batch) ==
  /\ At(r, "idle")
  /\ batch \in (SUBSET inflight) \ {{}}
  /\ Cardinality(batch) <= REAP_BATCH_SIZE
  /\ Set(r, [task[r] EXCEPT !.pc = "inspect", !.work = batch])
  /\ UNCHANGED <<redis, row, network, lock>>

\* After one id of the batch: the next one, or the end of reap_once.
NextStale(t) ==
  IF t.work = {} THEN Blank ELSE [Blank EXCEPT !.pc = "inspect", !.work = t.work]

InspectStale(r, id) ==
  /\ At(r, "inspect")
  /\ id \in task[r].work
  /\ LET record == gen[id]
         rest   == [task[r] EXCEPT !.work = @ \ {id}, !.id = id]
     IN  Set(r, IF record = Nil \/ record.status # "running"
                  THEN [rest EXCEPT !.pc = "forget"]
                  ELSE [rest EXCEPT !.pc = "refund", !.plan = record.plan,
                                    !.user_id = record.user_id])
  /\ UNCHANGED <<redis, row, network, lock>>

Forget(r) ==
  /\ At(r, "forget")
  /\ ForgetInflight(task[r].id)
  /\ Set(r, NextStale(task[r]))
  /\ UNCHANGED <<row, network, lock>>

RefundStale(r) == RefundReturns(r, NextStale(task[r]))

\* An exception ends the process (BalanceFlusher.run handles none but its
\* cancellation); it is started again.
RestartReaper(r) ==
  /\ At(r, "done")
  /\ Set(r, Blank)
  /\ UNCHANGED <<redis, row, network, lock>>

ReaperLosesReply(r) ==
  /\ At(r, "refund")
  /\ LoseReply(r, RefundInvocation(r))

ReaperAbandoned(r) ==
  Abandon(r, IF At(r, "refund") THEN {RefundInvocation(r)} ELSE {})

ReaperProgress(r) ==
  \/ \E id \in RequestIds : InspectStale(r, id)
  \/ Forget(r)
  \/ RefundStale(r) \/ RefundMissing(r)
  \/ GiveUp(r)
  \/ RestartReaper(r)

ReaperStep(r) ==
  \/ \E batch \in SUBSET inflight : StaleInflight(r, batch)
  \/ Ensure(r)
  \/ ReaperProgress(r)
  \/ ReaperLosesReply(r)
  \/ ReaperAbandoned(r)
=============================================================================
