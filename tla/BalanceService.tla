---------------------------- MODULE BalanceService ----------------------------
(***************************************************************************)
(* BalanceService: apply_top_up, one task per delivery of a command, and   *)
(* get_balance.  Amounts of a command are in Grain-ths of a micro, as the  *)
(* caller may write them; what passes validation is whole micros.          *)
(***************************************************************************)
EXTENDS BalanceLoader

CONSTANTS
  TopUps,     \* the tasks that run apply_top_up
  Readers,    \* the tasks that run get_balance
  Commands    \* the BalanceTopUp commands clients send

InvalidTopUp(command) ==
  \/ \E name \in {"paid_usd", "bonus_usd"} :
       command[name] < 0 \/ command[name] % Grain # 0
  \/ command.free_requests < 0

CommandAmounts(command) ==
  [free_usd |-> 0, bonus_usd |-> command.bonus_usd \div Grain,
   paid_usd |-> command.paid_usd \div Grain,
   free_requests |-> command.free_requests]

TopUpInvocation(t) ==
  [script |-> "TOP_UP", user_id |-> task[t].user_id, id |-> task[t].id,
   amounts |-> CommandAmounts(task[t].work)]

ApplyTopUp(t, command) ==
  /\ At(t, "idle")
  /\ Set(t, LET asked == [task[t] EXCEPT !.work = command]
            IN  IF InvalidTopUp(command)
                  THEN Ended(asked, Raised("InvalidInput"))
                  ELSE [asked EXCEPT !.pc = "top_up", !.id = command.operation_id,
                                     !.user_id = command.user_id])
  /\ UNCHANGED <<redis, row, network, lock>>

\* Applied, or AlreadyApplied by this delivery or an earlier one.
TopUp(t) ==
  LET inv == TopUpInvocation(t)
  IN  /\ At(t, "top_up")
      /\ InRange(t)
      /\ TopUpReply(inv) \in {"OK", "DUP"}
      /\ Execute(inv)
      /\ Set(t, Ended(task[t], Returned(0)))
      /\ UNCHANGED <<row, network, lock>>

TopUpMissing(t) ==
  /\ At(t, "top_up")
  /\ InRange(t)
  /\ TopUpReply(TopUpInvocation(t)) = "MISSING"
  /\ Set(t, Reload(task[t], "top_up"))
  /\ UNCHANGED <<redis, row, network, lock>>

TopUpLosesReply(t) ==
  /\ At(t, "top_up")
  /\ LoseReply(t, TopUpInvocation(t))

TopUpAbandoned(t) ==
  Abandon(t, IF At(t, "top_up") THEN {TopUpInvocation(t)} ELSE {})

TopUpProgress(t) == TopUp(t) \/ TopUpMissing(t) \/ GiveUp(t)

TopUpStep(t) ==
  \/ \E command \in Commands : ApplyTopUp(t, command)
  \/ Ensure(t)
  \/ TopUpProgress(t)
  \/ TopUpLosesReply(t)
  \/ TopUpAbandoned(t)

-----------------------------------------------------------------------------
GetBalance(t, user) ==
  /\ At(t, "idle")
  /\ Set(t, [task[t] EXCEPT !.pc = "load", !.ret = "balance", !.user_id = user])
  /\ UNCHANGED <<redis, row, network, lock>>

ReturnBalance(t) ==
  /\ At(t, "balance")
  /\ Set(t, Ended([task[t] EXCEPT !.work = task[t].snap], Returned(0)))
  /\ UNCHANGED <<redis, row, network, lock>>

ReaderStep(t) ==
  \/ \E user \in Users : GetBalance(t, user)
  \/ Ensure(t)
  \/ ReturnBalance(t)
  \/ Abandon(t, {})
=============================================================================
