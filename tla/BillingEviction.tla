---------------------------- MODULE BillingEviction ----------------------------
(***************************************************************************)
(* The service of Billing on a Redis that may lose one balance, evicted or *)
(* deleted by hand: compose forbids the first (noeviction), the MISSING    *)
(* replies of RESERVE, SETTLE and REFUND are there for it, and it counts   *)
(* as a fault.                                                             *)
(***************************************************************************)
EXTENDS Billing

BalanceGone(u) ==
  /\ faults < MaxFaults
  /\ faults' = faults + 1
  /\ Evicted(u)
  /\ UNCHANGED <<row, late, task, lock, provider_calls>>

EvictionNext ==
  \/ Next
  \/ \E u \in Users : BalanceGone(u)

FairEvictionSpec == Init /\ [][EvictionNext]_vars /\ Fairness

-----------------------------------------------------------------------------
\* A reservation does not stay running, whatever became of the call that made
\* it: the call settles or refunds it, or the reaper does, also when the balance
\* has to be loaded again first.
ReservationsEnd ==
  \A id \in RequestIds :
    (gen[id] # Nil /\ gen[id].status = "running")
      ~> (gen[id] # Nil /\ gen[id].status # "running")
=============================================================================
