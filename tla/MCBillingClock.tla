---------------------------- MODULE MCBillingClock ----------------------------
(* BillingClock for TLC, on the definitions of MCBilling. *)
EXTENDS MCBilling, BillingClock
=============================================================================
