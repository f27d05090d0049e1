--------------------------- MODULE MCBillingEviction ---------------------------
(* BillingEviction for TLC, on the definitions of MCBilling. *)
EXTENDS MCBilling, BillingEviction
=============================================================================
