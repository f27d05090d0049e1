--------------------------- MODULE MCBillingRestart ---------------------------
(* Instances of BillingRestart for TLC, on the definitions of MCBilling. *)
EXTENDS MCBilling, BillingRestart

\* Enough for one generation only: what the second spends it does not have.
OneGeneration == {[u \in Users |-> Amount(1, 0, 0, 2)]}

BasicTwice == {Ask(r1, d1, "basic"), Ask(r2, d1, "basic")}

RestartOnly == {"restart"}
=============================================================================
