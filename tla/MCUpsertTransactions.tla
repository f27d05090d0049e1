------------------------- MODULE MCUpsertTransactions -------------------------
(* UpsertTransactions for TLC, on the definitions of MCWriteBehind. *)
EXTENDS MCWriteBehind, UpsertTransactions

MCKeyOf == (u1 :> 1) @@ (u2 :> 2)
=============================================================================
