--------------------------- MODULE MCPebbleVault ---------------------------
(* Small instances of PebbleVault: two or three writes on one to three keys. *)
EXTENDS PebbleVault, TLC

WriterSymmetry == Permutations(Writers)
=============================================================================
