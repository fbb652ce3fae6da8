----------------------------- MODULE MCBlockSplit -----------------------------
(* Instances of BlockSplit for TLC.  Two sandboxes are enough: one that still  *)
(* reads the old config, and one that holds a lease or has given it back.      *)
EXTENDS BlockSplit
===============================================================================
