----------------------------- MODULE MCOrderApi -----------------------------
(* Small instances of OrderApi for TLC. *)
EXTENDS OrderApi, TLC

RequestSymmetry == Permutations(Requests)
=============================================================================
