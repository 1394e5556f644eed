------------------------- MODULE MCCashbackPipeline -------------------------
(* Small instances of CashbackPipeline for TLC. *)
EXTENDS CashbackPipeline

CONSTANT o1

\* Every event confirms the same order.
SameOrder == [e \in Events |-> o1]
=============================================================================
