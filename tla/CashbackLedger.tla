--------------------------- MODULE CashbackLedger ---------------------------
(***************************************************************************)
(* What the cashback ledger promises, whatever the API, the broker and the *)
(* workers do: an order is confirmed at most once, and a CREDIT entry is   *)
(* written for it at most once and never before it is confirmed.           *)
(***************************************************************************)
EXTENDS Naturals

CONSTANT Orders

VARIABLES
    confirmed,  \* the orders whose status is CONFIRMED
    credits     \* credits[o]: how many CREDIT entries order o has

vars == <<confirmed, credits>>

Init == /\ confirmed \in SUBSET Orders
        /\ credits = [o \in Orders |-> 0]

Confirm(o) == /\ o \notin confirmed
              /\ confirmed' = confirmed \cup {o}
              /\ UNCHANGED credits

Credit(o) == /\ o \in confirmed
             /\ credits[o] = 0
             /\ credits' = [credits EXCEPT ![o] = 1]
             /\ UNCHANGED confirmed

Next == \E o \in Orders : Confirm(o) \/ Credit(o)

Spec == Init /\ [][Next]_vars
=============================================================================
