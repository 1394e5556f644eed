-------------------------- MODULE MCInboxProcessor --------------------------
(***************************************************************************)
(* Small instances of InboxProcessor for TLC.  Two events carry the same   *)
(* order (an order confirmed twice, or a message published under two ids)  *)
(* and one carries an order that is not in the database.                   *)
(***************************************************************************)
EXTENDS InboxProcessor, TLC

CONSTANTS w1, w2, o1, o2, e1, e2, e3

OneOrderTwice == [e \in Events |-> IF e = e3 THEN NoOrder ELSE o1]
OneOrderEach == [e \in Events |-> IF e = e1 THEN o1 ELSE NoOrder]

\* Workers are interchangeable, and so are the two events of one order.
Symmetry == Permutations(Workers) \cup Permutations(Events \ {e3})

\* The instances in which every order is confirmed before its event exists.
AllConfirmed == confirmed = Orders
ConfirmedSpec == Spec /\ AllConfirmed
FairConfirmedSpec == FairSpec /\ AllConfirmed
=============================================================================
