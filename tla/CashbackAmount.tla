--------------------------- MODULE CashbackAmount ---------------------------
(***************************************************************************)
(* What an order earns: order.amount times rate, not above the cap,        *)
(* rounded to cents.  Money and rates are Decimals with a fixed number of  *)
(* places, so they are integers here: amounts and caps count cents         *)
(* (DECIMAL(18,2)), rates count ten-thousandths (DECIMAL(6,4)), and a      *)
(* product of the two counts ten-thousandths of a cent.  Decimal keeps 20  *)
(* significant digits, which holds every product of amounts below 10^14.   *)
(***************************************************************************)
EXTENDS Naturals

CONSTANT NoCap  \* cap is null

ASSUME NoCapAssumption == NoCap \notin Nat

One == 10000  \* the rate 1.0000, and a whole cent in a product

Rules == [rate : 0..One, cap : Nat \cup {NoCap}]

\* No row for the merchant: rate 0.05, no cap.
DefaultRule == [rate |-> 500, cap |-> NoCap]

\* A test that takes a cap of 0 for no cap, as it would of a number.
CappedIfTruthy(x, cap) ==
    IF cap # NoCap /\ cap # 0 /\ x > cap * One THEN cap * One ELSE x

\* A cap of 0 is a Decimal, an object, and so is true in "rule?.cap && ...".
Capped(x, cap) == IF cap # NoCap /\ x > cap * One THEN cap * One ELSE x

\* Rounding that always favours the user.
ToCentsUp(x) == (x + One - 1) \div One

\* toDecimalPlaces(2), whose default is ROUND_HALF_UP.
ToCents(x) == (x + One \div 2) \div One

Cashback(amount, rule) == ToCents(Capped(amount * rule.rate, rule.cap))

\* A column that would keep the number as it is.
KeepPlaces(x) == x

\* What a column keeps of a number with one more place than its own:
\* PostgreSQL rounds it, half up for the positive numbers that occur.
ToColumn(x) == (x + 5) \div 10

-----------------------------------------------------------------------------
(* The definition the operators above are checked against. *)

Smaller(a, b) == IF a <= b THEN a ELSE b

\* The exact cashback, in ten-thousandths of a cent.
Exact(amount, rule) ==
    IF rule.cap = NoCap THEN amount * rule.rate
    ELSE Smaller(amount * rule.rate, rule.cap * One)

\* c is a nearest number of cents to x, and the larger one of two.
IsNearest(c, x) == /\ 2 * c * One <= 2 * x + One
                   /\ 2 * x < 2 * c * One + One
=============================================================================
