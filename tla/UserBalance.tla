---------------------------- MODULE UserBalance ----------------------------
(***************************************************************************)
(* What users have earned and what they are told: orders in a currency,    *)
(* rules that merchants change, the CREDIT the worker computes for each    *)
(* order, and GET /users/:id/cashback-balance.  That an order is credited  *)
(* once and only when CONFIRMED is the matter of InboxProcessor; here an   *)
(* order is one that has been confirmed.                                   *)
(***************************************************************************)
EXTENDS CashbackAmount, FiniteSets, FiniteSetsExt

CONSTANTS
    Orders, Users, Merchants, Currencies,
    SGD,        \* the currency of a balance without entries
    Nothing,    \* no order, no entry
    ExactCents  \* the cents of the sums that a JavaScript number can tell apart

\* The numbers tried for the DTOs, with one more place than the columns have
\* (the DTOs do not restrict places), and how often rules change.
CONSTANTS Amounts, Rates, Caps, MaxUpserts

ASSUME BalanceConstants ==
    /\ IsFiniteSet(Orders)
    /\ SGD \in Currencies
    /\ Amounts \subseteq Nat /\ Caps \subseteq Nat
    /\ \A a \in Amounts : a >= 10
    /\ Rates \subseteq 0..10 * One
    /\ Nothing \notin [user : Users, merchant : Merchants, currency : Currencies, amount : Nat]
    /\ Nothing \notin Nat
    /\ ExactCents \in Nat /\ ExactCents % 2 = 0
    /\ MaxUpserts \in Nat

VARIABLES
    orders,    \* orders[o]: its row, or Nothing
    offered,   \* offered[m]: every rule of m so far, the last may be cached
    credit,    \* credit[o]: the amount of its CREDIT entry, or Nothing
    told,      \* told[<<u, c>>]: the last balance in c that u was told, 0 before
    upserts    \* how often a rule has changed

vars == <<orders, offered, credit, told, upserts>>

OrderRows == [user : Users, merchant : Merchants, currency : Currencies, amount : Nat]

Init ==
    /\ orders = [o \in Orders |-> Nothing]
    /\ offered = [m \in Merchants |-> {DefaultRule}]
    /\ credit = [o \in Orders |-> Nothing]
    /\ told = [uc \in Users \X Currencies |-> 0]
    /\ upserts = 0

Create(o, u, m, c, amount) ==
    /\ orders[o] = Nothing
    /\ orders' = [orders EXCEPT ![o] = [user |-> u, merchant |-> m, currency |-> c,
                                        amount |-> ToColumn(amount)]]
    /\ UNCHANGED <<offered, credit, told, upserts>>

\* dto.cap is optional: without it the cap is set to null.
UpsertRule(m, rate, cap) ==
    /\ upserts < MaxUpserts
    /\ upserts' = upserts + 1
    /\ offered' = [offered EXCEPT ![m] = @ \cup
          {[rate |-> ToColumn(rate), cap |-> IF cap = NoCap THEN NoCap ELSE ToColumn(cap)]}]
    /\ UNCHANGED <<orders, credit, told>>

\* A second CREDIT entry takes the place of the first.
CreditAgain(o) ==
    /\ orders[o] # Nothing
    /\ \E rule \in offered[orders[o].merchant] :
          credit' = [credit EXCEPT ![o] = Cashback(orders[o].amount, rule)]
    /\ UNCHANGED <<orders, offered, told, upserts>>

\* The handler credits under the rule it is given, by the cache or by the
\* database: the one in force or one that was.
Credit(o) ==
    /\ orders[o] # Nothing
    /\ credit[o] = Nothing
    /\ \E rule \in offered[orders[o].merchant] :
          credit' = [credit EXCEPT ![o] = Cashback(orders[o].amount, rule)]
    /\ UNCHANGED <<orders, offered, told, upserts>>

CreditsOf(u) == {o \in Orders : credit[o] # Nothing /\ orders[o].user = u}

\* groupBy currency and type: nothing writes a DEBIT, so one row per currency.
Groups(u) == {orders[o].currency : o \in CreditsOf(u)}

Sum(S) == MapThenSumSet(LAMBDA o : credit[o], S)

\* A total that forgets to group.
SumOfAll(u, c) == Sum(CreditsOf(u))

SumIn(u, c) == Sum({o \in CreditsOf(u) : orders[o].currency = c})

\* Number(sum).  A double tells all cents apart below 2^46 dollars, 100 * 2^46
\* cents; neighbouring doubles are further apart than cents from there on, so
\* two sums may become one number.  Of the rounding only this is kept, and that
\* it never turns a larger sum into a smaller number: the odd cents go.
ToNumber(cents) == IF cents < ExactCents THEN cents ELSE 2 * (cents \div 2)

\* What may be answered: the query has no order, and the first row is taken.
Balances(u) ==
    IF Groups(u) = {} THEN {[currency |-> SGD, balance |-> 0]}
    ELSE {[currency |-> c, balance |-> ToNumber(SumIn(u, c))] : c \in Groups(u)}

GetBalance(u) ==
    /\ \E a \in Balances(u) : told' = [told EXCEPT ![<<u, a.currency>>] = a.balance]
    /\ UNCHANGED <<orders, offered, credit, upserts>>

Next ==
    \/ \E o \in Orders, u \in Users, m \in Merchants, c \in Currencies, a \in Amounts :
          Create(o, u, m, c, a)
    \/ \E m \in Merchants, r \in Rates, cap \in Caps \cup {NoCap} : UpsertRule(m, r, cap)
    \/ \E o \in Orders : Credit(o)
    \/ \E u \in Users : GetBalance(u)

Spec == Init /\ [][Next]_vars

-----------------------------------------------------------------------------
(* Properties *)

\* Types; in particular every rule in force has a rate of at most 1.
TypeOK ==
    /\ orders \in [Orders -> OrderRows \cup {Nothing}]
    /\ offered \in [Merchants -> SUBSET Rules]
    /\ credit \in [Orders -> Nat \cup {Nothing}]
    /\ told \in [Users \X Currencies -> Nat]
    /\ upserts \in Nat
    /\ \A o \in Orders : credit[o] # Nothing => orders[o] # Nothing

\* Every credit is the exact cashback under a rule the merchant did offer,
\* rounded to the nearest cent; it is not above that rule's cap, nor above
\* what the order cost, whatever is rounded and whichever rule was cached.
CreditIsFair ==
    \A o \in Orders : credit[o] # Nothing =>
       /\ credit[o] <= orders[o].amount
       /\ \E rule \in offered[orders[o].merchant] :
             /\ IsNearest(credit[o], Exact(orders[o].amount, rule))
             /\ rule.cap # NoCap => credit[o] <= rule.cap

\* Whatever user is asked for: the balances that may be answered add up to all
\* the user's credits, so one with a single currency is told everything; as
\* long as his sums are not too large for a number.
BalancesAddUp ==
    \A u \in Users : (\A c \in Groups(u) : SumIn(u, c) < ExactCents) =>
       MapThenSumSet(LAMBDA a : a.balance, Balances(u)) = Sum(CreditsOf(u))

\* No answer in a currency is below an earlier one in that currency, whatever
\* the user was told in between, in this currency or another.
BalanceNeverShrinks ==
    [][\A u \in Users, c \in Currencies : told'[<<u, c>>] >= told[<<u, c>>]]_vars
=============================================================================
