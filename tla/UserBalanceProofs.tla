------------------------- MODULE UserBalanceProofs -------------------------
(***************************************************************************)
(* Theorems about UserBalance: cashback amounts for every amount, rate and *)
(* cap, and the credits in the ledger for any sets of orders, users and    *)
(* merchants and however often the rules change.                           *)
(***************************************************************************)
EXTENDS UserBalance, SumTheorems

-----------------------------------------------------------------------------
(* Arithmetic.  The provers are told about one product at a time. *)

\* ToCents rounds to the nearest cent, and never below zero.
LEMMA RoundsToNearest ==
    ASSUME NEW x \in Nat
    PROVE  ToCents(x) \in Nat /\ IsNearest(ToCents(x), x)
  BY DEF ToCents, IsNearest, One

\* A smaller amount is not rounded to more.
LEMMA RoundingIsMonotone ==
    ASSUME NEW x \in Nat, NEW y \in Nat, x <= y
    PROVE  ToCents(x) <= ToCents(y)
  BY DEF ToCents, One

\* A whole number of cents is not changed by rounding.
LEMMA WholeCentsStay ==
    ASSUME NEW c \in Nat
    PROVE  ToCents(c * One) = c
  BY DEF ToCents, One

LEMMA ProductIsNat ==
    ASSUME NEW a \in Nat, NEW r \in Nat
    PROVE  a * r \in Nat
  OBVIOUS

LEMMA RateIsANat ==
    ASSUME NEW r \in 0..One
    PROVE  r \in Nat
  BY DEF One

\* A rate of at most 1 takes at most the whole amount.
LEMMA RateIsAShare ==
    ASSUME NEW a \in Nat, NEW r \in 0..One
    PROVE  a * r \in Nat /\ a * r <= a * One
  BY DEF One

\* Capping is what the reference definition says.
LEMMA CappedIsExact ==
    ASSUME NEW a \in Nat, NEW rule \in Rules
    PROVE  /\ Capped(a * rule.rate, rule.cap) = Exact(a, rule)
           /\ Exact(a, rule) \in Nat
           /\ Exact(a, rule) <= a * One
           /\ rule.cap # NoCap => Exact(a, rule) <= rule.cap * One
  <1>1. rule.rate \in 0..One /\ rule.cap \in Nat \cup {NoCap}
    BY DEF Rules
  <1>2. a * rule.rate \in Nat /\ a * rule.rate <= a * One
    BY <1>1, RateIsAShare
  <1>a. a * One \in Nat
    BY DEF One
  <1>3. CASE rule.cap = NoCap
    BY <1>2, <1>3 DEF Capped, Exact
  <1>4. CASE rule.cap # NoCap
    <2>1. rule.cap * One \in Nat
      BY <1>1, <1>4 DEF One
    <2> DEFINE p == a * rule.rate
               q == rule.cap * One
               r == a * One
    <2>2. p \in Nat /\ q \in Nat /\ r \in Nat /\ p <= r
      BY <1>2, <1>a, <2>1
    <2>3. /\ Capped(p, rule.cap) = IF p > q THEN q ELSE p
          /\ Exact(a, rule) = IF p <= q THEN p ELSE q
      BY <1>4 DEF Capped, Exact, Smaller
    <2> HIDE DEF p, q, r
    <2>4. /\ Capped(p, rule.cap) = Exact(a, rule)
          /\ Exact(a, rule) \in Nat
          /\ Exact(a, rule) <= r
          /\ Exact(a, rule) <= q
      BY <2>2, <2>3
    <2>5. QED
      BY <2>4 DEF p, q, r
  <1>5. QED
    BY <1>3, <1>4

\* For every amount of cents and every rule: the cashback is the exact one
\* rounded to the nearest cent, at most the amount, and at most the cap.
THEOREM CashbackIsCorrect ==
    ASSUME NEW a \in Nat, NEW rule \in Rules
    PROVE  /\ Cashback(a, rule) \in Nat
           /\ IsNearest(Cashback(a, rule), Exact(a, rule))
           /\ Cashback(a, rule) <= a
           /\ rule.cap # NoCap => Cashback(a, rule) <= rule.cap
  <1> DEFINE x == Exact(a, rule)
  <1>1. /\ x \in Nat /\ Cashback(a, rule) = ToCents(x)
        /\ x <= a * One
        /\ rule.cap # NoCap => x <= rule.cap * One
    BY CappedIsExact DEF Cashback
  <1>2. ToCents(x) <= a
    BY <1>1, RoundingIsMonotone, WholeCentsStay, ProductIsNat DEF One
  <1>3. rule.cap # NoCap => ToCents(x) <= rule.cap
    <2>1. rule.cap # NoCap => rule.cap \in Nat /\ rule.cap * One \in Nat
      BY DEF Rules, One
    <2>2. QED
      BY <1>1, <2>1, RoundingIsMonotone, WholeCentsStay
  <1>4. QED
    BY <1>1, <1>2, <1>3, RoundsToNearest

\* Under one rule a dearer order never earns less.
THEOREM CashbackIsMonotone ==
    ASSUME NEW a \in Nat, NEW b \in Nat, NEW rule \in Rules, a <= b
    PROVE  Cashback(a, rule) <= Cashback(b, rule)
  <1>r. rule.rate \in 0..One /\ rule.cap \in Nat \cup {NoCap}
    BY DEF Rules
  <1>1. rule.rate \in Nat
    <2>1. rule.rate \in 0..One
      BY <1>r
    <2>2. QED
      BY <2>1, RateIsANat
  <1>2. a * rule.rate \in Nat /\ b * rule.rate \in Nat /\ a * rule.rate <= b * rule.rate
    BY <1>1
  <1>3. Exact(a, rule) <= Exact(b, rule)
    <2>1. CASE rule.cap = NoCap
      BY <1>2, <2>1 DEF Exact
    <2>2. CASE rule.cap # NoCap
      <3>1. rule.cap * One \in Nat
        BY <1>r, <2>2 DEF One
      <3>2. QED
        BY <1>2, <2>2, <3>1 DEF Exact, Smaller
    <2>3. QED
      BY <2>1, <2>2
  <1>4. /\ Exact(a, rule) \in Nat /\ Cashback(a, rule) = ToCents(Exact(a, rule))
        /\ Exact(b, rule) \in Nat /\ Cashback(b, rule) = ToCents(Exact(b, rule))
    BY CappedIsExact DEF Cashback
  <1>5. QED
    BY <1>3, <1>4, RoundingIsMonotone

-----------------------------------------------------------------------------
(* The credits in the ledger. *)

LEMMA ColumnsAreNat ==
    ASSUME NEW x \in Nat
    PROVE  ToColumn(x) \in Nat
  BY DEF ToColumn

\* A rate within the DTO's limits is still one when the column has rounded it.
LEMMA ColumnRates ==
    ASSUME NEW x \in 0..10 * One
    PROVE  ToColumn(x) \in 0..One
  <1>1. One \in Nat
    BY DEF One
  <1>2. x \in Nat /\ x <= 10 * One
    BY <1>1
  <1>3. (x + 5) \div 10 \in Nat /\ (x + 5) \div 10 <= One
    BY <1>1, <1>2
  <1>4. (x + 5) \div 10 \in 0..One
    BY <1>1, <1>3
  <1>5. QED
    BY <1>4 DEF ToColumn

\* What is defined of the row of an order that has one.
LEMMA RowTypes ==
    ASSUME TypeOK, NEW o \in Orders, orders[o] # Nothing
    PROVE  orders[o].amount \in Nat /\ orders[o].merchant \in Merchants
  BY DEF TypeOK, OrderRows

\* A new credit is a fair one, under the rule the handler had.
LEMMA NewCredit ==
    ASSUME TypeOK, NEW o \in Orders, orders[o] # Nothing,
           NEW rule \in offered[orders[o].merchant]
    PROVE  LET c == Cashback(orders[o].amount, rule) IN
           /\ c \in Nat /\ c <= orders[o].amount
           /\ IsNearest(c, Exact(orders[o].amount, rule))
           /\ rule.cap # NoCap => c <= rule.cap
  <1>1. orders[o].amount \in Nat /\ rule \in Rules
    BY RowTypes DEF TypeOK
  <1>2. QED
    BY <1>1, CashbackIsCorrect

\* Number() keeps the order of two sums, and up to ExactCents the sums.
LEMMA NumberGrows ==
    ASSUME NEW x \in Nat, NEW y \in Nat, x <= y
    PROVE  ToNumber(x) \in Nat /\ ToNumber(x) <= ToNumber(y)
  <1>1. ExactCents \in Nat /\ ExactCents % 2 = 0
    BY BalanceConstants
  <1>2. QED
    BY <1>1 DEF ToNumber

LEMMA NumberIsExact ==
    ASSUME NEW x \in Nat, x < ExactCents
    PROVE  ToNumber(x) = x
  BY DEF ToNumber

\* The credited orders of u in c, of which SumIn is the sum.
CreditsIn(u, c) == {o \in CreditsOf(u) : orders[o].currency = c}

LEMMA SumsOfCredits ==
    /\ \A S : Sum(S) = SumOver(credit, S)
    /\ \A u, c : SumIn(u, c) = SumOver(credit, CreditsIn(u, c))
    /\ \A u, c : SumIn(u, c)' = SumOver(credit', CreditsIn(u, c)')
  BY DEF Sum, SumIn, SumOver, MapThenSumSet, MapThenFoldSet, CreditsIn, CreditsOf

LEMMA CreditTypes ==
    ASSUME TypeOK, NEW u
    PROVE  /\ IsFiniteSet(CreditsOf(u)) /\ CreditsOf(u) \subseteq Orders
           /\ \A o \in CreditsOf(u) : credit[o] \in Nat
           /\ \A c : IsFiniteSet(CreditsIn(u, c)) /\ SumIn(u, c) \in Nat
           /\ IsFiniteSet(Groups(u))
  <1>1. CreditsOf(u) \subseteq Orders /\ \A o \in CreditsOf(u) : credit[o] \in Nat
    BY DEF CreditsOf, TypeOK
  <1>2. IsFiniteSet(CreditsOf(u))
    BY <1>1, BalanceConstants, FS_Subset
  <1>3. ASSUME NEW c PROVE IsFiniteSet(CreditsIn(u, c)) /\ SumIn(u, c) \in Nat
    <2>1. CreditsIn(u, c) \subseteq CreditsOf(u)
      BY DEF CreditsIn
    <2>2. IsFiniteSet(CreditsIn(u, c))
      BY <1>2, <2>1, FS_Subset
    <2>3. SumOver(credit, CreditsIn(u, c)) \in Nat
      BY <1>1, <2>1, <2>2, SumType
    <2>4. QED
      BY <2>2, <2>3, SumsOfCredits
  <1>4. IsFiniteSet(Groups(u))
    <2> DEFINE k == [o \in CreditsOf(u) |-> orders[o].currency]
    <2>1. Groups(u) = {k[o] : o \in CreditsOf(u)}
      BY DEF Groups
    <2> HIDE DEF k
    <2>2. QED
      BY <1>2, <2>1, ImageIsFinite
  <1>5. QED
    BY <1>1, <1>2, <1>3, <1>4

\* What may be answered is the number for a sum of the ledger.
LEMMA AnswerIsLedger ==
    ASSUME TypeOK, NEW u, NEW a \in Balances(u)
    PROVE  a.balance = ToNumber(SumIn(u, a.currency)) /\ a.balance \in Nat
  <1>1. CASE Groups(u) = {}
    <2>1. a.balance = 0
      BY <1>1 DEF Balances
    <2>2. \A c : CreditsIn(u, c) = {}
      BY <1>1 DEF CreditsIn, Groups
    <2>3. \A c : SumIn(u, c) = 0
      BY <2>2, SumsOfCredits, SumEmpty
    <2>4. ToNumber(0) = 0
      BY DEF ToNumber
    <2>5. QED
      BY <2>1, <2>3, <2>4
  <1>2. CASE Groups(u) # {}
    <2>1. \A c : SumIn(u, c) \in Nat
      BY CreditTypes
    <2>2. \A c : ToNumber(SumIn(u, c)) \in Nat
      BY <2>1, NumberGrows
    <2>3. QED
      BY <1>2, <2>2 DEF Balances
  <1>3. QED
    BY <1>1, <1>2

LEMMA TypeInit == Init => TypeOK
  <1>1. SUFFICES ASSUME Init PROVE TypeOK
    OBVIOUS
  <1>2. DefaultRule \in Rules
    BY DEF DefaultRule, Rules, One
  <1>3. QED
    BY <1>1, <1>2 DEF Init, TypeOK

LEMMA TypeStep == TypeOK /\ [Next]_vars => TypeOK'
  <1>1. SUFFICES ASSUME TypeOK, [Next]_vars PROVE TypeOK'
    OBVIOUS
  <1>2. ASSUME NEW o \in Orders, NEW u \in Users, NEW m \in Merchants,
               NEW c \in Currencies, NEW a \in Amounts, Create(o, u, m, c, a)
        PROVE  TypeOK'
    <2>1. ToColumn(a) \in Nat
      BY BalanceConstants, ColumnsAreNat
    <2>2. [user |-> u, merchant |-> m, currency |-> c, amount |-> ToColumn(a)] \in OrderRows
      BY <2>1 DEF OrderRows
    <2>3. Nothing \notin OrderRows
      BY BalanceConstants DEF OrderRows
    <2>4. QED
      BY <1>1, <1>2, <2>2, <2>3 DEF Create, TypeOK
  <1>3. ASSUME NEW m \in Merchants, NEW r \in Rates, NEW k \in Caps \cup {NoCap},
               UpsertRule(m, r, k)
        PROVE  TypeOK'
    <2> DEFINE new == [rate |-> ToColumn(r), cap |-> IF k = NoCap THEN NoCap ELSE ToColumn(k)]
    <2>1. ToColumn(r) \in 0..One
      BY BalanceConstants, ColumnRates
    <2>2. (IF k = NoCap THEN NoCap ELSE ToColumn(k)) \in Nat \cup {NoCap}
      BY BalanceConstants, ColumnsAreNat
    <2>3. new \in Rules
      BY <2>1, <2>2 DEF Rules
    <2> HIDE DEF new
    <2>4. offered' = [offered EXCEPT ![m] = @ \cup {new}]
      BY <1>3 DEF UpsertRule, new
    <2>5. offered' \in [Merchants -> SUBSET Rules]
      BY <1>1, <2>3, <2>4 DEF TypeOK
    <2>6. upserts' \in Nat
      BY <1>1, <1>3 DEF UpsertRule, TypeOK
    <2>7. QED
      BY <1>1, <1>3, <2>5, <2>6 DEF UpsertRule, TypeOK
  <1>4. ASSUME NEW o \in Orders, Credit(o)
        PROVE  TypeOK'
    <2>1. PICK rule \in offered[orders[o].merchant] :
             credit' = [credit EXCEPT ![o] = Cashback(orders[o].amount, rule)]
      BY <1>4 DEF Credit
    <2>2. Cashback(orders[o].amount, rule) \in Nat
      BY <1>1, <1>4, NewCredit DEF Credit
    <2>3. QED
      BY <1>1, <1>4, <2>1, <2>2 DEF Credit, TypeOK
  <1>5. ASSUME NEW u \in Users, GetBalance(u)
        PROVE  TypeOK'
    <2>1. PICK a \in Balances(u) : told' = [told EXCEPT ![<<u, a.currency>>] = a.balance]
      BY <1>5 DEF GetBalance
    <2>2. a.balance \in Nat
      BY <1>1, AnswerIsLedger
    <2>3. told' \in [Users \X Currencies -> Nat]
      BY <1>1, <2>1, <2>2 DEF TypeOK
    <2>4. QED
      BY <1>1, <1>5, <2>3 DEF GetBalance, TypeOK
  <1>6. ASSUME UNCHANGED vars
        PROVE  TypeOK'
    BY <1>1, <1>6 DEF vars, TypeOK
  <1>7. QED
    BY <1>1, <1>2, <1>3, <1>4, <1>5, <1>6 DEF Next

\* Types: orders, rules and credits; every rule in force has a rate of at most 1.
THEOREM TypeCorrect == Spec => []TypeOK
  <1>1. QED
    BY TypeInit, TypeStep, PTL DEF Spec

\* A fair credit stays one: rows of orders do not change, rules are added.
LEMMA CreditStaysFair ==
    ASSUME TypeOK, NEW o \in Orders, orders[o] # Nothing,
           orders'[o] = orders[o], credit'[o] = credit[o], CreditIsFair, credit[o] # Nothing,
           \A m \in Merchants : offered[m] \subseteq offered'[m]
    PROVE  /\ credit'[o] <= orders'[o].amount
           /\ \E rule \in offered'[orders'[o].merchant] :
                 /\ IsNearest(credit'[o], Exact(orders'[o].amount, rule))
                 /\ rule.cap # NoCap => credit'[o] <= rule.cap
  <1>1. offered[orders[o].merchant] \subseteq offered'[orders[o].merchant]
    BY RowTypes
  <1>2. QED
    BY <1>1 DEF CreditIsFair

LEMMA FairStep == TypeOK /\ CreditIsFair /\ [Next]_vars => CreditIsFair'
  <1>1. SUFFICES ASSUME TypeOK, CreditIsFair, [Next]_vars,
                        NEW o \in Orders, credit'[o] # Nothing
                 PROVE  /\ credit'[o] <= orders'[o].amount
                        /\ \E rule \in offered'[orders'[o].merchant] :
                              /\ IsNearest(credit'[o], Exact(orders'[o].amount, rule))
                              /\ rule.cap # NoCap => credit'[o] <= rule.cap
    BY DEF CreditIsFair
  <1>2. ASSUME NEW p \in Orders, NEW u \in Users, NEW m \in Merchants,
               NEW c \in Currencies, NEW a \in Amounts, Create(p, u, m, c, a)
        PROVE  orders[o] # Nothing /\ orders'[o] = orders[o] /\ credit'[o] = credit[o]
               /\ offered' = offered
    BY <1>1, <1>2 DEF Create, TypeOK
  <1>3. ASSUME NEW m \in Merchants, NEW r \in Rates, NEW k \in Caps \cup {NoCap},
               UpsertRule(m, r, k)
        PROVE  /\ orders[o] # Nothing /\ orders'[o] = orders[o] /\ credit'[o] = credit[o]
               /\ \A n \in Merchants : offered[n] \subseteq offered'[n]
    BY <1>1, <1>3 DEF UpsertRule, TypeOK
  <1>4. ASSUME NEW p \in Orders, Credit(p)
        PROVE  /\ orders[o] # Nothing /\ orders'[o] = orders[o] /\ offered' = offered
               /\ \/ credit'[o] = credit[o]
                  \/ \E rule \in offered[orders[o].merchant] :
                        credit'[o] = Cashback(orders[o].amount, rule)
    BY <1>1, <1>4 DEF Credit, TypeOK
  <1>5. ASSUME \/ \E u \in Users : GetBalance(u)
               \/ UNCHANGED vars
        PROVE  orders[o] # Nothing /\ orders'[o] = orders[o] /\ credit'[o] = credit[o]
               /\ offered' = offered
    BY <1>1, <1>5 DEF GetBalance, TypeOK, vars
  <1>6. /\ orders[o] # Nothing /\ orders'[o] = orders[o]
        /\ \A n \in Merchants : offered[n] \subseteq offered'[n]
        /\ \/ credit'[o] = credit[o]
           \/ \E rule \in offered[orders[o].merchant] :
                 offered' = offered /\ credit'[o] = Cashback(orders[o].amount, rule)
    BY <1>1, <1>2, <1>3, <1>4, <1>5 DEF Next
  <1>7. CASE credit'[o] = credit[o]
    BY <1>1, <1>6, <1>7, CreditStaysFair
  <1>8. CASE \E rule \in offered[orders[o].merchant] :
               offered' = offered /\ credit'[o] = Cashback(orders[o].amount, rule)
    BY <1>1, <1>6, <1>8, NewCredit
  <1>9. QED
    BY <1>6, <1>7, <1>8

\* Every credit is the exact cashback of its order, to the nearest cent, under
\* a rule of its merchant, never above the cap and never above the order.
THEOREM CreditsAreFair == Spec => []CreditIsFair
  <1>1. Init => CreditIsFair
    BY DEF Init, CreditIsFair
  <1>2. QED
    BY <1>1, TypeCorrect, FairStep, PTL DEF Spec

-----------------------------------------------------------------------------
(* The balances that may be answered. *)

\* A sum over answers, as one of a function.
LEMMA SumOfAnswers ==
    ASSUME NEW B, IsFiniteSet(B)
    PROVE  MapThenSumSet(LAMBDA a : a.balance, B) = SumOver([a \in B |-> a.balance], B)
  <1> DEFINE f == [a \in B |-> a.balance]
             Rule(g, s) == IF s = {} THEN 0 ELSE Some(s).balance + g[s \ {Some(s)}]
             Solves(g) == g = [s \in SUBSET B |-> Rule(g, s)]
             g1 == CHOOSE g : Solves(g)
             g2 == CHOOSE g : IsSum(g, f, B)
  <1>1. MapThenSumSet(LAMBDA a : a.balance, B) = g1[B]
    BY DEF MapThenSumSet, MapThenFoldSet, Some
  <1>2. SumOver(f, B) = g2[B]
    BY SumIsChosen
  <1>3. ASSUME NEW g, NEW s \in SUBSET B PROVE Rule(g, s) = SumRule(f, g, s)
    <2>1. CASE s = {}
      BY <2>1 DEF SumRule
    <2>2. CASE s # {}
      <3>1. Some(s) \in B
        BY <2>2, SomeIn
      <3>2. f[Some(s)] = Some(s).balance
        BY <3>1
      <3> HIDE DEF f
      <3>3. QED
        BY <2>2, <3>2 DEF SumRule
    <2>3. QED
      BY <2>1, <2>2
  <1>4. \A g : Solves(g) <=> IsSum(g, f, B)
    <2> HIDE DEF Rule, f
    <2>1. QED
      BY <1>3 DEF IsSum
  <1> HIDE DEF f, Solves
  <1>5. \E g : IsSum(g, f, B)
    BY SumExists
  <1>6. IsSum(g1, f, B) /\ IsSum(g2, f, B)
    <2>1. Solves(g1)
      BY <1>4, <1>5
    <2> HIDE DEF g1
    <2>2. QED
      BY <1>4, <1>5, <2>1
  <1> HIDE DEF g1, g2
  <1>7. g1[B] = g2[B]
    BY <1>6, SumUnique
  <1>8. QED
    BY <1>1, <1>2, <1>7 DEF f

\* Each currency has one row, and each credit is in the row of its currency.
LEMMA AddUp ==
    ASSUME TypeOK, NEW u, \A c \in Groups(u) : SumIn(u, c) < ExactCents
    PROVE  MapThenSumSet(LAMBDA a : a.balance, Balances(u)) = Sum(CreditsOf(u))
  <1> DEFINE B == Balances(u)
             D == Groups(u)
             S == CreditsOf(u)
             f == [a \in B |-> a.balance]
  <1>fin. /\ IsFiniteSet(S) /\ IsFiniteSet(D)
          /\ \A o \in S : credit[o] \in Nat
          /\ \A c : SumIn(u, c) \in Nat
    BY CreditTypes
  <1>1. CASE D = {}
    <2> DEFINE z == [currency |-> SGD, balance |-> 0]
    <2>1. S = {}
      BY <1>1 DEF Groups
    <2>2. B = {z}
      BY <1>1 DEF Balances
    <2>3. IsFiniteSet(B) /\ \A a \in B : f[a] = 0
      <3>1. \A a \in B : a.balance = 0
        BY <2>2
      <3>2. \A a \in B : f[a] = a.balance
        OBVIOUS
      <3>3. IsFiniteSet(B)
        <4> HIDE DEF B, z
        <4>1. QED
          BY <2>2, FS_Singleton
      <3>4. QED
        BY <3>1, <3>2, <3>3
    <2> HIDE DEF B, S, f
    <2>4. SumOver(f, B) = 0
      BY <2>3, SumZero
    <2>5. SumOver(credit, S) = 0
      BY <2>1, SumEmpty
    <2>6. QED
      BY <2>3, <2>4, <2>5, SumOfAnswers, SumsOfCredits DEF f, B, S
  <1>2. CASE D # {}
    <2> DEFINE g == [c \in D |-> [currency |-> c, balance |-> SumIn(u, c)]]
               k == [o \in S |-> orders[o].currency]
               Row == [c \in D |-> SumOver(credit, {o \in S : k[o] = c})]
    <2>0. \A c \in D : ToNumber(SumIn(u, c)) = SumIn(u, c)
      BY <1>fin, NumberIsExact
    <2>1. B = {g[c] : c \in D}
      BY <1>2, <2>0 DEF Balances
    <2>2. \A c, d \in D : g[c] = g[d] => c = d
      <3>1. \A c \in D : g[c].currency = c
        OBVIOUS
      <3>2. QED
        BY <3>1
    <2>3. \A c \in D : g[c] \in B /\ f[g[c]] = SumIn(u, c)
      <3>1. \A c \in D : g[c] \in B /\ g[c].balance = SumIn(u, c)
        BY <2>1
      <3> HIDE DEF B, g
      <3>2. QED
        BY <3>1
    <2>4. \A b \in B : f[b] \in Nat
      <3> HIDE DEF f, g, B
      <3>1. QED
        BY <1>fin, <2>1, <2>3
    <2>5. \A o \in S : k[o] \in D
      BY DEF Groups
    <2>6. ASSUME NEW c \in D PROVE f[g[c]] = Row[c]
      <3>1. {o \in S : k[o] = c} = CreditsIn(u, c)
        BY DEF CreditsIn
      <3>2. Row[c] = SumOver(credit, CreditsIn(u, c))
        BY <3>1
      <3>3. QED
        BY <2>3, <3>2, SumsOfCredits
    <2>7. [c \in D |-> f[g[c]]] = Row
      BY <2>6
    <2> HIDE DEF f, g, B, D, S
    <2>8. SumOver(f, B) = SumOver([c \in D |-> f[g[c]]], D)
      BY <1>fin, <2>1, <2>2, <2>4, SumImage
    <2>9. SumOver(Row, D) = SumOver(credit, S)
      <3> HIDE DEF k
      <3>1. QED
        BY <1>fin, <2>5, SumByGroup
    <2>10. IsFiniteSet(B)
      BY <1>fin, <2>1, ImageIsFinite
    <2> HIDE DEF Row
    <2>11. QED
      BY <2>7, <2>8, <2>9, <2>10, SumOfAnswers, SumsOfCredits DEF f, B, S
  <1>3. QED
    BY <1>1, <1>2

\* Whoever may be told one of several balances is told nothing but his credits:
\* together they are all of them.
THEOREM BalancesAreComplete == Spec => []BalancesAddUp
  <1>1. TypeOK => BalancesAddUp
    BY AddUp DEF BalancesAddUp
  <1>2. QED
    BY <1>1, TypeCorrect, PTL

-----------------------------------------------------------------------------
(* A balance grows only. *)

\* What a user has been told is no more than what he would be told by now.
Told == \A u \in Users, c \in Currencies : told[<<u, c>>] <= ToNumber(SumIn(u, c))

\* The ledger grows only: a new credit is one of one user in one currency, and
\* the rows of credited orders do not change.
LEMMA SumsGrow ==
    ASSUME TypeOK, [Next]_vars, NEW u, NEW c
    PROVE  /\ SumIn(u, c) <= SumIn(u, c)'
           /\ SumIn(u, c) \in Nat /\ SumIn(u, c)' \in Nat
  <1>t. TypeOK'
    BY TypeStep
  <1>n. SumIn(u, c) \in Nat /\ IsFiniteSet(CreditsIn(u, c))
    BY CreditTypes
  <1>s. /\ SumIn(u, c) = SumOver(credit, CreditsIn(u, c))
        /\ SumIn(u, c)' = SumOver(credit', CreditsIn(u, c)')
    BY SumsOfCredits
  <1>1. ASSUME NEW o \in Orders, Credit(o)
        PROVE  SumIn(u, c) <= SumIn(u, c)'
    <2>1. /\ credit[o] = Nothing
          /\ \A p \in Orders \ {o} : credit'[p] = credit[p]
          /\ orders' = orders
      BY <1>1 DEF Credit, TypeOK
    <2>2. o \notin CreditsIn(u, c)
      BY <2>1 DEF CreditsIn, CreditsOf
    <2>3. CreditsIn(u, c) \subseteq Orders \ {o}
      BY <2>2 DEF CreditsIn, CreditsOf
    <2>4. CreditsIn(u, c)' \ {o} = CreditsIn(u, c)
      BY <2>1, <2>2 DEF CreditsIn, CreditsOf
    <2>5. \A p \in CreditsIn(u, c) : credit[p] = credit'[p]
      BY <2>1, <2>3
    <2>6. SumOver(credit, CreditsIn(u, c)) = SumOver(credit', CreditsIn(u, c))
      BY <1>n, <2>5, SumSame
    <2>7. CASE o \in CreditsIn(u, c)'
      <3>1. CreditsIn(u, c)' = CreditsIn(u, c) \cup {o}
        BY <2>4, <2>7
      <3>2. \A p \in CreditsIn(u, c) \cup {o} : credit'[p] \in Nat
        BY <1>t, <3>1 DEF CreditsIn, CreditsOf, TypeOK
      <3>3. SumOver(credit', CreditsIn(u, c) \cup {o})
               = SumOver(credit', CreditsIn(u, c)) + credit'[o]
        BY <1>n, <2>2, <3>2, SumAdd
      <3>4. credit'[o] \in Nat
        BY <3>2
      <3>5. QED
        BY <1>n, <1>s, <2>6, <3>1, <3>3, <3>4
    <2>8. CASE o \notin CreditsIn(u, c)'
      <3>1. CreditsIn(u, c)' = CreditsIn(u, c)
        BY <2>4, <2>8
      <3>2. QED
        BY <1>n, <1>s, <2>6, <3>1
    <2>9. QED
      BY <2>7, <2>8
  <1>2. ASSUME credit' = credit,
               \A o \in Orders : credit[o] # Nothing => orders'[o] = orders[o]
        PROVE  SumIn(u, c) <= SumIn(u, c)'
    <2>1. CreditsIn(u, c)' = CreditsIn(u, c)
      BY <1>2 DEF CreditsIn, CreditsOf
    <2>2. QED
      BY <1>2, <1>n, <1>s, <2>1
  <1>3. ASSUME NEW o \in Orders, NEW v \in Users, NEW m \in Merchants,
               NEW d \in Currencies, NEW a \in Amounts, Create(o, v, m, d, a)
        PROVE  SumIn(u, c) <= SumIn(u, c)'
    <2>1. credit' = credit /\ \A p \in Orders : credit[p] # Nothing => orders'[p] = orders[p]
      BY <1>3 DEF Create, TypeOK
    <2>2. QED
      BY <1>2, <2>1
  <1>4. ASSUME UNCHANGED <<orders, credit>> PROVE SumIn(u, c) <= SumIn(u, c)'
    BY <1>2, <1>4
  <1>5. SumIn(u, c) <= SumIn(u, c)'
    BY <1>1, <1>3, <1>4 DEF Next, UpsertRule, GetBalance, vars
  <1>6. SumOver(credit', CreditsIn(u, c)') \in Nat
    <2>1. /\ CreditsIn(u, c)' \subseteq Orders
          /\ \A o \in CreditsIn(u, c)' : credit'[o] \in Nat
      BY <1>t DEF CreditsIn, CreditsOf, TypeOK
    <2>2. IsFiniteSet(CreditsIn(u, c)')
      BY <2>1, BalanceConstants, FS_Subset
    <2>3. QED
      BY <2>1, <2>2, SumType
  <1>7. QED
    BY <1>n, <1>s, <1>5, <1>6

\* What a step answers is what the ledger holds; it is not below what the user
\* was told in that currency, however long ago.
LEMMA StepAnswers ==
    ASSUME TypeOK, Told, [Next]_vars, NEW u \in Users, NEW c \in Currencies
    PROVE  /\ told'[<<u, c>>] \in {told[<<u, c>>], ToNumber(SumIn(u, c))}
           /\ told'[<<u, c>>] >= told[<<u, c>>]
  <1>1. told \in [Users \X Currencies -> Nat] /\ told[<<u, c>>] \in Nat
    BY DEF TypeOK
  <1>2. ASSUME NEW v \in Users, GetBalance(v)
        PROVE  told'[<<u, c>>] \in {told[<<u, c>>], ToNumber(SumIn(u, c))}
    <2>1. PICK a \in Balances(v) : told' = [told EXCEPT ![<<v, a.currency>>] = a.balance]
      BY <1>2 DEF GetBalance
    <2>2. a.balance = ToNumber(SumIn(v, a.currency))
      BY AnswerIsLedger
    <2>3. CASE v = u /\ a.currency = c
      BY <1>1, <2>1, <2>2, <2>3
    <2>4. CASE ~(v = u /\ a.currency = c)
      BY <1>1, <2>1, <2>4
    <2>5. QED
      BY <2>3, <2>4
  <1>3. ASSUME UNCHANGED told PROVE told'[<<u, c>>] = told[<<u, c>>]
    BY <1>3
  <1>4. told'[<<u, c>>] \in {told[<<u, c>>], ToNumber(SumIn(u, c))}
    BY <1>2, <1>3 DEF Next, Create, UpsertRule, Credit, vars
  <1>5. ToNumber(SumIn(u, c)) \in Nat /\ told[<<u, c>>] <= ToNumber(SumIn(u, c))
    BY CreditTypes, NumberGrows DEF Told
  <1>6. QED
    BY <1>1, <1>4, <1>5

LEMMA ToldStep == TypeOK /\ Told /\ [Next]_vars => Told'
  <1>1. SUFFICES ASSUME TypeOK, Told, [Next]_vars, NEW u \in Users, NEW c \in Currencies
                 PROVE  told'[<<u, c>>] <= ToNumber(SumIn(u, c))'
    BY DEF Told
  <1>2. told'[<<u, c>>] \in {told[<<u, c>>], ToNumber(SumIn(u, c))}
    BY <1>1, StepAnswers
  <1>3. told[<<u, c>>] \in Nat /\ told[<<u, c>>] <= ToNumber(SumIn(u, c))
    BY <1>1 DEF Told, TypeOK
  <1>4. SumIn(u, c) <= SumIn(u, c)' /\ SumIn(u, c) \in Nat /\ SumIn(u, c)' \in Nat
    BY <1>1, SumsGrow
  <1>5. ToNumber(SumIn(u, c))' = ToNumber(SumIn(u, c)')
    BY DEF ToNumber
  <1>6. /\ ToNumber(SumIn(u, c)) \in Nat /\ ToNumber(SumIn(u, c)') \in Nat
        /\ ToNumber(SumIn(u, c)) <= ToNumber(SumIn(u, c)')
    BY <1>4, NumberGrows
  <1>7. QED
    BY <1>2, <1>3, <1>5, <1>6

\* Nobody is ever told a balance below one he was told before in the same
\* currency, whatever answers in other currencies came between the two.
THEOREM BalancesGrow == Spec => BalanceNeverShrinks
  <1>1. Init => Told
    <2>1. SUFFICES ASSUME Init, NEW u \in Users, NEW c \in Currencies
                   PROVE  told[<<u, c>>] <= ToNumber(SumIn(u, c))
      BY DEF Told
    <2>2. told[<<u, c>>] = 0
      BY <2>1 DEF Init
    <2>3. TypeOK
      BY <2>1, TypeInit
    <2>4. SumIn(u, c) \in Nat
      BY <2>3, CreditTypes
    <2>5. ToNumber(SumIn(u, c)) \in Nat
      BY <2>4, NumberGrows
    <2>6. QED
      BY <2>2, <2>5
  <1>2. TypeOK /\ Told /\ [Next]_vars =>
           [\A u \in Users, c \in Currencies : told'[<<u, c>>] >= told[<<u, c>>]]_vars
    BY StepAnswers
  <1>3. QED
    BY <1>1, <1>2, TypeCorrect, ToldStep, PTL DEF Spec, BalanceNeverShrinks
=============================================================================
