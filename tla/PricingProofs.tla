--------------------------- MODULE PricingProofs ----------------------------
(* What Sum, MultiplySlow and applyPromoDiscount of checkout return and what *)
(* PlaceOrder charges, for every modulus, every word, all prices, quantities *)
(* and discounts and any number of items.                                    *)
EXTENDS Pricing, WellFoundedInduction, TLAPS

\* Division by the modulus of anything less than two units
LEMMA GoDivSmall ==
    ASSUME NEW n \in Int, -2 * NanosMod < n, n < 2 * NanosMod
    PROVE  /\ GoDiv(n, NanosMod) = IF n >= NanosMod THEN 1
                                   ELSE IF n <= -NanosMod THEN -1 ELSE 0
           /\ GoMod(n, NanosMod) = IF n >= NanosMod THEN n - NanosMod
                                   ELSE IF n <= -NanosMod THEN n + NanosMod ELSE n
<1> USE NanosAssumption
<1> DEFINE q == IF n >= NanosMod THEN 1 ELSE IF n <= -NanosMod THEN -1 ELSE 0
<1>1. ASSUME NEW k \in Nat, k < NanosMod PROVE k \div NanosMod = 0
  BY <1>1
<1>2. ASSUME NEW k \in Nat, NanosMod <= k, k < 2 * NanosMod PROVE k \div NanosMod = 1
  BY <1>2
<1>3. GoDiv(n, NanosMod) = q
  <2>1. CASE n >= 0
    <3>1. n \in Nat BY <2>1
    <3> QED BY <1>1, <1>2, <2>1, <3>1 DEF GoDiv
  <2>2. CASE n < 0
    <3>1. -n \in Nat BY <2>2
    <3>2. n <= -NanosMod => (-n) \div NanosMod = 1 BY <1>2, <3>1
    <3>3. n > -NanosMod => (-n) \div NanosMod = 0 BY <1>1, <3>1
    <3> QED BY <2>2, <3>2, <3>3 DEF GoDiv
  <2> QED BY <2>1, <2>2
<1>4. GoMod(n, NanosMod) = n - NanosMod * q BY <1>3 DEF GoMod
<1> QED BY <1>3, <1>4

(* Sum adds exactly: whatever branch it takes, the result is worth the two
   amounts together. *)
THEOREM SumIsExact ==
    ASSUME NEW l \in Amount, NEW r \in Amount, IsValid(l), IsValid(r)
    PROVE  Sum(l, r) \in Amount /\ Value(Sum(l, r)) = Value(l) + Value(r)
<1> USE NanosAssumption
<1> DEFINE u == l.units + r.units
           n == l.nanos + r.nanos
<1>1. u \in Int /\ n \in Int BY DEF Amount
<1>2. -2 * NanosMod < n /\ n < 2 * NanosMod BY DEF IsValid, validNanos, Amount
<1>3. Value(l) + Value(r) = u * NanosMod + n BY DEF Value, Amount
<1>4. CASE SameSign(u, n)
  <2>1. Sum(l, r) = [units |-> u + GoDiv(n, NanosMod), nanos |-> GoMod(n, NanosMod)]
    BY <1>4 DEF Sum, Carry
  <2>2. GoDiv(n, NanosMod) \in Int
    BY <1>1, <1>2, GoDivSmall
  <2>3. GoMod(n, NanosMod) = n - NanosMod * GoDiv(n, NanosMod) BY DEF GoMod
  <2> HIDE DEF u, n
  <2>4. (u + GoDiv(n, NanosMod)) * NanosMod + (n - NanosMod * GoDiv(n, NanosMod))
        = u * NanosMod + n
    BY <1>1, <2>2
  <2> QED BY <1>1, <1>3, <2>1, <2>2, <2>3, <2>4 DEF Value, Amount
<1>5. CASE ~SameSign(u, n)
  <2>1. Sum(l, r) = Borrow(u, n) BY <1>5 DEF Sum
  <2> HIDE DEF u, n
  <2>2. Borrow(u, n) \in Amount BY <1>1 DEF Borrow, Amount
  <2>3. Value(Borrow(u, n)) = u * NanosMod + n BY <1>1 DEF Borrow, Value
  <2> QED BY <1>3, <2>1, <2>2, <2>3
<1> QED BY <1>4, <1>5

(* Sum of two valid amounts is valid, unless the units cancel out or are
   both zero while the nanos do not: there the second branch is taken for an
   amount below one unit and returns units and nanos of different signs. *)
THEOREM SumIsValid ==
    ASSUME NEW l \in Amount, NEW r \in Amount, IsValid(l), IsValid(r),
           l.units + r.units # 0 \/ l.nanos + r.nanos = 0
    PROVE  IsValid(Sum(l, r))
<1> USE NanosAssumption
<1> DEFINE u == l.units + r.units
           n == l.nanos + r.nanos
<1>1. u \in Int /\ n \in Int BY DEF Amount
<1>2. -2 * NanosMod < n /\ n < 2 * NanosMod BY DEF IsValid, validNanos, Amount
<1>3. CASE SameSign(u, n)
  <2>1. Sum(l, r) = [units |-> u + GoDiv(n, NanosMod), nanos |-> GoMod(n, NanosMod)]
    BY <1>3 DEF Sum, Carry
  <2> HIDE DEF u, n
  <2> QED BY <1>1, <1>2, <1>3, <2>1, GoDivSmall DEF SameSign, IsValid, signMatches, validNanos
<1>4. CASE ~SameSign(u, n)
  <2>1. Sum(l, r) = Borrow(u, n) BY <1>4 DEF Sum
  \* opposite signs in the sum: one operand's nanos outweigh the other's,
  \* and together they stay below one unit
  <2>2. u > 0 => -NanosMod < n /\ n < 0
    BY <1>4 DEF SameSign, IsValid, validNanos, signMatches, Amount
  <2>3. u < 0 => 0 < n /\ n < NanosMod
    BY <1>4 DEF SameSign, IsValid, validNanos, signMatches, Amount
  <2>4. u # 0 BY <1>4 DEF SameSign
  <2> HIDE DEF u, n
  <2> QED BY <1>1, <2>1, <2>2, <2>3, <2>4 DEF Borrow, IsValid, signMatches, validNanos
<1> QED BY <1>3, <1>4

-----------------------------------------------------------------------------
(* MultiplySlow.                                                           *)

\* A set of natural numbers that is not empty has a least element.
LEMMA LeastNatural ==
    ASSUME NEW T \in SUBSET Nat, T # {}
    PROVE  \E n \in T : \A k \in T : n <= k
<1> DEFINE less == OpToRel(<, Nat)
<1>1. PICK n \in T : \A k \in T : ~(<<k, n>> \in less)
  <2> HIDE DEF less
  <2>1. IsWellFoundedOn(less, Nat) BY NatLessThanWellFounded, Zenon DEF less
  <2> QED BY <2>1, WFMin
<1>2. \A k \in T : ~(k < n) BY <1>1 DEF OpToRel
<1> QED BY <1>2

\* The loop's table of multiples of m, up to n.
IsTable(f, m, n) == f = [i \in 0..n |-> IF i <= 1 THEN m ELSE Sum(f[i - 1], m)]

LEMMA TableIsUnique ==
    ASSUME NEW m, NEW n \in Nat, NEW f, NEW g, IsTable(f, m, n), IsTable(g, m, n)
    PROVE  f = g
<1> DEFINE T == {i \in 0..n : f[i] # g[i]}
<1>1. T = {}
  <2> SUFFICES ASSUME T # {} PROVE FALSE OBVIOUS
  <2>0. T \in SUBSET Nat OBVIOUS
  <2>1. PICK i \in T : \A k \in T : i <= k
    <3> HIDE DEF T
    <3> QED BY <2>0, LeastNatural
  <2>2. i > 1 BY DEF IsTable
  <2>3. f[i - 1] = g[i - 1]
    <3>1. i - 1 \in 0..n /\ ~(i <= i - 1) BY <2>2
    <3> QED BY <2>1, <3>1
  <2>4. f[i] = Sum(f[i - 1], m) /\ g[i] = Sum(g[i - 1], m) BY <2>2 DEF IsTable
  <2> QED BY <2>3, <2>4
<1>2. \A i \in 0..n : f[i] = g[i] BY <1>1
<1> QED BY <1>2 DEF IsTable

LEMMA TableExists ==
    ASSUME NEW m, NEW n \in Nat PROVE \E f : IsTable(f, m, n)
<1> DEFINE T == {k \in Nat : ~\E f : IsTable(f, m, k)}
<1> SUFFICES ASSUME T # {} PROVE FALSE OBVIOUS
<1>1. PICK k \in T : \A j \in T : k <= j BY LeastNatural
<1>2. k # 0
  <2>1. IsTable([i \in 0..0 |-> m], m, 0) BY DEF IsTable
  <2> QED BY <2>1
<1>3. k - 1 \in Nat /\ k - 1 \notin T BY <1>1, <1>2
<1>4. PICK f : IsTable(f, m, k - 1) BY <1>3
<1> DEFINE g == [i \in 0..k |-> IF i < k THEN f[i] ELSE IF i <= 1 THEN m ELSE Sum(f[i - 1], m)]
<1>5. IsTable(g, m, k)
  <2>1. ASSUME NEW i \in 0..k PROVE g[i] = IF i <= 1 THEN m ELSE Sum(g[i - 1], m)
    <3>1. CASE i <= 1 BY <1>4, <3>1 DEF IsTable
    <3>2. CASE i > 1
      <4>1. i - 1 \in 0..k /\ i - 1 < k /\ i - 1 \in 0..(k - 1) BY <3>2
      <4>2. g[i - 1] = f[i - 1] BY <4>1
      <4>3. i < k => f[i] = Sum(f[i - 1], m) BY <1>4, <3>2 DEF IsTable
      <4> QED BY <3>2, <4>2, <4>3
    <3> QED BY <3>1, <3>2
  <2> QED BY <2>1 DEF IsTable
<1> QED BY <1>5

\* MultiplySlow is its loop: one addition for every unit of quantity but the first.
LEMMA MultiplySlowSteps ==
    ASSUME NEW m, NEW n \in Nat
    PROVE  MultiplySlow(m, n) = IF n <= 1 THEN m ELSE Sum(MultiplySlow(m, n - 1), m)
<1> DEFINE F(k) == CHOOSE f : IsTable(f, m, k)
<1>1. \A k \in Nat : IsTable(F(k), m, k) BY TableExists
<1>2. \A k \in Nat : MultiplySlow(m, k) = F(k)[k] BY DEF MultiplySlow, IsTable
<1>3. CASE n <= 1
  <2> HIDE DEF F
  <2> QED BY <1>1, <1>2, <1>3 DEF IsTable
<1>4. CASE n > 1
  <2> DEFINE g == [i \in 0..(n - 1) |-> F(n)[i]]
  <2>1. n - 1 \in Nat BY <1>4
  <2>2. IsTable(g, m, n - 1)
    <3> HIDE DEF F
    <3> QED BY <1>1, <1>4 DEF IsTable
  <2>3. g = F(n - 1)
    <3> HIDE DEF F, g
    <3> QED BY <1>1, <2>1, <2>2, TableIsUnique
  <2> HIDE DEF F
  <2>4. F(n)[n - 1] = F(n - 1)[n - 1]
    <3>1. g[n - 1] = F(n)[n - 1] BY <2>1
    <3> HIDE DEF g
    <3> QED BY <2>3, <3>1
  <2> HIDE DEF g
  <2>5. F(n)[n] = Sum(F(n)[n - 1], m) BY <1>1, <1>4 DEF IsTable
  <2> QED BY <1>2, <1>4, <2>1, <2>4, <2>5
<1> QED BY <1>3, <1>4

-----------------------------------------------------------------------------
(* The total and the charge.                                               *)

\* An amount as it may be added: valid and not negative.
IsCost(m) == m \in Amount /\ IsValid(m) /\ m.units >= 0 /\ m.nanos >= 0

LEMMA CostIsWorth ==
    ASSUME NEW m, IsCost(m)
    PROVE  m \in Amount /\ IsValid(m) /\ Value(m) \in Nat
<1>1. m.units \in Nat /\ m.nanos \in Nat BY DEF IsCost, Amount
<1>2. m.units * NanosMod \in Nat BY <1>1, NanosAssumption
<1> QED BY <1>1, <1>2 DEF IsCost, Value

\* Two amounts add up to one that may be added again, or to less than a unit.
LEMMA SumOfCosts ==
    ASSUME NEW l, NEW r, IsCost(l), IsCost(r)
    PROVE  /\ Sum(l, r) \in Amount /\ Value(Sum(l, r)) = Value(l) + Value(r)
           /\ IsCost(Sum(l, r)) \/ Fractional(Value(l) + Value(r))
<1> USE NanosAssumption
<1>1. l \in Amount /\ r \in Amount /\ IsValid(l) /\ IsValid(r) BY DEF IsCost
<1>2. Sum(l, r) \in Amount /\ Value(Sum(l, r)) = Value(l) + Value(r) BY <1>1, SumIsExact
<1> DEFINE u == l.units + r.units
           n == l.nanos + r.nanos
<1>3. u \in Nat /\ n \in Nat /\ n < 2 * NanosMod
  BY DEF IsCost, Amount, IsValid, validNanos
<1>4. CASE SameSign(u, n)
  <2>1. Sum(l, r) = [units |-> u + GoDiv(n, NanosMod), nanos |-> GoMod(n, NanosMod)]
    BY <1>4 DEF Sum, Carry
  <2> HIDE DEF u, n
  <2> QED BY <1>2, <1>3, <1>4, <2>1, GoDivSmall
          DEF SameSign, IsCost, IsValid, signMatches, validNanos
<1>5. CASE ~SameSign(u, n)
  <2>1. Sum(l, r) = Borrow(u, n) BY <1>5 DEF Sum
  <2>2. u = 0 /\ n > 0 BY <1>3, <1>5 DEF SameSign
  <2>3. Value(l) + Value(r) = n
    <3>1. l.units = 0 /\ r.units = 0 BY <2>2 DEF IsCost, Amount
    <3> QED BY <3>1 DEF Value, IsCost, Amount
  <2> HIDE DEF u, n
  <2>4. Sum(l, r) = [units |-> 1, nanos |-> n - NanosMod] BY <2>1, <2>2 DEF Borrow
  <2>5. CASE n < NanosMod BY <1>2, <1>3, <2>2, <2>3, <2>5 DEF Fractional
  <2>6. CASE n >= NanosMod
    BY <1>2, <1>3, <2>4, <2>6 DEF IsCost, IsValid, signMatches, validNanos
  <2> QED BY <1>3, <2>5, <2>6
<1> QED BY <1>4, <1>5

\* A valid amount that is not worth less than nothing has no negative part.
LEMMA ValidIsCost ==
    ASSUME NEW m \in Amount, IsValid(m), Value(m) \in Nat PROVE IsCost(m)
<1>1. m.units \in Int /\ m.nanos \in Int /\ m.units * NanosMod + m.nanos >= 0
  BY DEF Amount, Value
<1>2. m.units >= 0
  <2> SUFFICES ASSUME m.units < 0 PROVE FALSE BY <1>1
  <2>1. m.units <= -1 BY <1>1
  <2>2. m.units * NanosMod <= -NanosMod BY <1>1, <2>1, NanosAssumption
  <2>3. m.nanos < NanosMod BY DEF IsValid, validNanos
  <2> QED BY <1>1, <2>2, <2>3, NanosAssumption
<1>3. m.nanos >= 0
  <2>1. m.units = 0 => m.nanos >= 0 BY <1>1, NanosAssumption
  <2>2. m.units > 0 => m.nanos >= 0 BY <1>1 DEF IsValid, signMatches
  <2> QED BY <1>1, <1>2, <2>1, <2>2
<1> QED BY <1>2, <1>3 DEF IsCost

\* A multiple of a cost is exact; it may be added, or is worth less than a unit.
MultipleIsGood(m, i) ==
    /\ MultiplySlow(m, i) \in Amount
    /\ Value(MultiplySlow(m, i)) = i * Value(m)
    /\ IsCost(MultiplySlow(m, i)) \/ Fractional(i * Value(m))

\* One more addition, if the loop does not panic at it.
LEMMA OneMore ==
    ASSUME NEW m, IsCost(m), NEW i \in Nat, i >= 1, MultipleIsGood(m, i),
           ~SumPanics(MultiplySlow(m, i), m)
    PROVE  MultipleIsGood(m, i + 1)
<1> DEFINE p == MultiplySlow(m, i)
<1>1. MultiplySlow(m, i + 1) = Sum(p, m)
  <2>1. i + 1 \in Nat /\ ~(i + 1 <= 1) /\ (i + 1) - 1 = i OBVIOUS
  <2> QED BY <2>1, MultiplySlowSteps
<1>2. Value(m) \in Nat /\ m \in Amount BY CostIsWorth
<1>3. p \in Amount /\ IsValid(p) /\ Value(p) = i * Value(m)
  BY DEF MultipleIsGood, SumPanics
<1> HIDE DEF p
<1>4. i * Value(m) \in Nat BY <1>2
<1>5. IsCost(p) BY <1>3, <1>4, ValidIsCost
<1>6. i * Value(m) + Value(m) = (i + 1) * Value(m) BY <1>2
<1> QED BY <1>1, <1>3, <1>5, <1>6, SumOfCosts DEF MultipleIsGood

\* Without a panic, MultiplySlow is exact.
LEMMA MultiplySlowIsExact ==
    ASSUME NEW m, IsCost(m), NEW n \in Nat, n >= 1, ~MultiplySlowPanics(m, n)
    PROVE  MultipleIsGood(m, n)
<1> DEFINE T == {i \in 1..n : ~MultipleIsGood(m, i)}
<1> SUFFICES ASSUME T # {} PROVE FALSE OBVIOUS
<1>0. T \in SUBSET Nat OBVIOUS
<1>1. PICK i \in T : \A k \in T : i <= k
  <2> HIDE DEF T
  <2> QED BY <1>0, LeastNatural
<1>2. i # 1
  <2>1. MultiplySlow(m, 1) = m BY MultiplySlowSteps
  <2>2. 1 * Value(m) = Value(m) BY CostIsWorth
  <2> QED BY <2>1, <2>2, CostIsWorth DEF MultipleIsGood
<1>3. i - 1 \in 1..(n - 1) /\ i - 1 \notin T BY <1>1, <1>2
<1>4. MultipleIsGood(m, i - 1) BY <1>3
<1>5. ~SumPanics(MultiplySlow(m, i - 1), m) BY <1>3 DEF MultiplySlowPanics
<1>6. MultipleIsGood(m, (i - 1) + 1) BY <1>3, <1>4, <1>5, OneMore
<1> QED BY <1>6

\* MultiplySlow panics on amounts below one unit only.
LEMMA MultiplySlowPanicNeedsFraction ==
    ASSUME NEW m, IsCost(m), NEW n \in Nat, MultiplySlowPanics(m, n)
    PROVE  Fractional(Value(m))
<1> DEFINE T == {i \in 1..(n - 1) : SumPanics(MultiplySlow(m, i), m)}
<1>0. T \in SUBSET Nat /\ T # {} BY DEF MultiplySlowPanics
<1>1. PICK i \in T : \A k \in T : i <= k
  <2> HIDE DEF T
  <2> QED BY <1>0, LeastNatural
<1>2. ~MultiplySlowPanics(m, i)
  <2> SUFFICES ASSUME NEW k \in 1..(i - 1), SumPanics(MultiplySlow(m, k), m) PROVE FALSE
    BY DEF MultiplySlowPanics
  <2>1. k \in T /\ ~(i <= k) OBVIOUS
  <2> QED BY <1>1, <2>1
<1>3. MultipleIsGood(m, i) BY <1>2, MultiplySlowIsExact
<1>4. ~IsCost(MultiplySlow(m, i)) BY DEF IsCost, SumPanics
<1>5. 0 < i * Value(m) /\ i * Value(m) < NanosMod
  BY <1>3, <1>4 DEF MultipleIsGood, Fractional
<1>6. Value(m) \in Nat /\ i \in Nat /\ i >= 1 BY CostIsWorth
<1>7. Value(m) # 0 BY <1>5, <1>6
<1>8. Value(m) <= i * Value(m) BY <1>6
<1> QED BY <1>5, <1>6, <1>7, <1>8, NanosAssumption DEF Fractional

TypeOK ==
    /\ step \in {"shipping", "items", "done", "panic"}
    /\ count \in 0..MaxItems
    /\ total \in Amount
    /\ charged \in Amount
    /\ percent \in 0..100
    /\ exact \in Nat
    /\ fraction \in BOOLEAN

\* The total may be added to, unless a sum below one unit was made.
TotalIsGood == step # "panic" => IsCost(total) \/ fraction

ChargedIsDiscounted == step = "done" => charged = applyPromoDiscount(total, percent)

PricingInv ==
    /\ TypeOK /\ TotalIsExact /\ TotalIsGood /\ PanicNeedsFraction /\ ChargedIsDiscounted

\* Must(Sum(total, amount)), for an amount that is exact, and may be added or
\* is worth less than a unit.
LEMMA AddToTotalKeepsPricing ==
    ASSUME PricingInv, step \in {"shipping", "items"}, NEW amount \in Amount, NEW value \in Nat,
           Value(amount) = value, IsCost(amount) \/ Fractional(value),
           AddToTotal(amount, value, "items"), count' \in 0..MaxItems
    PROVE  PricingInv'
<1>1. /\ exact' = exact + value /\ UNCHANGED <<charged, percent>>
      /\ fraction' = (fraction \/ Fractional(value) \/ Fractional(exact + value))
  BY DEF AddToTotal
<1>2. exact \in Nat /\ exact' \in Nat /\ fraction' \in BOOLEAN /\ Value(total) = exact
  BY <1>1 DEF PricingInv, TypeOK, TotalIsExact
<1>3. CASE SumPanics(total, amount)
  <2>1. step' = "panic" /\ UNCHANGED total BY <1>3 DEF AddToTotal
  <2>2. fraction'
    <3>1. ~IsCost(total) \/ ~IsCost(amount) BY <1>3 DEF SumPanics, IsCost
    <3> QED BY <1>1, <3>1 DEF PricingInv, TotalIsGood
  <2> QED BY <1>1, <1>2, <2>1, <2>2
          DEF PricingInv, TypeOK, TotalIsExact, TotalIsGood, PanicNeedsFraction,
              ChargedIsDiscounted
<1>4. CASE ~SumPanics(total, amount)
  <2>1. step' = "items" /\ total' = Sum(total, amount) BY <1>4 DEF AddToTotal
  <2>2. IsCost(total) /\ IsCost(amount)
    BY <1>2, <1>4, ValidIsCost DEF SumPanics, PricingInv, TypeOK
  <2>3. /\ total' \in Amount /\ Value(total') = exact'
        /\ IsCost(total') \/ Fractional(exact + value)
    BY <1>1, <1>2, <2>1, <2>2, SumOfCosts
  <2>4. TotalIsExact' BY <2>3 DEF TotalIsExact, Value
  <2>5. TotalIsGood' BY <1>1, <2>3 DEF TotalIsGood, IsCost, IsValid, signMatches
  <2> QED BY <1>1, <1>2, <2>1, <2>3, <2>4, <2>5
          DEF PricingInv, TypeOK, PanicNeedsFraction, ChargedIsDiscounted
<1> QED BY <1>3, <1>4

\* What is charged is an amount.
LEMMA DiscountIsAmount ==
    ASSUME NEW m \in Amount, NEW pct \in 0..100 PROVE applyPromoDiscount(m, pct) \in Amount
<1> USE NanosAssumption, WordAssumption
<1>1. \A x \in Int : Wrap(x) \in Int
  <2>1. WordMod \div 2 \in Int OBVIOUS
  <2> QED BY <2>1 DEF Wrap
<1>2. \A x \in Int, y \in Nat \ {0} : GoDiv(x, y) \in Int /\ GoMod(x, y) \in Int
  <2>1. \A x \in Int, y \in Nat \ {0} : GoDiv(x, y) \in Int BY DEF GoDiv
  <2> QED BY <2>1 DEF GoMod
<1> DEFINE totalNanos == Wrap(m.units * NanosMod + m.nanos)
           kept == GoDiv(Wrap(totalNanos * (100 - pct)), 100)
<1>3. totalNanos \in Int
  <2>1. m.units \in Int /\ m.nanos \in Int /\ m.units * NanosMod + m.nanos \in Int BY DEF Amount
  <2> QED BY <1>1, <2>1
<1>4. kept \in Int
  <2> HIDE DEF totalNanos
  <2>1. totalNanos * (100 - pct) \in Int BY <1>3
  <2> QED BY <1>1, <1>2, <2>1
<1>5. applyPromoDiscount(m, pct) \in
        {m, Zero, [units |-> GoDiv(kept, NanosMod), nanos |-> GoMod(kept, NanosMod)]}
  BY DEF applyPromoDiscount
<1> HIDE DEF kept
<1>6. GoDiv(kept, NanosMod) \in Int /\ GoMod(kept, NanosMod) \in Int BY <1>2, <1>4
<1> QED BY <1>5, <1>6 DEF Amount, Zero

LEMMA PricingInvariant == Spec => []PricingInv
<1> USE NanosAssumption, PricingAssumption
<1>1. Init => PricingInv
  <2>1. IsCost(Zero) BY DEF IsCost, IsValid, signMatches, validNanos, Zero, Amount
  <2>2. Value(Zero) = 0 BY DEF Value, Zero
  <2> SUFFICES ASSUME Init PROVE PricingInv OBVIOUS
  <2>3. total = Zero /\ charged = Zero /\ step = "shipping" BY DEF Init
  <2>4. TypeOK
    <3>1. Zero \in Amount BY DEF Amount, Zero
    <3>2. count \in 0..MaxItems /\ percent \in 0..100 /\ exact \in Nat BY DEF Init
    <3>3. fraction \in BOOLEAN BY DEF Init
    <3> QED BY <2>3, <3>1, <3>2, <3>3 DEF TypeOK
  <2>5. TotalIsExact /\ TotalIsGood BY <2>1, <2>2, <2>3 DEF Init, TotalIsExact, TotalIsGood
  <2> QED BY <2>3, <2>4, <2>5 DEF PricingInv, PanicNeedsFraction, ChargedIsDiscounted
<1>2. PricingInv /\ [Next]_vars => PricingInv'
  <2> SUFFICES ASSUME PricingInv, [Next]_vars PROVE PricingInv' OBVIOUS
  <2>0. \A cost \in Costs : IsCost(cost) BY DEF IsCost
  <2>1. ASSUME NEW cost \in Costs, AddShipping(cost) PROVE PricingInv'
    <3>1. cost \in Amount /\ Value(cost) \in Nat /\ IsCost(cost) BY <2>0, CostIsWorth
    <3>2. count' \in 0..MaxItems BY <2>1 DEF AddShipping, PricingInv, TypeOK
    <3> QED BY <2>1, <3>1, <3>2, AddToTotalKeepsPricing DEF AddShipping
  <2>2. ASSUME NEW cost \in Costs, NEW quantity \in Quantities, AddItem(cost, quantity)
        PROVE  PricingInv'
    <3>1. IsCost(cost) /\ Value(cost) \in Nat /\ quantity \in Nat BY <2>0, CostIsWorth
    <3>2. step = "items" /\ count' \in 0..MaxItems
      BY <2>2 DEF AddItem, PricingInv, TypeOK
    <3>3. CASE MultiplySlowPanics(cost, quantity)
      <4>1. Fractional(Value(cost)) BY <3>1, <3>3, MultiplySlowPanicNeedsFraction
      <4>2. /\ step' = "panic" /\ fraction' = TRUE
            /\ UNCHANGED <<total, charged, percent, exact>>
        BY <2>2, <3>3, <4>1 DEF AddItem
      <4> QED BY <3>2, <4>2
              DEF PricingInv, TypeOK, TotalIsExact, TotalIsGood, PanicNeedsFraction,
                  ChargedIsDiscounted
    <3>4. CASE ~MultiplySlowPanics(cost, quantity)
      <4> DEFINE times == IF quantity = 0 THEN 1 ELSE quantity
                 amount == MultiplySlow(cost, quantity)
      <4>1. AddToTotal(amount, Value(cost) * times, "items") BY <2>2, <3>4 DEF AddItem
      <4>2. /\ amount \in Amount /\ Value(amount) = Value(cost) * times
            /\ IsCost(amount) \/ Fractional(Value(cost) * times)
        <5>1. CASE quantity = 0
          <6>1. amount = cost BY <5>1, MultiplySlowSteps
          <6> QED BY <3>1, <5>1, <6>1, CostIsWorth
        <5>2. CASE quantity # 0
          <6>1. MultipleIsGood(cost, quantity) BY <3>1, <3>4, <5>2, MultiplySlowIsExact
          <6>2. quantity * Value(cost) = Value(cost) * times BY <3>1, <5>2
          <6> QED BY <6>1, <6>2 DEF MultipleIsGood
        <5> QED BY <5>1, <5>2
      <4>3. Value(cost) * times \in Nat BY <3>1
      <4> HIDE DEF times, amount
      <4> QED BY <3>2, <4>1, <4>2, <4>3, AddToTotalKeepsPricing
    <3> QED BY <3>3, <3>4
  <2>3. ASSUME NEW pct \in Discounts, Charge(pct) PROVE PricingInv'
    <3>1. pct \in 0..100 OBVIOUS
    <3>2. charged' \in Amount BY <2>3, <3>1, DiscountIsAmount DEF Charge, PricingInv, TypeOK
    <3>3. ChargedIsDiscounted'
      BY <2>3 DEF Charge, ChargedIsDiscounted, applyPromoDiscount
    <3> QED BY <2>3, <3>1, <3>2, <3>3
            DEF Charge, PricingInv, TypeOK, TotalIsExact, TotalIsGood, PanicNeedsFraction
  <2>4. CASE UNCHANGED vars
    BY <2>4 DEF vars, PricingInv, TypeOK, TotalIsExact, TotalIsGood, PanicNeedsFraction,
       ChargedIsDiscounted
  <2> QED BY <2>1, <2>2, <2>3, <2>4 DEF Next
<1> QED BY <1>1, <1>2, PTL DEF Spec

(* The running total, the charge and the counters keep their types: nothing
   PlaceOrder adds up is ever less than nothing. *)
THEOREM PricingTypeCorrect == Spec => []TypeOK
<1>1. PricingInv => TypeOK BY DEF PricingInv
<1> QED BY <1>1, PricingInvariant, PTL

(* As long as PlaceOrder has not panicked, the total is worth exactly what was
   bought: Sum carries and borrows without loss and MultiplySlow's loop adds
   the price as often as the quantity says. *)
THEOREM PricingTotalIsExact == Spec => []TotalIsExact
<1>1. PricingInv => TotalIsExact BY DEF PricingInv
<1> QED BY <1>1, PricingInvariant, PTL

(* PlaceOrder panics on valid prices only after an amount above zero and below
   one unit: Must never fires on an order of whole units and more. *)
THEOREM PricingPanicNeedsFraction == Spec => []PanicNeedsFraction
<1>1. PricingInv => PanicNeedsFraction BY DEF PricingInv
<1> QED BY <1>1, PricingInvariant, PTL

\* int64 arithmetic leaves what fits alone.
LEMMA WrapFits ==
    ASSUME NEW x \in Nat, x < WordMod \div 2 PROVE Wrap(x) = x
<1> DEFINE half == WordMod \div 2
<1>1. half \in Nat /\ WordMod = 2 * half BY WordAssumption
<1> HIDE DEF half
<1>2. (x + half) % WordMod = x + half
  <2>1. x < half BY DEF half
  <2>2. x + half \in 0..(WordMod - 1) BY <1>1, <2>1, WordAssumption
  <2> QED BY <2>2, WordAssumption
<1>3. Wrap(x) = ((x + half) % WordMod) - half BY DEF Wrap, half
<1> QED BY <1>1, <1>2, <1>3

(* Whatever the total and the percentage are, as long as their product fits
   int64 the charge is the discounted total rounded down: the integer
   divisions of applyPromoDiscount lose less than a nano. *)
THEOREM PricingDiscountRoundsDown == Spec => []DiscountRoundsDown
<1>1. PricingInv => DiscountRoundsDown
  <2> SUFFICES ASSUME PricingInv, step = "done", Value(total) * 100 < WordMod \div 2
               PROVE  LET due == Value(total) * (100 - percent)
                      IN  100 * Value(charged) <= due /\ due < 100 * Value(charged) + 100
    BY DEF DiscountRoundsDown
  <2> DEFINE v == Value(total)
             due == v * (100 - percent)
             kept == GoDiv(Wrap(Wrap(v) * (100 - percent)), 100)
  <2>1. /\ v \in Nat /\ percent \in 0..100
        /\ charged = applyPromoDiscount(total, percent) /\ v * 100 < WordMod \div 2
    BY DEF PricingInv, TypeOK, TotalIsExact, ChargedIsDiscounted
  <2>2. WordMod \div 2 \in Nat BY WordAssumption
  <2>3. CASE percent = 0
    <3>1. charged = total BY <2>1, <2>3 DEF applyPromoDiscount
    <3>2. Value(charged) = v BY <3>1 DEF Value
    <3> HIDE DEF v
    <3> QED BY <2>1, <2>3, <3>2 DEF v
  <2>4. CASE percent = 100
    <3>1. charged = Zero BY <2>1, <2>4 DEF applyPromoDiscount
    <3>2. Value(charged) = 0 BY <3>1, NanosAssumption DEF Value, Zero
    <3>3. due = 0
      <4> HIDE DEF v
      <4> QED BY <2>1, <2>4
    <3> QED BY <3>2, <3>3
  <2>5. CASE percent \in 1..99
    <3>1. charged = [units |-> GoDiv(kept, NanosMod), nanos |-> GoMod(kept, NanosMod)]
      BY <2>1, <2>5 DEF applyPromoDiscount, Value
    <3> HIDE DEF v
    <3>2. due \in Nat /\ due <= v * 100 /\ v <= v * 100
      <4>1. 100 - percent \in Nat /\ 100 - percent <= 100 BY <2>1
      <4> QED BY <2>1, <4>1
    <3> HIDE DEF due
    <3>3. Wrap(v) = v BY <2>1, <2>2, <3>2, WrapFits
    <3>4. kept = GoDiv(Wrap(due), 100) BY <3>3 DEF due
    <3>5. Wrap(due) = due BY <2>1, <2>2, <3>2, WrapFits
    <3>6. kept = due \div 100 BY <3>2, <3>4, <3>5 DEF GoDiv
    <3>7. kept \in Nat /\ 100 * kept <= due /\ due < 100 * kept + 100
      BY <3>2, <3>6
    <3> HIDE DEF kept
    <3>8. GoDiv(kept, NanosMod) \in Int BY <3>7, NanosAssumption DEF GoDiv
    <3>9. Value(charged) = kept
      <4>1. Value(charged) = GoDiv(kept, NanosMod) * NanosMod
                             + (kept - NanosMod * GoDiv(kept, NanosMod))
        BY <3>1 DEF Value, GoMod
      <4> QED BY <3>7, <3>8, <4>1, NanosAssumption
    <3> QED BY <3>7, <3>9 DEF due, v
  <2> QED BY <2>1, <2>3, <2>4, <2>5
<1> QED BY <1>1, PricingInvariant, PTL
=============================================================================
