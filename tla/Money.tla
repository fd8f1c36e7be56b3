------------------------------- MODULE Money --------------------------------
(***************************************************************************)
(* src/checkout/money/money.go and applyPromoDiscount of main.go.          *)
(*                                                                         *)
(* An amount is units and nanos of the same sign, -NanosMod < nanos <      *)
(* NanosMod (10^9 in the code).  All amounts of an order are in the user's *)
(* currency; mixing currencies is an error of Sum, as an invalid operand   *)
(* is, and main.go wraps every Sum in Must, so an error is a panic.        *)
(***************************************************************************)
EXTENDS Integers

CONSTANTS
    NanosMod,   \* nanos in a unit: 10^9 in the code
    WordMod     \* 2^64 in the code: int64 wraps around modulo WordMod

ASSUME NanosAssumption == NanosMod \in Nat /\ NanosMod > 1
ASSUME WordAssumption  == WordMod \in Nat /\ WordMod > 1 /\ WordMod % 2 = 0

Amount == [units : Int, nanos : Int]
Zero   == [units |-> 0, nanos |-> 0]

\* Go's division truncates and its remainder has the dividend's sign.
GoDiv(x, y) == IF x >= 0 THEN x \div y ELSE -((-x) \div y)
GoMod(x, y) == x - y * GoDiv(x, y)

\* int64 arithmetic
Wrap(x) == ((x + WordMod \div 2) % WordMod) - WordMod \div 2

signMatches(m) == m.nanos = 0 \/ m.units = 0 \/ ((m.nanos < 0) <=> (m.units < 0))
validNanos(n)  == -NanosMod < n /\ n < NanosMod
IsValid(m)     == signMatches(m) /\ validNanos(m.nanos)

\* Mutant: nanos keep what was carried.
Carry_KeepsNanos(u, n) == [units |-> u + GoDiv(n, NanosMod), nanos |-> n]

\* Sum's first branch: the carry out of nanos that has the sign of units
Carry(u, n) == [units |-> u + GoDiv(n, NanosMod), nanos |-> GoMod(n, NanosMod)]

\* Sum's second branch, taken for every other pair
Borrow(u, n) ==
    IF u > 0 THEN [units |-> u - 1, nanos |-> n + NanosMod]
             ELSE [units |-> u + 1, nanos |-> n - NanosMod]

SameSign(u, n) == (u = 0 /\ n = 0) \/ (u > 0 /\ n >= 0) \/ (u < 0 /\ n <= 0)

\* Sum of two valid amounts of one currency
Sum(l, r) ==
    LET u == l.units + r.units
        n == l.nanos + r.nanos
    IN IF SameSign(u, n) THEN Carry(u, n) ELSE Borrow(u, n)

\* Must(Sum(l, r)) panics when an operand is invalid.
SumPanics(l, r) == ~IsValid(l) \/ ~IsValid(r)

\* Mutant: the code before the loop adds the amount once too often.
MultiplySlow_OneTooMany(m, n) ==
    LET f[i \in 0..n] == IF i = 0 THEN m ELSE Sum(f[i - 1], m) IN f[n]

\* The amount added to itself n - 1 times; 0 and 1 both give the amount.
MultiplySlow(m, n) ==
    LET f[i \in 0..n] == IF i <= 1 THEN m ELSE Sum(f[i - 1], m) IN f[n]

\* One of the n - 1 additions of MultiplySlow panics.
MultiplySlowPanics(m, n) ==
    \E i \in 1..(n - 1) : SumPanics(MultiplySlow(m, i), m)

\* Mutant: the discount is kept instead of taken off.
applyPromoDiscount_Inverted(m, pct) ==
    LET kept == GoDiv(Wrap((m.units * NanosMod + m.nanos) * pct), 100)
    IN  IF pct <= 0 THEN m ELSE IF pct >= 100 THEN Zero
        ELSE [units |-> GoDiv(kept, NanosMod), nanos |-> GoMod(kept, NanosMod)]

\* The amount less pct percent, in int64 arithmetic on the amount in nanos
applyPromoDiscount(m, pct) ==
    IF pct <= 0 THEN m
    ELSE IF pct >= 100 THEN Zero
    ELSE LET totalNanos == Wrap(m.units * NanosMod + m.nanos)
             kept       == GoDiv(Wrap(totalNanos * (100 - pct)), 100)
         IN [units |-> GoDiv(kept, NanosMod), nanos |-> GoMod(kept, NanosMod)]

\* The amount in nanos
Value(m) == m.units * NanosMod + m.nanos
=============================================================================
