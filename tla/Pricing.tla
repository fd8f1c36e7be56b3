------------------------------ MODULE Pricing -------------------------------
(***************************************************************************)
(* How PlaceOrder prices an order (src/checkout/main.go): the total starts *)
(* at zero, takes the shipping cost and then every item's price times its  *)
(* quantity, and is discounted by the promo code before it is charged.     *)
(***************************************************************************)
EXTENDS Money, Sequences

CONSTANTS
    Costs,        \* shipping costs and prices as the currency service returns them
    Quantities,   \* item quantities
    Discounts,    \* percentages of the promo codes, 0 for none
    MaxItems      \* bound: items in an order

ASSUME PricingAssumption ==
    /\ \A m \in Costs : m \in Amount /\ IsValid(m) /\ m.units >= 0 /\ m.nanos >= 0
    /\ Quantities \subseteq Nat
    /\ Discounts \subseteq 0..100
    /\ MaxItems \in Nat

VARIABLES
    step,       \* what PlaceOrder does next: "shipping", "items", "done", "panic"
    count,      \* items added so far
    total,      \* the running total
    charged,    \* chargeTotal, once the promo code is resolved
    percent,    \* the discount that was applied
    \* History, read by no action:
    exact,      \* what was added, in nanos
    fraction    \* some amount or sum was above zero and below one unit

vars == <<step, count, total, charged, percent, exact, fraction>>

Init ==
    /\ step = "shipping"
    /\ count = 0
    /\ total = Zero
    /\ charged = Zero
    /\ percent = 0
    /\ exact = 0
    /\ fraction = FALSE

Fractional(value) == 0 < value /\ value < NanosMod

\* total = Must(Sum(total, amount)), for an amount worth value nanos
AddToTotal(amount, value, next) ==
    /\ exact' = exact + value
    /\ fraction' = (fraction \/ Fractional(value) \/ Fractional(exact + value))
    /\ IF SumPanics(total, amount)
       THEN step' = "panic" /\ UNCHANGED total
       ELSE step' = next /\ total' = Sum(total, amount)
    /\ UNCHANGED <<charged, percent>>

AddShipping(cost) ==
    /\ step = "shipping"
    /\ AddToTotal(cost, Value(cost), "items")
    /\ UNCHANGED count

\* MultiplySlow panics on the way, or its result is added to the total.
AddItem(cost, quantity) ==
    /\ step = "items"
    /\ count < MaxItems
    /\ count' = count + 1
    /\ IF MultiplySlowPanics(cost, quantity)
       THEN /\ step' = "panic"
            /\ fraction' = (fraction \/ Fractional(Value(cost)))
            /\ UNCHANGED <<total, charged, percent, exact>>
       ELSE AddToTotal(MultiplySlow(cost, quantity),
                       Value(cost) * (IF quantity = 0 THEN 1 ELSE quantity), "items")

\* The promo code is resolved and the total discounted; then chargeCard.
Charge(pct) ==
    /\ step = "items"
    /\ step' = "done"
    /\ percent' = pct
    /\ charged' = applyPromoDiscount(total, pct)
    /\ UNCHANGED <<count, total, exact, fraction>>

Next ==
    \/ \E cost \in Costs : AddShipping(cost)
    \/ \E cost \in Costs, quantity \in Quantities : AddItem(cost, quantity)
    \/ \E pct \in Discounts : Charge(pct)

Spec == Init /\ [][Next]_vars

-----------------------------------------------------------------------------
(* The total that is charged, mailed and published is what the customer
   bought, to the last nano, whatever carries the additions made; a quantity
   of zero counts as one, as MultiplySlow has it. *)
TotalIsExact == step # "panic" => Value(total) = exact

(* PlaceOrder panics on valid prices only when some amount it added up was
   more than zero and less than one unit. *)
PanicNeedsFraction == step = "panic" => fraction

(* As long as the product with the percentage fits int64, the charge is the
   discounted total rounded down to a nano: never more than the total, never
   negative, and off by less than one nano. *)
DiscountRoundsDown ==
    (step = "done" /\ Value(total) * 100 < WordMod \div 2) =>
        LET due == Value(total) * (100 - percent)
        IN  100 * Value(charged) <= due /\ due < 100 * Value(charged) + 100
=============================================================================
