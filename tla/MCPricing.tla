----------------------------- MODULE MCPricing ------------------------------
(* Instances of Pricing for TLC, with ten thousand nanos to the unit (one   *)
(* hundred to the cent) and a word of 2^24: TLC's own integers have 32 bits *)
(* and the code's products need 64.                                         *)
EXTENDS Pricing

M(u, n) == [units |-> u, nanos |-> n]

\* Around every carry and below one unit, with odd fractions
AllCosts   == {M(0, 0), M(0, 1), M(0, 4999), M(0, 5000), M(0, 9999),
               M(1, 0), M(1, 9999), M(2, 5001)}
=============================================================================
