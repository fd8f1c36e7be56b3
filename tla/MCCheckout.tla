----------------------------- MODULE MCCheckout -----------------------------
(* An instance of Checkout for TLC.  One user: requests of different users *)
(* share nothing but the process.  Two requests overlap, retry each other  *)
(* and race two AddItem calls.                                             *)
EXTENDS Checkout, TLC

CONSTANTS alice, a1, a2, r1, r2

MCUsers      == {alice}
MCAdds       == {a1, a2}
MCRequests   == {r1, r2}
UserOfCalls  == [c \in Adds \cup Empties |-> alice]
CallSymmetry == Permutations(MCAdds) \cup Permutations(MCRequests)
=============================================================================
