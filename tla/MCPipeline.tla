----------------------------- MODULE MCPipeline -----------------------------
(* An instance of Pipeline for TLC: an order on a cart that its shopper     *)
(* fills and may empty meanwhile, and what becomes of the order's messages. *)
EXTENDS Pipeline

CONSTANTS alice, a1, r1, e1

MCUsers     == {alice}
MCAdds      == {a1}
MCRequests  == {r1}
MCEmpties   == {r1, e1}
UserOfCalls == [c \in Adds \cup Empties |-> alice]
=============================================================================
