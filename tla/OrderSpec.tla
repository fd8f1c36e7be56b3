----------------------------- MODULE OrderSpec ------------------------------
(***************************************************************************)
(* What PlaceOrder promises, without saying how: an order is paid for,     *)
(* then dispatched, then announced (confirmation mail, orders topic), and  *)
(* the caller gets one answer, unless it is lost.  The answer is OK only   *)
(* for a dispatched order, and an order answered with an error is never    *)
(* announced.  A failed order may still be paid for, or dispatched if it   *)
(* was paid for: nothing recalls a request that is on its way.  It may     *)
(* also stay paid and not dispatched: the program has no refund.           *)
(***************************************************************************)
CONSTANTS Requests
VARIABLES paid, dispatched, announced, answer

Failures == {"emptyCart", "internal", "unavailable", "lost"}
orderVars == <<paid, dispatched, announced, answer>>

OrderInit ==
    /\ paid = {}
    /\ dispatched = {}
    /\ announced = {}
    /\ answer = [r \in Requests |-> "none"]

Pay(r) ==
    /\ r \notin paid
    /\ answer[r] \in {"none", "internal", "lost"}
    /\ paid' = paid \cup {r}
    /\ UNCHANGED <<dispatched, announced, answer>>

Dispatch(r) ==
    /\ r \in paid \ dispatched
    /\ answer[r] \in {"none", "unavailable", "lost"}
    /\ dispatched' = dispatched \cup {r}
    /\ UNCHANGED <<paid, announced, answer>>

\* The message to the topic may be on its way when the caller gets its OK, and
\* when the process dies.
Announce(r) ==
    /\ r \in dispatched
    /\ answer[r] \in {"none", "ok", "lost"}
    /\ announced' = announced \cup {r}
    /\ UNCHANGED <<paid, dispatched, answer>>

Succeed(r) ==
    /\ r \in dispatched
    /\ answer[r] = "none"
    /\ answer' = [answer EXCEPT ![r] = "ok"]
    /\ UNCHANGED <<paid, dispatched, announced>>

\* A call fails, or a crash fails every call the process was serving.
Fail(failing, code) ==
    /\ \A r \in failing : answer[r] = "none"
    /\ answer' = [r \in Requests |-> IF r \in failing THEN code ELSE answer[r]]
    /\ UNCHANGED <<paid, dispatched, announced>>

OrderNext ==
    \/ \E r \in Requests : Pay(r) \/ Dispatch(r) \/ Announce(r) \/ Succeed(r)
    \/ \E failing \in SUBSET Requests, code \in Failures : Fail(failing, code)

OrderSpec == OrderInit /\ [][OrderNext]_orderVars
=============================================================================
