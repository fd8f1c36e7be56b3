------------------------------ MODULE Payment -------------------------------
(***************************************************************************)
(* The payment service (src/payment/charge.js, index.js, config/).         *)
(*                                                                         *)
(* One pod runs version A or B with the API token of its secret.  A charge *)
(* tries the Buttercup gateway, which is simulated inside the service, up  *)
(* to RetryMax times, waiting between attempts, and answers with the       *)
(* transaction or with an internal error.  A charge that version B is      *)
(* going to fail has its delays planned beforehand.                        *)
(*                                                                         *)
(* Tokens are told apart as the code does: "prod" contains prod, "test"    *)
(* starts with test, "other" does neither; one that does both is left out.  *)
(* Delays are in a coarse unit.                                            *)
(***************************************************************************)
EXTENDS Naturals, Sequences

CONSTANTS
    Charges,      \* calls of Charge
    RetryMax,     \* retryMaxDefault: 4 in both versions
    TotalMin, TotalMax, ThreeMin, ThreeMax,   \* failureTimingConstraints
    Leave         \* what the comment leaves for the fourth attempt: 500 ms

ASSUME PaymentAssumption ==
    /\ RetryMax = 4
    /\ {TotalMin, TotalMax, ThreeMin, ThreeMax, Leave} \subseteq Nat
    /\ TotalMin < TotalMax /\ ThreeMin < ThreeMax /\ ThreeMin <= TotalMin /\ Leave < TotalMin

VARIABLES
    pod,       \* [version, token] of this pod, fixed at start-up
    provider,  \* OpenFeature has a provider (external)
    card,      \* each charge's card: "good", or "bad" for the validator
    pc,        \* "idle", "attempt", "backoff", "giveUp", "return" or "done"
    attempt,   \* the loop variable of charge
    plan,      \* failureTimings: the time of each attempt, or NoPlan
    elapsed,   \* planned delays waited so far
    captures,  \* how often the gateway captured the amount
    result     \* what the caller was answered

vars == <<pod, provider, card, pc, attempt, plan, elapsed, captures, result>>

NoPlan == <<>>
Pods   == [version : {"A", "B"}, token : {"prod", "test", "other"}]

Init ==
    /\ pod \in Pods
    /\ provider = FALSE
    /\ card \in [Charges -> {"good", "bad"}]
    /\ pc = [c \in Charges |-> "idle"]
    /\ attempt = [c \in Charges |-> 0]
    /\ plan = [c \in Charges |-> NoPlan]
    /\ elapsed = [c \in Charges |-> 0]
    /\ captures = [c \in Charges |-> 0]
    /\ result = [c \in Charges |-> "none"]

-----------------------------------------------------------------------------
\* randomInt(from, to): to is not reached from below; when to is below from
\* the result is between the two.
randomInt(from, to) == IF from < to THEN from..(to - 1) ELSE to..from

Lesser(a, b) == IF a < b THEN a ELSE b

\* Mutant: nothing is left for the fourth attempt (no Math.min).
FailurePlans_LeavesNothing ==
    UNION {{<<1, 1, three - 2, total - three>> : three \in randomInt(ThreeMin, ThreeMax)}
        : total \in randomInt(TotalMin, TotalMax)}

\* calculateFailureTimings: a total, a part of it for three attempts, of
\* which the first two take 20 to 50 percent of what is left, and the rest.
FailurePlans ==
    UNION {UNION {UNION {
        {<<first, second, three - first - second, total - three>>
            : second \in ((three - first) \div 5)..((three - first) \div 2)}
        : first \in (three \div 5)..(three \div 2)}
        : three \in randomInt(ThreeMin, Lesser(ThreeMax, total - Leave))}
        : total \in randomInt(TotalMin, TotalMax)}

\* An attempt's time is split 70/30 into the call and the wait after it; the
\* last attempt has no wait.
apiDelay(times, i) == IF i = 4 THEN times[i] ELSE (times[i] * 7) \div 10
backoff(times, i)  == times[i] - apiDelay(times, i)

\* Mutant: version B fails whatever its token.
shouldFailRequest_Always == pod.version = "B"

\* alwaysFail and isTokenBad
shouldFailRequest == pod.version = "B" /\ pod.token = "test"

\* API_TOKEN_FAILURE_TOKEN, the token the gateway refuses
FailureToken == IF pod.token = "prod" THEN "test" ELSE pod.token
TokenSent    == IF shouldFailRequest THEN FailureToken ELSE pod.token

\* buttercupPaymentsApiCharge resolves.
GatewayAccepts(c) == TokenSent # FailureToken /\ card[c] = "good"

Goto(c, step) == pc' = [pc EXCEPT ![c] = step]

\* The provider is there, the delays of a failing request are planned, and
\* the loop starts.
Charge(c) ==
    /\ pc[c] = "idle"
    /\ provider' = TRUE
    /\ plan' \in IF shouldFailRequest
                 THEN {[plan EXCEPT ![c] = times] : times \in FailurePlans}
                 ELSE {plan}
    /\ attempt' = [attempt EXCEPT ![c] = 1]
    /\ Goto(c, "attempt")
    /\ UNCHANGED <<pod, card, elapsed, captures, result>>

\* setProviderAndWait rejects: the handler answers without an attempt.
SetProviderFails(c) ==
    /\ pc[c] = "idle"
    /\ ~provider
    /\ provider' = TRUE
    /\ Goto(c, "done")
    /\ result' = [result EXCEPT ![c] = "internal"]
    /\ UNCHANGED <<pod, card, attempt, plan, elapsed, captures>>

\* A request without an amount: the handler throws before it calls charge.
MissesAmount(c) ==
    /\ pc[c] = "idle"
    /\ Goto(c, "done")
    /\ result' = [result EXCEPT ![c] = "internal"]
    /\ UNCHANGED <<pod, provider, card, attempt, plan, elapsed, captures>>

\* Mutant: the loop goes on after a success.
AttemptSucceeds_NoBreak(c) ==
    /\ pc[c] = "attempt"
    /\ GatewayAccepts(c)
    /\ captures' = [captures EXCEPT ![c] = @ + 1]
    /\ attempt' = [attempt EXCEPT ![c] = @ + 1]
    /\ Goto(c, IF attempt[c] < RetryMax THEN "attempt" ELSE "return")
    /\ UNCHANGED <<pod, provider, card, plan, elapsed, result>>

\* The gateway captures the amount and the loop ends.  The log entries, the
\* counter and the span attributes in between are taken not to throw: an
\* exception there would be caught as a refusal and the charge tried again.
AttemptSucceeds(c) ==
    /\ pc[c] = "attempt"
    /\ GatewayAccepts(c)
    /\ captures' = [captures EXCEPT ![c] = @ + 1]
    /\ Goto(c, "return")
    /\ UNCHANGED <<pod, provider, card, attempt, plan, elapsed, result>>

\* Waiting a planned delay
Wait(c, delay) ==
    elapsed' = [elapsed EXCEPT ![c] =
                   IF plan[c] = NoPlan THEN @ ELSE @ + delay]

\* Mutant: the last refusal never settles the promise.
AttemptFails_Hangs(c) ==
    /\ pc[c] = "attempt"
    /\ ~GatewayAccepts(c)
    /\ attempt[c] < RetryMax
    /\ Wait(c, apiDelay(plan[c], attempt[c]))
    /\ Goto(c, "backoff")
    /\ UNCHANGED <<pod, provider, card, attempt, plan, captures, result>>

\* The gateway refuses the token or the card; any error is tried again.
AttemptFails(c) ==
    /\ pc[c] = "attempt"
    /\ ~GatewayAccepts(c)
    /\ Wait(c, apiDelay(plan[c], attempt[c]))
    /\ Goto(c, IF attempt[c] < RetryMax THEN "backoff" ELSE "giveUp")
    /\ UNCHANGED <<pod, provider, card, attempt, plan, captures, result>>

\* sleep(delay), then the next attempt
Backoff(c) ==
    /\ pc[c] = "backoff"
    /\ Wait(c, backoff(plan[c], attempt[c]))
    /\ attempt' = [attempt EXCEPT ![c] = @ + 1]
    /\ Goto(c, "attempt")
    /\ UNCHANGED <<pod, provider, card, plan, captures, result>>

Answer(c, code) ==
    /\ Goto(c, "done")
    /\ result' = [result EXCEPT ![c] = code]
    /\ UNCHANGED <<pod, provider, card, attempt, plan, elapsed, captures>>

\* callback(null, response)
ReturnTransaction(c) == pc[c] = "return" /\ Answer(c, "ok")

\* Every attempt failed: charge throws and the handler answers INTERNAL.
GiveUp(c) == pc[c] = "giveUp" /\ Answer(c, "internal")

\* closeGracefully: forceShutdown ends every call without an answer of ours.
ForceShutdown ==
    /\ \E c \in Charges : pc[c] \notin {"idle", "done"}
    /\ pc' = [c \in Charges |-> "done"]
    /\ result' = [c \in Charges |-> IF pc[c] \in {"idle", "done"} THEN result[c] ELSE "lost"]
    /\ UNCHANGED <<pod, provider, card, attempt, plan, elapsed, captures>>

Serve(c) ==
    \/ AttemptSucceeds(c) \/ AttemptFails(c) \/ Backoff(c)
    \/ ReturnTransaction(c) \/ GiveUp(c)

Next ==
    \/ \E c \in Charges : Charge(c) \/ SetProviderFails(c) \/ MissesAmount(c) \/ Serve(c)
    \/ ForceShutdown

\* Timers fire and the event loop runs every charge.
Spec == Init /\ [][Next]_vars /\ \A c \in Charges : WF_vars(Serve(c))

-----------------------------------------------------------------------------
(* "Charge not authorized, no funds captured." (index.js) is true of every
   charge answered with an error, an authorized one was captured exactly
   once, and no retry or shutdown captures twice. *)
CapturedOnce ==
    \A c \in Charges :
        /\ captures[c] <= 1
        /\ result[c] = "ok" => captures[c] = 1
        /\ result[c] = "internal" => captures[c] = 0

(* The token decides: no charge goes through without a prod token, and with
   one a valid card is refused only before any attempt: the flag provider
   could not be set, or the request has no amount.  Replacing version B's
   token thus repairs it. *)
TokenDecides ==
    \A c \in Charges :
        /\ result[c] = "ok" => pod.token = "prod"
        /\ result[c] = "internal" /\ card[c] = "good" /\ pod.token = "prod" => attempt[c] = 0

(* How long a planned failure takes, waits included, against what the
   comments of calculateFailureTimings say: the total is within its range and
   never below what the attempts take, and the first three attempts take at
   most ThreeMax.  "3 attempts: 4-7.3 seconds" and "Leave at least 500ms for
   4th attempt" fail for short totals only, where the two contradict each
   other and randomInt is called with its bounds the wrong way round. *)
FailureTiming ==
    \A c \in Charges : result[c] = "internal" /\ plan[c] # NoPlan =>
        LET three  == plan[c][1] + plan[c][2] + plan[c][3]
            fourth == plan[c][4]
        IN  /\ elapsed[c] = three + fourth
            /\ elapsed[c] \in TotalMin..(TotalMax - 1)
            /\ three <= ThreeMax /\ fourth >= 0
            /\ three < ThreeMin \/ fourth < Leave => elapsed[c] < ThreeMin + Leave

(* Every charge is answered, after at most RetryMax attempts. *)
ChargeEnds == \A c \in Charges : pc[c] = "attempt" ~> pc[c] = "done"
=============================================================================
