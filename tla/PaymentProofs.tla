--------------------------- MODULE PaymentProofs ----------------------------
(* What the payment service guarantees for every number of charges, every   *)
(* pod and every configuration of delays.                                   *)
EXTENDS Payment, Integers, TLAPS

\* The control state's types; delays play no part in what is captured.
ControlTypeOK ==
    /\ pod \in Pods
    /\ card \in [Charges -> {"good", "bad"}]
    /\ pc \in [Charges -> {"idle", "attempt", "backoff", "giveUp", "return", "done"}]
    /\ attempt \in [Charges -> 0..RetryMax]
    /\ captures \in [Charges -> Nat]
    /\ result \in [Charges -> {"none", "ok", "internal", "lost"}]

\* The loop: a charge that is still trying has captured nothing, and one that
\* waits or gives up met a gateway that will never accept it.
LoopInv ==
    \A c \in Charges :
        /\ pc[c] # "done" => result[c] = "none"
        /\ pc[c] = "idle" => attempt[c] = 0
        /\ pc[c] \in {"idle", "attempt", "backoff", "giveUp"} => captures[c] = 0
        /\ pc[c] = "return" => captures[c] = 1 /\ GatewayAccepts(c)
        /\ pc[c] = "backoff" => attempt[c] < RetryMax
        /\ pc[c] \in {"backoff", "giveUp"} => ~GatewayAccepts(c)

\* How a charge may have ended.
EndInv ==
    \A c \in Charges :
        /\ captures[c] <= 1
        /\ result[c] = "ok" => captures[c] = 1 /\ GatewayAccepts(c)
        /\ result[c] = "internal" => captures[c] = 0 /\ (attempt[c] = 0 \/ ~GatewayAccepts(c))

PaymentInv == ControlTypeOK /\ LoopInv /\ EndInv

\* Whatever the version does with its token, the gateway accepts prod tokens.
LEMMA ProdIsAccepted ==
    ASSUME pod \in Pods, NEW c \in Charges
    PROVE  GatewayAccepts(c) <=> pod.token = "prod" /\ card[c] = "good"
BY DEF Pods, GatewayAccepts, TokenSent, FailureToken, shouldFailRequest

\* pod and card never change, so neither does what the gateway thinks.
LEMMA PaymentStep ==
    ASSUME PaymentInv, [Next]_vars PROVE PaymentInv'
<1> USE PaymentAssumption DEF PaymentInv, ControlTypeOK, LoopInv, EndInv, Goto, vars
<1>1. UNCHANGED <<pod, card>>
  BY DEF Next, Charge, SetProviderFails, MissesAmount, Serve, AttemptSucceeds, AttemptFails, Backoff,
     ReturnTransaction, GiveUp, Answer, ForceShutdown
<1>2. \A c \in Charges : GatewayAccepts(c)' <=> GatewayAccepts(c)
  BY <1>1 DEF GatewayAccepts, TokenSent, FailureToken, shouldFailRequest
<1>3. ASSUME NEW c \in Charges, Charge(c) PROVE PaymentInv'
  BY <1>1, <1>2, <1>3 DEF Charge
<1>4. ASSUME NEW c \in Charges, SetProviderFails(c) \/ MissesAmount(c) PROVE PaymentInv'
  BY <1>1, <1>2, <1>4 DEF SetProviderFails, MissesAmount
<1>5. ASSUME NEW c \in Charges, AttemptSucceeds(c) PROVE PaymentInv'
  BY <1>1, <1>2, <1>5 DEF AttemptSucceeds
<1>6. ASSUME NEW c \in Charges, AttemptFails(c) PROVE PaymentInv'
  BY <1>1, <1>2, <1>6 DEF AttemptFails
<1>7. ASSUME NEW c \in Charges, Backoff(c) PROVE PaymentInv'
  BY <1>1, <1>2, <1>7 DEF Backoff
<1>8. ASSUME NEW c \in Charges, ReturnTransaction(c) \/ GiveUp(c) PROVE PaymentInv'
  BY <1>1, <1>2, <1>8 DEF ReturnTransaction, GiveUp, Answer
<1>9. CASE ForceShutdown
  BY <1>1, <1>2, <1>9 DEF ForceShutdown
<1>10. CASE UNCHANGED vars
  BY <1>1, <1>2, <1>10
<1> QED BY <1>3, <1>4, <1>5, <1>6, <1>7, <1>8, <1>9, <1>10 DEF Next, Serve

LEMMA PaymentInvariant == Spec => []PaymentInv
<1>1. Init => PaymentInv
  BY PaymentAssumption DEF Init, PaymentInv, ControlTypeOK, LoopInv, EndInv
<1> QED BY <1>1, PaymentStep, PTL DEF Spec

(* No retry and no shutdown captures twice; a charge is answered with a
   transaction only if it was captured, and with an error only if it was
   not, for every number of charges and every timing. *)
THEOREM PaymentCapturedOnce == Spec => []CapturedOnce
<1>1. PaymentInv => CapturedOnce BY DEF PaymentInv, EndInv, CapturedOnce
<1> QED BY <1>1, PaymentInvariant, PTL

(* The token decides, in both versions: without a prod token no charge goes
   through, and with one no attempt on a valid card is refused. *)
THEOREM PaymentTokenDecides == Spec => []TokenDecides
<1>1. PaymentInv => TokenDecides
  BY ProdIsAccepted DEF PaymentInv, ControlTypeOK, EndInv, TokenDecides
<1> QED BY <1>1, PaymentInvariant, PTL

-----------------------------------------------------------------------------
(* The planned delays of a charge that version B fails.                     *)

\* The time of the attempts before the ith, with their waits.
Before(times, i) ==
    (IF i > 1 THEN times[1] ELSE 0) + (IF i > 2 THEN times[2] ELSE 0)
        + (IF i > 3 THEN times[3] ELSE 0)

InTotal(times) == times[1] + times[2] + times[3] + times[4]

\* What has been waited, by where the loop stands.
TimeInv ==
    /\ plan \in [Charges -> {NoPlan} \cup FailurePlans]
    /\ elapsed \in [Charges -> Int]
    /\ \A c \in Charges :
          /\ pc[c] = "idle" => plan[c] = NoPlan /\ elapsed[c] = 0
          /\ pc[c] \in {"attempt", "backoff", "giveUp"} => attempt[c] \in 1..4
          /\ plan[c] # NoPlan =>
                /\ pc[c] = "attempt" => elapsed[c] = Before(plan[c], attempt[c])
                /\ pc[c] = "backoff" =>
                      elapsed[c] = Before(plan[c], attempt[c]) + apiDelay(plan[c], attempt[c])
                /\ pc[c] = "giveUp" => elapsed[c] = InTotal(plan[c])
                /\ result[c] = "internal" => elapsed[c] = InTotal(plan[c])

\* Whatever was drawn, a plan is four integers that add up to the total, and
\* only a short total breaks what the comments say of the attempts.
LEMMA PlansAddUp ==
    ASSUME NEW times \in FailurePlans
    PROVE  /\ times[1] \in Int /\ times[2] \in Int /\ times[3] \in Int /\ times[4] \in Int
           /\ InTotal(times) \in TotalMin..(TotalMax - 1)
           /\ times[1] + times[2] + times[3] <= ThreeMax /\ times[4] >= 0
           /\ times[1] + times[2] + times[3] < ThreeMin \/ times[4] < Leave =>
                 InTotal(times) < ThreeMin + Leave
<1> USE PaymentAssumption
<1>1. PICK total \in randomInt(TotalMin, TotalMax) :
        times \in UNION {UNION {
            {<<first, second, three - first - second, total - three>>
                : second \in ((three - first) \div 5)..((three - first) \div 2)}
            : first \in (three \div 5)..(three \div 2)}
            : three \in randomInt(ThreeMin, Lesser(ThreeMax, total - Leave))}
  BY DEF FailurePlans
<1>2. PICK three \in randomInt(ThreeMin, Lesser(ThreeMax, total - Leave)) :
        times \in UNION {
            {<<first, second, three - first - second, total - three>>
                : second \in ((three - first) \div 5)..((three - first) \div 2)}
            : first \in (three \div 5)..(three \div 2)}
  BY <1>1
<1>3. PICK first \in (three \div 5)..(three \div 2) :
        times \in {<<first, second, three - first - second, total - three>>
                : second \in ((three - first) \div 5)..((three - first) \div 2)}
  BY <1>2
<1>4. PICK second \in ((three - first) \div 5)..((three - first) \div 2) :
        times = <<first, second, three - first - second, total - three>>
  BY <1>3
<1>5. total \in Int /\ TotalMin <= total /\ total <= TotalMax - 1 BY DEF randomInt
<1>6. three \in Int BY <1>5 DEF randomInt, Lesser
<1>7. first \in Int /\ second \in Int BY <1>6
<1>8. /\ times[1] \in Int /\ times[2] \in Int /\ times[3] \in Int /\ times[4] \in Int
      /\ times[1] + times[2] + times[3] = three /\ times[4] = total - three
      /\ InTotal(times) = total
  BY <1>4, <1>5, <1>6, <1>7 DEF InTotal
<1>9. three <= ThreeMax /\ three <= total
  BY <1>5 DEF randomInt, Lesser
<1>10. three < ThreeMin \/ total - three < Leave => total < ThreeMin + Leave
  BY <1>5 DEF randomInt, Lesser
<1> QED BY ONLY <1>5, <1>6, <1>8, <1>9, <1>10, PaymentAssumption

\* A call and its wait together take the attempt's time.
LEMMA CallAndWait ==
    ASSUME NEW times \in FailurePlans, NEW i \in 1..4
    PROVE  /\ times[i] \in Int /\ Before(times, i) \in Int
           /\ apiDelay(times, i) \in Int /\ backoff(times, i) \in Int
           /\ apiDelay(times, i) + backoff(times, i) = times[i]
           /\ i < 4 => Before(times, i) + times[i] = Before(times, i + 1)
           /\ i = 4 => apiDelay(times, i) = times[i] /\ Before(times, i) + times[i] = InTotal(times)
<1>1. times[1] \in Int /\ times[2] \in Int /\ times[3] \in Int /\ times[4] \in Int
  BY PlansAddUp
<1>2. i = 1 \/ i = 2 \/ i = 3 \/ i = 4 OBVIOUS
<1>3. times[i] \in Int BY <1>1, <1>2
<1>4. apiDelay(times, i) \in Int BY <1>3 DEF apiDelay
<1>5. backoff(times, i) \in Int /\ apiDelay(times, i) + backoff(times, i) = times[i]
  BY <1>3, <1>4 DEF backoff
<1>6. i = 4 => apiDelay(times, i) = times[i] BY DEF apiDelay
<1>7. Before(times, i) \in Int BY <1>1 DEF Before
<1>8. i < 4 => Before(times, i) + times[i] = Before(times, i + 1) BY <1>1, <1>2 DEF Before
<1>9. i = 4 => Before(times, i) + times[i] = InTotal(times) BY <1>1 DEF Before, InTotal
<1> QED BY <1>3, <1>4, <1>5, <1>6, <1>7, <1>8, <1>9

LEMMA TimeStep ==
    ASSUME PaymentInv, TimeInv, [Next]_vars PROVE TimeInv'
<1> USE PaymentAssumption DEF PaymentInv, ControlTypeOK, LoopInv, TimeInv, Goto, vars
<1>1. ASSUME NEW c \in Charges, Charge(c) PROVE TimeInv'
  <2>1. plan' \in [Charges -> {NoPlan} \cup FailurePlans]
    BY <1>1 DEF Charge
  <2>2. /\ pc' = [pc EXCEPT ![c] = "attempt"] /\ attempt' = [attempt EXCEPT ![c] = 1]
        /\ \A d \in Charges : d # c => plan'[d] = plan[d]
        /\ elapsed[c] = 0 /\ result[c] = "none" /\ UNCHANGED <<elapsed, result>>
    BY <1>1 DEF Charge
  <2>3. Before(plan'[c], 1) = 0 BY DEF Before
  <2> QED BY <2>1, <2>2, <2>3
<1>2. ASSUME NEW c \in Charges, SetProviderFails(c) \/ MissesAmount(c) PROVE TimeInv'
  BY <1>2 DEF SetProviderFails, MissesAmount
<1>3. ASSUME NEW c \in Charges, AttemptSucceeds(c) PROVE TimeInv'
  BY <1>3 DEF AttemptSucceeds
<1>4. ASSUME NEW c \in Charges, AttemptFails(c) PROVE TimeInv'
  <2>1. attempt[c] \in 1..4 BY <1>4 DEF AttemptFails
  <2>2. plan[c] \in FailurePlans \/ plan[c] = NoPlan OBVIOUS
  <2>3. elapsed' \in [Charges -> Int]
    BY <1>4, <2>1, <2>2, CallAndWait DEF AttemptFails, Wait
  <2>4. /\ pc' = [pc EXCEPT ![c] = IF attempt[c] < 4 THEN "backoff" ELSE "giveUp"]
        /\ UNCHANGED <<attempt, plan, result>> /\ result[c] = "none"
        /\ \A d \in Charges : d # c => elapsed'[d] = elapsed[d]
    BY <1>4 DEF AttemptFails, Wait
  <2>5. plan[c] # NoPlan => elapsed'[c] = Before(plan[c], attempt[c]) + apiDelay(plan[c], attempt[c])
    BY <1>4 DEF AttemptFails, Wait
  <2>6. plan[c] # NoPlan /\ attempt[c] = 4 => elapsed'[c] = InTotal(plan[c])
    BY <2>1, <2>2, <2>5, CallAndWait
  <2> QED BY <2>1, <2>2, <2>3, <2>4, <2>5, <2>6
<1>5. ASSUME NEW c \in Charges, Backoff(c) PROVE TimeInv'
  <2>1. attempt[c] \in 1..4 /\ attempt[c] < 4 BY <1>5 DEF Backoff
  <2>2. plan[c] \in FailurePlans \/ plan[c] = NoPlan OBVIOUS
  <2>3. elapsed' \in [Charges -> Int]
    BY <1>5, <2>1, <2>2, CallAndWait DEF Backoff, Wait
  <2> QED BY <1>5, <2>1, <2>2, <2>3, CallAndWait DEF Backoff, Wait
<1>6. ASSUME NEW c \in Charges, ReturnTransaction(c) \/ GiveUp(c) PROVE TimeInv'
  BY <1>6 DEF ReturnTransaction, GiveUp, Answer
<1>7. CASE ForceShutdown BY <1>7 DEF ForceShutdown
<1>8. CASE UNCHANGED vars BY <1>8
<1> QED BY <1>1, <1>2, <1>3, <1>4, <1>5, <1>6, <1>7, <1>8 DEF Next, Serve

(* For every configuration of the failure timings and whatever is drawn, a
   planned failure takes the total that was drawn, four attempts and three
   waits together; the fourth attempt keeps the time left for it, and the
   first three keep their minimum, unless the total is shorter than the sum
   of the two, and then the reversed range still takes no more than the total. *)
THEOREM PaymentFailureTiming == Spec => []FailureTiming
<1>1. Init => TimeInv BY DEF Init, TimeInv
<1>2. TimeInv => FailureTiming
  <2> SUFFICES ASSUME TimeInv, NEW c \in Charges, result[c] = "internal", plan[c] # NoPlan
               PROVE  LET three  == plan[c][1] + plan[c][2] + plan[c][3]
                          fourth == plan[c][4]
                      IN  /\ elapsed[c] = three + fourth
                          /\ elapsed[c] \in TotalMin..(TotalMax - 1)
                          /\ three <= ThreeMax /\ fourth >= 0
                          /\ three < ThreeMin \/ fourth < Leave => elapsed[c] < ThreeMin + Leave
    BY DEF FailureTiming
  <2>1. plan[c] \in FailurePlans /\ elapsed[c] = InTotal(plan[c]) BY DEF TimeInv
  <2> QED BY ONLY <2>1, PlansAddUp DEF InTotal
<1> QED BY <1>1, <1>2, PaymentInvariant, TimeStep, PTL DEF Spec
=============================================================================
