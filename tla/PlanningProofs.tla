--------------------------- MODULE PlanningProofs ---------------------------
(* The planning service loses orders in the three known ways only, for any *)
(* number of orders, any length of the deque and any number of restarts.   *)
EXTENDS Planning, TLAPS

\* What the Lambda has answered for, it has received.
AnsweredIsReceived ==
    \A t \in Threads : call[t] = "answered" => Held(sending[t]) \subseteq received

LEMMA HeldAppend ==
    ASSUME NEW seq \in Seq(Orders), NEW o \in Orders
    PROVE  Append(seq, o) \in Seq(Orders) /\ Held(Append(seq, o)) = Held(seq) \cup {o}
BY DEF Held

LEMMA HeldEmpty == <<>> \in Seq(Orders) /\ Len(<<>>) = 0 /\ Held(<<>>) = {}
BY DEF Held

LEMMA TailKeepsType ==
    ASSUME NEW seq \in Seq(Orders), Len(seq) > 0
    PROVE  Tail(seq) \in Seq(Orders) /\ Len(Tail(seq)) = Len(seq) - 1
OBVIOUS

LEMMA HeldInOrders == \A seq \in Seq(Orders) : Held(seq) \subseteq Orders
BY DEF Held

(* The variables keep their types; in particular the deque never exceeds its
   maxlen and the committed offset never passes what was polled. *)
THEOREM PlanningTypeCorrect == Spec => []TypeOK
<1> USE PlanningAssumption
<1>0. [t \in Threads |-> <<>>] \in [Threads -> Seq(Orders)] BY HeldEmpty
<1>1. Init => TypeOK
  <2> SUFFICES ASSUME Init PROVE TypeOK OBVIOUS
  <2>1. collected \in Seq(Orders) /\ Len(collected) <= MaxLen BY HeldEmpty DEF Init
  <2>2. sending \in [Threads -> Seq(Orders)] BY <1>0 DEF Init
  <2>3. pos \in 0..MaxOrders /\ committed \in 0..pos /\ crashes \in 0..MaxCrashes
    BY DEF Init
  <2>4. call \in [Threads -> {"none", "posting", "answered"}] BY DEF Init
  <2> QED BY <2>1, <2>2, <2>3, <2>4 DEF Init, TypeOK
<1>2. TypeOK /\ [Next]_vars => TypeOK'
  <2> SUFFICES ASSUME TypeOK, [Next]_vars PROVE TypeOK' OBVIOUS
  <2> USE DEF TypeOK
  <2>1. ASSUME ProcessOrder PROVE TypeOK'
    <3> DEFINE longer == Append(collected, pos + 1)
    <3>1. pos + 1 \in Orders BY <2>1 DEF ProcessOrder, Orders
    <3>2. longer \in Seq(Orders) /\ Len(longer) = Len(collected) + 1 BY <3>1
    <3>3. Tail(longer) \in Seq(Orders) /\ Len(Tail(longer)) = Len(collected)
      <4> HIDE DEF longer
      <4>1. Len(longer) > 0 BY <3>2
      <4> QED BY <3>2, <4>1, TailKeepsType
    <3>5. collected' = Bounded(longer) BY <2>1 DEF ProcessOrder
    <3>7. overflowed' \subseteq Orders
      <4>1. Held(longer) \subseteq Orders BY <3>2, HeldInOrders
      <4> QED BY <2>1, <4>1 DEF ProcessOrder
    <3>6. collected' \in Seq(Orders) /\ Len(collected') <= MaxLen
      <4> HIDE DEF longer
      <4> QED BY <3>2, <3>3, <3>5 DEF Bounded
    <3> QED BY <2>1, <3>6, <3>7 DEF ProcessOrder
  <2>2. ASSUME InitialCall PROVE TypeOK'
    <3>1. consumer' \in {"poll", "check", "calling"} /\ initialDone' \in BOOLEAN
      BY <2>2 DEF InitialCall
    <3>2. call' \in [Threads -> {"none", "posting", "answered"}]
      BY <2>2 DEF InitialCall, CallLambda
    <3>3. sending' \in [Threads -> Seq(Orders)]
      BY <2>2 DEF InitialCall, CallLambda
    <3>4. UNCHANGED <<pos, committed, collected, received, crashes, history>>
      BY <2>2 DEF InitialCall
    <3> QED BY <3>1, <3>2, <3>3, <3>4 DEF history
  <2>3. ASSUME ScheduledCall PROVE TypeOK'
    BY <2>3 DEF ScheduledCall, CallLambda, history
  <2>4. ASSUME NEW t \in Threads, LambdaReceives(t) PROVE TypeOK'
    <3>1. Held(sending[t]) \subseteq Orders BY HeldInOrders
    <3> QED BY <2>4, <3>1 DEF LambdaReceives, history
  <2>5. ASSUME NEW t \in Threads, PostSucceeds(t) PROVE TypeOK'
    <3>1. Held(collected) \subseteq Orders BY HeldInOrders
    <3>2. sending' \in [Threads -> Seq(Orders)]
      BY <2>5, HeldEmpty DEF PostSucceeds, Finish
    <3>3. collected' \in Seq(Orders) /\ Len(collected') <= MaxLen
      BY <2>5, HeldEmpty DEF PostSucceeds
    <3> QED BY <2>5, <3>1, <3>2, <3>3 DEF PostSucceeds, Finish
  <2>6. ASSUME NEW t \in Threads, PostFails(t) PROVE TypeOK'
    BY <2>6 DEF PostFails, Finish, history
  <2>7. ASSUME AutoCommit PROVE TypeOK'
    BY <2>7 DEF AutoCommit, threadVars, history
  <2>8. ASSUME Crash PROVE TypeOK'
    <3>1. Held(collected) \subseteq Orders BY HeldInOrders
    <3>2. sending' \in [Threads -> Seq(Orders)] BY <1>0, <2>8 DEF Crash, Restart
    <3>3. collected' \in Seq(Orders) /\ Len(collected') <= MaxLen
      BY <2>8, HeldEmpty DEF Crash, Restart
    <3>4. pos' \in 0..MaxOrders /\ committed' \in 0..pos' /\ crashes' \in 0..MaxCrashes
      BY <2>8 DEF Crash, Restart
    <3> QED BY <2>8, <3>1, <3>2, <3>3, <3>4 DEF Crash, Restart
  <2>9. ASSUME ProcessOrderRaises PROVE TypeOK'
    <3>1. Held(collected) \subseteq Orders /\ pos + 1 \in Orders
      BY <2>9, HeldInOrders DEF ProcessOrderRaises, Orders
    <3>2. sending' \in [Threads -> Seq(Orders)]
      BY <1>0, <2>9 DEF ProcessOrderRaises, Restart
    <3>3. collected' \in Seq(Orders) /\ Len(collected') <= MaxLen
      BY <2>9, HeldEmpty DEF ProcessOrderRaises, Restart
    <3>4. pos' \in 0..MaxOrders /\ committed' \in 0..pos' /\ crashes' \in 0..MaxCrashes
      BY <2>9 DEF ProcessOrderRaises, Restart
    <3> QED BY <2>9, <3>1, <3>2, <3>3, <3>4 DEF ProcessOrderRaises, Restart
  <2>10. CASE UNCHANGED vars
    BY <2>10 DEF vars, threadVars, history
  <2> QED
    BY <2>1, <2>2, <2>3, <2>4, <2>5, <2>6, <2>7, <2>8, <2>9, <2>10 DEF Next
<1> QED BY <1>1, <1>2, PTL DEF Spec

(* Every polled order is collected, received by the Lambda, pushed out of the
   full deque, cleared unsent, or was with a process that ended. *)
THEOREM PlanningNoOtherLoss == Spec => []NoOtherLoss
<1> USE PlanningAssumption DEF NoOtherLoss
<1>1. Init => AnsweredIsReceived /\ NoOtherLoss
  BY DEF Init, AnsweredIsReceived
<1>2. TypeOK /\ AnsweredIsReceived /\ NoOtherLoss /\ [Next]_vars
      => AnsweredIsReceived' /\ NoOtherLoss'
  <2> SUFFICES ASSUME TypeOK, AnsweredIsReceived, NoOtherLoss, [Next]_vars
               PROVE  AnsweredIsReceived' /\ NoOtherLoss'
    OBVIOUS
  <2> USE DEF TypeOK, AnsweredIsReceived
  <2>1. ASSUME ProcessOrder PROVE AnsweredIsReceived' /\ NoOtherLoss'
    <3>1. pos + 1 \in Orders BY <2>1 DEF ProcessOrder, Orders
    <3>2. Held(Append(collected, pos + 1)) = Held(collected) \cup {pos + 1}
      BY <3>1, HeldAppend
    <3>3. Held(Append(collected, pos + 1)) \subseteq Held(collected') \cup overflowed'
      BY <2>1 DEF ProcessOrder
    <3> QED BY <2>1, <3>2, <3>3 DEF ProcessOrder
  <2>2. ASSUME InitialCall PROVE AnsweredIsReceived' /\ NoOtherLoss'
    BY <2>2 DEF InitialCall, CallLambda, history, Threads
  <2>3. ASSUME ScheduledCall PROVE AnsweredIsReceived' /\ NoOtherLoss'
    BY <2>3 DEF ScheduledCall, CallLambda, history, Threads
  <2>4. ASSUME NEW t \in Threads, LambdaReceives(t) PROVE AnsweredIsReceived' /\ NoOtherLoss'
    BY <2>4 DEF LambdaReceives, history
  <2>5. ASSUME NEW t \in Threads, PostSucceeds(t) PROVE AnsweredIsReceived' /\ NoOtherLoss'
    <3>1. AnsweredIsReceived' BY <2>5 DEF PostSucceeds, Finish
    <3>2. Held(collected) \subseteq received' \cup wiped' BY <2>5 DEF PostSucceeds, Finish
    <3> QED BY <2>5, <3>1, <3>2 DEF PostSucceeds, Finish
  <2>6. ASSUME NEW t \in Threads, PostFails(t) PROVE AnsweredIsReceived' /\ NoOtherLoss'
    BY <2>6 DEF PostFails, Finish, history
  <2>7. ASSUME AutoCommit PROVE AnsweredIsReceived' /\ NoOtherLoss'
    BY <2>7 DEF AutoCommit, threadVars, history
  <2>8. ASSUME Crash PROVE AnsweredIsReceived' /\ NoOtherLoss'
    BY <2>8 DEF Crash, Restart
  <2>9. ASSUME ProcessOrderRaises PROVE AnsweredIsReceived' /\ NoOtherLoss'
    BY <2>9 DEF ProcessOrderRaises, Restart
  <2>10. CASE UNCHANGED vars
    BY <2>10 DEF vars, threadVars, history
  <2> QED
    BY <2>1, <2>2, <2>3, <2>4, <2>5, <2>6, <2>7, <2>8, <2>9, <2>10 DEF Next
<1> QED BY <1>1, <1>2, PlanningTypeCorrect, PTL DEF Spec
=============================================================================
