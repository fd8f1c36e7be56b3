------------------------------ MODULE Planning ------------------------------
(***************************************************************************)
(* The planning service (src/planning/planning_server.py).                 *)
(*                                                                         *)
(* The consumer thread polls the orders topic and appends every order to   *)
(* a bounded deque under orders_lock.  call_lambda copies the deque under  *)
(* the lock, posts the copy to the planning Lambda without the lock, and,  *)
(* when the answer is 2xx, clears the deque under the lock.  Two threads   *)
(* call it: the scheduler, at every interval, and the consumer itself,     *)
(* once, after the first order.  Offsets are committed in the background,  *)
(* whatever has become of the orders, and the deque is only in memory.     *)
(*                                                                         *)
(* An order is identified by its offset.  collected_links runs in step     *)
(* with collected_orders and is not modelled apart from it.                *)
(***************************************************************************)
EXTENDS Naturals, Sequences

CONSTANTS
    MaxOrders,   \* bound: orders on the topic, offsets 1..MaxOrders
    MaxLen,      \* maxlen of the deque: 1000 in the code
    MaxCrashes   \* bound: how often the process dies

ASSUME PlanningAssumption ==
    MaxOrders \in Nat /\ MaxLen \in Nat \ {0} /\ MaxCrashes \in Nat

Orders  == 1..MaxOrders
Threads == {"consumer", "scheduler"}

VARIABLES
    pos,          \* orders polled so far by this process or its predecessors
    committed,    \* the committed offset of the consumer group
    collected,    \* collected_orders
    consumer,     \* "poll", "check" (first order processed) or "calling"
    initialDone,  \* initial_call_done
    call,         \* each thread's call_lambda: "none", "posting" or "answered"
    sending,      \* each thread's orders_to_send
    received,     \* orders the Lambda has been posted (external)
    crashes,
    \* History, read by no action:
    overflowed,   \* orders the full deque pushed out
    wiped,        \* orders cleared by a call that had not sent them
    forgotten     \* orders the process held, or could not parse, when it ended

threadVars == <<consumer, initialDone, call, sending>>
history    == <<overflowed, wiped, forgotten>>
vars == <<pos, committed, collected, threadVars, received, crashes, history>>

Held(seq) == {seq[i] : i \in 1..Len(seq)}

TypeOK ==
    /\ pos \in 0..MaxOrders
    /\ committed \in 0..pos
    /\ collected \in Seq(Orders) /\ Len(collected) <= MaxLen
    /\ consumer \in {"poll", "check", "calling"}
    /\ initialDone \in BOOLEAN
    /\ call \in [Threads -> {"none", "posting", "answered"}]
    /\ sending \in [Threads -> Seq(Orders)]
    /\ received \subseteq Orders
    /\ crashes \in 0..MaxCrashes
    /\ overflowed \subseteq Orders /\ wiped \subseteq Orders /\ forgotten \subseteq Orders

Init ==
    /\ pos = 0
    /\ committed = 0
    /\ collected = <<>>
    /\ consumer = "poll"
    /\ initialDone = FALSE
    /\ call = [t \in Threads |-> "none"]
    /\ sending = [t \in Threads |-> <<>>]
    /\ received = {}
    /\ crashes = 0
    /\ overflowed = {}
    /\ wiped = {}
    /\ forgotten = {}

-----------------------------------------------------------------------------
\* Mutant: the deque has no maxlen.
Bounded_NoLimit(seq) == seq

\* A deque with maxlen drops its oldest element when it is full.
Bounded(seq) == IF Len(seq) > MaxLen THEN Tail(seq) ELSE seq

\* poll returns the next order and process_order collects it.
ProcessOrder ==
    /\ consumer = "poll"
    /\ pos < MaxOrders
    /\ pos' = pos + 1
    /\ collected' = Bounded(Append(collected, pos + 1))
    /\ overflowed' = overflowed \cup (Held(Append(collected, pos + 1)) \ Held(collected'))
    /\ consumer' = IF initialDone THEN "poll" ELSE "check"
    /\ UNCHANGED <<committed, initialDone, call, sending, received, crashes, wiped, forgotten>>

\* The first lines of call_lambda: copy the deque, return if it is empty.  The
\* endpoint is taken to be configured; without one every call returns at once,
\* and the deque only ever overflows.
CallLambda(t) ==
    /\ call[t] = "none"
    /\ sending' = [sending EXCEPT ![t] = collected]
    /\ call' = [call EXCEPT ![t] = IF collected = <<>> THEN "none" ELSE "posting"]

\* After the first order the consumer thread calls the Lambda itself, if the
\* scheduler has not emptied the deque in the meantime.
InitialCall ==
    /\ consumer = "check"
    /\ IF Len(collected) > 0
       THEN initialDone' = TRUE /\ consumer' = "calling" /\ CallLambda("consumer")
       ELSE consumer' = "poll" /\ UNCHANGED <<initialDone, call, sending>>
    /\ UNCHANGED <<pos, committed, collected, received, crashes, history>>

\* The interval job; the scheduler runs one instance of it at a time.
ScheduledCall ==
    /\ collected # <<>>
    /\ CallLambda("scheduler")
    /\ UNCHANGED <<pos, committed, collected, consumer, initialDone, received, crashes, history>>

\* The Lambda (external) gets the posted orders.
LambdaReceives(t) ==
    /\ call[t] = "posting"
    /\ received' = received \cup Held(sending[t])
    /\ call' = [call EXCEPT ![t] = "answered"]
    /\ UNCHANGED <<pos, committed, collected, consumer, initialDone, sending, crashes, history>>

\* call_lambda returns; the consumer goes back to polling.
Finish(t) ==
    /\ call' = [call EXCEPT ![t] = "none"]
    /\ sending' = [sending EXCEPT ![t] = <<>>]
    /\ consumer' = IF t = "consumer" THEN "poll" ELSE consumer
    /\ UNCHANGED <<pos, committed, initialDone, received, crashes>>

\* Mutant: a successful call keeps what it has sent.
PostSucceeds_Keeps(t) ==
    /\ call[t] = "answered"
    /\ Finish(t)
    /\ UNCHANGED <<collected, history>>

\* response.ok: both deques are cleared.
PostSucceeds(t) ==
    /\ call[t] = "answered"
    /\ collected' = <<>>
    /\ wiped' = wiped \cup (Held(collected) \ Held(sending[t]))
    /\ Finish(t)
    /\ UNCHANGED <<overflowed, forgotten>>

\* Mutant: a failed call clears the deque too.
PostFails_Clears(t) ==
    /\ call[t] \in {"posting", "answered"}
    /\ collected' = <<>>
    /\ Finish(t)
    /\ UNCHANGED history

\* A timeout, an exception or an error status, before or after the Lambda
\* has the orders: they stay collected and will be posted again.
PostFails(t) ==
    /\ call[t] \in {"posting", "answered"}
    /\ Finish(t)
    /\ UNCHANGED <<collected, history>>

\* enable.auto.commit: everything polled so far is committed.
AutoCommit ==
    /\ committed < pos
    /\ committed' = pos
    /\ UNCHANGED <<pos, collected, threadVars, received, crashes, history>>

\* The process is gone and a new one starts with an empty deque.
Restart ==
    /\ crashes < MaxCrashes
    /\ crashes' = crashes + 1
    /\ collected' = <<>>
    /\ consumer' = "poll"
    /\ initialDone' = FALSE
    /\ call' = [t \in Threads |-> "none"]
    /\ sending' = [t \in Threads |-> <<>>]
    /\ UNCHANGED <<received, overflowed, wiped>>

\* It died: the group resumes from the committed offset.
Crash ==
    /\ Restart
    /\ pos' = committed
    /\ forgotten' = forgotten \cup Held(collected)
    /\ UNCHANGED committed

\* process_order raised on an order it could not parse: only KafkaException
\* is caught, so the loop ends, and closing the consumer commits the offset.
ProcessOrderRaises ==
    /\ consumer = "poll"
    /\ pos < MaxOrders
    /\ Restart
    /\ pos' = pos + 1
    /\ committed' = pos + 1
    /\ forgotten' = forgotten \cup Held(collected) \cup {pos + 1}

Next ==
    \/ ProcessOrder \/ InitialCall \/ ScheduledCall \/ AutoCommit
    \/ Crash \/ ProcessOrderRaises
    \/ \E t \in Threads : LambdaReceives(t) \/ PostSucceeds(t) \/ PostFails(t)

\* Threads are scheduled fairly and requests.post ends (it has a timeout);
\* the last conjunct is the Lambda being reachable again and again.
Fairness ==
    /\ WF_vars(InitialCall) /\ WF_vars(ScheduledCall)
    /\ \A t \in Threads : WF_vars(LambdaReceives(t) \/ PostSucceeds(t) \/ PostFails(t))
    /\ \A t \in Threads : SF_vars(LambdaReceives(t)) /\ SF_vars(PostSucceeds(t))

Spec     == Init /\ [][Next]_vars
FairSpec == Spec /\ Fairness

-----------------------------------------------------------------------------
(* An order that was polled is still collected, or the Lambda was posted it,
   or one of the three known losses took it: the deque overflowed, a call
   cleared it without having sent it, or the process ended holding it or
   failing on it.  Neither a failed call nor two overlapping ones lose more. *)
NoOtherLoss ==
    \A o \in 1..pos :
        o \in Held(collected) \cup received \cup overflowed \cup wiped \cup forgotten

(* "Clear sent orders and links" (comment in call_lambda): what a successful
   call clears is what it sent. *)
ClearedWereSent ==
    [][\A t \in Threads : PostSucceeds(t) => Held(collected) \subseteq Held(sending[t])]_vars

(* A collected order does not stay in the deque for ever: if the Lambda keeps
   coming back, the order is posted, or lost in a known way. *)
CollectedLeaves ==
    \A o \in Orders : o \in Held(collected) ~> o \notin Held(collected)
=============================================================================
