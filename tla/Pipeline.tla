------------------------------ MODULE Pipeline ------------------------------
(***************************************************************************)
(* Checkout (module Checkout) and accounting with its ledger (module       *)
(* Accounting), joined by the orders topic: the message that checkout's    *)
(* Kafka client writes is the one that the consumer is handed.  Each       *)
(* request has an order id of its own, a new UUID, so that the requests    *)
(* are the orders of Accounting.  The processes share nothing else and die *)
(* each by itself.                                                         *)
(***************************************************************************)
EXTENDS Checkout, Sequences

CONSTANTS
    MaxMessages,       \* bound: messages on the orders topic
    MaxConsumerCrashes \* bound: how often accounting dies

ASSUME PipelineAssumption == MaxMessages \in Nat /\ MaxConsumerCrashes \in Nat

VARIABLES
    topic, pos, committed, consumerPc, stored, tasks, lookups, consumerCrashes,
    fired, swallowed, forgotten    \* the variables of Accounting

Acc == INSTANCE Accounting WITH
    Orders <- Requests,
    MaxCrashes <- MaxConsumerCrashes,
    pc <- consumerPc,
    crashes <- consumerCrashes

accountingVars == <<topic, pos, committed, consumerPc, stored, tasks, lookups,
                    consumerCrashes, fired, swallowed, forgotten>>
pipelineVars   == <<vars, accountingVars>>

PipelineInit == Init /\ Acc!Init

\* A message is written to the topic that both services name.
AppendOrder(r) == BrokerAppends(r) /\ Acc!Publish(r)

CheckoutStep ==
    /\ \/ \E r \in Requests : Handle(r) \/ PaymentCharges(r) \/ ShippingShips(r)
       \/ CartStep
       \/ Crash
    /\ UNCHANGED accountingVars

AccountingStep ==
    /\ \/ Acc!Process \/ Acc!AutoCommit \/ Acc!Crash
       \/ \E r \in Requests : Acc!HandleValidate(r) \/ Acc!PostFails(r)
    /\ UNCHANGED vars

PipelineNext ==
    \/ \E r \in Requests : AppendOrder(r)
    \/ CheckoutStep
    \/ AccountingStep

PipelineSpec == PipelineInit /\ [][PipelineNext]_pipelineVars

-----------------------------------------------------------------------------
(* What is in accounting's database was paid for and shipped, and its caller
   was not told of an error: neither late charges, lost answers and crashes of
   either process nor repeated and redelivered messages put an abandoned order
   into the books. *)
BookedWasFulfilled ==
    \A r \in stored :
        /\ r \in charged \cap shipped
        /\ r \notin declined
        /\ reply[r] \in {"none", "ok", "lost"}

(* Conversely, once the consumer has gone through the topic, an order that was
   published is in the books, or one of its messages raised an exception that
   was swallowed or was in process, its offset committed, when accounting died. *)
PublishedIsBooked ==
    pos = Len(topic) /\ consumerPc # "process" =>
        \A r \in Requests : published[r] > 0 =>
            r \in stored \/ \E i \in swallowed \cup forgotten : topic[i] = r
=============================================================================
