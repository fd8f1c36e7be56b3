------------------------------ MODULE Checkout ------------------------------
(***************************************************************************)
(* PlaceOrder of the checkout service (src/checkout/main.go) over the cart *)
(* service (module Cart).                                                  *)
(*                                                                         *)
(* A request is one PlaceOrder call.  The handler runs one remote call     *)
(* after the other and keeps nothing of its own: what it has done is in    *)
(* the cart, payment, shipping and email services and on the orders topic. *)
(* A remote call is two steps: the service does its work, and the handler  *)
(* gets an answer, which may be an error although the work was done or is  *)
(* done later: nothing calls a request back once it is sent.  A caller who *)
(* goes away cancels the context, with which every later call fails; every *)
(* call may fail by itself, so this needs no step of its own.  The process *)
(* may die (a kill, or money.Must panicking), which ends every request it  *)
(* is serving.                                                             *)
(***************************************************************************)
EXTENDS Cart

CONSTANTS
    Requests,   \* PlaceOrder calls; each one empties at most one cart
    MaxCopies   \* messages an order may put on the topic: 1 + kafkaQueueProblems,
                \* or 0 if there is no broker configured

ASSUME CheckoutAssumption ==
    /\ Requests \subseteq Empties
    /\ MaxCopies \in Nat

VARIABLES
    pc,         \* the handler's next remote call
    items,      \* prep.cartItems: the cart as the handler read it
    reply,      \* what the caller was answered
    sent,       \* the calls of r that are on their way: "charge", "ship"
    charged,    \* requests the payment service took money for
    shipped,    \* requests the shipping service accepted
    mailed,     \* requests whose confirmation mail was sent
    handed,     \* requests whose message the Kafka client was given
    published,  \* copies of each order on the orders topic
    \* History, read by no action:
    declined,     \* requests that logged the "payment declined" breadcrumbs
    seenLanded,   \* the EmptyCart calls that had landed when r read the cart
    seenWritten   \* the AddItem calls that had landed when r read the cart

world        == <<charged, shipped, mailed, published>>
history      == <<declined, seenLanded, seenWritten>>
checkoutVars == <<pc, items, reply, sent, handed, world, history>>
vars         == <<cartVars, checkoutVars>>

Preparing  == {"getCart", "prepare"}
Serving    == Preparing \cup {"charge", "ship", "empty", "awaitEmpty", "confirm",
                             "publish", "awaitPublish"}
Replies    == {"none", "ok", "emptyCart", "internal", "unavailable", "lost"}

CheckoutTypeOK ==
    /\ pc \in [Requests -> Serving \cup {"idle", "done"}]
    /\ items \in [Requests -> SUBSET Adds]
    /\ reply \in [Requests -> Replies]
    /\ sent \in [Requests -> SUBSET {"charge", "ship"}]
    /\ charged \subseteq Requests
    /\ shipped \subseteq Requests
    /\ mailed \subseteq Requests
    /\ handed \subseteq Requests
    /\ published \in [Requests -> 0..MaxCopies]
    /\ declined \subseteq Requests
    /\ seenLanded \in [Requests -> SUBSET Empties]
    /\ seenWritten \in [Requests -> SUBSET Adds]

CheckoutInit ==
    /\ pc = [r \in Requests |-> "idle"]
    /\ items = [r \in Requests |-> {}]
    /\ reply = [r \in Requests |-> "none"]
    /\ sent = [r \in Requests |-> {}]
    /\ charged = {}
    /\ shipped = {}
    /\ mailed = {}
    /\ handed = {}
    /\ published = [r \in Requests |-> 0]
    /\ declined = {}
    /\ seenLanded = [r \in Requests |-> {}]
    /\ seenWritten = [r \in Requests |-> {}]

-----------------------------------------------------------------------------
Goto(r, step) == pc' = [pc EXCEPT ![r] = step]

Send(r, call) == sent' = [sent EXCEPT ![r] = @ \cup {call}]

Return(r, code) ==
    /\ pc' = [pc EXCEPT ![r] = "done"]
    /\ reply' = [reply EXCEPT ![r] = code]

PlaceOrder(r) ==
    /\ pc[r] = "idle"
    /\ Goto(r, "getCart")
    /\ UNCHANGED <<cartVars, items, reply, sent, handed, world, history>>

\* getUserCart answered; an empty cart is the caller's mistake.
GetCart(r) ==
    /\ pc[r] = "getCart"
    /\ items' = [items EXCEPT ![r] = GetCartAsync(UserOf[r])]
    /\ seenLanded' = [seenLanded EXCEPT ![r] = landed]
    /\ seenWritten' = [seenWritten EXCEPT ![r] = written]
    /\ \/ GetCartAsync(UserOf[r]) = {} /\ Return(r, "emptyCart")
       \/ GetCartAsync(UserOf[r]) # {} /\ Goto(r, "prepare") /\ UNCHANGED reply
    /\ UNCHANGED <<cartVars, sent, handed, world, declined>>

\* GetProduct and Convert for every item, the shipping quote, its conversion,
\* the total and its discount: calls that read and change nothing.
Prepare(r) ==
    /\ pc[r] = "prepare"
    /\ Goto(r, "charge")
    /\ Send(r, "charge")
    /\ UNCHANGED <<cartVars, items, reply, handed, world, history>>

PrepareFails(r) ==
    /\ pc[r] \in Preparing
    /\ Return(r, "internal")
    /\ UNCHANGED <<cartVars, items, sent, handed, world, history>>

\* The payment service (external here) takes the money.
PaymentCharges(r) ==
    /\ "charge" \in sent[r]
    /\ r \notin charged
    /\ charged' = charged \cup {r}
    /\ UNCHANGED <<cartVars, pc, items, reply, sent, handed, shipped,
                   mailed, published, history>>

\* Mutant: the cart is emptied without shipping first.
ChargeCard_SkipsShipping(r) ==
    /\ pc[r] = "charge"
    /\ r \in charged
    /\ Goto(r, "empty")
    /\ UNCHANGED <<cartVars, items, reply, sent, handed, world, history>>

\* chargeCard returned a transaction id.
ChargeCard(r) ==
    /\ pc[r] = "charge"
    /\ r \in charged
    /\ Goto(r, "ship")
    /\ Send(r, "ship")
    /\ UNCHANGED <<cartVars, items, reply, handed, world, history>>

\* Mutant: the error is ignored, as emptyUserCart's is.
ChargeCardFails_Ignored(r) ==
    /\ pc[r] = "charge"
    /\ Goto(r, "ship")
    /\ Send(r, "ship")
    /\ UNCHANGED <<cartVars, items, reply, handed, world, history>>

\* Mutant: the cart is emptied before the payment error is looked at.
ChargeCardFails_EmptiesCart(r) ==
    /\ pc[r] = "charge"
    /\ EmptyCall(r)
    /\ declined' = declined \cup {r}
    /\ Return(r, "internal")
    /\ UNCHANGED <<items, sent, handed, world, seenLanded, seenWritten>>

\* chargeCard returned an error: declined, unreachable, answer lost.
ChargeCardFails(r) ==
    /\ pc[r] = "charge"
    /\ declined' = declined \cup {r}
    /\ Return(r, "internal")
    /\ UNCHANGED <<cartVars, items, sent, handed, world, seenLanded, seenWritten>>

\* The shipping service (external here) accepts the order.
ShippingShips(r) ==
    /\ "ship" \in sent[r]
    /\ r \notin shipped
    /\ shipped' = shipped \cup {r}
    /\ UNCHANGED <<cartVars, pc, items, reply, sent, handed, charged,
                   mailed, published, history>>

ShipOrder(r) ==
    /\ pc[r] = "ship"
    /\ r \in shipped
    /\ Goto(r, "empty")
    /\ UNCHANGED <<cartVars, items, reply, sent, handed, world, history>>

\* Mutant: a shipping error is only logged.
ShipOrderFails_AnswersOK(r) ==
    /\ pc[r] = "ship"
    /\ Return(r, "ok")
    /\ UNCHANGED <<cartVars, items, sent, handed, world, history>>

\* The customer stays charged and the cart stays full.
ShipOrderFails(r) ==
    /\ pc[r] = "ship"
    /\ Return(r, "unavailable")
    /\ UNCHANGED <<cartVars, items, sent, handed, world, history>>

\* emptyUserCart sends EmptyCart to the cart service ...
EmptyUserCart(r) ==
    /\ pc[r] = "empty"
    /\ EmptyCall(r)
    /\ Goto(r, "awaitEmpty")
    /\ UNCHANGED <<items, reply, sent, handed, world, history>>

\* ... and its result is ignored: the handler goes on when the call answers,
\* fails in transit (the cart service may still carry it out) or is not sent.
EmptyUserCartReturns(r) ==
    /\ pc[r] \in {"empty", "awaitEmpty"}
    /\ Goto(r, "confirm")
    /\ UNCHANGED <<cartVars, items, reply, sent, handed, world, history>>

\* sendOrderConfirmation: the mail is sent or not, and an error is only
\* logged.  Nothing reads whether it was sent, so a post that is on its way
\* when the handler goes on counts as sent at once.  The conversion of the
\* total to USD before it changes what is logged and nothing else.
SendOrderConfirmation(r) ==
    /\ pc[r] = "confirm"
    /\ mailed' \in {mailed, mailed \cup {r}}
    /\ Goto(r, "publish")
    /\ UNCHANGED <<cartVars, items, reply, sent, handed, charged,
                   shipped, published, history>>

\* With a broker configured, sendToPostProcessor puts the message on the Kafka
\* client's Input ...
SendToPostProcessor(r) ==
    /\ pc[r] = "publish"
    /\ MaxCopies > 0
    /\ handed' = handed \cup {r}
    /\ Goto(r, "awaitPublish")
    /\ UNCHANGED <<cartVars, items, reply, sent, world, history>>

\* ... and returns when a success or an error is read or the context is done;
\* it does not get so far without a broker, if the order does not marshal, or
\* if the context is done first.  The caller is answered OK in any case.
SendToPostProcessorReturns(r) ==
    /\ pc[r] \in {"publish", "awaitPublish"}
    /\ Return(r, "ok")
    /\ UNCHANGED <<cartVars, items, sent, handed, world, history>>

\* The client writes a message to the topic; with kafkaQueueProblems set,
\* goroutines hand it the same message again.
BrokerAppends(r) ==
    /\ r \in handed
    /\ published[r] < MaxCopies
    /\ published' = [published EXCEPT ![r] = @ + 1]
    /\ UNCHANGED <<cartVars, pc, items, reply, sent, handed, charged,
                   shipped, mailed, history>>

\* The process dies, and every request it serves ends.  What becomes of a
\* message that its Kafka client was given is open, as it is without a crash.
Crash ==
    /\ \E r \in Requests : pc[r] \in Serving
    /\ pc' = [r \in Requests |-> IF pc[r] \in Serving THEN "done" ELSE pc[r]]
    /\ reply' = [r \in Requests |-> IF pc[r] \in Serving THEN "lost" ELSE reply[r]]
    /\ UNCHANGED <<cartVars, items, sent, handed, world, history>>

Handle(r) ==
    \/ PlaceOrder(r) \/ GetCart(r) \/ Prepare(r) \/ PrepareFails(r)
    \/ ChargeCard(r) \/ ChargeCardFails(r) \/ ShipOrder(r) \/ ShipOrderFails(r)
    \/ EmptyUserCart(r) \/ EmptyUserCartReturns(r)
    \/ SendOrderConfirmation(r) \/ SendToPostProcessor(r) \/ SendToPostProcessorReturns(r)

Remote(r) == PaymentCharges(r) \/ ShippingShips(r) \/ BrokerAppends(r)

\* The cart service's own steps; EmptyCart calls that are not a request's
\* come from the shopper.
CartStep ==
    /\ \/ \E a \in Adds : AddNext(a)
       \/ \E e \in Empties : EmptyNext(e)
       \/ \E e \in Empties \ Requests : EmptyCall(e)
       \/ \E u \in Users : KeyExpires(u)
    /\ UNCHANGED checkoutVars

Init == CartInit /\ CheckoutInit

Next ==
    \/ \E r \in Requests : Handle(r) \/ Remote(r)
    \/ CartStep
    \/ Crash

Spec == Init /\ [][Next]_vars

-----------------------------------------------------------------------------
(* The order of effects in PlaceOrder survives lost and late answers
   and crashes: nothing is shipped unpaid, nothing is mailed or published
   that was not shipped, and OK is answered only for a shipped order. *)
FulfilledWasPaid ==
    /\ shipped \subseteq charged
    /\ mailed \subseteq shipped
    /\ \A r \in Requests : published[r] > 0 \/ reply[r] = "ok" => r \in shipped

(* The breadcrumbs of a declined payment: "cart left intact for retry",
   "shipping order not placed", "order confirmation email not sent", "order
   not published to orders topic" stay true of the abandoned order. *)
AbandonedLeavesNoTrace ==
    \A r \in declined :
        /\ emptyPc[r] = "none"
        /\ r \notin shipped \cup mailed \cup handed
        /\ published[r] = 0

(* Two orders of one user share no item once the first has emptied the cart
   before the second read it, so the same item is charged twice only when
   the two overlap or the first failed to empty the cart (shipping error,
   crash, EmptyCart error), or after a raced AddItem brought items back. *)
OrderedOnce ==
    \A r2 \in Requests : \A r1 \in seenLanded[r2] \cap Requests :
        UserOf[r1] = UserOf[r2] /\ Unraced(UserOf[r2]) => items[r1] \cap items[r2] = {}

(* An EmptyCart that takes an item out of a cart is the shopper's, or that of
   a shipped order which contains the item or had read the cart before the
   item was stored.  The last case is an item dropped without being ordered:
   it was added while the order was in progress. *)
EmptiedWasOrderedOrLate ==
    \A a \in Adds : Unraced(UserOf[a]) =>
        \A e \in emptiedBy[a] :
            /\ UserOf[e] = UserOf[a]
            /\ \/ e \notin Requests
               \/ e \in shipped /\ (a \in items[e] \/ a \notin seenWritten[e])

\* What PlaceOrder promises, in terms of the services' records.
Order == INSTANCE OrderSpec WITH
    paid <- charged,
    dispatched <- shipped,
    announced <- mailed \cup {r \in Requests : published[r] > 0},
    answer <- reply

(* PlaceOrder keeps the promise of OrderSpec: pay, dispatch, announce, answer
   once, and nothing announced of an order whose caller got an error. *)
KeepsOrderSpec == Order!OrderSpec
=============================================================================
