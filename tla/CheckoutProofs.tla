--------------------------- MODULE CheckoutProofs ---------------------------
(* What the cart service guarantees for every set of users and calls, what   *)
(* PlaceOrder guarantees for every number of requests, carts, crashes and    *)
(* repeated messages, that each implements its specification, and what       *)
(* checkout and accounting guarantee together.                               *)
EXTENDS Pipeline, TLAPS

(***************************************************************************)
(* The cart service.                                                       *)
(***************************************************************************)

\* An AddItem that nothing has overtaken still holds the stored cart.
SnapFresh ==
    \A a \in Adds : addPc[a] = "write" /\ a \notin raced => snap[a] = cart[UserOf[a]]

\* A call becomes "expire" or "ok" by writing, and "idle" or "write" calls
\* have not written.
WrittenByPc ==
    \A a \in Adds : addPc[a] \in {"idle", "write"} => a \notin written

\* What was emptied, expired, stored or read had been written by the user
\* whose cart it was.
KnownUnits ==
    /\ emptied \cup expired \subseteq written
    /\ \A u \in Users : cart[u] \subseteq {a \in written : UserOf[a] = u}
    /\ \A a \in Adds : snap[a] \subseteq {b \in written : UserOf[b] = UserOf[a]}

CartInv == CartTypeOK /\ WrittenByPc /\ KnownUnits /\ SnapFresh /\ ExactUnlessRaced

-----------------------------------------------------------------------------
(* The variables of the cart service keep their types under every action. *)
THEOREM CartTypeCorrect == CartSpec => []CartTypeOK
<1> USE CallsAssumption
<1>1. CartInit => CartTypeOK
  BY DEF CartInit, CartTypeOK, AddStates, EmptyStates
<1>2. CartTypeOK /\ [CartNext]_cartVars => CartTypeOK'
  <2> SUFFICES ASSUME CartTypeOK, [CartNext]_cartVars PROVE CartTypeOK'
    OBVIOUS
  <2> USE DEF CartTypeOK, AddStates, EmptyStates
  <2>1. ASSUME NEW a \in Adds, AddRead(a) PROVE CartTypeOK'
    BY <2>1 DEF AddRead, GetCartAsync
  <2>2. ASSUME NEW a \in Adds, AddWrite(a) PROVE CartTypeOK'
    BY <2>2 DEF AddWrite, HashSet, MergeItem, Pending
  <2>3. ASSUME NEW a \in Adds, AddExpire(a) PROVE CartTypeOK'
    BY <2>3 DEF AddExpire, KeyExpire
  <2>4. ASSUME NEW a \in Adds, AddFail(a) PROVE CartTypeOK'
    BY <2>4 DEF AddFail
  <2>5. ASSUME NEW e \in Empties, EmptyCall(e) PROVE CartTypeOK'
    BY <2>5 DEF EmptyCall
  <2>6. ASSUME NEW e \in Empties, EmptyWrite(e) PROVE CartTypeOK'
    BY <2>6 DEF EmptyWrite, HashSet, Pending
  <2>7. ASSUME NEW e \in Empties, EmptyExpire(e) PROVE CartTypeOK'
    BY <2>7 DEF EmptyExpire, KeyExpire
  <2>8. ASSUME NEW e \in Empties, EmptyFail(e) PROVE CartTypeOK'
    BY <2>8 DEF EmptyFail
  <2>9. ASSUME NEW u \in Users, KeyExpires(u) PROVE CartTypeOK'
    BY <2>9 DEF KeyExpires, Pending
  <2>10. CASE UNCHANGED cartVars
    BY <2>10 DEF cartVars
  <2> QED
    BY <2>1, <2>2, <2>3, <2>4, <2>5, <2>6, <2>7, <2>8, <2>9, <2>10
       DEF CartNext, AddNext, EmptyNext
<1> QED BY <1>1, <1>2, PTL DEF CartSpec

-----------------------------------------------------------------------------
\* What has been emptied changes by an EmptyCart's write alone, and by what
\* it finds in the cart.
LEMMA EmptiedKept ==
    ASSUME UNCHANGED emptiedBy PROVE UNCHANGED emptied
BY DEF emptied

LEMMA EmptyWriteEmptied ==
    ASSUME CartTypeOK, NEW e \in Empties, EmptyWrite(e)
    PROVE  emptied' = emptied \cup cart[UserOf[e]]
<1>1. cart[UserOf[e]] \subseteq Adds BY CallsAssumption DEF CartTypeOK
<1>2. \A a \in Adds : emptiedBy'[a] # {} <=> emptiedBy[a] # {} \/ a \in cart[UserOf[e]]
  BY DEF EmptyWrite
<1> QED BY <1>1, <1>2 DEF emptied

\* Every cart action keeps the inductive invariant; one lemma per action that
\* writes the store, so that the checkout's proof can cite them too.
LEMMA AddReadKeepsInv ==
    ASSUME CartInv, NEW a \in Adds, AddRead(a) PROVE CartInv'
<1> USE CallsAssumption DEF CartInv, AddRead, GetCartAsync, Unraced
<1>0. UNCHANGED emptied BY EmptiedKept
<1> USE <1>0
<1>1. CartTypeOK' BY DEF CartTypeOK, AddStates
<1>2. WrittenByPc' BY DEF CartTypeOK, WrittenByPc
<1>3. KnownUnits'
  <2>1. \A b \in Adds : snap'[b] \subseteq {c \in written : UserOf[c] = UserOf[b]}
    <3> SUFFICES ASSUME NEW b \in Adds
                 PROVE  snap'[b] \subseteq {c \in written : UserOf[c] = UserOf[b]}
      OBVIOUS
    <3>1. CASE b = a
      <4>1. UserOf[a] \in Users OBVIOUS
      <4>2. snap'[b] = cart[UserOf[a]] BY <3>1 DEF CartTypeOK
      <4> QED BY <3>1, <4>1, <4>2 DEF KnownUnits
    <3>2. CASE b # a
      BY <3>2 DEF KnownUnits, CartTypeOK
    <3> QED BY <3>1, <3>2
  <2> QED BY <2>1 DEF KnownUnits
<1>4. SnapFresh' BY DEF CartTypeOK, SnapFresh
<1>5. ExactUnlessRaced' BY DEF CartTypeOK, ExactUnlessRaced
<1> QED BY <1>1, <1>2, <1>3, <1>4, <1>5

LEMMA AddWriteKeepsInv ==
    ASSUME CartInv, NEW a \in Adds, AddWrite(a) PROVE CartInv'
<1> USE CallsAssumption DEF CartInv, AddWrite, HashSet, MergeItem
<1>0. UNCHANGED emptied BY EmptiedKept
<1> USE <1>0
<1>1. CartTypeOK' BY DEF CartTypeOK, AddStates, Pending
<1>2. WrittenByPc' BY DEF CartTypeOK, WrittenByPc
<1>3. KnownUnits' BY DEF CartTypeOK, KnownUnits
<1>4. SnapFresh' BY DEF CartTypeOK, SnapFresh, Pending
<1>5. ExactUnlessRaced'
  <2> SUFFICES ASSUME NEW u \in Users, Unraced(u)'
               PROVE  cart'[u] = {b \in written' : UserOf[b] = u} \ (emptied' \cup expired')
    BY DEF ExactUnlessRaced
  <2>1. Unraced(u) BY DEF Unraced, CartTypeOK
  <2>2. cart[u] = {b \in written : UserOf[b] = u} \ (emptied \cup expired)
    BY <2>1 DEF ExactUnlessRaced
  <2>3. CASE u # UserOf[a]
    BY <2>2, <2>3 DEF CartTypeOK
  <2>4. CASE u = UserOf[a]
    <3>1. a \notin raced BY <2>4 DEF Unraced, CartTypeOK
    <3>2. snap[a] = cart[u] BY <2>4, <3>1 DEF SnapFresh
    <3>3. a \notin written BY DEF WrittenByPc
    <3>4. a \notin emptied \cup expired BY <3>3 DEF KnownUnits
    <3> QED BY <2>2, <2>4, <3>2, <3>4 DEF CartTypeOK
  <2> QED BY <2>3, <2>4
<1> QED BY <1>1, <1>2, <1>3, <1>4, <1>5

LEMMA EmptyWriteKeepsInv ==
    ASSUME CartInv, NEW e \in Empties, EmptyWrite(e) PROVE CartInv'
<1> USE CallsAssumption DEF CartInv, EmptyWrite, HashSet
<1>0. emptied' = emptied \cup cart[UserOf[e]] BY EmptyWriteEmptied
<1> USE <1>0
<1>1. CartTypeOK' BY DEF CartTypeOK, EmptyStates, Pending
<1>2. WrittenByPc' BY DEF CartTypeOK, WrittenByPc
<1>3. KnownUnits'
  <2>1. UserOf[e] \in Users OBVIOUS
  <2>2. emptied' \subseteq written BY <2>1 DEF KnownUnits
  <2>3. \A u \in Users : cart'[u] \subseteq cart[u] BY <2>1 DEF CartTypeOK
  <2> QED BY <2>2, <2>3 DEF KnownUnits
<1>4. SnapFresh' BY DEF CartTypeOK, SnapFresh, Pending
<1>5. ExactUnlessRaced'
  <2> SUFFICES ASSUME NEW u \in Users, Unraced(u)'
               PROVE  cart'[u] = {b \in written' : UserOf[b] = u} \ (emptied' \cup expired')
    BY DEF ExactUnlessRaced
  <2>1. Unraced(u) BY DEF Unraced, CartTypeOK
  <2>2. cart[u] = {b \in written : UserOf[b] = u} \ (emptied \cup expired)
    BY <2>1 DEF ExactUnlessRaced
  <2>3. CASE u # UserOf[e]
    <3>1. \A b \in cart[UserOf[e]] : UserOf[b] # u
      BY <2>3 DEF KnownUnits
    <3> QED BY <2>2, <2>3, <3>1 DEF CartTypeOK
  <2>4. CASE u = UserOf[e]
    BY <2>2, <2>4 DEF CartTypeOK
  <2> QED BY <2>3, <2>4
<1> QED BY <1>1, <1>2, <1>3, <1>4, <1>5

LEMMA KeyExpiresKeepsInv ==
    ASSUME CartInv, NEW v \in Users, KeyExpires(v) PROVE CartInv'
<1> USE CallsAssumption DEF CartInv, KeyExpires
<1>0. UNCHANGED emptied BY EmptiedKept
<1> USE <1>0
<1>1. CartTypeOK' BY DEF CartTypeOK, Pending
<1>2. WrittenByPc' BY DEF CartTypeOK, WrittenByPc
<1>3. KnownUnits' BY DEF CartTypeOK, KnownUnits
<1>4. SnapFresh' BY DEF CartTypeOK, SnapFresh, Pending
<1>5. ExactUnlessRaced'
  <2> SUFFICES ASSUME NEW u \in Users, Unraced(u)'
               PROVE  cart'[u] = {b \in written' : UserOf[b] = u} \ (emptied' \cup expired')
    BY DEF ExactUnlessRaced
  <2>1. Unraced(u) BY DEF Unraced, CartTypeOK
  <2>2. cart[u] = {b \in written : UserOf[b] = u} \ (emptied \cup expired)
    BY <2>1 DEF ExactUnlessRaced
  <2>3. CASE u # v
    <3>1. \A b \in cart[v] : UserOf[b] # u
      BY <2>3 DEF KnownUnits
    <3> QED BY <2>2, <2>3, <3>1 DEF CartTypeOK
  <2>4. CASE u = v
    BY <2>2, <2>4 DEF CartTypeOK
  <2> QED BY <2>3, <2>4
<1> QED BY <1>1, <1>2, <1>3, <1>4, <1>5

\* The steps that leave the stored carts alone: a time to live renewed, a
\* call that fails, a call that arrives, a stutter.
LEMMA QuietKeepsInv ==
    ASSUME CartInv, CartTypeOK',
           UNCHANGED <<cart, snap, written, emptiedBy, expired, raced>>,
           \A a \in Adds : addPc'[a] = "write" => addPc[a] = "write",
           \A a \in Adds : addPc'[a] \in {"idle", "write"} => addPc[a] \in {"idle", "write"}
    PROVE  CartInv'
<1>1. UNCHANGED emptied BY EmptiedKept
<1> QED BY <1>1 DEF CartInv, WrittenByPc, KnownUnits, SnapFresh, ExactUnlessRaced, Unraced

LEMMA CartNextKeepsInv ==
    ASSUME CartInv, CartNext PROVE CartInv'
<1> USE CallsAssumption
<1>1. ASSUME NEW a \in Adds, AddExpire(a) PROVE CartInv'
  <2>1. CartTypeOK' BY <1>1 DEF CartInv, CartTypeOK, AddExpire, KeyExpire, AddStates
  <2> QED BY <1>1, <2>1, QuietKeepsInv DEF AddExpire, KeyExpire, CartInv, CartTypeOK
<1>2. ASSUME NEW a \in Adds, AddFail(a) PROVE CartInv'
  <2>1. CartTypeOK' BY <1>2 DEF CartInv, CartTypeOK, AddFail, AddStates
  <2> QED BY <1>2, <2>1, QuietKeepsInv DEF AddFail, CartInv, CartTypeOK
<1>3. ASSUME NEW e \in Empties, EmptyCall(e) \/ EmptyExpire(e) \/ EmptyFail(e) PROVE CartInv'
  <2>1. CartTypeOK'
    BY <1>3 DEF CartInv, CartTypeOK, EmptyCall, EmptyExpire, EmptyFail, KeyExpire, EmptyStates
  <2> QED BY <1>3, <2>1, QuietKeepsInv DEF EmptyCall, EmptyExpire, EmptyFail, KeyExpire
<1> QED BY <1>1, <1>2, <1>3, AddReadKeepsInv, AddWriteKeepsInv, EmptyWriteKeepsInv,
           KeyExpiresKeepsInv DEF CartNext, AddNext, EmptyNext

LEMMA CartInvariant == CartSpec => []CartInv
<1>1. CartInit => CartInv
  BY CallsAssumption DEF CartInit, CartInv, CartTypeOK, AddStates, EmptyStates,
     WrittenByPc, KnownUnits, SnapFresh, ExactUnlessRaced, emptied
<1>2. CartInv /\ [CartNext]_cartVars => CartInv'
  <2>1. ASSUME CartInv, UNCHANGED cartVars PROVE CartInv'
    BY <2>1, QuietKeepsInv DEF cartVars, CartInv, CartTypeOK
  <2> QED BY <2>1, CartNextKeepsInv
<1> QED BY <1>1, <1>2, PTL DEF CartSpec

(* Whatever calls overlap, fail or expire: unless some AddItem wrote back a
   copy that another write had overtaken, a user's stored cart is exactly
   what was added and not emptied or expired. *)
THEOREM CartExactUnlessRaced == CartSpec => []ExactUnlessRaced
<1>1. CartInv => ExactUnlessRaced BY DEF CartInv
<1> QED BY <1>1, CartInvariant, PTL

\* The store's history only grows, so a user who was raced stays raced.
LEMMA CartHistoryGrows ==
    ASSUME CartTypeOK, [CartNext]_cartVars
    PROVE  /\ written \subseteq written' /\ landed \subseteq landed'
           /\ emptied \subseteq emptied' /\ expired \subseteq expired'
           /\ \A u \in Users : Unraced(u)' => Unraced(u)
<1>1. /\ written \subseteq written' /\ landed \subseteq landed'
      /\ expired \subseteq expired' /\ raced \subseteq raced'
      /\ UNCHANGED emptiedBy \/ \E e \in Empties : EmptyWrite(e)
  BY DEF CartNext, cartVars, AddNext, AddRead, AddWrite, AddExpire, AddFail, EmptyNext,
     EmptyCall, EmptyWrite, EmptyExpire, EmptyFail, KeyExpires, HashSet, KeyExpire
<1>2. emptied \subseteq emptied' BY <1>1, EmptiedKept, EmptyWriteEmptied
<1> QED BY <1>1, <1>2 DEF Unraced

(* A key that never expires has a cause, for every set of calls: each writer
   renews the time to live after its write unless it threw between the two,
   and a write that comes later never takes the time to live away. *)
THEOREM CartUnexpiringHasCause == CartSpec => []UnexpiringCartHasCause
<1> USE CallsAssumption DEF UnexpiringCartHasCause
<1>1. CartInit => UnexpiringCartHasCause BY DEF CartInit
<1>2. CartTypeOK /\ UnexpiringCartHasCause /\ [CartNext]_cartVars => UnexpiringCartHasCause'
  <2> SUFFICES ASSUME CartTypeOK, UnexpiringCartHasCause, [CartNext]_cartVars
               PROVE  UnexpiringCartHasCause'
    OBVIOUS
  <2> USE DEF CartTypeOK
  <2>1. ASSUME NEW a \in Adds, AddRead(a) PROVE UnexpiringCartHasCause'
    BY <2>1 DEF AddRead
  <2>2. ASSUME NEW a \in Adds, AddWrite(a) PROVE UnexpiringCartHasCause'
    BY <2>2 DEF AddWrite, HashSet
  <2>3. ASSUME NEW a \in Adds, AddExpire(a) PROVE UnexpiringCartHasCause'
    BY <2>3 DEF AddExpire, KeyExpire
  <2>4. ASSUME NEW a \in Adds, AddFail(a) PROVE UnexpiringCartHasCause'
    BY <2>4 DEF AddFail
  <2>5. ASSUME NEW e \in Empties, EmptyCall(e) PROVE UnexpiringCartHasCause'
    BY <2>5 DEF EmptyCall
  <2>6. ASSUME NEW e \in Empties, EmptyWrite(e) PROVE UnexpiringCartHasCause'
    BY <2>6 DEF EmptyWrite, HashSet
  <2>7. ASSUME NEW e \in Empties, EmptyExpire(e) PROVE UnexpiringCartHasCause'
    BY <2>7 DEF EmptyExpire, KeyExpire
  <2>8. ASSUME NEW e \in Empties, EmptyFail(e) PROVE UnexpiringCartHasCause'
    BY <2>8 DEF EmptyFail
  <2>9. ASSUME NEW u \in Users, KeyExpires(u) PROVE UnexpiringCartHasCause'
    BY <2>9 DEF KeyExpires
  <2>10. CASE UNCHANGED cartVars BY <2>10 DEF cartVars
  <2> QED
    BY <2>1, <2>2, <2>3, <2>4, <2>5, <2>6, <2>7, <2>8, <2>9, <2>10
       DEF CartNext, AddNext, EmptyNext
<1> QED BY <1>1, <1>2, CartTypeCorrect, PTL DEF CartSpec

(***************************************************************************)
(* PlaceOrder.                                                             *)
(***************************************************************************)

\* A request has an answer exactly when its handler is done.
AnsweredByPc == \A r \in Requests : reply[r] = "none" <=> pc[r] # "done"

\* What a handler has sent, by where it stands and by how it ended.
SentByPc ==
    \A r \in Requests :
        /\ pc[r] \in {"idle"} \cup Preparing => sent[r] = {}
        /\ pc[r] = "charge" => "ship" \notin sent[r]
        /\ pc[r] = "ship" => "ship" \in sent[r]
SentByReply ==
    \A r \in Requests :
        /\ reply[r] = "emptyCart" => sent[r] = {}
        /\ reply[r] = "internal" => "ship" \notin sent[r]
        /\ reply[r] = "unavailable" => "ship" \in sent[r]

\* ship-order goes out for charged orders only, and whatever comes behind it
\* in PlaceOrder is reached by shipped orders only.
ShippedInOrder ==
    \A r \in Requests :
        /\ "ship" \in sent[r] => r \in charged
        /\ r \in shipped => "ship" \in sent[r]
        /\ pc[r] \in {"empty", "awaitEmpty", "confirm", "publish", "awaitPublish"} => r \in shipped
        /\ r \in handed \/ published[r] > 0 =>
               /\ r \in shipped
               /\ pc[r] \in {"awaitPublish", "done"}
               /\ reply[r] \in {"none", "ok", "lost"}

\* A declined order has ended and sent nothing to shipping; an order that sent
\* nothing to shipping has not touched the cart.
DeclinedEnded ==
    /\ \A r \in declined : pc[r] = "done" /\ "ship" \notin sent[r]
    /\ \A r \in Requests : "ship" \notin sent[r] => emptyPc[r] = "none"

CheckoutInv ==
    /\ CartTypeOK /\ CheckoutTypeOK
    /\ AnsweredByPc /\ SentByPc /\ SentByReply
    /\ ShippedInOrder /\ DeclinedEnded
    /\ FulfilledWasPaid

-----------------------------------------------------------------------------
\* The cart component inside Checkout takes cart steps only.
LEMMA StepIsCartStep == [Next]_vars => [CartNext]_cartVars
<1> SUFFICES ASSUME [Next]_vars PROVE [CartNext]_cartVars
  OBVIOUS
<1> USE CheckoutAssumption DEF cartVars
<1>1. ASSUME NEW r \in Requests, Handle(r) PROVE [CartNext]_cartVars
  BY <1>1 DEF Handle, PlaceOrder, GetCart, Prepare, PrepareFails, ChargeCard, ChargeCardFails,
     ShipOrder, ShipOrderFails, EmptyUserCart, EmptyUserCartReturns, SendOrderConfirmation,
     SendToPostProcessor, SendToPostProcessorReturns, CartNext
<1>2. ASSUME NEW r \in Requests, Remote(r) PROVE [CartNext]_cartVars
  BY <1>2 DEF Remote, PaymentCharges, ShippingShips, BrokerAppends
<1>3. CASE CartStep BY <1>3 DEF CartStep, CartNext
<1>4. CASE Crash BY <1>4 DEF Crash
<1>5. CASE UNCHANGED vars BY <1>5 DEF vars
<1> QED BY <1>1, <1>2, <1>3, <1>4, <1>5 DEF Next

(* Checkout implements the cart service's specification: its EmptyCart calls
   and its crashes are within what the cart service serves, so every theorem
   about the cart alone holds of the cart under checkout. *)
THEOREM CheckoutKeepsCart == Spec => CartSpec
<1>1. Init => CartInit BY DEF Init
<1> QED BY <1>1, StepIsCartStep, PTL DEF Spec, CartSpec

(* The cart under checkout is exact unless an AddItem was overtaken, however
   many orders read and empty it. *)
THEOREM CheckoutCartExact == Spec => []ExactUnlessRaced
BY CheckoutKeepsCart, CartExactUnlessRaced, PTL

(* Neither do orders: a cart that would stay in Valkey for ever, under any
   mixture of orders, crashes and AddItem calls, was left by a writer that is
   between its write and its KeyExpireAsync or threw between them. *)
THEOREM CheckoutUnexpiringCartHasCause == Spec => []UnexpiringCartHasCause
BY CheckoutKeepsCart, CartUnexpiringHasCause, PTL

\* One step of a handler, or of a service it called.
LEMMA HandlerKeepsInv ==
    ASSUME CheckoutInv, CartTypeOK', NEW r \in Requests, Handle(r) \/ Remote(r)
    PROVE  CheckoutInv'
<1> USE CheckoutAssumption DEF CheckoutInv, CheckoutTypeOK, AnsweredByPc, SentByPc, SentByReply,
        ShippedInOrder, DeclinedEnded, FulfilledWasPaid, CartTypeOK, EmptyStates,
        Goto, Send, Return, Serving, Preparing, Replies, world, history, cartVars
<1>1. CASE PlaceOrder(r) BY <1>1 DEF PlaceOrder
<1>2. CASE GetCart(r)
  <2>1. GetCartAsync(UserOf[r]) \in SUBSET Adds BY CallsAssumption DEF GetCartAsync
  <2> DEFINE found == GetCartAsync(UserOf[r])
  <2>2. /\ pc[r] = "getCart" /\ items' = [items EXCEPT ![r] = found]
        /\ seenLanded' = [seenLanded EXCEPT ![r] = landed]
        /\ seenWritten' = [seenWritten EXCEPT ![r] = written]
        /\ Return(r, "emptyCart") \/ (Goto(r, "prepare") /\ UNCHANGED reply)
        /\ UNCHANGED <<cartVars, sent, handed, world, declined>>
    BY <1>2 DEF GetCart
  <2>3. found \in SUBSET Adds BY <2>1
  <2> HIDE DEF found
  <2>4. CASE Return(r, "emptyCart") BY <2>2, <2>3, <2>4
  <2>5. CASE Goto(r, "prepare") /\ UNCHANGED reply BY <2>2, <2>3, <2>5
  <2> QED BY <2>2, <2>4, <2>5
<1>3. CASE Prepare(r) BY <1>3 DEF Prepare
<1>4. CASE PrepareFails(r) BY <1>4 DEF PrepareFails
<1>5. CASE PaymentCharges(r) BY <1>5 DEF PaymentCharges
<1>6. CASE ChargeCard(r) BY <1>6 DEF ChargeCard
<1>7. CASE ChargeCardFails(r) BY <1>7 DEF ChargeCardFails
<1>8. CASE ShippingShips(r) BY <1>8 DEF ShippingShips
<1>9. CASE ShipOrder(r) BY <1>9 DEF ShipOrder
<1>10. CASE ShipOrderFails(r) BY <1>10 DEF ShipOrderFails
<1>11. CASE EmptyUserCart(r) BY <1>11 DEF EmptyCall, EmptyUserCart
<1>12. CASE EmptyUserCartReturns(r) BY <1>12 DEF EmptyUserCartReturns
<1>13. CASE SendOrderConfirmation(r) BY <1>13 DEF SendOrderConfirmation
<1>14. CASE SendToPostProcessor(r) BY <1>14 DEF SendToPostProcessor
<1>15. CASE SendToPostProcessorReturns(r) BY <1>15 DEF SendToPostProcessorReturns
<1>16. CASE BrokerAppends(r) BY <1>16 DEF BrokerAppends
<1> QED BY <1>1, <1>2, <1>3, <1>4, <1>5, <1>6, <1>7, <1>8, <1>9, <1>10, <1>11, <1>12, <1>13,
           <1>14, <1>15, <1>16 DEF Handle, Remote

\* A cart step of another caller leaves alone the EmptyCart calls the handlers
\* have not made.
LEMMA CartStepKeepsInv ==
    ASSUME CheckoutInv, CartTypeOK', CartStep PROVE CheckoutInv'
<1> USE CheckoutAssumption
<1>1. \A r \in Requests : emptyPc[r] = "none" => emptyPc'[r] = "none"
  BY DEF CartStep, CheckoutInv, CartTypeOK, AddNext, AddRead, AddWrite, AddExpire, AddFail,
     EmptyNext, EmptyWrite, EmptyExpire, EmptyFail, EmptyCall, KeyExpires
<1> QED BY <1>1 DEF CartStep, checkoutVars, world, history, CheckoutInv, CheckoutTypeOK,
           AnsweredByPc, SentByPc, SentByReply, ShippedInOrder, DeclinedEnded, FulfilledWasPaid

\* A crash ends every request with the answer "lost"; calls on their way and
\* messages handed to the Kafka client may still arrive.
LEMMA CrashKeepsInv ==
    ASSUME CheckoutInv, CartTypeOK', Crash PROVE CheckoutInv'
BY CheckoutAssumption DEF Crash, CheckoutInv, CheckoutTypeOK, AnsweredByPc, SentByPc, SentByReply,
   ShippedInOrder, DeclinedEnded, FulfilledWasPaid, Serving, Preparing, Replies, world,
   history, cartVars

LEMMA CheckoutInvariant == Spec => []CheckoutInv
<1>1. Spec => []CartTypeOK BY CheckoutKeepsCart, CartTypeCorrect, PTL
<1>2. Init /\ CartTypeOK => CheckoutInv
  BY CheckoutAssumption DEF Init, CartInit, CheckoutInit, CheckoutInv, CheckoutTypeOK, AnsweredByPc,
     SentByPc, SentByReply, ShippedInOrder, DeclinedEnded, FulfilledWasPaid, Serving,
     Preparing, Replies
<1>3. CheckoutInv /\ CartTypeOK' /\ [Next]_vars => CheckoutInv'
  <2>1. ASSUME CheckoutInv, UNCHANGED vars PROVE CheckoutInv'
    BY <2>1 DEF vars, cartVars, checkoutVars, world, history, CheckoutInv, CartTypeOK,
       CheckoutTypeOK, AnsweredByPc, SentByPc, SentByReply, ShippedInOrder, DeclinedEnded,
       FulfilledWasPaid
  <2> QED BY <2>1, HandlerKeepsInv, CartStepKeepsInv, CrashKeepsInv DEF Next
<1> QED BY <1>1, <1>2, <1>3, PTL DEF Spec

(* The variables of checkout keep their types; no order has more than
   MaxCopies messages on the topic. *)
THEOREM CheckoutTypeCorrect == Spec => []CheckoutTypeOK
<1>1. CheckoutInv => CheckoutTypeOK BY DEF CheckoutInv
<1> QED BY <1>1, CheckoutInvariant, PTL

(* The order of effects in PlaceOrder, whatever is lost, late, cancelled or
   crashed, for every number of requests: nothing ships unpaid, and what is
   mailed, published or answered with OK has been shipped. *)
THEOREM CheckoutFulfilledWasPaid == Spec => []FulfilledWasPaid
<1>1. CheckoutInv => FulfilledWasPaid BY DEF CheckoutInv
<1> QED BY <1>1, CheckoutInvariant, PTL

(* The breadcrumbs of a declined payment stay true of the abandoned order:
   its cart is not emptied, and it is not shipped, mailed or published. *)
THEOREM CheckoutAbandonedLeavesNoTrace == Spec => []AbandonedLeavesNoTrace
<1>1. CheckoutInv => AbandonedLeavesNoTrace
  BY DEF CheckoutInv, CheckoutTypeOK, ShippedInOrder, DeclinedEnded, FulfilledWasPaid,
     AbandonedLeavesNoTrace
<1> QED BY <1>1, CheckoutInvariant, PTL

-----------------------------------------------------------------------------
(* Which items an order contains, and which of them it takes out of the      *)
(* cart.  The cart is exact at every read (ExactUnlessRaced), and what left  *)
(* it before never comes back unless an AddItem was overtaken.               *)

\* EmptyCart calls of orders come from shipped ones, those that landed had
\* been made, and those that took something had landed.
EmptiesAreShipped ==
    /\ \A a \in Adds : emptiedBy[a] \subseteq landed
    /\ \A e \in landed : emptyPc[e] # "none"
    /\ \A r \in Requests : emptyPc[r] # "none" => r \in shipped

\* What an order read: stored items of its user, all of them that had not left.
ItemsAsRead ==
    \A r \in Requests :
        /\ seenLanded[r] \subseteq landed
        /\ items[r] \subseteq {a \in written : UserOf[a] = UserOf[r]}
        /\ Unraced(UserOf[r]) =>
              \A a \in seenWritten[r] :
                 UserOf[a] = UserOf[r] => a \in items[r] \cup emptied \cup expired

\* An order whose EmptyCart landed has nothing left in the cart.
LandedItemsLeft ==
    \A r \in landed \cap Requests :
        Unraced(UserOf[r]) => items[r] \subseteq emptied \cup expired

ItemsInv ==
    /\ EmptiesAreShipped /\ ItemsAsRead /\ LandedItemsLeft
    /\ OrderedOnce /\ EmptiedWasOrderedOrLate

\* A step that reads no cart and empties none.
LEMMA QuietKeepsItems ==
    ASSUME CartInv, ItemsInv, [CartNext]_cartVars,
           UNCHANGED <<items, seenLanded, seenWritten, landed, emptiedBy>>,
           shipped \subseteq shipped', EmptiesAreShipped'
    PROVE  ItemsInv'
<1> USE CallsAssumption, CheckoutAssumption, CartHistoryGrows DEF CartInv, CartTypeOK
<1>1. UNCHANGED emptied /\ \A r \in Requests : UserOf[r] \in Users BY EmptiedKept
<1>2. ItemsAsRead' BY <1>1 DEF ItemsInv, ItemsAsRead
<1>3. LandedItemsLeft' BY <1>1 DEF ItemsInv, LandedItemsLeft
<1>4. OrderedOnce' BY <1>1 DEF ItemsInv, OrderedOnce
<1>5. EmptiedWasOrderedOrLate' BY DEF ItemsInv, EmptiedWasOrderedOrLate
<1> QED BY <1>2, <1>3, <1>4, <1>5 DEF ItemsInv

\* An order reads the cart.  It has not made its EmptyCart yet, so that no
\* other order has seen it land.
LEMMA GetCartKeepsItems ==
    ASSUME CartInv, CheckoutInv, ItemsInv, NEW r \in Requests, GetCart(r)
    PROVE  ItemsInv'
<1> USE CallsAssumption, CheckoutAssumption DEF GetCart, GetCartAsync, cartVars, world
<1> DEFINE u == UserOf[r]
<1>1. u \in Users OBVIOUS
<1>2. r \notin landed
  BY DEF CheckoutInv, SentByPc, DeclinedEnded, Preparing, ItemsInv, EmptiesAreShipped
<1>3. items' = [items EXCEPT ![r] = cart[u]] /\ items \in [Requests -> SUBSET Adds]
  BY DEF CheckoutInv, CheckoutTypeOK
<1>4. /\ seenLanded' = [seenLanded EXCEPT ![r] = landed]
      /\ seenWritten' = [seenWritten EXCEPT ![r] = written]
      /\ seenLanded \in [Requests -> SUBSET Empties]
      /\ seenWritten \in [Requests -> SUBSET Adds]
  BY DEF CheckoutInv, CheckoutTypeOK
<1>5. Unraced(u) => cart[u] = {a \in written : UserOf[a] = u} \ (emptied \cup expired)
  BY <1>1 DEF CartInv, ExactUnlessRaced
<1>6. cart[u] \subseteq {a \in written : UserOf[a] = u}
  BY <1>1 DEF CartInv, KnownUnits
<1>7. \A v : Unraced(v)' <=> Unraced(v) BY DEF Unraced
<1>0. UNCHANGED emptied BY EmptiedKept
<1> USE <1>0
<1> HIDE DEF u
<1>8. EmptiesAreShipped' BY DEF ItemsInv, EmptiesAreShipped
<1>9. ItemsAsRead' BY <1>3, <1>4, <1>5, <1>6, <1>7 DEF ItemsInv, ItemsAsRead, u
<1>10. LandedItemsLeft' BY <1>2, <1>3, <1>7 DEF ItemsInv, LandedItemsLeft
<1>11. OrderedOnce'
  <2> SUFFICES ASSUME NEW r2 \in Requests, NEW r1 \in seenLanded'[r2] \cap Requests,
                      UserOf[r1] = UserOf[r2], Unraced(UserOf[r2])
               PROVE  items'[r1] \cap items'[r2] = {}
    BY <1>7 DEF OrderedOnce
  <2>1. r1 # r BY <1>2, <1>4 DEF ItemsInv, ItemsAsRead
  <2>2. CASE r2 = r
    <3>1. r1 \in landed BY <1>4, <2>2
    <3>2. items[r1] \subseteq emptied \cup expired BY <3>1 DEF ItemsInv, LandedItemsLeft
    <3> QED BY <1>3, <1>5, <2>1, <2>2, <3>2 DEF u
  <2>3. CASE r2 # r
    BY <1>3, <1>4, <2>1, <2>3 DEF ItemsInv, OrderedOnce
  <2> QED BY <2>2, <2>3
<1>12. EmptiedWasOrderedOrLate'
  BY <1>2, <1>3, <1>4, <1>7 DEF ItemsInv, EmptiesAreShipped, EmptiedWasOrderedOrLate
<1> QED BY <1>8, <1>9, <1>10, <1>11, <1>12 DEF ItemsInv

\* An EmptyCart lands.  What it takes out was there to be read by its order,
\* or was stored later.
LEMMA EmptyWriteKeepsItems ==
    ASSUME CartInv, CheckoutInv, ItemsInv, NEW e \in Empties, EmptyWrite(e), UNCHANGED checkoutVars
    PROVE  ItemsInv'
<1> USE CallsAssumption, CheckoutAssumption DEF EmptyWrite, checkoutVars, world, history
<1> DEFINE u == UserOf[e]
<1>1. u \in Users OBVIOUS
<1>2. CartTypeOK BY DEF CartInv
<1>0. emptied' = emptied \cup cart[u] BY <1>2, EmptyWriteEmptied
<1>3. [CartNext]_cartVars BY DEF CartNext, EmptyNext
<1>4. \A v \in Users : Unraced(v)' => Unraced(v) BY <1>2, <1>3, CartHistoryGrows
<1>5. Unraced(u) => cart[u] = {a \in written : UserOf[a] = u} \ (emptied \cup expired)
  BY <1>1 DEF CartInv, ExactUnlessRaced
<1>6. cart[u] \subseteq {a \in written : UserOf[a] = u}
  BY <1>1 DEF CartInv, KnownUnits
<1>7. \A r \in Requests : UserOf[r] \in Users OBVIOUS
<1>8. EmptiesAreShipped' BY <1>2 DEF ItemsInv, EmptiesAreShipped, CartTypeOK
<1>9. ItemsAsRead' BY <1>0, <1>4, <1>7 DEF ItemsInv, ItemsAsRead
<1>10. LandedItemsLeft'
  <2> SUFFICES ASSUME NEW r \in landed' \cap Requests, Unraced(UserOf[r])'
               PROVE  items[r] \subseteq emptied' \cup expired'
    BY DEF LandedItemsLeft
  <2>1. Unraced(UserOf[r]) BY <1>4, <1>7
  <2>2. CASE r = e
    <3>1. items[r] \subseteq {a \in written : UserOf[a] = u} BY <2>2 DEF ItemsInv, ItemsAsRead
    <3> QED BY <1>0, <1>5, <2>1, <2>2, <3>1
  <2>3. CASE r # e
    BY <1>0, <2>1, <2>3 DEF ItemsInv, LandedItemsLeft
  <2> QED BY <2>2, <2>3
<1>11. OrderedOnce' BY <1>4, <1>7 DEF ItemsInv, OrderedOnce
<1>12. EmptiedWasOrderedOrLate'
  <2> SUFFICES ASSUME NEW a \in Adds, Unraced(UserOf[a])', NEW f \in emptiedBy'[a]
               PROVE  /\ UserOf[f] = UserOf[a]
                      /\ \/ f \notin Requests
                         \/ f \in shipped /\ (a \in items[f] \/ a \notin seenWritten[f])
    BY DEF EmptiedWasOrderedOrLate
  <2>1. Unraced(UserOf[a]) BY <1>4
  <2>2. CASE f \in emptiedBy[a]
    BY <2>1, <2>2 DEF ItemsInv, EmptiedWasOrderedOrLate
  <2>3. CASE f = e /\ a \in cart[u]
    <3>1. UserOf[a] = u BY <1>6, <2>3
    <3>2. a \notin emptied \cup expired BY <1>5, <2>1, <2>3, <3>1
    <3>3. e \in Requests /\ a \in seenWritten[e] => a \in items[e]
      BY <2>1, <3>1, <3>2 DEF ItemsInv, ItemsAsRead
    <3>4. e \in Requests => e \in shipped BY <2>3 DEF ItemsInv, EmptiesAreShipped
    <3> QED BY <2>3, <3>1, <3>3, <3>4
  <2> QED BY <2>2, <2>3
<1> QED BY <1>8, <1>9, <1>10, <1>11, <1>12 DEF ItemsInv

LEMMA ItemsInvariant == Spec => []ItemsInv
<1>1. Spec => []CartInv BY CheckoutKeepsCart, CartInvariant, PTL
<1>2. Init => ItemsInv
  BY CheckoutAssumption DEF Init, CartInit, CheckoutInit, ItemsInv, EmptiesAreShipped, ItemsAsRead,
     LandedItemsLeft, OrderedOnce, EmptiedWasOrderedOrLate
<1>3. CartInv /\ CheckoutInv /\ ItemsInv /\ [Next]_vars => ItemsInv'
  <2> SUFFICES ASSUME CartInv, CheckoutInv, ItemsInv, [Next]_vars PROVE ItemsInv'
    OBVIOUS
  <2> USE CheckoutAssumption DEF cartVars, world, history
  <2>1. [CartNext]_cartVars BY StepIsCartStep
  <2>2. ASSUME NEW r \in Requests, EmptyUserCart(r) PROVE ItemsInv'
    <3>1. r \in shipped BY <2>2 DEF EmptyUserCart, CheckoutInv, ShippedInOrder
    <3>2. EmptiesAreShipped'
      BY <2>2, <3>1 DEF EmptyUserCart, EmptyCall, CartInv, CartTypeOK, ItemsInv, EmptiesAreShipped
    <3> QED BY <2>1, <2>2, <3>2, QuietKeepsItems DEF EmptyUserCart, EmptyCall
  <2>3. ASSUME NEW r \in Requests, Handle(r) \/ Remote(r),
               ~GetCart(r), ~EmptyUserCart(r)
        PROVE  ItemsInv'
    <3>1. /\ UNCHANGED <<cartVars, items, seenLanded, seenWritten>>
          /\ shipped \subseteq shipped'
      BY <2>3 DEF Handle, PlaceOrder, Prepare, PrepareFails, ChargeCard, ChargeCardFails,
         ShipOrder, ShipOrderFails, EmptyUserCartReturns, SendOrderConfirmation,
         SendToPostProcessor, SendToPostProcessorReturns, Remote, PaymentCharges,
         ShippingShips, BrokerAppends
    <3>2. EmptiesAreShipped' BY <3>1 DEF ItemsInv, EmptiesAreShipped
    <3> QED BY <2>1, <3>1, <3>2, QuietKeepsItems
  <2>4. ASSUME NEW e \in Empties, EmptyWrite(e), UNCHANGED checkoutVars PROVE ItemsInv'
    BY <2>4, EmptyWriteKeepsItems
  <2>5. ASSUME CartStep, ~\E e \in Empties : EmptyWrite(e) PROVE ItemsInv'
    <3>1. UNCHANGED <<landed, emptiedBy, checkoutVars>>
      BY <2>5 DEF CartStep, AddNext, AddRead, AddWrite, AddExpire, AddFail, EmptyNext,
         EmptyExpire, EmptyFail, EmptyCall, KeyExpires, HashSet, KeyExpire
    <3>2. /\ \A r \in Requests : emptyPc'[r] # "none" => emptyPc[r] # "none"
          /\ \A e \in Empties : emptyPc[e] # "none" => emptyPc'[e] # "none"
      BY <2>5 DEF CartStep, CartInv, CartTypeOK, AddNext, AddRead, AddWrite, AddExpire, AddFail,
         EmptyNext, EmptyExpire, EmptyFail, EmptyCall, KeyExpires
    <3>3. EmptiesAreShipped'
      BY <3>1, <3>2 DEF checkoutVars, CartInv, CartTypeOK, ItemsInv, EmptiesAreShipped
    <3> QED BY <2>1, <3>1, <3>3, QuietKeepsItems DEF checkoutVars
  <2>6. CASE Crash
    <3>1. EmptiesAreShipped' BY <2>6 DEF Crash, ItemsInv, EmptiesAreShipped
    <3> QED BY <2>1, <2>6, <3>1, QuietKeepsItems DEF Crash
  <2>7. CASE UNCHANGED vars
    <3>1. EmptiesAreShipped'
      BY <2>7 DEF vars, checkoutVars, ItemsInv, EmptiesAreShipped
    <3> QED BY <2>1, <2>7, <3>1, QuietKeepsItems DEF vars, checkoutVars
  <2> QED BY <2>2, <2>3, <2>4, <2>5, <2>6, <2>7, GetCartKeepsItems DEF Next, CartStep
<1> QED BY <1>1, <1>2, <1>3, CheckoutInvariant, PTL DEF Spec

(* No item is ordered twice, for every number of orders, users and items,
   unless the two orders overlap, the first never emptied the cart, or an
   AddItem was overtaken and brought items back. *)
THEOREM CheckoutOrderedOnce == Spec => []OrderedOnce
<1>1. ItemsInv => OrderedOnce BY DEF ItemsInv
<1> QED BY <1>1, ItemsInvariant, PTL

(* Every EmptyCart that takes an item out of an unraced cart is the shopper's,
   or that of a shipped order which itself contains the item or had read the
   cart before the item was stored; another order's EmptyCart excuses nothing. *)
THEOREM CheckoutEmptiedWasOrderedOrLate == Spec => []EmptiedWasOrderedOrLate
<1>1. ItemsInv => EmptiedWasOrderedOrLate BY DEF ItemsInv
<1> QED BY <1>1, ItemsInvariant, PTL

-----------------------------------------------------------------------------
\* The refinement of OrderSpec, step by step.  ann is what OrderSpec calls
\* announced.
ann == mailed \cup {r \in Requests : published[r] > 0}

\* A handler's step pays, dispatches, announces, answers, or is not seen.
LEMMA HandlerKeepsOrder ==
    ASSUME CheckoutInv, NEW r \in Requests, Handle(r)
    PROVE  Order!OrderNext \/ UNCHANGED <<charged, shipped, ann, reply>>
<1> USE CheckoutAssumption DEF CheckoutInv, CheckoutTypeOK, AnsweredByPc, SentByPc, SentByReply,
        ShippedInOrder, FulfilledWasPaid, Goto, Send, Return, Serving, Preparing, Replies,
        world, history, ann
<1>1. CASE PlaceOrder(r) \/ Prepare(r) \/ ChargeCard(r) \/ ShipOrder(r)
           \/ EmptyUserCart(r) \/ EmptyUserCartReturns(r) \/ SendToPostProcessor(r)
  BY <1>1 DEF PlaceOrder, Prepare, ChargeCard, ShipOrder, EmptyUserCart, EmptyUserCartReturns,
     SendToPostProcessor
<1>2. ASSUME NEW code \in Order!Failures, pc[r] \in Serving, Return(r, code), UNCHANGED world
      PROVE  Order!OrderNext
  <2>1. reply[r] = "none" BY <1>2
  <2>2. reply' = [q \in Requests |-> IF q \in {r} THEN code ELSE reply[q]] BY <1>2
  <2>3. Order!Fail({r}, code) BY <1>2, <2>1, <2>2 DEF Order!Fail
  <2> QED BY <2>3 DEF Order!OrderNext
<1>3. CASE GetCart(r)
  BY <1>2, <1>3 DEF GetCart, Order!Failures
<1>4. CASE PrepareFails(r) \/ ChargeCardFails(r) \/ ShipOrderFails(r)
  BY <1>2, <1>4 DEF PrepareFails, ChargeCardFails, ShipOrderFails, Order!Failures
<1>5. CASE SendOrderConfirmation(r)
  <2>1. r \in shipped /\ reply[r] = "none" BY <1>5 DEF SendOrderConfirmation
  <2>2. mailed' = mailed \/ mailed' = mailed \cup {r} BY <1>5 DEF SendOrderConfirmation
  <2>3. UNCHANGED <<charged, shipped, published, reply>> BY <1>5 DEF SendOrderConfirmation
  <2>4. ann' = ann \/ ann' = ann \cup {r} BY <2>2, <2>3
  <2> QED BY <2>1, <2>3, <2>4 DEF Order!OrderNext, Order!Announce
<1>6. CASE SendToPostProcessorReturns(r)
  <2>1. r \in shipped /\ reply[r] = "none" BY <1>6 DEF SendToPostProcessorReturns
  <2>2. Order!Succeed(r) BY <1>6, <2>1 DEF SendToPostProcessorReturns, Order!Succeed
  <2> QED BY <2>2 DEF Order!OrderNext
<1> QED BY <1>1, <1>3, <1>4, <1>5, <1>6 DEF Handle

\* The services' steps are Pay, Dispatch and Announce.
LEMMA RemoteKeepsOrder ==
    ASSUME CheckoutInv, NEW r \in Requests, Remote(r)
    PROVE  Order!OrderNext \/ UNCHANGED <<charged, shipped, ann, reply>>
<1> USE CheckoutAssumption DEF CheckoutInv, CheckoutTypeOK, AnsweredByPc, SentByPc, SentByReply,
        ShippedInOrder, FulfilledWasPaid, Serving, Preparing, Replies, history, ann
<1>1. CASE PaymentCharges(r)
  <2>1. reply[r] \in {"none", "internal", "lost"} BY <1>1 DEF PaymentCharges
  <2>2. Order!Pay(r) BY <1>1, <2>1 DEF PaymentCharges, Order!Pay
  <2> QED BY <2>2 DEF Order!OrderNext
<1>2. CASE ShippingShips(r)
  <2>1. reply[r] \in {"none", "unavailable", "lost"} BY <1>2 DEF ShippingShips
  <2>2. Order!Dispatch(r) BY <1>2, <2>1 DEF ShippingShips, Order!Dispatch
  <2> QED BY <2>2 DEF Order!OrderNext
<1>3. CASE BrokerAppends(r)
  <2>1. r \in shipped /\ reply[r] \in {"none", "ok", "lost"} BY <1>3 DEF BrokerAppends
  <2>2. ann' = ann \cup {r}
    <3>1. \A q \in Requests : published'[q] > 0 <=> published[q] > 0 \/ q = r
      BY <1>3 DEF BrokerAppends
    <3> QED BY <1>3, <3>1 DEF BrokerAppends
  <2>3. Order!Announce(r) BY <1>3, <2>1, <2>2 DEF BrokerAppends, Order!Announce
  <2> QED BY <2>3 DEF Order!OrderNext
<1> QED BY <1>1, <1>2, <1>3 DEF Remote

\* A crash fails every request the process was serving.
LEMMA CrashKeepsOrder ==
    ASSUME CheckoutInv, Crash PROVE Order!OrderNext
<1> DEFINE failing == {r \in Requests : pc[r] \in Serving}
<1>1. \A r \in failing : reply[r] = "none"
  BY DEF CheckoutInv, AnsweredByPc, Serving, Preparing
<1>2. reply' = [r \in Requests |-> IF r \in failing THEN "lost" ELSE reply[r]] BY DEF Crash
<1>3. Order!Fail(failing, "lost") BY <1>1, <1>2 DEF Crash, world, Order!Fail
<1> QED BY <1>3 DEF Order!OrderNext, Order!Failures

(* PlaceOrder implements OrderSpec: whatever the services and the callers do,
   an order is paid, dispatched, announced and answered in OrderSpec's order,
   and no order that was answered with an error is announced. *)
THEOREM CheckoutKeepsOrderSpec == Spec => KeepsOrderSpec
<1>1. Init => Order!OrderInit
  BY DEF Init, CheckoutInit, Order!OrderInit
<1>2. CheckoutInv /\ [Next]_vars => [Order!OrderNext]_(Order!orderVars)
  <2> SUFFICES ASSUME CheckoutInv, [Next]_vars
               PROVE  Order!OrderNext \/ UNCHANGED <<charged, shipped, ann, reply>>
    BY DEF Order!orderVars, ann
  <2>1. CASE CartStep BY <2>1 DEF CartStep, checkoutVars, world, ann
  <2>2. CASE UNCHANGED vars BY <2>2 DEF vars, checkoutVars, world, ann
  <2> QED BY <2>1, <2>2, HandlerKeepsOrder, RemoteKeepsOrder, CrashKeepsOrder DEF Next
<1> QED BY <1>1, <1>2, CheckoutInvariant, PTL DEF Spec, KeepsOrderSpec, Order!OrderSpec

(***************************************************************************)
(* Checkout and accounting together.                                       *)
(***************************************************************************)

\* The theorems about accounting, in terms of the pipeline's variables.
Books == INSTANCE AccountingProofs WITH
    Orders <- Requests,
    MaxCrashes <- MaxConsumerCrashes,
    pc <- consumerPc,
    crashes <- consumerCrashes

LEMMA StepIsCheckoutStep == [PipelineNext]_pipelineVars => [Next]_vars
<1> SUFFICES ASSUME [PipelineNext]_pipelineVars PROVE [Next]_vars
  OBVIOUS
<1>1. ASSUME NEW r \in Requests, AppendOrder(r) PROVE Next
  BY <1>1 DEF AppendOrder, Next, Remote
<1>2. CASE CheckoutStep BY <1>2 DEF CheckoutStep, Next, Remote
<1>3. CASE AccountingStep BY <1>3 DEF AccountingStep
<1>4. CASE UNCHANGED pipelineVars BY <1>4 DEF pipelineVars
<1> QED BY <1>1, <1>2, <1>3, <1>4 DEF PipelineNext

LEMMA StepIsAccountingStep == [PipelineNext]_pipelineVars => [Acc!Next]_(Acc!vars)
<1> SUFFICES ASSUME [PipelineNext]_pipelineVars PROVE [Acc!Next]_(Acc!vars)
  OBVIOUS
<1> USE DEF Acc!vars, Acc!dbVars, Acc!history, accountingVars
<1>1. ASSUME NEW r \in Requests, AppendOrder(r) PROVE Acc!Next
  BY <1>1 DEF AppendOrder, Acc!Next
<1>2. CASE CheckoutStep BY <1>2 DEF CheckoutStep
<1>3. CASE AccountingStep BY <1>3 DEF AccountingStep, Acc!Next
<1>4. CASE UNCHANGED pipelineVars BY <1>4 DEF pipelineVars
<1> QED BY <1>1, <1>2, <1>3, <1>4 DEF PipelineNext

(* Joined to accounting, checkout still behaves as Checkout says, so that its
   theorems hold in the pipeline. *)
THEOREM PipelineKeepsCheckout == PipelineSpec => Spec
<1>1. PipelineInit => Init BY DEF PipelineInit
<1> QED BY <1>1, StepIsCheckoutStep, PTL DEF PipelineSpec, Spec

(* Joined to checkout, accounting still behaves as Accounting says: what
   checkout publishes, and how often, is within what Accounting allows. *)
THEOREM PipelineKeepsAccounting == PipelineSpec => Acc!Spec
<1>1. PipelineInit => Acc!Init BY DEF PipelineInit
<1> QED BY <1>1, StepIsAccountingStep, PTL DEF PipelineSpec, Acc!Spec

\* Accounting's invariants hold in the pipeline.
LEMMA PipelineBooks == PipelineSpec => [](Acc!TypeOK /\ Acc!StoredOrExcused)
<1>1. Acc!Spec => Books!Spec
  BY DEF Acc!Spec, Books!Spec, Acc!Init, Books!Init, Acc!Next, Books!Next, Acc!vars, Books!vars,
     Acc!dbVars, Books!dbVars, Acc!history, Books!history, Acc!Process, Books!Process,
     Acc!Consume, Books!Consume, Acc!SaveChanges, Books!SaveChanges, Acc!ProcessRaises,
     Books!ProcessRaises, Acc!TriggerValidation, Books!TriggerValidation, Acc!AutoCommit,
     Books!AutoCommit, Acc!Crash, Books!Crash, Acc!Publish, Books!Publish, Acc!HandleValidate,
     Books!HandleValidate, Acc!PostFails, Books!PostFails
<1>2. Books!Spec => []Books!TypeOK BY PipelineAssumption, Books!AccountingTypeCorrect
<1>3. Books!Spec => []Books!StoredOrExcused
  BY PipelineAssumption, Books!AccountingStoredOrExcused
<1>4. Books!TypeOK /\ Books!StoredOrExcused => Acc!TypeOK /\ Acc!StoredOrExcused
  BY DEF Acc!TypeOK, Books!TypeOK, Acc!StoredOrExcused, Books!StoredOrExcused
<1> QED BY <1>1, <1>2, <1>3, <1>4, PipelineKeepsAccounting, PTL

\* The topic holds the published orders, and the database some of them.
TopicAsPublished ==
    /\ \A i \in 1..Len(topic) : published[topic[i]] > 0
    /\ \A r \in Requests : published[r] > 0 => \E i \in 1..Len(topic) : topic[i] = r
    /\ \A r \in stored : published[r] > 0

LEMMA PipelineTopic == PipelineSpec => []TopicAsPublished
<1>1. PipelineInit => TopicAsPublished
  BY DEF PipelineInit, Init, CheckoutInit, Acc!Init, TopicAsPublished
<1>2. CheckoutInv /\ Acc!TypeOK /\ TopicAsPublished /\ [PipelineNext]_pipelineVars
        => TopicAsPublished'
  <2> SUFFICES ASSUME CheckoutInv, Acc!TypeOK, TopicAsPublished, [PipelineNext]_pipelineVars
               PROVE  TopicAsPublished'
    OBVIOUS
  <2>1. ASSUME NEW r \in Requests, AppendOrder(r) PROVE TopicAsPublished'
    <3>1. published \in [Requests -> Nat] /\ topic \in Seq(Requests) /\ stored \subseteq Requests
      BY CheckoutAssumption DEF CheckoutInv, CheckoutTypeOK, Acc!TypeOK
    <3>2. published' = [published EXCEPT ![r] = @ + 1] BY <2>1 DEF AppendOrder, BrokerAppends
    <3>3. /\ published'[r] > 0
          /\ \A q \in Requests : q # r => published'[q] = published[q]
          /\ \A q \in Requests : published[q] > 0 => published'[q] > 0
      BY <3>1, <3>2
    <3>4. topic' = Append(topic, r) /\ stored' = stored
      BY <2>1 DEF AppendOrder, Acc!Publish, Acc!dbVars
    <3>5. /\ Len(topic') = Len(topic) + 1 /\ Len(topic) \in Nat
          /\ topic'[Len(topic) + 1] = r
          /\ \A i \in 1..Len(topic) : topic'[i] = topic[i] /\ topic[i] \in Requests
      BY <3>1, <3>4
    <3>6. \A i \in 1..Len(topic') : published'[topic'[i]] > 0
      BY <3>3, <3>5 DEF TopicAsPublished
    <3>7. \A q \in Requests : published'[q] > 0 => \E i \in 1..Len(topic') : topic'[i] = q
      <4> SUFFICES ASSUME NEW q \in Requests, published'[q] > 0
                   PROVE  \E i \in 1..Len(topic') : topic'[i] = q
        OBVIOUS
      <4>1. CASE q = r BY <3>5, <4>1
      <4>2. CASE q # r BY <3>3, <3>5, <4>2 DEF TopicAsPublished
      <4> QED BY <4>1, <4>2
    <3>8. \A q \in stored' : published'[q] > 0 BY <3>1, <3>3, <3>4 DEF TopicAsPublished
    <3> QED BY <3>6, <3>7, <3>8 DEF TopicAsPublished
  <2>2. CASE CheckoutStep
    <3>1. UNCHANGED published
      BY <2>2 DEF CheckoutStep, Handle, PlaceOrder, GetCart, Prepare, PrepareFails, ChargeCard,
         ChargeCardFails, ShipOrder, ShipOrderFails, EmptyUserCart, EmptyUserCartReturns,
         SendOrderConfirmation, SendToPostProcessor, SendToPostProcessorReturns, PaymentCharges,
         ShippingShips, CartStep, checkoutVars, Crash, world
    <3> QED BY <2>2, <3>1 DEF CheckoutStep, accountingVars, TopicAsPublished
  <2>3. CASE AccountingStep
    <3>1. UNCHANGED <<topic, published>>
      BY <2>3 DEF AccountingStep, vars, checkoutVars, world, Acc!Process, Acc!Consume,
         Acc!SaveChanges, Acc!ProcessRaises, Acc!TriggerValidation, Acc!AutoCommit, Acc!Crash,
         Acc!HandleValidate, Acc!PostFails
    <3>2. stored' = stored \/ (consumerPc = "process" /\ stored' = stored \cup {topic[pos]})
      BY <2>3 DEF AccountingStep, Acc!Process, Acc!Consume, Acc!SaveChanges, Acc!ProcessRaises,
         Acc!TriggerValidation, Acc!AutoCommit, Acc!Crash, Acc!HandleValidate, Acc!PostFails,
         Acc!dbVars
    <3>3. consumerPc = "process" => pos \in 1..Len(topic) BY DEF Acc!TypeOK
    <3> QED BY <3>1, <3>2, <3>3 DEF TopicAsPublished
  <2>4. CASE UNCHANGED pipelineVars
    BY <2>4 DEF pipelineVars, vars, checkoutVars, world, accountingVars, TopicAsPublished
  <2> QED BY <2>1, <2>2, <2>3, <2>4 DEF PipelineNext
<1>3. PipelineSpec => []CheckoutInv BY PipelineKeepsCheckout, CheckoutInvariant, PTL
<1> QED BY <1>1, <1>2, <1>3, PipelineBooks, PTL DEF PipelineSpec

(* No abandoned order is in the books: for every number of orders, copies,
   redeliveries and crashes of either process, what accounting has stored was
   paid for and shipped, and its caller was not told of an error. *)
THEOREM PipelineBookedWasFulfilled == PipelineSpec => []BookedWasFulfilled
<1>1. CheckoutInv /\ Acc!TypeOK /\ TopicAsPublished => BookedWasFulfilled
  BY DEF CheckoutInv, ShippedInOrder, DeclinedEnded, Acc!TypeOK, TopicAsPublished,
     BookedWasFulfilled
<1>2. PipelineSpec => []CheckoutInv BY PipelineKeepsCheckout, CheckoutInvariant, PTL
<1> QED BY <1>1, <1>2, PipelineBooks, PipelineTopic, PTL

(* Every published order is in the books once accounting has consumed the
   topic, unless an exception was swallowed or a crash came between the commit
   of its offset and that of its row. *)
THEOREM PipelinePublishedIsBooked == PipelineSpec => []PublishedIsBooked
<1>1. Acc!TypeOK /\ Acc!StoredOrExcused /\ TopicAsPublished => PublishedIsBooked
  BY DEF Acc!TypeOK, Acc!StoredOrExcused, TopicAsPublished, PublishedIsBooked
<1> QED BY <1>1, PipelineBooks, PipelineTopic, PTL
=============================================================================
