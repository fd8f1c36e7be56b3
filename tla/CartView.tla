------------------------------ MODULE CartView ------------------------------
(***************************************************************************)
(* What the shop's pages show of the cart, against the cart itself.  The   *)
(* CartProvider keeps one react-query entry per currency, which GET        *)
(* /api/cart fills; adding an item, emptying the cart and placing an order *)
(* are mutations that invalidate the entries when they succeed.  The API   *)
(* routes make several calls to the services, each of which may fail after *)
(* the ones before it took effect.                                         *)
(*                                                                         *)
(* The model has the entry of the selected currency only; a switch takes   *)
(* the page to another entry, in any state an earlier visit of the page    *)
(* can have left it in.  The cart is the set of its products.  Other tabs  *)
(* and devices of the same user change it too.  react-query and the        *)
(* services are modelled from how the frontend uses them.                  *)
(***************************************************************************)
EXTENDS Integers, FiniteSets

CONSTANTS
    Products,
    MaxMutations   \* bound: the mutations that are under way at once

ASSUME CartViewAssumption ==
    /\ IsFiniteSet(Products)
    /\ "no data" \notin Products   \* no cart is taken for NoData
    /\ MaxMutations \in Nat

NoData == {"no data"}
Unused == "unused"
Mutations == 1 .. MaxMutations

VARIABLES
    cart,        \* the cart at the cart service
    data,        \* the entry's cart, as last fetched, or NoData
    fetch,       \* the entry's fetch: idle, sent, or the cart it has read
    mutation,    \* [Mutations -> the request, what the server did, what the page knows]
    caused       \* history: the page may show another cart than there is

viewVars == <<cart, data, fetch, mutation, caused>>

-----------------------------------------------------------------------------
(* The cart's query.                                                       *)

Idle == [state |-> "idle", snap |-> NoData]
Sent == [state |-> "sent", snap |-> NoData]
Read(snap) == [state |-> "read", snap |-> snap]

\* useQuery's data = { items: [] }: what CartDetail, CartIcon and the cart page show.
View == IF data = NoData THEN {} ELSE data

\* An observer that mounts or a window that gets the focus fetches, unless a
\* fetch is under way, which it joins.
Joined == IF fetch = Idle THEN Sent ELSE fetch

\* invalidateQueries refetches the entry that is shown.  A fetch under way is
\* cancelled and repeated if the entry has data, and joined if it has none.
Invalidated == IF data = NoData THEN Joined ELSE Sent

-----------------------------------------------------------------------------
Request == [kind |-> Unused, item |-> NoData, server |-> Unused, client |-> Unused,
            shown |-> NoData, ordered |-> Unused, excused |-> FALSE]

\* A mutation over which both sides are through is forgotten.
Forget(muts) ==
    [m \in Mutations |->
        IF /\ muts[m].client \in {"resolved", "error", "rejected"}
           /\ muts[m].server \in {"ok", "error", "failed", "lost"}
        THEN Request ELSE muts[m]]

ViewInit ==
    /\ cart \in {{}, Products}
    /\ data = NoData
    /\ fetch = Sent
    /\ mutation = [m \in Mutations |-> Request]
    /\ caused = FALSE

\* setSelectedCurrency: the other currency's entry is new, or has the data of
\* an earlier visit, or joins a fetch of an earlier visit that is still under
\* way and may have read the cart long ago.
SelectCurrency ==
    /\ data' \in {NoData} \cup SUBSET Products
    /\ \/ fetch' = Sent /\ UNCHANGED caused
       \/ \E snap \in SUBSET Products : fetch' = Read(snap) /\ caused' = TRUE
    /\ UNCHANGED <<cart, mutation>>

\* refetchOnWindowFocus
Focus ==
    /\ fetch' = Joined
    /\ UNCHANGED <<cart, data, mutation, caused>>

\* GET /api/cart: CartGateway.getCart, and then a getProduct for every item.
ReadCart ==
    /\ fetch.state = "sent"
    /\ fetch' = Read(cart)
    /\ UNCHANGED <<cart, data, mutation, caused>>

\* m's server still works and its page does not wait for it any more.
Unwatched(m) ==
    /\ mutation[m].server \in {"sent", "reading"}
    /\ mutation[m].client = "rejected"

Arrive ==
    /\ fetch.state = "read"
    /\ data' = fetch.snap
    /\ fetch' = Idle
    /\ caused' = (caused /\ (fetch.snap # cart \/ \E m \in Mutations : Unwatched(m)))
    /\ UNCHANGED <<cart, mutation>>

\* The request fails, getCart or a getProduct throws, or the body of the error
\* page is not JSON.  react-query retries, and after three retries the old
\* data stays.
FetchFails ==
    /\ fetch # Idle
    /\ \/ fetch' = Sent /\ UNCHANGED caused
       \/ fetch' = Idle /\ caused' = TRUE
    /\ UNCHANGED <<cart, data, mutation>>

-----------------------------------------------------------------------------
(* The mutations, in the page.                                             *)

Working(m) == mutation[m].server \in {"sent", "reading", "applied"}
Waiting(m) == mutation[m].client = "waiting"

\* Orders that have not read the cart yet may find another one than was shown.
Excuse(muts) ==
    [m \in Mutations |->
        IF muts[m].kind = "order" /\ muts[m].server = "sent"
        THEN [muts[m] EXCEPT !.excused = TRUE] ELSE muts[m]]

\* The first number that is free.
Free(m) == mutation[m] = Request /\ \A n \in 1 .. m - 1 : mutation[n] # Request

Start(m, kind, item) ==
    /\ Free(m)
    /\ mutation' = [Excuse(mutation) EXCEPT
                      ![m] = [@ EXCEPT !.kind = kind, !.item = item, !.server = "sent",
                                       !.client = "waiting"]]
    /\ UNCHANGED <<cart, data, fetch, caused>>

addItem(m, p) == Start(m, "add", {p})

\* The button is on the cart page, next to the items.
emptyCart(m) == View # {} /\ Start(m, "empty", {})

\* onPlaceOrder, from the form that CartDetail shows beside the items.
placeOrder(m) ==
    /\ View # {}
    /\ Free(m)
    /\ mutation' = [Excuse(mutation) EXCEPT
                      ![m] = [@ EXCEPT !.kind = "order", !.server = "sent",
                                       !.client = "waiting", !.shown = View,
                                       !.excused = \/ caused
                                                   \/ fetch # Idle
                                                   \/ \E n \in Mutations :
                                                         Working(n) \/ Waiting(n)]]
    /\ UNCHANGED <<cart, data, fetch, caused>>

\* addItem without mutationOptions.  (Mutant of Invalidates.)
Invalidates_NotAdd(kind) == kind # "add"

\* emptyCart without mutationOptions.  (Mutant of Invalidates.)
Invalidates_NotEmpty(kind) == kind # "empty"

\* mutationOptions are those of all three mutations.
Invalidates(kind) == kind \in {"add", "empty", "order"}

\* The answer arrives as JSON, an { error } of checkout too: onSuccess runs.
Resolve(m) ==
    /\ Waiting(m)
    /\ mutation[m].server \in {"ok", "error"}
    /\ mutation' = Forget([mutation EXCEPT
                      ![m].client = IF mutation[m].server = "ok" THEN "resolved" ELSE "error"])
    /\ IF Invalidates(mutation[m].kind)
       THEN /\ fetch' = Invalidated
            /\ caused' = (caused \/ (data = NoData /\ fetch.state = "read"))
       ELSE UNCHANGED <<fetch, caused>>
    /\ UNCHANGED <<cart, data>>

\* m has changed the cart, or may have.
TookEffect(m) ==
    \/ mutation[m].server \in {"applied", "ok", "lost"}
    \/ mutation[m].server = "error" /\ mutation[m].ordered # Unused

\* The answer is the text of an error page, which JSON.parse refuses, or the
\* request is lost on its way: the promise rejects and nothing is invalidated.
Reject(m) ==
    /\ Waiting(m)
    /\ mutation' = Forget([mutation EXCEPT ![m].client = "rejected"])
    /\ caused' = (caused \/ TookEffect(m))
    /\ UNCHANGED <<cart, data, fetch>>

-----------------------------------------------------------------------------
(* The mutations, in the API routes and the services.                      *)

\* The cart becomes c by a step of m's server.
Effect(m, c, server) ==
    /\ cart' = c
    /\ mutation' = Forget([mutation EXCEPT ![m].server = server])
    /\ caused' = (caused \/ mutation[m].client = "rejected")
    /\ UNCHANGED <<data, fetch>>

NoEffect(m, server) ==
    /\ mutation' = Forget([mutation EXCEPT ![m].server = server])
    /\ UNCHANGED <<cart, data, fetch, caused>>

\* POST /api/cart: AddItem and then GetCart; DELETE /api/cart: EmptyCart.  An
\* error of the call may come after its effect.
ChangeCart(m) ==
    /\ mutation[m].server = "sent"
    /\ LET changed == IF mutation[m].kind = "add" THEN cart \cup mutation[m].item ELSE {} IN
       \/ mutation[m].kind = "add" /\ Effect(m, changed, "applied")
       \/ mutation[m].kind = "empty" /\ Effect(m, changed, "ok")
       \/ mutation[m].kind \in {"add", "empty"} /\ Effect(m, changed, "lost")
       \/ mutation[m].kind \in {"add", "empty"} /\ NoEffect(m, "failed")

\* POST /api/checkout: checkout reads the cart; an empty one is an { error }.
CheckoutReads(m) ==
    /\ mutation[m].kind = "order"
    /\ mutation[m].server = "sent"
    /\ mutation' = Forget([mutation EXCEPT ![m] = [@ EXCEPT
                      !.server = IF cart = {} THEN "error" ELSE "reading",
                      !.shown = NoData,
                      !.ordered = CASE cart = {} -> Unused
                                    [] cart # {} /\ cart = mutation[m].shown -> "as shown"
                                    [] OTHER -> "other"]])
    /\ UNCHANGED <<cart, data, fetch, caused>>

\* Checkout refuses the order, or places it and empties the cart, unless that
\* fails; the answer of an order that was placed may be lost, and is then an
\* { error } as well.
CheckoutEnds(m) ==
    /\ mutation[m].server = "reading"
    /\ \/ NoEffect(m, "error")
       \/ \E c \in {cart, {}} : Effect(m, c, "applied") \/ Effect(m, c, "error")

\* The rest of the route: GetCart, or a getProduct for every item of the order.
Complete(m) ==
    /\ mutation[m].server = "applied"
    /\ NoEffect(m, "ok") \/ NoEffect(m, "lost")

\* Another tab or device of the user changes the cart.
OtherTab ==
    /\ \E c \in {{}} \cup {cart \cup {p} : p \in Products} : c # cart /\ cart' = c
    /\ caused' = TRUE
    /\ mutation' = Excuse(mutation)
    /\ UNCHANGED <<data, fetch>>

-----------------------------------------------------------------------------
ViewNext ==
    \/ SelectCurrency \/ Focus \/ ReadCart \/ Arrive \/ FetchFails
    \/ \E m \in Mutations :
          \/ emptyCart(m) \/ placeOrder(m) \/ \E p \in Products : addItem(m, p)
          \/ ChangeCart(m) \/ CheckoutReads(m) \/ CheckoutEnds(m) \/ Complete(m)
          \/ Resolve(m) \/ Reject(m)
    \/ OtherTab

ViewSpec == ViewInit /\ [][ViewNext]_viewVars

-----------------------------------------------------------------------------
(* Properties.                                                             *)

\* Nothing is under way that could still change the cart or what is shown.
Quiet ==
    /\ fetch = Idle
    /\ \A m \in Mutations : ~Working(m) /\ ~Waiting(m)

\* Whatever the order of mutations, answers, refetches and currency switches,
\* a quiet page shows the cart there is, unless: another tab changed it, a
\* mutation took effect and its promise rejected, the last fetch gave up, an
\* entry without data joined a fetch that had read the cart before the change,
\* or the currency selected last joined, with data or without, a fetch of its
\* earlier visit.
StaleViewHasCause == Quiet /\ View # cart => caused

\* Checkout orders what its own GetCart returns, not what the page sends.  It
\* is what CartDetail showed when the shopper submitted the form, unless the
\* page was not quiet or not current then, or the cart changed before checkout
\* read it.
OrderedAsShown ==
    \A m \in Mutations :
        ~mutation[m].excused => mutation[m].ordered \in {Unused, "as shown"}
=============================================================================
