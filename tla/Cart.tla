-------------------------------- MODULE Cart --------------------------------
(***************************************************************************)
(* The cart service (src/cart): CartService.cs over ValkeyCartStore.cs.    *)
(*                                                                         *)
(* Every user has one Valkey hash key.  AddItem reads the whole cart,      *)
(* merges one item into its copy, writes the copy back and renews the      *)
(* key's time to live; these are three awaits, and nothing locks the key   *)
(* between them.  EmptyCart writes an empty cart and renews the time to    *)
(* live.  Any await may throw, which ends the call with                    *)
(* FailedPrecondition and leaves behind whatever it has already written.   *)
(*                                                                         *)
(* A cart is the set of AddItem calls whose quantity it holds: the line of *)
(* a product is the calls in the set that named that product, so adding a  *)
(* new line and increasing an existing one are both the union with the     *)
(* call.                                                                   *)
(***************************************************************************)
EXTENDS Naturals, FiniteSets

CONSTANTS
    Users,      \* user ids, the keys of the Valkey store
    Adds,       \* AddItem calls
    Empties,    \* EmptyCart calls
    UserOf      \* the user each call is for

ASSUME CallsAssumption ==
    /\ UserOf \in [Adds \cup Empties -> Users]
    /\ Adds \cap Empties = {}

VARIABLES
    cart,       \* the stored cart of each user ({} when the key is absent)
    exists,     \* users whose key is present
    ttl,        \* users whose key carries a time to live
    addPc,      \* where each AddItem call stands
    snap,       \* the cart an AddItem call has read
    emptyPc,    \* where each EmptyCart call stands
    \* History, read by no action:
    written,    \* AddItem calls whose write reached the store
    landed,     \* EmptyCart calls whose write reached the store
    emptiedBy,  \* the EmptyCart calls that found each AddItem call in the cart
    expired,    \* AddItem calls that were in a cart when its key expired
    raced       \* AddItem calls overtaken by another write after their read

cartVars == <<cart, exists, ttl, addPc, snap, emptyPc,
              written, landed, emptiedBy, expired, raced>>

\* AddItem calls that some EmptyCart took out of the cart.
emptied == {a \in Adds : emptiedBy[a] # {}}

AddStates   == {"idle", "write", "expire", "ok", "failed"}
EmptyStates == {"none", "write", "expire", "ok", "failed"}

CartTypeOK ==
    /\ cart \in [Users -> SUBSET Adds]
    /\ exists \subseteq Users
    /\ ttl \subseteq exists
    /\ addPc \in [Adds -> AddStates]
    /\ snap \in [Adds -> SUBSET Adds]
    /\ emptyPc \in [Empties -> EmptyStates]
    /\ written \subseteq Adds
    /\ landed \subseteq Empties
    /\ emptiedBy \in [Adds -> SUBSET Empties]
    /\ expired \subseteq Adds
    /\ raced \subseteq Adds

CartInit ==
    /\ cart = [u \in Users |-> {}]
    /\ exists = {}
    /\ ttl = {}
    /\ addPc = [a \in Adds |-> "idle"]
    /\ snap = [a \in Adds |-> {}]
    /\ emptyPc = [e \in Empties |-> "none"]
    /\ written = {}
    /\ landed = {}
    /\ emptiedBy = [a \in Adds |-> {}]
    /\ expired = {}
    /\ raced = {}

-----------------------------------------------------------------------------
(* The Valkey commands.  HSET creates the key without a time to live and   *)
(* keeps the one an existing key has; EXPIRE gives a present key one.      *)

HashSet(u, value) ==
    /\ cart' = [cart EXCEPT ![u] = value]
    /\ exists' = exists \cup {u}
    /\ UNCHANGED ttl

KeyExpire(u) ==
    /\ ttl' = IF u \in exists THEN ttl \cup {u} ELSE ttl
    /\ UNCHANGED <<cart, exists>>

\* AddItem calls of user u that have read the cart and not yet written it.
Pending(u) == {a \in Adds : UserOf[a] = u /\ addPc[a] = "write"}

\* What GetCartAsync returns: an absent key reads as an empty cart.
GetCartAsync(u) == cart[u]

\* Mutant: the item replaces the cart it should join.
MergeItem_Replaces(items, a) == {a}

\* AddItemAsync's merge: the call's quantity joins the line of its product.
MergeItem(items, a) == items \cup {a}

\* await HashGetAsync
AddRead(a) ==
    /\ addPc[a] = "idle"
    /\ snap' = [snap EXCEPT ![a] = GetCartAsync(UserOf[a])]
    /\ addPc' = [addPc EXCEPT ![a] = "write"]
    /\ UNCHANGED <<cart, exists, ttl, emptyPc, written, landed, emptiedBy, expired, raced>>

\* await HashSetAsync of the merged copy
AddWrite(a) ==
    /\ addPc[a] = "write"
    /\ HashSet(UserOf[a], MergeItem(snap[a], a))
    /\ addPc' = [addPc EXCEPT ![a] = "expire"]
    /\ written' = written \cup {a}
    /\ raced' = raced \cup (Pending(UserOf[a]) \ {a})
    /\ UNCHANGED <<snap, emptyPc, landed, emptiedBy, expired>>

\* Mutant: the time to live is forgotten.
AddExpire_Forgotten(a) ==
    /\ addPc[a] = "expire"
    /\ addPc' = [addPc EXCEPT ![a] = "ok"]
    /\ UNCHANGED <<cart, exists, ttl, snap, emptyPc, written, landed, emptiedBy, expired, raced>>

\* await KeyExpireAsync, then the reply
AddExpire(a) ==
    /\ addPc[a] = "expire"
    /\ KeyExpire(UserOf[a])
    /\ addPc' = [addPc EXCEPT ![a] = "ok"]
    /\ UNCHANGED <<snap, emptyPc, written, landed, emptiedBy, expired, raced>>

\* An await throws (or the service dies): RpcException FailedPrecondition.
AddFail(a) ==
    /\ addPc[a] \in {"idle", "write", "expire"}
    /\ addPc' = [addPc EXCEPT ![a] = "failed"]
    /\ UNCHANGED <<cart, exists, ttl, snap, emptyPc, written, landed, emptiedBy, expired, raced>>

\* An EmptyCart request reaches the service.
EmptyCall(e) ==
    /\ emptyPc[e] = "none"
    /\ emptyPc' = [emptyPc EXCEPT ![e] = "write"]
    /\ UNCHANGED <<cart, exists, ttl, addPc, snap, written, landed, emptiedBy, expired, raced>>

\* Mutant: the empty cart is written back with what it held.
EmptyWrite_KeepsItems(e) ==
    /\ emptyPc[e] = "write"
    /\ HashSet(UserOf[e], cart[UserOf[e]])
    /\ emptyPc' = [emptyPc EXCEPT ![e] = "expire"]
    /\ landed' = landed \cup {e}
    /\ raced' = raced \cup Pending(UserOf[e])
    /\ UNCHANGED <<addPc, snap, written, emptiedBy, expired>>

\* EmptyCartAsync: await HashSetAsync of the empty cart
EmptyWrite(e) ==
    /\ emptyPc[e] = "write"
    /\ HashSet(UserOf[e], {})
    /\ emptyPc' = [emptyPc EXCEPT ![e] = "expire"]
    /\ landed' = landed \cup {e}
    /\ emptiedBy' = [a \in Adds |-> IF a \in cart[UserOf[e]] THEN emptiedBy[a] \cup {e}
                                                            ELSE emptiedBy[a]]
    /\ raced' = raced \cup Pending(UserOf[e])
    /\ UNCHANGED <<addPc, snap, written, expired>>

EmptyExpire(e) ==
    /\ emptyPc[e] = "expire"
    /\ KeyExpire(UserOf[e])
    /\ emptyPc' = [emptyPc EXCEPT ![e] = "ok"]
    /\ UNCHANGED <<addPc, snap, written, landed, emptiedBy, expired, raced>>

\* An await throws, or the cartFailure flag sends the call to the store at a
\* bad address, which fails before it writes.
EmptyFail(e) ==
    /\ emptyPc[e] \in {"write", "expire"}
    /\ emptyPc' = [emptyPc EXCEPT ![e] = "failed"]
    /\ UNCHANGED <<cart, exists, ttl, addPc, snap, written, landed, emptiedBy, expired, raced>>

\* Sixty minutes without a write: Valkey drops the key.
KeyExpires(u) ==
    /\ u \in ttl
    /\ cart' = [cart EXCEPT ![u] = {}]
    /\ exists' = exists \ {u}
    /\ ttl' = ttl \ {u}
    /\ expired' = expired \cup cart[u]
    /\ raced' = raced \cup Pending(u)
    /\ UNCHANGED <<addPc, snap, emptyPc, written, landed, emptiedBy>>

AddNext(a)   == AddRead(a) \/ AddWrite(a) \/ AddExpire(a) \/ AddFail(a)
EmptyNext(e) == EmptyWrite(e) \/ EmptyExpire(e) \/ EmptyFail(e)

CartNext ==
    \/ \E a \in Adds : AddNext(a)
    \/ \E e \in Empties : EmptyCall(e) \/ EmptyNext(e)
    \/ \E u \in Users : KeyExpires(u)

CartSpec == CartInit /\ [][CartNext]_cartVars

-----------------------------------------------------------------------------
\* User u has had no AddItem whose write went over a write it had not read.
Unraced(u) == \A a \in raced \cap written : UserOf[a] # u

(* As long as no AddItem of a user wrote back a copy that another write had
   overtaken, the stored cart is exactly what was added and neither emptied
   nor expired: AddItemAsync loses nothing and brings nothing back unless
   its unlocked read-modify-write is actually overtaken. *)
ExactUnlessRaced ==
    \A u \in Users : Unraced(u) =>
        cart[u] = {a \in written : UserOf[a] = u} \ (emptied \cup expired)

(* A cart that would stay in Valkey for ever has a cause: a writer that is
   between HashSetAsync and KeyExpireAsync, or that threw between them. *)
UnexpiringCartHasCause ==
    \A u \in exists \ ttl :
        \/ \E a \in written : UserOf[a] = u /\ addPc[a] \in {"expire", "failed"}
        \/ \E e \in landed : UserOf[e] = u /\ emptyPc[e] \in {"expire", "failed"}
=============================================================================
