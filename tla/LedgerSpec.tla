----------------------------- MODULE LedgerSpec ----------------------------
(***************************************************************************)
(* What accounting and the ledger promise of an order, without saying how: *)
(* an order that was published is stored once, a stored order is asked     *)
(* about once, and the ledger, if it is asked, finds it.  No step is taken *)
(* back or repeated.  Any step may also never come: an order may be lost   *)
(* before it is stored, and the question or its answer on its way.         *)
(***************************************************************************)
EXTENDS Naturals

CONSTANTS Orders
VARIABLES
    published,   \* orders on the topic
    stored,      \* orders in the database
    asked,       \* how often the ledger was asked, by order
    answers      \* what it found: <<order, result>>

ledgerVars == <<published, stored, asked, answers>>

LedgerInit ==
    /\ published = {}
    /\ stored = {}
    /\ asked = [o \in Orders |-> 0]
    /\ answers = {}

PublishOrder(o) ==
    /\ o \notin published
    /\ published' = published \cup {o}
    /\ UNCHANGED <<stored, asked, answers>>

Store(o) ==
    /\ o \in published \ stored
    /\ stored' = stored \cup {o}
    /\ UNCHANGED <<published, asked, answers>>

Ask(o) ==
    /\ o \in stored
    /\ asked[o] = 0
    /\ asked' = [asked EXCEPT ![o] = 1]
    /\ UNCHANGED <<published, stored, answers>>

Find(o) ==
    /\ asked[o] = 1
    /\ \A a \in answers : a[1] # o
    /\ answers' = answers \cup {<<o, "found">>}
    /\ UNCHANGED <<published, stored, asked>>

LedgerNext == \E o \in Orders : PublishOrder(o) \/ Store(o) \/ Ask(o) \/ Find(o)

LedgerSpec == LedgerInit /\ [][LedgerNext]_ledgerVars
=============================================================================
