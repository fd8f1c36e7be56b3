----------------------------- MODULE Accounting -----------------------------
(***************************************************************************)
(* The accounting consumer (src/accounting/Consumer.cs) and the service it *)
(* tells of every order it has stored (src/order-ledger/OrderLedger.java). *)
(*                                                                         *)
(* StartListening consumes one message at a time.  ProcessMessage stores   *)
(* the order, its items and its shipping in one SaveChanges, a database    *)
(* transaction that a repeated order id fails, and then starts a task that *)
(* posts the order id to the ledger and ignores the outcome.  It catches   *)
(* and logs every exception, so a message is never tried again.  The       *)
(* offset is committed in the background once a message was handed out,    *)
(* whatever has become of it.                                              *)
(***************************************************************************)
EXTENDS Naturals, Sequences

CONSTANTS
    Orders,       \* order ids
    MaxMessages,  \* bound: messages on the orders topic
    MaxCrashes    \* bound: how often the process dies

ASSUME AccountingAssumption == MaxMessages \in Nat /\ MaxCrashes \in Nat

VARIABLES
    topic,      \* the orders topic (external): the order of each message
    pos,        \* messages consumed so far
    committed,  \* the committed offset of the group
    pc,         \* "consume", "process" or "trigger"
    stored,     \* orders in the database
    tasks,      \* orders whose post to the ledger is in progress
    lookups,    \* what the ledger found: <<order, result>>
    crashes,
    \* History, read by no action:
    fired,      \* how often the post was started, by order
    swallowed,  \* messages whose processing raised an exception
    forgotten   \* messages in process, and committed, when the process died

dbVars  == <<stored, tasks, lookups>>
history == <<fired, swallowed, forgotten>>
vars == <<topic, pos, committed, pc, dbVars, crashes, history>>

TypeOK ==
    /\ topic \in Seq(Orders) /\ Len(topic) <= MaxMessages
    /\ pos \in 0..Len(topic)
    /\ committed \in 0..pos
    /\ pc \in {"consume", "process", "trigger"}
    /\ pc # "consume" => pos > 0
    /\ stored \subseteq Orders
    /\ tasks \subseteq Orders
    /\ lookups \subseteq Orders \X {"found", "missing"}
    /\ crashes \in 0..MaxCrashes
    /\ fired \in [Orders -> Nat]
    /\ swallowed \subseteq 1..MaxMessages
    /\ forgotten \subseteq 1..MaxMessages

Init ==
    /\ topic = <<>>
    /\ pos = 0
    /\ committed = 0
    /\ pc = "consume"
    /\ stored = {}
    /\ tasks = {}
    /\ lookups = {}
    /\ crashes = 0
    /\ fired = [o \in Orders |-> 0]
    /\ swallowed = {}
    /\ forgotten = {}

-----------------------------------------------------------------------------
\* Checkout publishes an order; with kafkaQueueProblems, the same one again.
Publish(o) ==
    /\ Len(topic) < MaxMessages
    /\ topic' = Append(topic, o)
    /\ UNCHANGED <<pos, committed, pc, dbVars, crashes, history>>

\* _consumer.Consume() returns the next message.
Consume ==
    /\ pc = "consume"
    /\ pos < Len(topic)
    /\ pos' = pos + 1
    /\ pc' = "process"
    /\ UNCHANGED <<topic, committed, dbVars, crashes, history>>

\* Mutant: the insert is an upsert, so a repeated order is no error.
SaveChanges_Upserts ==
    /\ pc = "process"
    /\ stored' = stored \cup {topic[pos]}
    /\ pc' = "trigger"
    /\ UNCHANGED <<topic, pos, committed, tasks, lookups, crashes, history>>

\* Mutant: SaveChanges is left out before TriggerValidation.
SaveChanges_LeftOut ==
    /\ pc = "process"
    /\ pc' = "trigger"
    /\ UNCHANGED <<topic, pos, committed, stored, tasks, lookups, crashes, history>>

\* SaveChanges commits the order, its items and its shipping.
SaveChanges ==
    /\ pc = "process"
    /\ topic[pos] \notin stored
    /\ stored' = stored \cup {topic[pos]}
    /\ pc' = "trigger"
    /\ UNCHANGED <<topic, pos, committed, tasks, lookups, crashes, history>>

\* Mutant: the catch block does not end the message.
ProcessRaises_Retries ==
    /\ pc = "process"
    /\ stored' \in {stored, stored \cup {topic[pos]}}
    /\ swallowed' = swallowed \cup {pos}
    /\ UNCHANGED <<topic, pos, committed, pc, tasks, lookups, crashes, fired, forgotten>>

\* An exception: the message does not parse, the database cannot be reached,
\* the order id is there already, or the connection broke after the commit.
ProcessRaises ==
    /\ pc = "process"
    /\ stored' \in {stored, stored \cup {topic[pos]}}
    /\ swallowed' = swallowed \cup {pos}
    /\ pc' = "consume"
    /\ UNCHANGED <<topic, pos, committed, tasks, lookups, crashes, fired, forgotten>>

\* Mutant: the task starts before SaveChanges.
TriggerValidation_First ==
    /\ pc = "process"
    /\ tasks' = tasks \cup {topic[pos]}
    /\ fired' = [fired EXCEPT ![topic[pos]] = @ + 1]
    /\ UNCHANGED <<topic, pos, committed, pc, stored, lookups, crashes, swallowed, forgotten>>

\* TriggerValidation starts the task.  The address to post to is taken to be
\* configured; without one it returns at once, and no order is ever posted.
TriggerValidation ==
    /\ pc = "trigger"
    /\ pc' = "consume"
    /\ tasks' = tasks \cup {topic[pos]}
    /\ fired' = [fired EXCEPT ![topic[pos]] = @ + 1]
    /\ UNCHANGED <<topic, pos, committed, stored, lookups, crashes, swallowed, forgotten>>

\* The ledger gets the post and looks the order up in the database.
HandleValidate(o) ==
    /\ o \in tasks
    /\ lookups' = lookups \cup {<<o, IF o \in stored THEN "found" ELSE "missing">>}
    /\ tasks' = tasks \ {o}
    /\ UNCHANGED <<topic, pos, committed, pc, stored, crashes, history>>

\* The post, or the ledger's query, fails, and the error is ignored.
PostFails(o) ==
    /\ o \in tasks
    /\ tasks' = tasks \ {o}
    /\ UNCHANGED <<topic, pos, committed, pc, stored, lookups, crashes, history>>

\* EnableAutoCommit: whatever was handed out is committed.
AutoCommit ==
    /\ committed < pos
    /\ committed' = pos
    /\ UNCHANGED <<topic, pos, pc, dbVars, crashes, history>>

\* Mutant: a new process starts behind the message it had in hand.
Crash_SkipsMessage ==
    /\ crashes < MaxCrashes
    /\ crashes' = crashes + 1
    /\ pc' = "consume"
    /\ tasks' = {}
    /\ UNCHANGED <<topic, pos, committed, stored, lookups, history>>

\* The process dies, with its tasks unless their post is on its way; the
\* group resumes from the committed offset.
Crash ==
    /\ crashes < MaxCrashes
    /\ crashes' = crashes + 1
    /\ pos' = committed
    /\ pc' = "consume"
    /\ tasks' \in SUBSET tasks
    /\ forgotten' = IF pc = "process" /\ committed = pos
                    THEN forgotten \cup {pos} ELSE forgotten
    /\ UNCHANGED <<topic, committed, stored, lookups, fired, swallowed>>

Process == Consume \/ SaveChanges \/ ProcessRaises \/ TriggerValidation

Next ==
    \/ Process \/ AutoCommit \/ Crash
    \/ \E o \in Orders : Publish(o) \/ HandleValidate(o) \/ PostFails(o)

Spec     == Init /\ [][Next]_vars

\* The consumer's loop runs on; nothing is assumed of the database.
FairSpec == Spec /\ WF_vars(Process)

-----------------------------------------------------------------------------
(* A consumed message is in the database, or in process, or its exception
   was swallowed, or the process died with it after its offset was committed.
   Redelivery after a crash and repeated messages lose nothing else. *)
StoredOrExcused ==
    \A i \in 1..pos :
        \/ topic[i] \in stored
        \/ i \in swallowed \cup forgotten
        \/ i = pos /\ pc = "process"

(* The ledger never misses an order it is asked about: the task starts after
   the commit, however late the post arrives. *)
LedgerFindsOrder == \A o \in Orders : <<o, "missing">> \notin lookups

(* An order is posted to the ledger at most once, although its message can be
   repeated on the topic and redelivered after a crash. *)
FiredAtMostOnce == \A o \in Orders : fired[o] <= 1

(* No message blocks the ones behind it: every message is consumed, whatever
   the database does, once the process has stopped crashing. *)
EveryMessageConsumed == \A i \in 1..MaxMessages : Len(topic) >= i ~> pos >= i

\* What is promised of an order, in terms of the topic, the database and the posts.
Ledger == INSTANCE LedgerSpec WITH
    published <- {topic[i] : i \in 1..Len(topic)},
    asked <- fired,
    answers <- lookups

(* Accounting and the ledger keep the promise of LedgerSpec: published, stored,
   asked about and found, each once and in this order, although messages are
   repeated and redelivered and the process dies between any two steps. *)
KeepsLedgerSpec == Ledger!LedgerSpec
=============================================================================
