-------------------------------- MODULE Shim --------------------------------
(***************************************************************************)
(* The data centre shim: a store's purchase becomes a row of               *)
(* shop_transactions and an order at the cloud checkout.                   *)
(*                                                                         *)
(* initiateShopPurchase calls processTransactionAsync on this, past        *)
(* Spring's proxy, so neither @Async nor the inner @Transactional applies: *)
(* the whole purchase runs on the request's thread in one database         *)
(* transaction.  The INSERT is flushed at once and locks its row until the *)
(* end; the changes that follow are made to an entity in memory, and       *)
(* Hibernate writes the entity as it stands then, all columns, when the    *)
(* transaction commits.                                                    *)
(*                                                                         *)
(* findByTransactionId reads without locks.  It accepts every row whose    *)
(* SOUNDEX is that of the id, which ids that begin with a digit all share, *)
(* demands an amount of at least the store's average, and takes the newest *)
(* row.  So the entity a purchase works on may be another purchase's row,  *)
(* or there may be none.                                                   *)
(*                                                                         *)
(* Any exception is a 500 (ShopController.processPurchase).  The database  *)
(* can fail a purchase at every statement: its connection is lost, or a    *)
(* SELECT, which marks the transaction rollback-only, the UPDATE or the    *)
(* commit fails.  All of these are LoseConnection, after which the         *)
(* purchase cannot commit and does not know it yet.                        *)
(*                                                                         *)
(* The rows are those of one store; created_at and the INSERT are one      *)
(* step.  SQL Server and Hibernate are modelled from how the shim uses     *)
(* them.                                                                   *)
(***************************************************************************)
EXTENDS Integers, FiniteSets, FiniteSetsExt

CONSTANTS
    MaxPurchases,   \* bound: the purchases, numbered in the order of created_at
    Soundexes,      \* the values of SOUNDEX(transaction_id)
    Amounts,        \* the totals, in cents
    MaxAudits,      \* bound: the audit rows of the store at any time
    MaxFailures     \* bound: the purchases the database fails

ASSUME ShimAssumption ==
    /\ MaxPurchases \in Nat
    /\ Amounts \subseteq Nat \ {0, 1}   \* more than an audit row
    /\ MaxAudits \in Nat
    /\ MaxFailures \in Nat

Transactions == 1 .. MaxPurchases
None == 0

VARIABLES
    rows,      \* the purchases' rows there are for a reader without locks
    db,        \* [Transactions -> the status and the cloud order of the row]
    buyer,     \* [Transactions -> the id's SOUNDEX and the amount]
    phase,     \* [Transactions -> how far the purchase is]
    target,    \* [Transactions -> the row it found and works on, or None]
    entity,    \* [Transactions -> that row as it stands in memory]
    confirmed, \* the purchases whose order the checkout confirmed
    broken,    \* the purchases the database has failed
    audits     \* the number of audit rows

vars == <<rows, db, buyer, phase, target, entity, confirmed, broken, audits>>

NoRow == [status |-> "gone", order |-> None]
NoBuyer == [soundex |-> "none", amount |-> 0]

Active(t) == phase[t] \in {"inserted", "missed", "submitting", "committing"}

\* The INSERT of the purchase holds its row's lock.
Locked(t) == Active(t) /\ t \notin broken

\* The answer was 202, or a 500 because the commit's own answer was lost.
Committed(t) == phase[t] \in {"accepted", "unsure"}
Ended(t) == Committed(t) \/ phase[t] \in {"error", "crashed"}

Init ==
    /\ rows = {}
    /\ db = [t \in Transactions |-> NoRow]
    /\ buyer = [t \in Transactions |-> NoBuyer]
    /\ phase = [t \in Transactions |-> "new"]
    /\ target = [t \in Transactions |-> None]
    /\ entity = [t \in Transactions |-> NoRow]
    /\ confirmed = {}
    /\ broken = {}
    /\ audits = 0

-----------------------------------------------------------------------------
(* One purchase.                                                           *)

IsNext(t) == phase[t] = "new" /\ \A u \in 1 .. (t - 1) : phase[u] # "new"

initiateShopPurchase(t, soundex, amount) ==
    /\ IsNext(t)
    /\ rows' = rows \cup {t}
    /\ db' = [db EXCEPT ![t] = [status |-> "INITIATED", order |-> None]]
    /\ buyer' = [buyer EXCEPT ![t] = [soundex |-> soundex, amount |-> amount]]
    /\ phase' = [phase EXCEPT ![t] = "inserted"]
    /\ UNCHANGED <<target, entity, confirmed, broken, audits>>

\* Something throws before the INSERT is in: no connection, no serialization,
\* the INSERT itself.
InitiateFails(t) ==
    /\ IsNext(t)
    /\ phase' = [phase EXCEPT ![t] = "rejected"]
    /\ UNCHANGED <<rows, db, buyer, target, entity, confirmed, broken, audits>>

\* The store's total, audit rows at 0.01 included, and the number of its rows.
StoreTotal == audits + MapThenSumSet(LAMBDA r : buyer[r].amount, rows)
StoreCount == audits + Cardinality(rows)

AtLeastAverage(r) == buyer[r].amount * StoreCount >= StoreTotal

Candidates(t) == {r \in rows : buyer[r].soundex = buyer[t].soundex /\ AtLeastAverage(r)}

\* The newest candidate.  An audit row's amount is below every average.
findByTransactionId(t) == IF Candidates(t) = {} THEN None ELSE Max(Candidates(t))

\* The saves are flushed.  (Mutant of Found.)
Found_Flushed(t) ==
    /\ phase[t] = "inserted"
    /\ t \notin broken
    /\ findByTransactionId(t) # None
    /\ LET r == findByTransactionId(t) IN
        /\ target' = [target EXCEPT ![t] = r]
        /\ entity' = [entity EXCEPT ![t] = [db[r] EXCEPT !.status = "SUBMITTING_CLOUD"]]
        /\ db' = [db EXCEPT ![r].status = "SUBMITTING_CLOUD"]
    /\ phase' = [phase EXCEPT ![t] = "submitting"]
    /\ UNCHANGED <<rows, buyer, confirmed, broken, audits>>

\* processTransactionAsync up to the cloud call: the entity goes through
\* VALIDATING to SUBMITTING_CLOUD, and neither save writes it.
Found(t) ==
    /\ phase[t] = "inserted"
    /\ t \notin broken
    /\ findByTransactionId(t) # None
    /\ LET r == findByTransactionId(t) IN
        /\ target' = [target EXCEPT ![t] = r]
        /\ entity' = [entity EXCEPT ![t] = [db[r] EXCEPT !.status = "SUBMITTING_CLOUD"]]
    /\ phase' = [phase EXCEPT ![t] = "submitting"]
    /\ UNCHANGED <<rows, db, buyer, confirmed, broken, audits>>

\* orElseThrow: the catch looks the id up again.
Missed(t) ==
    /\ phase[t] = "inserted"
    /\ t \notin broken
    /\ findByTransactionId(t) = None
    /\ phase' = [phase EXCEPT ![t] = "missed"]
    /\ UNCHANGED <<rows, db, buyer, target, entity, confirmed, broken, audits>>

\* The catch: FAILED goes to the row that is found now, if one is.
Catch(t) ==
    /\ phase[t] = "missed"
    /\ t \notin broken
    /\ LET r == findByTransactionId(t) IN
        /\ target' = [target EXCEPT ![t] = r]
        /\ entity' = [entity EXCEPT ![t] = IF r = None THEN NoRow
                                           ELSE [db[r] EXCEPT !.status = "FAILED"]]
    /\ phase' = [phase EXCEPT ![t] = "committing"]
    /\ UNCHANGED <<rows, db, buyer, confirmed, broken, audits>>

\* The call to the checkout ends.  It has no deadline, and takes no notice of
\* the database.
submitToCloudCheckout(t, success) ==
    /\ phase[t] = "submitting"
    /\ confirmed' = IF success THEN confirmed \cup {t} ELSE confirmed
    /\ phase' = [phase EXCEPT ![t] = "committing"]

\* It returned an order: its id is filed in the entity.
Confirmed(t) ==
    /\ submitToCloudCheckout(t, TRUE)
    /\ entity' = [entity EXCEPT ![t] = [status |-> "COMPLETED", order |-> t]]
    /\ UNCHANGED <<rows, db, buyer, target, broken, audits>>

\* It caught an exception: nothing was ordered, or the answer was lost.  The
\* entity keeps the cloud order it was read with.
Refused(t) ==
    /\ submitToCloudCheckout(t, FALSE)
    /\ entity' = [entity EXCEPT ![t].status = "FAILED"]
    /\ UNCHANGED <<rows, db, buyer, target, broken, audits>>

-----------------------------------------------------------------------------
(* The end of the database transaction.                                    *)

\* The UPDATE waits for the lock of the purchase that inserted the row.
Waits(t) ==
    /\ phase[t] = "committing"
    /\ t \notin broken
    /\ target[t] \notin {t, None}
    /\ Locked(target[t])

\* Only the status is written.  (Mutant of Written.)
Written_StatusOnly(t) == [db EXCEPT ![target[t]].status = entity[t].status]

\* What the UPDATE makes of the rows: all columns, as the entity has them.
Written(t) == [db EXCEPT ![target[t]] = entity[t]]

\* The server commits, and the controller answers.
Commits(t, answer) ==
    /\ phase[t] = "committing"
    /\ t \notin broken
    /\ ~Waits(t)
    /\ \/ target[t] = None /\ UNCHANGED db
       \/ target[t] \in rows /\ db' = Written(t)
    /\ phase' = [phase EXCEPT ![t] = answer]
    /\ UNCHANGED <<rows, buyer, target, entity, confirmed, audits>>

\* 202.
Commit(t) == Commits(t, "accepted") /\ UNCHANGED broken

\* The server's answer to the commit is lost, and the controller's is a 500.
CommitUnanswered(t) ==
    /\ Cardinality(broken) < MaxFailures
    /\ Commits(t, "unsure")
    /\ broken' = broken \cup {t}

\* What remains of the rows once those of S are gone.
Without(S) ==
    /\ rows' = rows \ S
    /\ db' = [r \in Transactions |-> IF r \in S THEN NoRow ELSE db[r]]
    /\ buyer' = [r \in Transactions |-> IF r \in S THEN NoBuyer ELSE buyer[r]]

\* The controller answers 500; the entity goes with its session.
Dropped(t) ==
    /\ phase' = [phase EXCEPT ![t] = "error"]
    /\ entity' = [entity EXCEPT ![t] = NoRow]

\* Nobody counts the updated rows, and the purchase hangs.  (Mutant of StaleRow.)
StaleRow_Unnoticed(t) == FALSE /\ UNCHANGED vars

\* The row has gone: Hibernate counts no updated row and throws, and the
\* controller answers 500.
StaleRow(t) ==
    /\ phase[t] = "committing"
    /\ t \notin broken
    /\ ~Waits(t)
    /\ target[t] \notin rows \cup {None}
    /\ Without({t})
    /\ Dropped(t)
    /\ UNCHANGED <<target, confirmed, broken, audits>>

\* Purchases that wait in a circle: the server rolls one back, which gets a 500.
DeadlockVictim(t) ==
    /\ \E S \in SUBSET {u \in Transactions : Waits(u)} :
          t \in S /\ {target[u] : u \in S} = S
    /\ Without({t})
    /\ Dropped(t)
    /\ UNCHANGED <<target, confirmed, broken, audits>>

\* The database fails the purchase: its server rolls back and frees the row.
LoseConnection(t) ==
    /\ Locked(t)
    /\ Cardinality(broken) < MaxFailures
    /\ Without({t})
    /\ broken' = broken \cup {t}
    /\ UNCHANGED <<phase, target, entity, confirmed, audits>>

\* The next use of the connection throws, and the controller answers 500.  In
\* processTransactionAsync that is a lookup: the catch looks up again, and
\* what that does cannot be committed either.
DatabaseFails(t) ==
    /\ phase[t] \in {"inserted", "missed", "committing"}
    /\ t \in broken
    /\ Dropped(t)
    /\ target' = [target EXCEPT ![t] = None]
    /\ confirmed' = confirmed \ {t}
    /\ UNCHANGED <<rows, db, buyer, broken, audits>>

-----------------------------------------------------------------------------
(* The scheduled jobs and restarts.                                        *)

processStaleTransactions ==
    LET stale == {r \in rows : db[r].status \in {"SUBMITTING_CLOUD", "VALIDATING"}} IN
    /\ \A r \in stale : ~Locked(r)
    /\ db' = [r \in Transactions |->
                IF r \in stale THEN [db[r] EXCEPT !.status = "FAILED"] ELSE db[r]]
    /\ UNCHANGED <<rows, buyer, phase, target, entity, confirmed, broken, audits>>

\* Each audit row is saved by a thread and in a transaction of its own.
syncComplianceAuditLog ==
    /\ audits < MaxAudits
    /\ audits' = audits + 1
    /\ UNCHANGED <<rows, db, buyer, phase, target, entity, confirmed, broken>>

cleanupOldAuditRecords ==
    /\ audits > 0
    /\ audits' \in 0 .. (audits - 1)
    /\ UNCHANGED <<rows, db, buyer, phase, target, entity, confirmed, broken>>

\* The rows up to the nth purchase's; the DELETE waits for those that are locked.
Old(n) == {r \in rows : r <= n}

\* The DELETE does not wait.  (Mutant of cleanupOldTransactions.)
cleanupOldTransactions_PastLocks(n) ==
    /\ Old(n) # {}
    /\ Without(Old(n))
    /\ audits' \in 0 .. audits
    /\ UNCHANGED <<phase, target, entity, confirmed, broken>>

cleanupOldTransactions(n) ==
    /\ Old(n) # {}
    /\ \A r \in Old(n) : ~Locked(r)
    /\ Without(Old(n))
    /\ audits' \in 0 .. audits
    /\ UNCHANGED <<phase, target, entity, confirmed, broken>>

\* The process ends: the server rolls its transactions back, and whether the
\* cloud has an order of theirs nobody knows any more.
Crash ==
    /\ \E t \in Transactions : Active(t)
    /\ Without({t \in Transactions : Active(t)})
    /\ phase' = [t \in Transactions |-> IF Active(t) THEN "crashed" ELSE phase[t]]
    /\ target' = [t \in Transactions |-> IF Active(t) THEN None ELSE target[t]]
    /\ entity' = [t \in Transactions |-> IF Active(t) THEN NoRow ELSE entity[t]]
    /\ confirmed' = {t \in confirmed : ~Active(t)}
    /\ broken' = {t \in broken : ~Active(t)}
    /\ UNCHANGED audits

-----------------------------------------------------------------------------
\* What the purchase and its database do, the cloud call left out.
Step(t) ==
    \/ Found(t) \/ Missed(t) \/ Catch(t) \/ Commit(t) \/ StaleRow(t) \/ DeadlockVictim(t)
    \/ DatabaseFails(t)

Next ==
    \/ \E t \in Transactions, s \in Soundexes, a \in Amounts : initiateShopPurchase(t, s, a)
    \/ \E t \in Transactions :
          \/ InitiateFails(t)
          \/ Step(t)
          \/ Confirmed(t) \/ Refused(t)
          \/ CommitUnanswered(t) \/ LoseConnection(t)
    \/ processStaleTransactions
    \/ syncComplianceAuditLog \/ cleanupOldAuditRecords
    \/ \E n \in Transactions : cleanupOldTransactions(n)
    \/ Crash

\* The request's thread goes on, and the server grants locks and detects
\* deadlocks.  Nothing is assumed of the cloud call, which has no deadline.
Spec == Init /\ [][Next]_vars /\ \A t \in Transactions : WF_vars(Step(t))

-----------------------------------------------------------------------------
(* Properties.                                                             *)

\* What the table shows of a purchase, to a reader without locks as well: a
\* purchase under way is INITIATED and nothing else, so that the recovery job
\* never has a row to fail, whatever got stuck or crashed; one that committed
\* has its outcome, unless findByTransactionId led it to another row or to
\* none.  Such a row stays INITIATED, and no job ever changes it.
OpenRowsHaveCause ==
    \A t \in rows :
        /\ ~Committed(t) => db[t].status = "INITIATED"
        /\ Committed(t) =>
              \/ db[t].status \in {"COMPLETED", "FAILED"}
              \/ db[t].status = "INITIATED" /\ target[t] # t

\* The cloud order of a purchase that committed is in the row it worked on,
\* unless another purchase that committed has written that row: then the row
\* is what that one had in memory, perhaps from before.
ConfirmedOrderIsFiled ==
    \A t \in Transactions :
        Committed(t) /\ t \in confirmed /\ target[t] \in rows =>
            \/ db[target[t]] = [status |-> "COMPLETED", order |-> t]
            \/ \E u \in Transactions \ {t} : /\ Committed(u)
                                             /\ target[u] = target[t]
                                             /\ db[target[t]] = entity[u]

\* What is behind a 500 once the INSERT was in, and what it leaves.  Unless the
\* database failed it, a purchase that works on its own row is never rolled
\* back: it waits for nobody, and nobody deletes its row; the lookup must have
\* found another's.  A purchase that was rolled back has left no row, and no
\* row names the order the cloud may have of it.
ErrorHasCause ==
    \A t \in Transactions :
        phase[t] = "error" =>
            /\ t \in broken \/ target[t] \notin {t, None}
            /\ t \notin rows
            /\ \A r \in rows : db[r].order # t

\* Purchase t is u, or waits for the row of u, or for that of one that does.
HeldUpBy(t, u) ==
    \A S \in SUBSET Transactions :
        t \in S /\ (\A w \in S : Waits(w) => target[w] \in S) => u \in S

\* Every purchase is answered, or dies with the process, however the purchases
\* wait for each other's rows and whatever the database does to them; only a
\* cloud call that never ends can keep it, its own or that of a purchase it is
\* held up by.
EveryPurchaseEnds ==
    \A t \in Transactions :
        (\A u \in Transactions : []<>~(phase[u] = "submitting" /\ HeldUpBy(t, u)))
            => (Active(t) ~> Ended(t))
=============================================================================
