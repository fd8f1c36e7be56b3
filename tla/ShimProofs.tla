----------------------------- MODULE ShimProofs -----------------------------
(* What the data centre shim guarantees for every number of purchases, every *)
(* assignment of SOUNDEX values and amounts and every number of audit rows.  *)
EXTENDS Shim, WellFoundedInduction, TLAPS

Statuses == {"gone", "INITIATED", "SUBMITTING_CLOUD", "VALIDATING", "COMPLETED", "FAILED"}
Row      == [status : Statuses, order : Transactions \cup {None}]
Buyer    == [soundex : Soundexes \cup {"none"}, amount : Amounts \cup {0}]
Phases   == {"new", "rejected", "inserted", "missed", "submitting", "committing",
             "accepted", "unsure", "error", "crashed"}

TypeOK ==
    /\ rows \subseteq Transactions
    /\ db \in [Transactions -> Row]
    /\ buyer \in [Transactions -> Buyer]
    /\ phase \in [Transactions -> Phases]
    /\ target \in [Transactions -> Transactions \cup {None}]
    /\ entity \in [Transactions -> Row]
    /\ confirmed \subseteq Transactions
    /\ broken \subseteq Transactions
    /\ audits \in 0..MaxAudits

\* The row of a purchase is there while the purchase is under way and the
\* database has not failed it, and only a commit leaves it there.
RowsByPhase ==
    /\ \A t \in Transactions : Locked(t) => t \in rows
    /\ \A t \in rows : Locked(t) \/ Committed(t)
    /\ \A t \in broken : phase[t] # "new"

\* What the entity of a purchase is, by how far the purchase has come.
EntityByPhase ==
    \A t \in Transactions :
        /\ target[t] # None => phase[target[t]] # "new"
        /\ phase[t] \in {"new", "rejected", "inserted", "missed", "submitting"} =>
              t \notin confirmed
        /\ phase[t] = "submitting" => target[t] # None
        /\ phase[t] = "committing" /\ target[t] # None =>
              entity[t].status \in {"COMPLETED", "FAILED"}
        /\ t \in confirmed /\ (phase[t] = "committing" \/ Committed(t)) =>
              entity[t] = [status |-> "COMPLETED", order |-> t]

\* A row names a cloud order only if the purchase of the order committed, and so
\* does an entity, unless the order is the purchase's own.
OrdersCommitted ==
    \A t \in Transactions :
        /\ db[t].order # None => Committed(db[t].order)
        /\ entity[t].order \notin {t, None} => Committed(entity[t].order)

ShimInv ==
    /\ TypeOK /\ RowsByPhase /\ EntityByPhase /\ OrdersCommitted
    /\ OpenRowsHaveCause /\ ConfirmedOrderIsFiled /\ ErrorHasCause

-----------------------------------------------------------------------------
(* The lookup.                                                              *)

\* A set of purchases that is not empty has a newest one: the least distance
\* to the last number there is.
LEMMA NewestExists ==
    ASSUME NEW S \in SUBSET Transactions, S # {} PROVE Max(S) \in S
<1> USE ShimAssumption DEF Transactions
<1> DEFINE less == OpToRel(<, Nat)
           T == {n \in 0 .. MaxPurchases : MaxPurchases - n \in S}
<1>1. T \subseteq Nat OBVIOUS
<1>2. T # {}
  <2>1. PICK x \in S : TRUE OBVIOUS
  <2>2. MaxPurchases - x \in T OBVIOUS
  <2> QED BY <2>2
<1>3. PICK n \in T : \A m \in T : ~(<<m, n>> \in less)
  <2> HIDE DEF less, T
  <2>1. IsWellFoundedOn(less, Nat) BY NatLessThanWellFounded, Zenon DEF less
  <2> QED BY <1>1, <1>2, <2>1, WFMin
<1>4. \A m \in T : ~(m < n) BY <1>1, <1>3 DEF OpToRel
<1>5. \A y \in S : MaxPurchases - n >= y
  <2> SUFFICES ASSUME NEW y \in S PROVE MaxPurchases - n >= y OBVIOUS
  <2>1. MaxPurchases - y \in T OBVIOUS
  <2>2. y \in Int /\ n \in Int OBVIOUS
  <2>3. ~(MaxPurchases - y < n) BY <1>4, <2>1
  <2> HIDE DEF T
  <2> QED BY <2>2, <2>3
<1>6. MaxPurchases - n \in S OBVIOUS
<1> QED BY <1>5, <1>6 DEF Max

\* findByTransactionId returns a row that is there, or none.
LEMMA FindsRow ==
    ASSUME TypeOK, NEW t \in Transactions
    PROVE  findByTransactionId(t) \in rows \cup {None}
<1>1. Candidates(t) \subseteq rows BY DEF Candidates
<1>2. Candidates(t) # {} => Max(Candidates(t)) \in Candidates(t)
  BY <1>1, NewestExists DEF TypeOK
<1> QED BY <1>1, <1>2 DEF findByTransactionId

-----------------------------------------------------------------------------
(* Every step keeps the invariant.                                          *)

\* What a step that commits nothing has to keep for the filed orders.
LEMMA FiledStays ==
    ASSUME ConfirmedOrderIsFiled,
           \A u \in Transactions : Committed(u) <=> Committed(u)',
           \A u \in Transactions : Committed(u) =>
               /\ target'[u] = target[u] /\ entity'[u] = entity[u]
               /\ u \in confirmed' => u \in confirmed
               /\ target[u] \in rows' =>
                     target[u] \in rows /\ db'[target[u]] = db[target[u]]
    PROVE  ConfirmedOrderIsFiled'
<1> SUFFICES ASSUME NEW u \in Transactions, Committed(u)', u \in confirmed', target'[u] \in rows'
             PROVE  \/ db'[target'[u]] = [status |-> "COMPLETED", order |-> u]
                    \/ \E v \in Transactions \ {u} : /\ Committed(v)'
                                                     /\ target'[v] = target'[u]
                                                     /\ db'[target'[u]] = entity'[v]
  BY DEF ConfirmedOrderIsFiled
<1>1. /\ Committed(u) /\ u \in confirmed /\ target[u] \in rows
      /\ target'[u] = target[u] /\ db'[target'[u]] = db[target[u]]
  OBVIOUS
<1>2. CASE db[target[u]] = [status |-> "COMPLETED", order |-> u] BY <1>1, <1>2
<1>3. CASE db[target[u]] # [status |-> "COMPLETED", order |-> u]
  <2>1. PICK v \in Transactions \ {u} : Committed(v) /\ target[v] = target[u]
                                        /\ db[target[u]] = entity[v]
    BY <1>1, <1>3 DEF ConfirmedOrderIsFiled
  <2>2. Committed(v)' /\ target'[v] = target[v] /\ entity'[v] = entity[v] BY <2>1
  <2> QED BY <1>1, <2>1, <2>2
<1> QED BY <1>2, <1>3

LEMMA InitiateKeepsInv ==
    ASSUME ShimInv, NEW t \in Transactions,
           \/ InitiateFails(t)
           \/ \E s \in Soundexes, a \in Amounts : initiateShopPurchase(t, s, a)
    PROVE  ShimInv'
<1> USE ShimAssumption DEF ShimInv, TypeOK, Row, Statuses, Phases, Active, Locked, Committed, IsNext
<1>0. None \notin Transactions BY DEF Transactions, None
<1>1. /\ phase[t] = "new" /\ phase' = [phase EXCEPT ![t] = phase'[t]]
      /\ phase'[t] \in {"inserted", "rejected"}
      /\ UNCHANGED <<target, entity, confirmed, broken, audits>>
  BY DEF initiateShopPurchase, InitiateFails
<1>2. \/ phase'[t] = "rejected" /\ UNCHANGED <<rows, db, buyer>>
      \/ /\ phase'[t] = "inserted" /\ rows' = rows \cup {t}
         /\ db' = [db EXCEPT ![t] = [status |-> "INITIATED", order |-> None]]
         /\ \E s \in Soundexes, a \in Amounts :
               buyer' = [buyer EXCEPT ![t] = [soundex |-> s, amount |-> a]]
  BY DEF initiateShopPurchase, InitiateFails
<1>3. TypeOK'
  <2>1. phase' \in [Transactions -> Phases] BY <1>1
  <2>2. /\ rows' \subseteq Transactions
        /\ db' \in [Transactions -> Row]
        /\ buyer' \in [Transactions -> Buyer]
    <3>1. CASE UNCHANGED <<rows, db, buyer>> BY <3>1
    <3>2. CASE phase'[t] = "inserted"
      <4>1. PICK s \in Soundexes, a \in Amounts :
               buyer' = [buyer EXCEPT ![t] = [soundex |-> s, amount |-> a]]
        BY <1>2, <3>2
      <4>2. [soundex |-> s, amount |-> a] \in Buyer BY DEF Buyer
      <4>3. buyer' \in [Transactions -> Buyer]
        BY <4>1, <4>2
      <4>4. rows' = rows \cup {t} BY <1>2, <3>2
      <4>5. db' = [db EXCEPT ![t] = [status |-> "INITIATED", order |-> None]] BY <1>2, <3>2
      <4>6. db' \in [Transactions -> Row] BY <4>5
      <4> QED BY <4>3, <4>4, <4>6
    <3> QED BY <1>2, <3>1, <3>2
  <2> QED BY <1>1, <2>1, <2>2
<1>4. RowsByPhase'
  <2>1. \A u \in Transactions : u # t => phase'[u] = phase[u] BY <1>1
  <2>2. t \notin rows BY <1>1 DEF RowsByPhase
  <2>3. Locked(t)' => t \in rows' BY <1>1, <1>2
  <2>4. t \in rows' => phase'[t] = "inserted" BY <1>2, <2>2
  <2>5. \A u \in Transactions : u # t => (u \in rows' <=> u \in rows) BY <1>2
  <2>6. t \notin broken BY <1>1 DEF RowsByPhase
  <2>7. \A u \in Transactions : u # t => /\ Locked(u)' <=> Locked(u)
                                         /\ Committed(u)' <=> Committed(u)
    BY <1>1, <2>1
  <2>8. t \in rows' => Locked(t)' BY <1>1, <2>4, <2>6
  <2>9. \A u \in broken' : phase'[u] # "new" BY <1>1 DEF RowsByPhase
  <2>10. rows' \subseteq Transactions BY <1>3
  <2> HIDE DEF ShimInv, TypeOK, Row, Statuses, Phases, Active, Locked, Committed, IsNext
  <2>11. RowsByPhase BY DEF ShimInv
  <2> QED BY <2>3, <2>5, <2>7, <2>8, <2>9, <2>10, <2>11 DEF RowsByPhase
<1>5. EntityByPhase' BY <1>1 DEF EntityByPhase
<1>6. OrdersCommitted' BY <1>1, <1>2 DEF OrdersCommitted
<1>7. OpenRowsHaveCause'
  <2>1. \A u \in Transactions : u # t => (Committed(u)' <=> Committed(u)) BY <1>1
  <2>2. ~Committed(t)' BY <1>1
  <2>3. \A u \in rows' : u # t => u \in rows /\ db'[u] = db[u] BY <1>2
  <2>4. t \in rows' => db'[t].status = "INITIATED"
    <3>1. t \notin rows BY <1>1 DEF RowsByPhase
    <3> QED BY <1>2, <3>1
  <2>5. OpenRowsHaveCause OBVIOUS
  <2>6. rows' \subseteq Transactions BY <1>3
  <2> HIDE DEF ShimInv, TypeOK, Row, Statuses, Phases, Active, Locked, Committed, IsNext
  <2> QED BY <1>1, <2>1, <2>2, <2>3, <2>4, <2>5, <2>6 DEF OpenRowsHaveCause
<1>8. ConfirmedOrderIsFiled'
  \* nobody has found the row of a purchase that is new
  <2>1. \A u \in Transactions : target[u] # t BY <1>0, <1>1 DEF EntityByPhase
  <2> QED BY <1>1, <1>2, <2>1, FiledStays
<1>9. ErrorHasCause'
  <2>1. \A u \in Transactions : phase'[u] = "error" => phase[u] = "error" /\ u # t BY <1>1
  <2>2. \A r \in rows' : db'[r].order = None \/ (r \in rows /\ db'[r] = db[r]) BY <1>2
  <2>3. \A u \in Transactions : u # t => (u \in rows' <=> u \in rows) BY <1>2
  <2> QED BY <1>0, <1>1, <2>1, <2>2, <2>3 DEF ErrorHasCause
<1> QED BY <1>3, <1>4, <1>5, <1>6, <1>7, <1>8, <1>9

\* The steps of a purchase up to its commit touch no row.
LEMMA ProcessKeepsInv ==
    ASSUME ShimInv, NEW t \in Transactions,
           Found(t) \/ Missed(t) \/ Catch(t) \/ Confirmed(t) \/ Refused(t)
    PROVE  ShimInv'
<1> USE DEF ShimInv, TypeOK, Row, Statuses, Phases, Active, Locked, Committed,
            submitToCloudCheckout
<1>0. None \notin Transactions BY DEF Transactions, None
<1>1. findByTransactionId(t) \in rows \cup {None} BY FindsRow
<1>2. /\ UNCHANGED <<rows, db, buyer, broken, audits>>
      /\ Active(t) /\ Active(t)' /\ phase'[t] # "inserted"
      /\ phase' = [phase EXCEPT ![t] = phase'[t]] /\ phase'[t] \in Phases
      /\ confirmed \subseteq confirmed' /\ confirmed' \subseteq confirmed \cup {t}
      /\ \A u \in Transactions : u # t => /\ target'[u] = target[u] /\ entity'[u] = entity[u]
                                           /\ phase'[u] = phase[u]
  BY DEF Found, Missed, Catch, Confirmed, Refused
<1>3. /\ target' \in [Transactions -> Transactions \cup {None}]
      /\ entity' \in [Transactions -> Row]
      /\ entity'[t].order \notin {t, None} => Committed(entity'[t].order)
  <2>1. CASE Found(t)
    <3>1. target' \in [Transactions -> Transactions \cup {None}] BY <1>1, <2>1 DEF Found
    <3> DEFINE r == findByTransactionId(t)
    <3>3. /\ r \in Transactions
          /\ entity' = [entity EXCEPT ![t] = [db[r] EXCEPT !.status = "SUBMITTING_CLOUD"]]
      BY <1>1, <2>1 DEF Found
    <3> HIDE DEF r
    <3>4. /\ [db[r] EXCEPT !.status = "SUBMITTING_CLOUD"] \in Row
          /\ [db[r] EXCEPT !.status = "SUBMITTING_CLOUD"].order = db[r].order
      BY <3>3
    <3>2. entity' \in [Transactions -> Row] /\ entity'[t].order = db[r].order BY <3>3, <3>4
    <3>5. db[r].order # None => Committed(db[r].order) BY <3>3 DEF OrdersCommitted
    <3> QED BY <2>1, <3>1, <3>2, <3>5 DEF Found
  <2>2. CASE Missed(t) BY <2>2 DEF Missed, OrdersCommitted
  <2>3. CASE Catch(t)
    <3>1. target' \in [Transactions -> Transactions \cup {None}] BY <1>1, <2>3 DEF Catch
    <3> DEFINE r == findByTransactionId(t)
    <3>2. /\ r \in Transactions \cup {None}
          /\ entity' = [entity EXCEPT ![t] = IF r = None THEN NoRow
                                             ELSE [db[r] EXCEPT !.status = "FAILED"]]
      BY <1>1, <2>3 DEF Catch
    <3> HIDE DEF r
    <3>3. CASE r = None BY <3>1, <3>2, <3>3 DEF NoRow
    <3>4. CASE r \in Transactions
      <4>1. /\ [db[r] EXCEPT !.status = "FAILED"] \in Row
            /\ [db[r] EXCEPT !.status = "FAILED"].order = db[r].order
        BY <3>4
      <4>2. entity' \in [Transactions -> Row] /\ entity'[t].order = db[r].order
        BY <1>0, <3>2, <3>4, <4>1
      <4>3. db[r].order # None => Committed(db[r].order) BY <3>4 DEF OrdersCommitted
      <4> QED BY <3>1, <4>2, <4>3
    <3> QED BY <3>2, <3>3, <3>4
  <2>4. CASE Confirmed(t) BY <2>4 DEF Confirmed
  <2>5. CASE Refused(t) BY <2>5 DEF Refused, OrdersCommitted
  <2> QED BY <2>1, <2>2, <2>3, <2>4, <2>5
<1>4. TypeOK' BY <1>2, <1>3
<1>5. RowsByPhase' BY <1>2 DEF RowsByPhase
<1>10. \A u \in Transactions : Committed(u) <=> Committed(u)' BY <1>2
<1>11. \A r \in Transactions : phase[r] # "new" => phase'[r] # "new" BY <1>2
<1>6. EntityByPhase'
  <2>1. \A r \in rows : phase[r] # "new" BY DEF RowsByPhase
  <2>3. target'[t] # None => phase[target'[t]] # "new"
    BY <1>1, <2>1 DEF Found, Missed, Catch, Confirmed, Refused, EntityByPhase
  <2>4. /\ phase'[t] \in {"new", "rejected", "inserted", "missed", "submitting"} =>
              t \notin confirmed'
        /\ phase'[t] = "submitting" => target'[t] # None
        /\ phase'[t] = "committing" /\ target'[t] # None =>
              entity'[t].status \in {"COMPLETED", "FAILED"}
        /\ t \in confirmed' /\ (phase'[t] = "committing" \/ Committed(t)') =>
              entity'[t] = [status |-> "COMPLETED", order |-> t]
    <3>1. CASE Found(t) BY <1>1, <3>1 DEF Found, EntityByPhase
    <3>2. CASE Missed(t) BY <3>2 DEF Missed, EntityByPhase
    <3>3. CASE Catch(t) BY <1>1, <3>3 DEF Catch, EntityByPhase
    <3>4. CASE Confirmed(t) BY <3>4 DEF Confirmed, EntityByPhase
    <3>5. CASE Refused(t) BY <3>5 DEF Refused, EntityByPhase
    <3> QED BY <3>1, <3>2, <3>3, <3>4, <3>5
  <2>5. \A u \in Transactions : target'[u] # None => phase'[target'[u]] # "new"
    <3> SUFFICES ASSUME NEW u \in Transactions, target'[u] # None
                 PROVE  phase'[target'[u]] # "new"
      OBVIOUS
    <3>1. target'[u] \in Transactions BY <1>3
    <3>2. phase[target'[u]] # "new"
      <4>1. CASE u = t BY <2>3, <4>1
      <4>2. CASE u # t
        <5>1. target'[u] = target[u] BY <1>2, <4>2
        <5> QED BY <5>1 DEF EntityByPhase
      <4> QED BY <4>1, <4>2
    <3> QED BY <1>11, <3>1, <3>2
  <2>6. \A u \in Transactions : u # t => (u \in confirmed' <=> u \in confirmed) BY <1>2
  <2> QED BY <1>2, <2>4, <2>5, <2>6 DEF EntityByPhase
<1>7. OrdersCommitted'
  <2> SUFFICES ASSUME NEW u \in Transactions
               PROVE  /\ db'[u].order # None => phase'[db'[u].order] \in {"accepted", "unsure"}
                      /\ entity'[u].order \notin {u, None} =>
                            phase'[entity'[u].order] \in {"accepted", "unsure"}
    BY DEF OrdersCommitted
  <2>1. db'[u] = db[u] /\ db[u].order \in Transactions \cup {None} BY <1>2
  <2>2. db'[u].order # None => phase'[db'[u].order] \in {"accepted", "unsure"}
    BY <1>10, <2>1 DEF OrdersCommitted
  <2>3. entity'[u].order \notin {u, None} => Committed(entity'[u].order)
    BY <1>2, <1>3 DEF OrdersCommitted
  <2>4. entity'[u].order \in Transactions \cup {None} BY <1>3
  <2> QED BY <1>10, <2>2, <2>3, <2>4
<1>8. OpenRowsHaveCause' BY <1>2 DEF OpenRowsHaveCause
<1>9. ConfirmedOrderIsFiled'
  <2>1. \A u \in Transactions : Committed(u) => u # t BY <1>2
  <2> QED BY <1>2, <1>10, <2>1, FiledStays
<1>12. ErrorHasCause' BY <1>2 DEF ErrorHasCause
<1> QED BY <1>4, <1>5, <1>6, <1>7, <1>8, <1>9, <1>12

\* A commit writes a row whose own purchase has committed, or its own.
LEMMA CommitKeepsInv ==
    ASSUME ShimInv, NEW t \in Transactions, Commit(t) \/ CommitUnanswered(t)
    PROVE  ShimInv'
<1> USE DEF ShimInv, TypeOK, Row, Statuses, Phases, Active, Locked, Committed
<1>0. None \notin Transactions BY DEF Transactions, None
<1>1. /\ phase[t] = "committing" /\ t \notin broken /\ ~Waits(t)
      /\ \/ target[t] = None /\ UNCHANGED db
         \/ target[t] \in rows /\ db' = [db EXCEPT ![target[t]] = entity[t]]
      /\ phase' = [phase EXCEPT ![t] = phase'[t]] /\ phase'[t] \in {"accepted", "unsure"}
      /\ broken' \subseteq broken \cup {t} /\ broken \subseteq broken'
      /\ UNCHANGED <<rows, buyer, target, entity, confirmed, audits>>
  BY DEF Commit, CommitUnanswered, Commits, Written
<1>2. TypeOK'
  <2>1. phase' \in [Transactions -> Phases] BY <1>1
  <2>2. db' \in [Transactions -> Row] BY <1>1
  <2> QED BY <1>1, <2>1, <2>2
<1>3. RowsByPhase' BY <1>1 DEF RowsByPhase
<1>4. EntityByPhase' BY <1>1 DEF EntityByPhase
<1>5. target[t] \in rows => target[t] = t \/ Committed(target[t])
  BY <1>0, <1>1 DEF Waits, RowsByPhase
<1>6. \A u \in Transactions : Committed(u)' <=> u = t \/ Committed(u) BY <1>1
<1>7. OrdersCommitted'
  <2> SUFFICES ASSUME NEW u \in Transactions
               PROVE  /\ db'[u].order # None => phase'[db'[u].order] \in {"accepted", "unsure"}
                      /\ entity'[u].order \notin {u, None} =>
                            phase'[entity'[u].order] \in {"accepted", "unsure"}
    BY DEF OrdersCommitted
  <2>1. entity'[u] = entity[u] /\ entity[u].order \in Transactions \cup {None} BY <1>1
  <2>2. entity'[u].order \notin {u, None} => phase'[entity'[u].order] \in {"accepted", "unsure"}
    BY <1>6, <2>1 DEF OrdersCommitted
  <2>3. db'[u] = db[u] \/ db'[u] = entity[t] BY <1>1
  <2>4. db[u].order # None => Committed(db[u].order) BY DEF OrdersCommitted
  <2>5. entity[t].order \in {t, None} \/ Committed(entity[t].order) BY DEF OrdersCommitted
  <2>6. db'[u].order \in Transactions \cup {None} BY <1>2
  <2> QED BY <1>6, <2>2, <2>3, <2>4, <2>5, <2>6
<1>8. OpenRowsHaveCause'
  BY <1>0, <1>1, <1>5 DEF OpenRowsHaveCause, EntityByPhase
<1>9. ConfirmedOrderIsFiled'
  BY <1>0, <1>1, <1>5 DEF ConfirmedOrderIsFiled, EntityByPhase
<1>10. ErrorHasCause'
  <2> SUFFICES ASSUME NEW u \in Transactions, phase'[u] = "error"
               PROVE  /\ u \in broken' \/ target'[u] \notin {u, None}
                      /\ u \notin rows'
                      /\ \A r \in rows' : db'[r].order # u
    BY DEF ErrorHasCause
  <2>1. phase[u] = "error" /\ u # t BY <1>1
  <2>2. ~Committed(u)' BY <1>1, <2>1
  <2>3. \A r \in rows' : db'[r].order # u BY <1>0, <1>2, <1>7, <2>2 DEF OrdersCommitted
  <2> QED BY <1>1, <2>1, <2>3 DEF ErrorHasCause
<1> QED BY <1>2, <1>3, <1>4, <1>7, <1>8, <1>9, <1>10

\* What a step does that takes the rows of S away: the purchases that held them
\* lose their locks, and some purchases leave their transactions.
Stays(u) ==
    /\ phase'[u] = phase[u] /\ target'[u] = target[u] /\ entity'[u] = entity[u]
    /\ u \in confirmed' <=> u \in confirmed

Leaves(u) ==
    /\ Active(u) /\ phase'[u] \in {"error", "crashed"}
    /\ target'[u] \in {target[u], None} /\ entity'[u] = NoRow

Releases(S) ==
    /\ Without(S)
    /\ phase' \in [Transactions -> Phases]
    /\ target' \in [Transactions -> Transactions \cup {None}]
    /\ entity' \in [Transactions -> Row]
    /\ confirmed' \subseteq confirmed /\ broken' \subseteq Transactions /\ audits' \in 0..MaxAudits
    /\ \A u \in broken' : phase[u] # "new"
    /\ \A u \in Transactions : Stays(u) \/ Leaves(u)
    /\ \A u \in Transactions : Locked(u)' <=> Locked(u) /\ u \notin S
    /\ \A u \in Transactions : phase'[u] = "error" => u \in broken' \/ target'[u] \notin {u, None}

LEMMA WithoutKeepsInv ==
    ASSUME ShimInv, NEW S \in SUBSET Transactions, Releases(S)
    PROVE  ShimInv'
<1> USE DEF ShimInv, TypeOK, Row, Statuses, Phases, Releases, Stays, Leaves
<1>0. None \notin Transactions BY DEF Transactions, None
<1>1. \A u \in Transactions : Committed(u) <=> Committed(u)' BY DEF Committed, Active
<1>2. /\ rows' = rows \ S
      /\ \A r \in rows' : db'[r] = db[r]
      /\ \A r \in Transactions : db'[r] \in {db[r], NoRow}
  BY DEF Without
<1>3. TypeOK' BY DEF Without, NoRow, NoBuyer, Buyer
<1>4. RowsByPhase'
  <2>1. \A u \in Transactions : Locked(u)' => u \in rows' BY <1>2 DEF RowsByPhase
  <2>2. \A u \in rows' : Locked(u)' \/ Committed(u)' BY <1>1, <1>2 DEF RowsByPhase
  <2>3. \A u \in broken' : phase'[u] # "new" OBVIOUS
  <2> QED BY <2>1, <2>2, <2>3 DEF RowsByPhase
<1>5. \A u \in Transactions : phase[u] # "new" => phase'[u] # "new" BY DEF Active
<1>6. EntityByPhase'
  <2>1. \A u \in Transactions : target'[u] # None => phase'[target'[u]] # "new"
    <3> SUFFICES ASSUME NEW u \in Transactions, target'[u] # None
                 PROVE  phase'[target'[u]] # "new"
      OBVIOUS
    <3>1. target'[u] = target[u] /\ target[u] \in Transactions OBVIOUS
    <3> QED BY <1>5, <3>1 DEF EntityByPhase
  <2> QED BY <2>1 DEF EntityByPhase, Committed
<1>7. OrdersCommitted'
  <2>1. \A u \in Transactions :
           /\ db'[u].order # None => db'[u].order = db[u].order
           /\ entity'[u].order # None => entity'[u].order = entity[u].order
    BY <1>2 DEF NoRow
  <2>2. \A u \in Transactions :
           /\ db[u].order \in Transactions \cup {None}
           /\ entity[u].order \in Transactions \cup {None}
    OBVIOUS
  <2>3. \A u \in Transactions : phase[u] \in {"accepted", "unsure"} =>
                                  phase'[u] \in {"accepted", "unsure"}
    BY <1>1 DEF Committed
  <2>4. OrdersCommitted OBVIOUS
  <2> HIDE DEF ShimInv, TypeOK, Row, Statuses, Phases
  <2> QED BY ONLY <2>1, <2>2, <2>3, <2>4 DEF OrdersCommitted, Committed
<1>11. \A u \in Transactions : Committed(u) => Stays(u) BY DEF Committed, Active
<1>8. OpenRowsHaveCause'
  <2>1. \A u \in Transactions : Committed(u) => target'[u] = target[u] BY <1>11
  <2> QED BY <1>1, <1>2, <2>1 DEF OpenRowsHaveCause
<1>9. ConfirmedOrderIsFiled'
  <2>1. \A u \in Transactions : Committed(u) =>
           /\ target'[u] = target[u] /\ entity'[u] = entity[u]
           /\ u \in confirmed' => u \in confirmed
           /\ target[u] \in rows' =>
                 target[u] \in rows /\ db'[target[u]] = db[target[u]]
    BY <1>2, <1>11
  <2> HIDE DEF ShimInv, TypeOK, Row, Statuses, Phases, Releases, Stays, Leaves
  <2>2. ConfirmedOrderIsFiled BY DEF ShimInv
  <2> QED BY <1>1, <2>1, <2>2, FiledStays
<1>10. ErrorHasCause'
  <2> SUFFICES ASSUME NEW u \in Transactions, phase'[u] = "error"
               PROVE  u \notin rows' /\ \A r \in rows' : db'[r].order # u
    BY DEF ErrorHasCause
  <2>1. ~Committed(u)' /\ ~Locked(u)' BY DEF Committed, Locked, Active
  <2>2. u \notin rows' BY <1>4, <2>1 DEF RowsByPhase
  <2>3. \A r \in rows' : db'[r].order # u BY <1>0, <1>2, <1>7, <2>1 DEF OrdersCommitted
  <2> QED BY <2>2, <2>3
<1> QED BY <1>3, <1>4, <1>6, <1>7, <1>8, <1>9, <1>10

\* A purchase that is rolled back had found another's row, or its database has
\* failed it.
LEMMA RollbackKeepsInv ==
    ASSUME ShimInv, NEW t \in Transactions,
           StaleRow(t) \/ DeadlockVictim(t) \/ LoseConnection(t) \/ DatabaseFails(t)
    PROVE  ShimInv'
<1> USE DEF ShimInv, TypeOK, Row, Statuses, Phases
<1>0. \A u \in Transactions : phase[u] = "error" => u \in broken \/ target[u] \notin {u, None}
  BY DEF ErrorHasCause
<1>4. \A u \in broken : phase[u] # "new" BY DEF RowsByPhase
<1>1. CASE StaleRow(t) \/ DeadlockVictim(t)
  <2>1. /\ phase[t] = "committing" /\ target[t] \notin {t, None} /\ Locked(t) /\ Active(t)
    BY <1>1 DEF StaleRow, DeadlockVictim, Waits, RowsByPhase, Locked, Active
  <2>2. /\ Without({t}) /\ Dropped(t) /\ UNCHANGED <<target, confirmed, broken, audits>>
    BY <1>1 DEF StaleRow, DeadlockVictim
  <2>3. /\ phase' \in [Transactions -> Phases] /\ entity' \in [Transactions -> Row]
        /\ phase'[t] = "error" /\ entity'[t] = NoRow
    BY <2>2 DEF Dropped, NoRow
  <2>4. \A u \in Transactions : u # t => Stays(u) BY <2>2 DEF Dropped, Stays
  <2>5. Leaves(t) BY <2>1, <2>2, <2>3 DEF Leaves
  <2>6. \A u \in Transactions : Locked(u)' <=> Locked(u) /\ u \notin {t}
    BY <2>2, <2>3, <2>4 DEF Stays, Locked, Active
  <2>7. \A u \in Transactions : phase'[u] = "error" => u \in broken' \/ target'[u] \notin {u, None}
    BY <1>0, <2>1, <2>2, <2>4 DEF Stays
  <2>8. Releases({t}) BY <1>4, <2>2, <2>3, <2>4, <2>5, <2>6, <2>7 DEF Releases
  <2> QED BY <2>8, WithoutKeepsInv
<1>2. CASE LoseConnection(t)
  <2>1. /\ Without({t}) /\ Locked(t) /\ broken' = broken \cup {t}
        /\ UNCHANGED <<phase, target, entity, confirmed, audits>>
    BY <1>2 DEF LoseConnection
  <2>2. \A u \in Transactions : Stays(u) BY <2>1 DEF Stays
  <2>3. \A u \in Transactions : Locked(u)' <=> Locked(u) /\ u \notin {t}
    BY <2>1 DEF Locked, Active
  <2>4. \A u \in broken' : phase[u] # "new" BY <1>4, <2>1 DEF Locked, Active
  <2>5. Releases({t}) BY <1>0, <2>1, <2>2, <2>3, <2>4 DEF Releases
  <2> QED BY <2>5, WithoutKeepsInv
<1>3. CASE DatabaseFails(t)
  <2>1. /\ phase[t] \in {"inserted", "missed", "committing"} /\ t \in broken /\ Dropped(t)
        /\ target' = [target EXCEPT ![t] = None] /\ confirmed' = confirmed \ {t}
        /\ UNCHANGED <<rows, db, buyer, broken, audits>>
    BY <1>3 DEF DatabaseFails
  <2>2. Without({}) BY <2>1 DEF Without
  <2>3. /\ phase' \in [Transactions -> Phases] /\ entity' \in [Transactions -> Row]
        /\ target' \in [Transactions -> Transactions \cup {None}]
        /\ phase'[t] = "error" /\ entity'[t] = NoRow /\ target'[t] = None
    BY <2>1 DEF Dropped, NoRow
  <2>4. \A u \in Transactions : u # t => Stays(u) BY <2>1 DEF Dropped, Stays
  <2>5. Leaves(t) BY <2>1, <2>3 DEF Leaves, Active
  <2>6. \A u \in Transactions : Locked(u)' <=> Locked(u) /\ u \notin {}
    BY <2>1, <2>3, <2>4 DEF Stays, Locked, Active
  <2>7. \A u \in Transactions : phase'[u] = "error" => u \in broken' \/ target'[u] \notin {u, None}
    BY <1>0, <2>1, <2>4 DEF Stays
  <2>8. Releases({}) BY <1>4, <2>1, <2>2, <2>3, <2>4, <2>5, <2>6, <2>7 DEF Releases
  <2> QED BY <2>8, WithoutKeepsInv
<1> QED BY <1>1, <1>2, <1>3

\* The recovery job finds no row to fail: none is ever seen to be validating
\* or submitting.
LEMMA RecoveryDoesNothing ==
    ASSUME ShimInv, processStaleTransactions
    PROVE  UNCHANGED vars
<1>1. \A r \in rows : db[r].status \notin {"SUBMITTING_CLOUD", "VALIDATING"}
  BY DEF ShimInv, OpenRowsHaveCause
<1>2. db' = [r \in Transactions |-> db[r]] BY <1>1 DEF processStaleTransactions
<1> QED BY <1>2 DEF processStaleTransactions, ShimInv, TypeOK, vars

\* Rows of purchases that have committed go away.
LEMMA CleanupKeepsInv ==
    ASSUME ShimInv, NEW n \in Transactions, cleanupOldTransactions(n)
    PROVE  ShimInv'
<1> USE DEF ShimInv, TypeOK
<1>1. /\ Without(Old(n)) /\ Old(n) \in SUBSET Transactions
      /\ \A r \in Old(n) : ~Locked(r)
      /\ UNCHANGED <<phase, target, entity, confirmed, broken>>
  BY DEF cleanupOldTransactions, Old
<1>2. audits' \in 0..MaxAudits BY ShimAssumption DEF cleanupOldTransactions
<1>3. \A u \in Transactions : Stays(u) BY <1>1 DEF Stays
<1>4. \A u \in Transactions : Locked(u)' <=> Locked(u) /\ u \notin Old(n)
  BY <1>1 DEF Locked, Active
<1>5. Releases(Old(n))
  BY <1>1, <1>2, <1>3, <1>4 DEF Releases, ErrorHasCause, RowsByPhase
<1> QED BY <1>1, <1>5, WithoutKeepsInv

LEMMA CrashKeepsInv ==
    ASSUME ShimInv, Crash PROVE ShimInv'
<1> USE DEF ShimInv, TypeOK, Row, Statuses, Phases
<1> DEFINE S == {u \in Transactions : Active(u)}
<1>1. /\ Without(S) /\ S \in SUBSET Transactions BY DEF Crash
<1>2. \A u \in Transactions : u \in S <=> Active(u) OBVIOUS
<1> HIDE DEF S
<1>3. \A u \in Transactions : ~Active(u) => Stays(u) BY DEF Crash, Stays
<1>4. \A u \in Transactions : Active(u) => Leaves(u) /\ phase'[u] = "crashed"
  BY DEF Crash, Leaves
<1>5. /\ phase' \in [Transactions -> Phases]
      /\ target' \in [Transactions -> Transactions \cup {None}]
      /\ entity' \in [Transactions -> Row]
      /\ confirmed' \subseteq confirmed /\ audits' \in 0..MaxAudits
      /\ broken' = {u \in broken : ~Active(u)}
  BY DEF Crash, NoRow
<1>6. \A u \in Transactions : ~Active(u)' BY <1>3, <1>4 DEF Stays, Active
<1>7. \A u \in Transactions : Locked(u)' <=> Locked(u) /\ u \notin S
  BY <1>2, <1>6 DEF Locked
<1>8. \A u \in Transactions : phase'[u] = "error" => u \in broken' \/ target'[u] \notin {u, None}
  BY <1>3, <1>4, <1>5 DEF Stays, ErrorHasCause
<1>9. Releases(S)
  BY <1>1, <1>3, <1>4, <1>5, <1>7, <1>8 DEF Releases, RowsByPhase
<1> QED BY <1>1, <1>9, WithoutKeepsInv

LEMMA AuditKeepsInv ==
    ASSUME ShimInv, syncComplianceAuditLog \/ cleanupOldAuditRecords \/ UNCHANGED vars
    PROVE  ShimInv'
<1>1. /\ UNCHANGED <<rows, db, buyer, phase, target, entity, confirmed, broken>>
      /\ audits' \in 0..MaxAudits
  BY ShimAssumption DEF syncComplianceAuditLog, cleanupOldAuditRecords, vars, ShimInv, TypeOK
<1> QED
  BY <1>1 DEF ShimInv, TypeOK, RowsByPhase, EntityByPhase, OrdersCommitted, OpenRowsHaveCause,
     ConfirmedOrderIsFiled, ErrorHasCause, Active, Locked, Committed

LEMMA ShimInvariant == Spec => []ShimInv
<1>1. Init => ShimInv
  BY ShimAssumption DEF Init, ShimInv, TypeOK, Row, Statuses, Phases, NoRow, NoBuyer, Buyer, None,
     RowsByPhase, EntityByPhase, OrdersCommitted, OpenRowsHaveCause, ConfirmedOrderIsFiled,
     ErrorHasCause, Active, Locked, Committed
<1>2. ShimInv /\ [Next]_vars => ShimInv'
  <2> SUFFICES ASSUME ShimInv, [Next]_vars PROVE ShimInv' OBVIOUS
  <2>1. CASE processStaleTransactions BY <2>1, RecoveryDoesNothing, AuditKeepsInv
  <2> QED
    BY <2>1, InitiateKeepsInv, ProcessKeepsInv, CommitKeepsInv, RollbackKeepsInv,
       CleanupKeepsInv, CrashKeepsInv, AuditKeepsInv DEF Next, Step
<1> QED BY <1>1, <1>2, PTL DEF Spec

(* The table and the purchases keep their types; in particular no status but
   the six is ever stored, and target is a purchase or none. *)
THEOREM ShimTypeCorrect == Spec => []TypeOK
<1>1. ShimInv => TypeOK BY DEF ShimInv
<1> QED BY <1>1, ShimInvariant, PTL

(* A reader of the table sees a purchase under way as INITIATED only; one that
   committed has its outcome unless findByTransactionId led it to another row
   or to none. *)
THEOREM ShimOpenRowsHaveCause == Spec => []OpenRowsHaveCause
<1>1. ShimInv => OpenRowsHaveCause BY DEF ShimInv
<1> QED BY <1>1, ShimInvariant, PTL

(* A cloud order whose purchase committed is filed in the row the purchase
   worked on, unless another purchase that committed has written that row as it
   had it in memory. *)
THEOREM ShimConfirmedOrderIsFiled == Spec => []ConfirmedOrderIsFiled
<1>1. ShimInv => ConfirmedOrderIsFiled BY DEF ShimInv
<1> QED BY <1>1, ShimInvariant, PTL

(* A purchase whose INSERT was in is rolled back, with a 500, only if the
   database has failed it or it worked on another's row: neither a lock nor a
   deleted row can do that to one on its own row.  What was rolled back has left
   no row, and no row names its cloud order. *)
THEOREM ShimErrorHasCause == Spec => []ErrorHasCause
<1>1. ShimInv => ErrorHasCause BY DEF ShimInv
<1> QED BY <1>1, ShimInvariant, PTL

(* processStaleTransactions, the recovery job, never changes anything: the
   states it looks for are held in memory and never written to the table, so
   no purchase that got stuck or died is ever recovered by it. *)
THEOREM ShimRecoveryNeverActs == Spec => [][~processStaleTransactions]_vars
<1>1. ShimInv /\ [Next]_vars => [~processStaleTransactions]_vars
  BY RecoveryDoesNothing
<1> QED BY <1>1, ShimInvariant, PTL DEF Spec
=============================================================================
