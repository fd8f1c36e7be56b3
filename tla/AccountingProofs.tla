-------------------------- MODULE AccountingProofs --------------------------
(* What accounting stores, loses and posts to the ledger, for any orders,   *)
(* any length of the topic and any number of crashes.                       *)
EXTENDS Accounting, TLAPS

LEMMA AppendKeeps ==
    ASSUME NEW seq \in Seq(Orders), NEW o \in Orders
    PROVE  /\ Append(seq, o) \in Seq(Orders)
           /\ Len(Append(seq, o)) = Len(seq) + 1
           /\ \A i \in 1..Len(seq) : Append(seq, o)[i] = seq[i]
OBVIOUS

\* The message in hand is on the topic.
LEMMA InHand ==
    ASSUME TypeOK, pc # "consume"
    PROVE  pos \in 1..Len(topic) /\ topic[pos] \in Orders
BY DEF TypeOK

(* The variables keep their types; in particular the committed offset never
   passes the position, nor the position the end of the topic. *)
THEOREM AccountingTypeCorrect == Spec => []TypeOK
<1> USE AccountingAssumption
<1>1. Init => TypeOK
  <2> SUFFICES ASSUME Init PROVE TypeOK OBVIOUS
  <2>1. topic \in Seq(Orders) /\ Len(topic) <= MaxMessages BY DEF Init
  <2>2. pos \in 0..Len(topic) /\ committed \in 0..pos BY DEF Init
  <2>3. fired \in [Orders -> Nat] BY DEF Init
  <2> QED BY <2>1, <2>2, <2>3 DEF Init, TypeOK
<1>2. TypeOK /\ [Next]_vars => TypeOK'
  <2> SUFFICES ASSUME TypeOK, [Next]_vars PROVE TypeOK' OBVIOUS
  <2>1. ASSUME NEW o \in Orders, Publish(o) PROVE TypeOK'
    <3>1. topic' \in Seq(Orders) /\ Len(topic') = Len(topic) + 1
      BY <2>1, AppendKeeps DEF Publish, TypeOK
    <3>2. Len(topic') <= MaxMessages /\ pos' \in 0..Len(topic')
      BY <2>1, <3>1 DEF Publish, TypeOK
    <3> QED BY <2>1, <3>1, <3>2 DEF Publish, TypeOK, dbVars, history
  <2>2. ASSUME Consume PROVE TypeOK'
    BY <2>2 DEF Consume, TypeOK, dbVars, history
  <2>3. ASSUME SaveChanges PROVE TypeOK'
    BY <2>3, InHand DEF SaveChanges, TypeOK, history
  <2>4. ASSUME ProcessRaises PROVE TypeOK'
    <3>1. pos \in 1..MaxMessages /\ topic[pos] \in Orders
      BY <2>4, InHand DEF ProcessRaises, TypeOK
    <3> QED BY <2>4, <3>1 DEF ProcessRaises, TypeOK
  <2>5. ASSUME TriggerValidation PROVE TypeOK'
    <3>1. topic[pos] \in Orders BY <2>5, InHand DEF TriggerValidation
    <3>2. fired' \in [Orders -> Nat]
      <4>1. fired[topic[pos]] + 1 \in Nat BY <3>1 DEF TypeOK
      <4> QED BY <2>5, <3>1, <4>1 DEF TriggerValidation, TypeOK
    <3>3. tasks' \subseteq Orders BY <2>5, <3>1 DEF TriggerValidation, TypeOK
    <3> QED BY <2>5, <3>2, <3>3 DEF TriggerValidation, TypeOK
  <2>6. ASSUME NEW o \in Orders, HandleValidate(o) PROVE TypeOK'
    BY <2>6 DEF HandleValidate, TypeOK, history
  <2>7. ASSUME NEW o \in Orders, PostFails(o) PROVE TypeOK'
    BY <2>7 DEF PostFails, TypeOK, history
  <2>8. ASSUME AutoCommit PROVE TypeOK'
    BY <2>8 DEF AutoCommit, TypeOK, dbVars, history
  <2>9. ASSUME Crash PROVE TypeOK'
    <3>1. forgotten' \subseteq 1..MaxMessages BY <2>9 DEF Crash, TypeOK
    <3>2. crashes' \in 0..MaxCrashes BY <2>9 DEF Crash, TypeOK
    <3>3. pos' \in 0..Len(topic') /\ committed' \in 0..pos' BY <2>9 DEF Crash, TypeOK
    <3> QED BY <2>9, <3>1, <3>2, <3>3 DEF Crash, TypeOK
  <2>10. CASE UNCHANGED vars
    BY <2>10 DEF vars, TypeOK, dbVars, history
  <2> QED
    BY <2>1, <2>2, <2>3, <2>4, <2>5, <2>6, <2>7, <2>8, <2>9, <2>10 DEF Next, Process
<1> QED BY <1>1, <1>2, PTL DEF Spec

(* A consumed message is stored, in process, swallowed with an exception, or
   died with the process after its offset was committed. *)
THEOREM AccountingStoredOrExcused == Spec => []StoredOrExcused
<1> USE AccountingAssumption DEF StoredOrExcused
<1>1. Init => StoredOrExcused BY DEF Init
<1>2. TypeOK /\ StoredOrExcused /\ [Next]_vars => StoredOrExcused'
  <2> SUFFICES ASSUME TypeOK, StoredOrExcused, [Next]_vars PROVE StoredOrExcused'
    OBVIOUS
  <2>1. ASSUME NEW o \in Orders, Publish(o) PROVE StoredOrExcused'
    <3>1. \A i \in 1..pos : topic'[i] = topic[i]
      BY <2>1, AppendKeeps DEF Publish, TypeOK
    <3> QED BY <2>1, <3>1 DEF Publish, dbVars, history
  <2>2. ASSUME Consume PROVE StoredOrExcused'
    BY <2>2 DEF Consume, TypeOK, dbVars, history
  <2>3. ASSUME SaveChanges PROVE StoredOrExcused'
    BY <2>3 DEF SaveChanges, TypeOK, history
  <2>4. ASSUME ProcessRaises PROVE StoredOrExcused'
    BY <2>4 DEF ProcessRaises, TypeOK
  <2>5. ASSUME TriggerValidation PROVE StoredOrExcused'
    BY <2>5 DEF TriggerValidation, TypeOK
  <2>6. ASSUME NEW o \in Orders, HandleValidate(o) PROVE StoredOrExcused'
    BY <2>6 DEF HandleValidate, TypeOK, history
  <2>7. ASSUME NEW o \in Orders, PostFails(o) PROVE StoredOrExcused'
    BY <2>7 DEF PostFails, TypeOK, history
  <2>8. ASSUME AutoCommit PROVE StoredOrExcused'
    BY <2>8 DEF AutoCommit, TypeOK, dbVars, history
  <2>9. ASSUME Crash PROVE StoredOrExcused'
    BY <2>9 DEF Crash, TypeOK
  <2>10. CASE UNCHANGED vars
    BY <2>10 DEF vars, TypeOK, dbVars, history
  <2> QED
    BY <2>1, <2>2, <2>3, <2>4, <2>5, <2>6, <2>7, <2>8, <2>9, <2>10 DEF Next, Process
<1> QED BY <1>1, <1>2, AccountingTypeCorrect, PTL DEF Spec

\* Only a stored order is posted, and only for the message that stored it.
FiredIsStored ==
    /\ tasks \subseteq stored
    /\ \A o \in Orders : o \notin stored => fired[o] = 0
    /\ pc = "trigger" => topic[pos] \in stored /\ fired[topic[pos]] = 0

FiringInv == FiredIsStored /\ LedgerFindsOrder /\ FiredAtMostOnce

LEMMA AccountingFiring == Spec => []FiringInv
<1> USE AccountingAssumption DEF FiringInv, FiredIsStored, LedgerFindsOrder, FiredAtMostOnce
<1>1. Init => FiringInv BY DEF Init
<1>2. TypeOK /\ FiringInv /\ [Next]_vars => FiringInv'
  <2> SUFFICES ASSUME TypeOK, FiringInv, [Next]_vars PROVE FiringInv' OBVIOUS
  <2>1. ASSUME NEW o \in Orders, Publish(o) PROVE FiringInv'
    <3>1. pc = "trigger" => topic'[pos] = topic[pos]
      BY <2>1, AppendKeeps, InHand DEF Publish, TypeOK
    <3> QED BY <2>1, <3>1 DEF Publish, dbVars, history
  <2>2. ASSUME Consume PROVE FiringInv'
    BY <2>2 DEF Consume, dbVars, history
  <2>3. ASSUME SaveChanges PROVE FiringInv'
    <3>1. topic[pos] \in Orders BY <2>3, InHand DEF SaveChanges
    <3> QED BY <2>3, <3>1 DEF SaveChanges, history
  <2>4. ASSUME ProcessRaises PROVE FiringInv'
    BY <2>4 DEF ProcessRaises
  <2>5. ASSUME TriggerValidation PROVE FiringInv'
    <3>1. topic[pos] \in Orders BY <2>5, InHand DEF TriggerValidation
    <3>2. fired'[topic[pos]] = 1 /\ \A o \in Orders : o # topic[pos] => fired'[o] = fired[o]
      BY <2>5, <3>1 DEF TriggerValidation, TypeOK
    <3> QED BY <2>5, <3>1, <3>2 DEF TriggerValidation
  <2>6. ASSUME NEW o \in Orders, HandleValidate(o) PROVE FiringInv'
    BY <2>6 DEF HandleValidate, history
  <2>7. ASSUME NEW o \in Orders, PostFails(o) PROVE FiringInv'
    BY <2>7 DEF PostFails, history
  <2>8. ASSUME AutoCommit PROVE FiringInv'
    BY <2>8 DEF AutoCommit, dbVars, history
  <2>9. ASSUME Crash PROVE FiringInv'
    BY <2>9 DEF Crash
  <2>10. CASE UNCHANGED vars
    BY <2>10 DEF vars, dbVars, history
  <2> QED
    BY <2>1, <2>2, <2>3, <2>4, <2>5, <2>6, <2>7, <2>8, <2>9, <2>10 DEF Next, Process
<1> QED BY <1>1, <1>2, AccountingTypeCorrect, PTL DEF Spec

(* The ledger finds every order it is asked about, however late the post
   arrives and whatever was redelivered. *)
THEOREM AccountingLedgerFindsOrder == Spec => []LedgerFindsOrder
<1>1. FiringInv => LedgerFindsOrder BY DEF FiringInv
<1> QED BY <1>1, AccountingFiring, PTL

(* The ledger is asked about each order at most once, for every number of
   repeated messages and of crashes with their redeliveries. *)
THEOREM AccountingFiredAtMostOnce == Spec => []FiredAtMostOnce
<1>1. FiringInv => FiredAtMostOnce BY DEF FiringInv
<1> QED BY <1>1, AccountingFiring, PTL

-----------------------------------------------------------------------------
\* The ledger has not answered about o.
Unanswered(o) == \A a \in lookups : a[1] # o

\* A post under way is the only one of its order, and comes before its answer.
PostsAreFirst ==
    /\ \A o \in tasks : fired[o] = 1 /\ Unanswered(o)
    /\ \A o \in Orders : fired[o] = 0 => Unanswered(o)

LEMMA AccountingPosts == Spec => []PostsAreFirst
<1> USE DEF PostsAreFirst, Unanswered
<1>1. Init => PostsAreFirst BY DEF Init
<1>2. TypeOK /\ FiringInv /\ PostsAreFirst /\ [Next]_vars => PostsAreFirst'
  <2> SUFFICES ASSUME TypeOK, FiringInv, PostsAreFirst, [Next]_vars PROVE PostsAreFirst'
    OBVIOUS
  <2>1. CASE UNCHANGED <<tasks, lookups, fired>> BY <2>1
  <2>2. ASSUME TriggerValidation PROVE PostsAreFirst'
    <3> DEFINE o == topic[pos]
    <3>1. o \in Orders /\ fired[o] = 0
      BY <2>2, InHand DEF TriggerValidation, FiringInv, FiredIsStored
    <3>2. /\ tasks' = tasks \cup {o} /\ lookups' = lookups
          /\ fired' = [fired EXCEPT ![o] = fired[o] + 1]
      BY <2>2 DEF TriggerValidation
    <3> HIDE DEF o
    <3>3. fired'[o] = 1 /\ \A p \in Orders \ {o} : fired'[p] = fired[p]
      BY <3>1, <3>2 DEF TypeOK
    <3> QED BY <3>1, <3>2, <3>3 DEF TypeOK
  <2>3. ASSUME NEW o \in Orders, HandleValidate(o) PROVE PostsAreFirst'
    <3>1. o \in tasks /\ tasks' = tasks \ {o} /\ fired' = fired
      BY <2>3 DEF HandleValidate, history
    <3>2. \A a \in lookups' : a \in lookups \/ a[1] = o BY <2>3 DEF HandleValidate
    <3> QED BY <3>1, <3>2
  <2>4. ASSUME NEW o \in Orders, PostFails(o) PROVE PostsAreFirst'
    BY <2>4 DEF PostFails, history
  <2>5. ASSUME Crash PROVE PostsAreFirst'
    BY <2>5 DEF Crash
  <2> QED
    BY <2>1, <2>2, <2>3, <2>4, <2>5
       DEF Next, Process, Publish, Consume, SaveChanges, ProcessRaises, AutoCommit, vars,
           dbVars, history
<1> QED BY <1>1, <1>2, AccountingTypeCorrect, AccountingFiring, PTL DEF Spec

\* The orders on the topic.
Published == {topic[i] : i \in 1..Len(topic)}

\* Every step of accounting is one of LedgerSpec, or none of its concern.
LEMMA StepKeepsLedger ==
    ASSUME TypeOK, FiringInv, PostsAreFirst, [Next]_vars
    PROVE  Ledger!LedgerNext \/ UNCHANGED <<Published, stored, fired, lookups>>
<1> DEFINE Seen == Ledger!LedgerNext \/ UNCHANGED <<Published, stored, fired, lookups>>
<1>1. UNCHANGED topic => UNCHANGED Published BY DEF Published
<1>2. ASSUME NEW o \in Orders, Publish(o) PROVE Seen
  <2>1. /\ topic' = Append(topic, o) /\ UNCHANGED <<stored, fired, lookups>>
    BY <1>2 DEF Publish, dbVars, history
  <2>2. Published' = Published \cup {o}
    <3>1. /\ Len(topic) \in Nat /\ Len(topic') = Len(topic) + 1
          /\ topic'[Len(topic) + 1] = o
          /\ \A i \in 1..Len(topic) : topic'[i] = topic[i]
      BY <2>1 DEF TypeOK
    <3>2. 1..Len(topic') = 1..Len(topic) \cup {Len(topic) + 1} BY <3>1
    <3> QED BY ONLY <3>1, <3>2 DEF Published
  <2>3. CASE o \in Published BY <2>1, <2>2, <2>3
  <2>4. CASE o \notin Published
    <3>1. Ledger!PublishOrder(o)
      BY <2>1, <2>2, <2>4 DEF Ledger!PublishOrder, Published
    <3> QED BY <3>1 DEF Ledger!LedgerNext
  <2> QED BY <2>3, <2>4
<1>3. ASSUME pc = "process", stored' \in {stored, stored \cup {topic[pos]}},
             UNCHANGED <<topic, fired, lookups>>
      PROVE  Seen
  <2> DEFINE o == topic[pos]
  <2>1. o \in Orders /\ o \in Published BY <1>3, InHand DEF Published
  <2>2. CASE stored' = stored BY <1>1, <1>3, <2>2
  <2>3. CASE stored' = stored \cup {o} /\ o \notin stored
    <3>1. Ledger!Store(o)
      BY <1>1, <1>3, <2>1, <2>3 DEF Ledger!Store, Published
    <3> QED BY <2>1, <3>1 DEF Ledger!LedgerNext
  <2> QED BY <1>3, <2>2, <2>3
<1>4. ASSUME TriggerValidation PROVE Seen
  <2> DEFINE o == topic[pos]
  <2>1. o \in Orders /\ o \in stored /\ fired[o] = 0
    BY <1>4, InHand DEF TriggerValidation, FiringInv, FiredIsStored
  <2>2. /\ fired' = [fired EXCEPT ![o] = 1] /\ UNCHANGED <<topic, stored, lookups>>
    BY <1>4, <2>1 DEF TriggerValidation
  <2>3. Ledger!Ask(o) BY <1>1, <2>1, <2>2 DEF Ledger!Ask, Published
  <2> QED BY <2>1, <2>3 DEF Ledger!LedgerNext
<1>5. ASSUME NEW o \in Orders, HandleValidate(o) PROVE Seen
  <2>1. o \in tasks /\ o \in stored
    BY <1>5 DEF HandleValidate, FiringInv, FiredIsStored
  <2>2. lookups' = lookups \cup {<<o, "found">>} /\ UNCHANGED <<topic, stored, fired>>
    BY <1>5, <2>1 DEF HandleValidate, history
  <2>3. fired[o] = 1 /\ Unanswered(o) BY <2>1 DEF PostsAreFirst
  <2>4. Ledger!Find(o) BY <1>1, <2>2, <2>3 DEF Ledger!Find, Published, Unanswered
  <2> QED BY <2>4 DEF Ledger!LedgerNext
<1>6. ASSUME UNCHANGED <<topic, stored, fired, lookups>> PROVE Seen BY <1>1, <1>6
<1>7. CASE SaveChanges \/ ProcessRaises
  BY <1>3, <1>7 DEF SaveChanges, ProcessRaises, history
<1>8. CASE Consume \/ AutoCommit \/ Crash \/ UNCHANGED vars
  BY <1>6, <1>8 DEF Consume, AutoCommit, Crash, vars, dbVars, history
<1>9. ASSUME NEW o \in Orders, PostFails(o) PROVE Seen
  BY <1>6, <1>9 DEF PostFails, history
<1> QED BY <1>2, <1>4, <1>5, <1>7, <1>8, <1>9 DEF Next, Process

(* Accounting implements LedgerSpec, for any number of messages and crashes:
   an order is published, stored, asked about and found, each once and in
   this order. *)
THEOREM AccountingKeepsLedgerSpec == Spec => KeepsLedgerSpec
<1>1. Init => Ledger!LedgerInit BY DEF Init, Ledger!LedgerInit
<1>2. TypeOK /\ FiringInv /\ PostsAreFirst /\ [Next]_vars
         => [Ledger!LedgerNext]_(Ledger!ledgerVars)
  BY StepKeepsLedger DEF Ledger!ledgerVars, Published
<1> QED
  BY <1>1, <1>2, AccountingTypeCorrect, AccountingFiring, AccountingPosts, PTL
     DEF Spec, KeepsLedgerSpec, Ledger!LedgerSpec
=============================================================================
