--------------------------- MODULE ProducerProofs ---------------------------
(* What the handlers that share the Kafka producer can rely on, for every    *)
(* number of handlers, goroutines and errors and every channel capacity.     *)
EXTENDS Producer, Integers, FiniteSetTheorems, SequenceTheorems, TLAPS

TypeOK ==
    /\ pc \in [Senders -> {"idle", "send", "await", "flag", "done"}]
    /\ cancelled \subseteq Handlers
    /\ input \in Seq(Senders) /\ Len(input) <= Capacity
    /\ inflight \subseteq Senders
    /\ successes \in Seq(Senders) /\ Len(successes) <= Capacity
    /\ errors \in Seq(Senders) /\ Len(errors) <= Capacity
    /\ answer \in [Senders -> Senders \cup {Nothing}]
    /\ failed \subseteq Senders
    /\ logged \subseteq Senders
    /\ abandoned \subseteq Handlers

\* What is counted can be counted, however many handlers there may be.
Countable ==
    /\ IsFiniteSet(Awaiting) /\ IsFiniteSet(inflight)
    /\ IsFiniteSet(logged) /\ IsFiniteSet(abandoned)

\* The goroutines of a handler that has not read the flag have not started.
CopiesWait == \A h \in Handlers : pc[h] # "done" => \A c \in CopiesOf[h] : pc[c] = "idle"

Elems(seq) == {seq[i] : i \in 1 .. Len(seq)}
Distinct(seq) == \A i, j \in 1 .. Len(seq) : seq[i] = seq[j] => i = j

\* A sender sends once: its message is in one place at most, and in none as
\* long as it has not been put on Input.
MessagesOnce ==
    /\ Distinct(input) /\ Distinct(errors)
    /\ Elems(input) \cap inflight = {}
    /\ (Elems(input) \cup inflight) \cap (Elems(errors) \cup logged) = {}
    /\ Elems(errors) \cap logged = {}
    /\ \A s \in Elems(input) \cup inflight \cup Elems(errors) \cup logged :
          pc[s] \notin {"idle", "send"}

\* A handler abandons its answer once, and waits no more.
AbandonedOnce == \A h \in abandoned : pc[h] \in {"flag", "done"}

\* Every answer under way, or read by the logging goroutine, is one that a
\* sender waits for or that a cancelled handler has left.
AnswersAddUp ==
    Cardinality(Awaiting) + Cardinality(abandoned) = Pending + Cardinality(logged)

ProducerInv ==
    TypeOK /\ Countable /\ CopiesWait /\ MessagesOnce /\ AbandonedOnce /\ AnswersAddUp

-----------------------------------------------------------------------------
LEMMA AppendElems ==
    ASSUME NEW S, NEW seq \in Seq(S), NEW x \in S
    PROVE  /\ Append(seq, x) \in Seq(S) /\ Len(Append(seq, x)) = Len(seq) + 1
           /\ Elems(Append(seq, x)) = Elems(seq) \cup {x}
           /\ Distinct(seq) /\ x \notin Elems(seq) => Distinct(Append(seq, x))
<1> DEFINE new == Append(seq, x)
<1>1. /\ new \in Seq(S) /\ Len(new) = Len(seq) + 1 /\ Len(seq) \in Nat
      /\ \A i \in 1 .. Len(seq) : new[i] = seq[i]
      /\ new[Len(seq) + 1] = x
  BY AppendProperties, LenProperties
<1> HIDE DEF new
<1>2. Elems(new) = Elems(seq) \cup {x} BY <1>1 DEF Elems
<1>3. ASSUME Distinct(seq), x \notin Elems(seq) PROVE Distinct(new)
  BY <1>1, <1>3 DEF Distinct, Elems
<1> QED BY <1>1, <1>2, <1>3 DEF new

LEMMA TailElems ==
    ASSUME NEW S, NEW seq \in Seq(S), seq # <<>>
    PROVE  /\ Tail(seq) \in Seq(S) /\ Len(Tail(seq)) = Len(seq) - 1 /\ Len(seq) \in Nat \ {0}
           /\ Head(seq) \in Elems(seq) /\ Head(seq) \in S
           /\ Elems(Tail(seq)) \subseteq Elems(seq)
           /\ Distinct(seq) => Distinct(Tail(seq)) /\ Head(seq) \notin Elems(Tail(seq))
<1> DEFINE rest == Tail(seq)
<1>1. /\ rest \in Seq(S) /\ Len(rest) = Len(seq) - 1 /\ Len(seq) \in Nat \ {0}
      /\ \A i \in 1 .. Len(rest) : rest[i] = seq[i + 1]
      /\ Head(seq) \in S
  BY HeadTailProperties, EmptySeq, LenProperties
<1>2. Head(seq) = seq[1] OBVIOUS
<1> HIDE DEF rest
<1>3. Head(seq) \in Elems(seq) BY <1>1, <1>2 DEF Elems
<1>4. Elems(rest) \subseteq Elems(seq) BY <1>1 DEF Elems
<1>5. ASSUME Distinct(seq) PROVE Distinct(rest)
  <2> SUFFICES ASSUME NEW i \in 1 .. Len(rest), NEW j \in 1 .. Len(rest), rest[i] = rest[j]
               PROVE  i = j
    BY DEF Distinct
  <2>1. /\ i + 1 \in 1 .. Len(seq) /\ j + 1 \in 1 .. Len(seq)
        /\ rest[i] = seq[i + 1] /\ rest[j] = seq[j + 1]
    BY <1>1
  <2>2. i + 1 = j + 1 BY <1>5, <2>1 DEF Distinct
  <2> QED BY <2>2
<1>6. Distinct(seq) => Head(seq) \notin Elems(rest) BY <1>1, <1>2 DEF Distinct, Elems
<1> QED BY <1>1, <1>3, <1>4, <1>5, <1>6 DEF rest

\* A sender that starts or ends to wait, and how many wait then.
LEMMA AwaitingOneMore ==
    ASSUME ProducerInv, NEW s \in Senders, pc[s] # "await", Goto(s, "await")
    PROVE  IsFiniteSet(Awaiting') /\ Cardinality(Awaiting') = Cardinality(Awaiting) + 1
<1>1. Awaiting' = Awaiting \cup {s} /\ s \notin Awaiting
  BY DEF Awaiting, Goto, ProducerInv, TypeOK
<1> QED BY <1>1, FS_AddElement DEF ProducerInv, Countable

LEMMA AwaitingOneLess ==
    ASSUME ProducerInv, NEW s \in Senders, pc[s] = "await", Answered(s)
    PROVE  IsFiniteSet(Awaiting') /\ Cardinality(Awaiting') = Cardinality(Awaiting) - 1
<1>1. Awaiting' = Awaiting \ {s} /\ s \in Awaiting
  BY DEF Awaiting, Answered, Goto, ProducerInv, TypeOK
<1> QED BY <1>1, FS_RemoveElement DEF ProducerInv, Countable

\* What is counted is a number.
LEMMA Numbers ==
    ASSUME ProducerInv
    PROVE  /\ Cardinality(Awaiting) \in Nat /\ Cardinality(inflight) \in Nat
           /\ Cardinality(logged) \in Nat /\ Cardinality(abandoned) \in Nat
           /\ Len(input) \in Nat /\ Len(successes) \in Nat /\ Len(errors) \in Nat
           /\ Pending \in Nat
           /\ Cardinality(Awaiting) + Cardinality(abandoned) = Pending + Cardinality(logged)
<1>1. /\ Cardinality(Awaiting) \in Nat /\ Cardinality(inflight) \in Nat
      /\ Cardinality(logged) \in Nat /\ Cardinality(abandoned) \in Nat
  BY FS_CardinalityType DEF ProducerInv, Countable
<1>2. Len(input) \in Nat /\ Len(successes) \in Nat /\ Len(errors) \in Nat
  BY LenProperties DEF ProducerInv, TypeOK
<1>3. Pending \in Nat BY ONLY <1>1, <1>2 DEF Pending
<1> QED BY <1>1, <1>2, <1>3 DEF ProducerInv, AnswersAddUp

-----------------------------------------------------------------------------
\* Steps of senders that do not touch the client.
LEMMA QuietKeepsProducer ==
    ASSUME ProducerInv,
           \/ \E h \in Handlers : Begin(h) \/ Cancel(h) \/ CancelledSending(h) \/ ReadFlag(h)
           \/ UNCHANGED vars
    PROVE  ProducerInv'
<1> USE ProducerAssumption DEF ProducerInv, Senders, Copies
<1>1. /\ UNCHANGED <<input, inflight, successes, errors, failed, answer, logged, abandoned>>
      /\ cancelled' \subseteq Handlers
  BY DEF Begin, Cancel, CancelledSending, ReadFlag, vars, history, clientVars, TypeOK
<1> DEFINE PcOK ==
      /\ pc' \in [Senders -> {"idle", "send", "await", "flag", "done"}]
      /\ \A s \in Senders : (pc'[s] = "await" <=> pc[s] = "await")
      /\ \A s \in Senders : pc[s] \notin {"idle", "send"} => pc'[s] \notin {"idle", "send"}
      /\ \A h \in Handlers : pc[h] \in {"flag", "done"} => pc'[h] \in {"flag", "done"}
      /\ CopiesWait'
<1>2. PcOK
  <2> USE DEF TypeOK, CopiesWait, Goto
  <2>1. ASSUME NEW h \in Handlers, Begin(h) PROVE PcOK
    BY <2>1 DEF Begin
  <2>2. ASSUME NEW h \in Handlers, CancelledSending(h) PROVE PcOK
    BY <2>2 DEF CancelledSending
  <2>3. ASSUME NEW h \in Handlers, ReadFlag(h) PROVE PcOK
    BY <2>3 DEF ReadFlag
  <2>4. ASSUME UNCHANGED pc PROVE PcOK BY <2>4
  <2> QED BY <2>1, <2>2, <2>3, <2>4 DEF Cancel, vars
<1>3. Awaiting' = Awaiting BY <1>2 DEF Awaiting
<1>4. TypeOK' BY <1>1, <1>2 DEF TypeOK
<1>5. Countable' BY <1>1, <1>3 DEF Countable
<1>6. MessagesOnce'
  <2>1. Elems(input) \cup inflight \cup Elems(errors) \cup logged \subseteq Senders
    <3>1. Elems(input) \subseteq Senders BY DEF Elems, TypeOK
    <3>2. Elems(errors) \subseteq Senders BY DEF Elems, TypeOK
    <3>3. inflight \subseteq Senders /\ logged \subseteq Senders BY DEF TypeOK
    <3> QED BY <3>1, <3>2, <3>3
  <2> QED BY <1>1, <1>2, <2>1 DEF MessagesOnce
<1>7. AbandonedOnce' BY <1>1, <1>2 DEF AbandonedOnce, TypeOK
<1>8. AnswersAddUp' BY <1>1, <1>3 DEF AnswersAddUp, Pending
<1> QED BY <1>2, <1>4, <1>5, <1>6, <1>7, <1>8

\* A message on Input for a sender that waits.
LEMMA EnqueueKeepsProducer ==
    ASSUME ProducerInv, NEW s \in Senders, Enqueue(s) PROVE ProducerInv'
<1>1. /\ input' = Append(input, s) /\ Len(input) < Capacity /\ pc[s] = "send"
      /\ Goto(s, "await")
      /\ UNCHANGED <<cancelled, answer, logged, abandoned, inflight, successes, errors, failed>>
  BY DEF Enqueue, history
<1>2. /\ input' \in Seq(Senders) /\ Len(input') = Len(input) + 1
      /\ Elems(input') = Elems(input) \cup {s}
      /\ Distinct(input) /\ s \notin Elems(input) => Distinct(input')
  BY <1>1, AppendElems DEF ProducerInv, TypeOK
<1>3. /\ IsFiniteSet(Awaiting') /\ Cardinality(Awaiting') = Cardinality(Awaiting) + 1
  BY <1>1, AwaitingOneMore
<1>4. s \notin Elems(input) \cup inflight \cup Elems(errors) \cup logged
  BY <1>1 DEF ProducerInv, MessagesOnce
<1>5. /\ pc' \in [Senders -> {"idle", "send", "await", "flag", "done"}]
      /\ pc' = [pc EXCEPT ![s] = "await"]
  BY <1>1 DEF Goto, ProducerInv, TypeOK
<1>6. TypeOK'
  <2>1. Len(input') <= Capacity BY <1>1, <1>2, Numbers, ProducerAssumption
  <2> QED BY <1>1, <1>2, <1>5, <2>1 DEF ProducerInv, TypeOK
<1>7. Countable' BY <1>1, <1>3 DEF ProducerInv, Countable
<1>8. CopiesWait'
  BY <1>1, <1>5, ProducerAssumption DEF ProducerInv, TypeOK, CopiesWait, Senders, Copies
<1>9. MessagesOnce'
  <2>1. Elems(errors') = Elems(errors) BY <1>1
  <2> QED BY <1>1, <1>2, <1>4, <1>5, <2>1 DEF ProducerInv, MessagesOnce, TypeOK
<1>10. AbandonedOnce'
  BY <1>1, <1>5 DEF ProducerInv, TypeOK, AbandonedOnce, Senders
<1>11. AnswersAddUp'
  <2>1. /\ Len(input) \in Nat /\ Len(successes) \in Nat /\ Len(errors) \in Nat
        /\ Cardinality(inflight) \in Nat /\ Cardinality(logged) \in Nat
        /\ Cardinality(Awaiting) \in Nat /\ Cardinality(abandoned) \in Nat
        /\ Cardinality(Awaiting) + Cardinality(abandoned) = Pending + Cardinality(logged)
    BY Numbers
  <2>2. UNCHANGED <<inflight, successes, errors, logged, abandoned>>
    BY <1>1
  <2>3. Pending' = (Len(input) + 1) + Cardinality(inflight) + Len(successes) + Len(errors)
    BY ONLY <1>2, <2>2, Zenon DEF Pending
  <2>4. Pending' = Pending + 1 /\ Pending \in Int
    <3> DEFINE a == Len(input)
               b == Cardinality(inflight)
               c == Len(successes)
               d == Len(errors)
    <3>1. a \in Nat /\ b \in Nat /\ c \in Nat /\ d \in Nat BY <2>1
    <3>2. Pending' = (a + 1) + b + c + d /\ Pending = a + b + c + d BY <2>3 DEF Pending
    <3> HIDE DEF a, b, c, d
    <3> QED BY ONLY <3>1, <3>2
  <2>5. Cardinality(logged') = Cardinality(logged) /\ Cardinality(abandoned') = Cardinality(abandoned)
    BY ONLY <2>2
  <2>6. Cardinality(Awaiting') + Cardinality(abandoned') = Pending' + Cardinality(logged')
    BY ONLY <1>3, <2>1, <2>4, <2>5
  <2> QED BY ONLY <2>6 DEF AnswersAddUp
<1> QED BY <1>6, <1>7, <1>8, <1>9, <1>10, <1>11 DEF ProducerInv

\* An answer leaves its channel with a sender that waited, or a cancelled
\* handler goes without one.
LEMMA AnswerKeepsProducer ==
    ASSUME ProducerInv, NEW s \in Senders,
           \/ TakeSuccess(s)
           \/ s \in Handlers /\ (TakeError(s) \/ CancelledAwaiting(s))
    PROVE  ProducerInv'
<1>1. /\ pc[s] = "await" /\ Answered(s)
      /\ UNCHANGED <<cancelled, logged, input, inflight, failed>>
  BY DEF TakeSuccess, TakeError, CancelledAwaiting, history, clientVars
<1>2. IsFiniteSet(Awaiting') /\ Cardinality(Awaiting') = Cardinality(Awaiting) - 1
  BY <1>1, AwaitingOneLess
<1>3. /\ successes' \in Seq(Senders) /\ answer' \in [Senders -> Senders \cup {Nothing}]
      /\ errors' \in Seq(Senders)
      /\ Elems(errors') \subseteq Elems(errors)
      /\ Distinct(errors) => Distinct(errors')
      /\ abandoned' \in {abandoned, abandoned \cup {s}} /\ abandoned' \subseteq Handlers
      /\ \/ /\ Len(successes') = Len(successes) - 1 /\ Len(errors') = Len(errors)
            /\ abandoned' = abandoned
         \/ /\ Len(successes') = Len(successes) /\ Len(errors') = Len(errors) - 1
            /\ abandoned' = abandoned
         \/ /\ Len(successes') = Len(successes) /\ Len(errors') = Len(errors)
            /\ abandoned' = abandoned \cup {s} /\ s \in Handlers
  <2>1. CASE TakeSuccess(s)
    BY <2>1, TailElems DEF TakeSuccess, ProducerInv, TypeOK, history
  <2>2. CASE TakeError(s)
    BY <2>2, TailElems DEF TakeError, ProducerInv, TypeOK, history
  <2>3. CASE s \in Handlers /\ CancelledAwaiting(s)
    BY <2>3 DEF CancelledAwaiting, clientVars, ProducerInv, TypeOK
  <2> QED BY <2>1, <2>2, <2>3
<1>4. /\ pc' \in [Senders -> {"idle", "send", "await", "flag", "done"}]
      /\ pc' = [pc EXCEPT ![s] = IF s \in Handlers THEN "flag" ELSE "done"]
  BY <1>1 DEF Answered, Goto, ProducerInv, TypeOK
<1>5. TypeOK'
  <2>1. Len(successes') <= Capacity /\ Len(errors') <= Capacity
    <3>1. Len(successes) <= Capacity /\ Len(errors) <= Capacity BY DEF ProducerInv, TypeOK
    <3>2. Len(successes) \in Nat /\ Len(errors) \in Nat BY Numbers
    <3> QED BY ONLY <1>3, <3>1, <3>2, ProducerAssumption
  <2> QED BY <1>1, <1>3, <1>4, <2>1 DEF ProducerInv, TypeOK
<1>6. Countable'
  <2>1. IsFiniteSet(abandoned) BY DEF ProducerInv, Countable
  <2>2. IsFiniteSet(abandoned \cup {s}) BY <2>1, FS_AddElement
  <2>3. abandoned' \in {abandoned, abandoned \cup {s}} BY <1>3
  <2>4. IsFiniteSet(abandoned') BY ONLY <2>1, <2>2, <2>3
  <2> QED BY <1>1, <1>2, <2>4 DEF ProducerInv, Countable
<1>7. CopiesWait'
  BY <1>1, <1>4, ProducerAssumption DEF ProducerInv, TypeOK, CopiesWait, Senders, Copies
<1>8. MessagesOnce'
  <2>1. Elems(input') = Elems(input) BY <1>1
  <2> QED BY <1>1, <1>3, <1>4, <2>1 DEF ProducerInv, MessagesOnce, TypeOK
<1>9. AbandonedOnce'
  BY <1>1, <1>3, <1>4 DEF ProducerInv, TypeOK, AbandonedOnce, Senders
<1>10. AnswersAddUp'
  <2>1. /\ Len(input) \in Nat /\ Len(successes) \in Nat /\ Len(errors) \in Nat
        /\ Cardinality(inflight) \in Nat /\ Cardinality(logged) \in Nat
        /\ Cardinality(Awaiting) \in Nat /\ Cardinality(abandoned) \in Nat /\ Pending \in Nat
        /\ Cardinality(Awaiting) + Cardinality(abandoned) = Pending + Cardinality(logged)
    BY Numbers
  <2>2. /\ Len(input') = Len(input) /\ Cardinality(inflight') = Cardinality(inflight)
        /\ Cardinality(logged') = Cardinality(logged)
    BY ONLY <1>1
  <2>3. CASE abandoned' = abandoned /\ Len(successes') + Len(errors') = Len(successes) + Len(errors) - 1
    <3>1. Len(successes') \in Nat /\ Len(errors') \in Nat BY <1>3, LenProperties
    <3>2. Pending' = Pending - 1
      <4> DEFINE a == Len(input)
                 b == Cardinality(inflight)
                 c == Len(successes)
                 d == Len(errors)
                 e == Len(successes')
                 f == Len(errors')
      <4>1. a \in Nat /\ b \in Nat /\ c \in Nat /\ d \in Nat /\ e \in Nat /\ f \in Nat
        BY <2>1, <3>1
      <4>2. Pending = a + b + c + d BY DEF Pending
      <4>3. Pending' = Len(input') + Cardinality(inflight') + e + f BY DEF Pending
      <4>4. Pending' = a + b + e + f BY <2>2, <4>3
      <4>5. e + f = c + d - 1 BY <2>3
      <4> HIDE DEF a, b, c, d, e, f
      <4> QED BY ONLY <4>1, <4>2, <4>4, <4>5
    <3>3. Cardinality(abandoned') = Cardinality(abandoned) BY <2>3
    <3>4. Cardinality(Awaiting') + Cardinality(abandoned') = Pending' + Cardinality(logged')
      BY ONLY <1>2, <2>1, <2>2, <3>2, <3>3
    <3> QED BY ONLY <3>4 DEF AnswersAddUp
  <2>4. CASE /\ abandoned' = abandoned \cup {s} /\ s \in Handlers
             /\ Len(successes') = Len(successes) /\ Len(errors') = Len(errors)
    <3>1. s \notin abandoned BY <1>1 DEF ProducerInv, AbandonedOnce
    <3>2. Cardinality(abandoned') = Cardinality(abandoned) + 1
      BY <2>4, <3>1, FS_AddElement DEF ProducerInv, Countable
    <3>3. Pending' = Pending BY ONLY <2>2, <2>4 DEF Pending
    <3>4. Cardinality(Awaiting') + Cardinality(abandoned') = Pending' + Cardinality(logged')
      BY ONLY <1>2, <2>1, <2>2, <3>2, <3>3
    <3> QED BY ONLY <3>4 DEF AnswersAddUp
  <2>5. CASE /\ Len(successes') = Len(successes) - 1 /\ Len(errors') = Len(errors)
             /\ abandoned' = abandoned
    BY ONLY <2>1, <2>3, <2>5
  <2>6. CASE /\ Len(successes') = Len(successes) /\ Len(errors') = Len(errors) - 1
             /\ abandoned' = abandoned
    BY ONLY <2>1, <2>3, <2>6
  <2> QED BY ONLY <1>3, <2>4, <2>5, <2>6
<1> QED BY <1>5, <1>6, <1>7, <1>8, <1>9, <1>10 DEF ProducerInv

\* The client and the logging goroutine move messages; none is merged with
\* another one, since every message is in one place.
LEMMA ClientKeepsProducer ==
    ASSUME ProducerInv, ClientTakes \/ ClientAnswers \/ LogError PROVE ProducerInv'
<1> DEFINE Moved ==
      /\ UNCHANGED <<pc, cancelled, answer, abandoned>>
      /\ TypeOK' /\ IsFiniteSet(inflight') /\ IsFiniteSet(logged') /\ MessagesOnce'
      /\ Pending' + Cardinality(logged') = Pending + Cardinality(logged)
<1> USE ProducerAssumption
<1>0. /\ Len(input) \in Nat /\ Len(successes) \in Nat /\ Len(errors) \in Nat
      /\ Cardinality(inflight) \in Nat /\ Cardinality(logged) \in Nat
  BY Numbers
<1>1. ASSUME ClientTakes PROVE Moved
  <2>1. /\ input # <<>> /\ inflight' = inflight \cup {Head(input)} /\ input' = Tail(input)
        /\ failed' \in {failed, failed \cup {Head(input)}}
        /\ UNCHANGED <<pc, cancelled, answer, logged, abandoned, successes, errors>>
    BY <1>1 DEF ClientTakes, history
  <2>2. /\ input' \in Seq(Senders) /\ Len(input') = Len(input) - 1
        /\ Head(input) \in Elems(input) /\ Head(input) \in Senders
        /\ Elems(input') \subseteq Elems(input)
        /\ Distinct(input') /\ Head(input) \notin Elems(input')
    BY <2>1, TailElems DEF ProducerInv, TypeOK, MessagesOnce
  <2>3. Head(input) \notin inflight BY <2>2 DEF ProducerInv, MessagesOnce
  <2>4. IsFiniteSet(inflight') /\ Cardinality(inflight') = Cardinality(inflight) + 1
    BY <2>1, <2>3, FS_AddElement DEF ProducerInv, Countable
  <2>5. TypeOK' BY <2>1, <2>2 DEF ProducerInv, TypeOK
  <2>6. Elems(errors') = Elems(errors) /\ Distinct(errors') = Distinct(errors) BY <2>1
  <2>7. MessagesOnce' BY <2>1, <2>2, <2>6 DEF ProducerInv, MessagesOnce
  <2>8. Pending' = Pending BY ONLY <1>0, <2>1, <2>2, <2>4 DEF Pending
  <2> QED BY <2>1, <2>4, <2>5, <2>7, <2>8 DEF ProducerInv, Countable
<1>2. ASSUME NEW m \in Senders, ClientProduces(m) PROVE Moved
  <2>1. /\ m \in inflight /\ inflight' = inflight \ {m} /\ successes' = Append(successes, m)
        /\ Len(successes) < Capacity
        /\ UNCHANGED <<pc, cancelled, answer, logged, abandoned, input, errors, failed>>
    BY <1>2 DEF ClientProduces, history
  <2>2. successes' \in Seq(Senders) /\ Len(successes') = Len(successes) + 1
    BY <2>1, AppendElems DEF ProducerInv, TypeOK
  <2>3. IsFiniteSet(inflight') /\ Cardinality(inflight') = Cardinality(inflight) - 1
    BY <2>1, FS_RemoveElement DEF ProducerInv, Countable
  <2>4. TypeOK' BY <2>1, <2>2 DEF ProducerInv, TypeOK
  <2>5. /\ Elems(errors') = Elems(errors) /\ Distinct(errors') = Distinct(errors)
        /\ Elems(input') = Elems(input) /\ Distinct(input') = Distinct(input)
    BY <2>1
  <2>6. MessagesOnce' BY <2>1, <2>5 DEF ProducerInv, MessagesOnce
  <2>7. Pending' = Pending BY ONLY <1>0, <2>1, <2>2, <2>3 DEF Pending
  <2> QED BY <2>1, <2>3, <2>4, <2>6, <2>7 DEF ProducerInv, Countable
<1>3. ASSUME NEW m \in Senders, ClientFails(m) PROVE Moved
  <2>1. /\ m \in inflight /\ inflight' = inflight \ {m} /\ errors' = Append(errors, m)
        /\ Len(errors) < Capacity
        /\ UNCHANGED <<pc, cancelled, answer, logged, abandoned, input, successes, failed>>
    BY <1>3 DEF ClientFails, history
  <2>2. m \notin Elems(errors) \cup logged \cup Elems(input)
    BY <2>1 DEF ProducerInv, MessagesOnce
  <2>3. /\ errors' \in Seq(Senders) /\ Len(errors') = Len(errors) + 1
        /\ Elems(errors') = Elems(errors) \cup {m} /\ Distinct(errors')
    BY <2>1, <2>2, AppendElems DEF ProducerInv, TypeOK, MessagesOnce
  <2>4. IsFiniteSet(inflight') /\ Cardinality(inflight') = Cardinality(inflight) - 1
    BY <2>1, FS_RemoveElement DEF ProducerInv, Countable
  <2>5. TypeOK' BY <2>1, <2>3 DEF ProducerInv, TypeOK
  <2>6. Elems(input') = Elems(input) /\ Distinct(input') = Distinct(input) BY <2>1
  <2>7. MessagesOnce' BY <2>1, <2>2, <2>3, <2>6 DEF ProducerInv, MessagesOnce
  <2>8. Pending' = Pending BY ONLY <1>0, <2>1, <2>3, <2>4 DEF Pending
  <2> QED BY <2>1, <2>4, <2>5, <2>7, <2>8 DEF ProducerInv, Countable
<1>4. ASSUME LogError PROVE Moved
  <2>1. /\ errors # <<>> /\ errors' = Tail(errors) /\ logged' = logged \cup {Head(errors)}
        /\ UNCHANGED <<pc, cancelled, answer, abandoned, input, inflight, successes, failed>>
    BY <1>4 DEF LogError
  <2>2. /\ errors' \in Seq(Senders) /\ Len(errors') = Len(errors) - 1
        /\ Head(errors) \in Elems(errors) /\ Head(errors) \in Senders
        /\ Elems(errors') \subseteq Elems(errors)
        /\ Distinct(errors') /\ Head(errors) \notin Elems(errors')
    BY <2>1, TailElems DEF ProducerInv, TypeOK, MessagesOnce
  <2>3. Head(errors) \notin logged BY <2>2 DEF ProducerInv, MessagesOnce
  <2>4. IsFiniteSet(logged') /\ Cardinality(logged') = Cardinality(logged) + 1
    BY <2>1, <2>3, FS_AddElement DEF ProducerInv, Countable
  <2>5. TypeOK' BY <2>1, <2>2 DEF ProducerInv, TypeOK
  <2>6. Elems(input') = Elems(input) /\ Distinct(input') = Distinct(input) BY <2>1
  <2>7. MessagesOnce' BY <2>1, <2>2, <2>6 DEF ProducerInv, MessagesOnce
  <2>8. Pending' = Pending - 1 BY ONLY <1>0, <2>1, <2>2 DEF Pending
  <2>9. Pending \in Int BY ONLY <1>0 DEF Pending
  <2> QED BY <1>0, <2>1, <2>4, <2>5, <2>7, <2>8, <2>9 DEF ProducerInv, Countable
<1>5. Moved BY <1>1, <1>2, <1>3, <1>4 DEF ClientAnswers
<1>6. Awaiting' = Awaiting BY <1>5 DEF Awaiting
<1>7. CopiesWait' BY <1>5 DEF ProducerInv, CopiesWait
<1>8. AbandonedOnce' BY <1>5 DEF ProducerInv, AbandonedOnce
<1>9. AnswersAddUp' BY <1>5, <1>6 DEF ProducerInv, AnswersAddUp
<1> QED BY <1>5, <1>6, <1>7, <1>8, <1>9 DEF ProducerInv, Countable

LEMMA ProducerInvariant == Spec => []ProducerInv
<1>1. Init => ProducerInv
  <2> SUFFICES ASSUME Init PROVE ProducerInv OBVIOUS
  <2>1. Awaiting = {} BY DEF Init, Awaiting
  <2>2. Countable BY <2>1, FS_EmptySet DEF Init, Countable
  <2>3. TypeOK BY ProducerAssumption DEF Init, TypeOK
  <2>4. CopiesWait BY DEF Init, CopiesWait, Senders, Copies
  <2>5. MessagesOnce BY DEF Init, MessagesOnce, Elems, Distinct
  <2>6. AbandonedOnce BY DEF Init, AbandonedOnce
  <2>7. AnswersAddUp
    BY <2>1, FS_EmptySet DEF Init, AnswersAddUp, Pending
  <2> QED BY <2>2, <2>3, <2>4, <2>5, <2>6, <2>7 DEF ProducerInv
<1>2. ProducerInv /\ [Next]_vars => ProducerInv'
  BY QuietKeepsProducer, EnqueueKeepsProducer, AnswerKeepsProducer, ClientKeepsProducer
     DEF Next, Handle, Copy, Senders
<1> QED BY <1>1, <1>2, PTL DEF Spec

(* The channels never hold more than their capacity and carry messages of
   senders only. *)
THEOREM ProducerTypeCorrect == Spec => []TypeOK
<1>1. ProducerInv => TypeOK BY DEF ProducerInv
<1> QED BY <1>1, ProducerInvariant, PTL

(* There are never more senders waiting for an answer than answers under way,
   but for the errors that the logging goroutine took: neither cancelled
   handlers nor swapped answers leave a sender waiting for ever. *)
THEOREM ProducerStrandedNeedsLoggedError == Spec => []StrandedNeedsLoggedError
<1>1. ASSUME ProducerInv PROVE StrandedNeedsLoggedError
  BY <1>1, Numbers DEF StrandedNeedsLoggedError
<1> QED BY <1>1, ProducerInvariant, PTL

(* Whatever the capacities and however many handlers and goroutines: the
   producer stops with every channel full and nobody left to read an answer
   only after as many handlers as it has room for answers were cancelled while
   they waited for one. *)
THEOREM ProducerFullNeedsAbandoned == Spec => []FullNeedsAbandoned
<1>1. ASSUME ProducerInv PROVE FullNeedsAbandoned
  <2> SUFFICES ASSUME Len(successes) = Capacity, Cardinality(inflight) = MaxInflight,
                      Len(input) = Capacity, Awaiting = {}
               PROVE  Room <= Cardinality(abandoned)
    BY DEF FullNeedsAbandoned
  <2>1. Cardinality(Awaiting) = 0 BY FS_EmptySet
  <2>2. /\ Len(errors) \in Nat /\ Cardinality(logged) \in Nat /\ Cardinality(abandoned) \in Nat
        /\ Cardinality(Awaiting) + Cardinality(abandoned) = Pending + Cardinality(logged)
    BY <1>1, Numbers
  <2>3. Capacity \in Nat /\ MaxInflight \in Nat BY ProducerAssumption
  <2>4. Pending = Capacity + MaxInflight + Capacity + Len(errors) BY DEF Pending
  <2> QED BY ONLY <2>1, <2>2, <2>3, <2>4 DEF Room
<1> QED BY <1>1, ProducerInvariant, PTL
=============================================================================
