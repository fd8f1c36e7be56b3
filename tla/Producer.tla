------------------------------ MODULE Producer ------------------------------
(***************************************************************************)
(* The Kafka producer all PlaceOrder handlers share: sendToPostProcessor   *)
(* (src/checkout/main.go) and CreateKafkaProducer (kafka/producer.go).     *)
(*                                                                         *)
(* A handler puts its message on the client's Input channel and takes the  *)
(* next entry of the client's Successes or Errors channel, whichever       *)
(* message that entry is about.  A goroutine of producer.go also reads     *)
(* Errors, to log them.  With kafkaQueueProblems set, a handler starts     *)
(* goroutines that put the message on Input again and wait for a success,  *)
(* without a context that could end the wait.                              *)
(*                                                                         *)
(* Everything here is bounded: the channels, and what the client's own     *)
(* goroutines and channels hold between Input and the answers.  A handler  *)
(* that is cancelled while it waits leaves an answer behind, and enough of *)
(* them fill Successes, then the client, then Input.                       *)
(*                                                                         *)
(* A message is named after the handler or goroutine that put it on Input. *)
(***************************************************************************)
EXTENDS Naturals, Sequences, FiniteSets

CONSTANTS
    Handlers,   \* calls of sendToPostProcessor
    CopiesOf,   \* CopiesOf[h]: the goroutines h starts if the flag is set
    Capacity,   \* buffer of each channel: 256 in the client
    MaxInflight, \* messages the client takes from Input before it has to answer one
    MaxErrors   \* bound: messages the client fails to produce

Copies  == UNION {CopiesOf[h] : h \in Handlers}
Senders == Handlers \cup Copies

ASSUME ProducerAssumption ==
    /\ Handlers \cap Copies = {}
    /\ \A h1, h2 \in Handlers : h1 # h2 => CopiesOf[h1] \cap CopiesOf[h2] = {}
    /\ Capacity \in Nat \ {0}
    /\ MaxInflight \in Nat \ {0}
    /\ MaxErrors \in Nat

VARIABLES
    pc,         \* "idle", "send", "await", "flag" (handlers only) or "done"
    cancelled,  \* handlers whose context is done
    input,      \* the Input channel
    inflight,   \* messages the client works on (external)
    successes,  \* the Successes channel
    errors,     \* the Errors channel
    answer,     \* the success a sender took, if any
    failed,     \* messages the client cannot produce
    \* History, read by no action:
    logged,     \* errors read by the logging goroutine
    abandoned   \* handlers that were cancelled while they waited

clientVars == <<input, inflight, successes, errors, failed>>
history == <<logged, abandoned>>
vars == <<pc, cancelled, answer, history, clientVars>>

Nothing == "nothing"

Init ==
    /\ pc = [s \in Senders |-> "idle"]
    /\ cancelled = {}
    /\ input = <<>>
    /\ inflight = {}
    /\ successes = <<>>
    /\ errors = <<>>
    /\ answer = [s \in Senders |-> Nothing]
    /\ failed = {}
    /\ logged = {}
    /\ abandoned = {}

-----------------------------------------------------------------------------
Goto(s, step) == pc' = [pc EXCEPT ![s] = step]

\* The handler enters sendToPostProcessor.
Begin(h) ==
    /\ pc[h] = "idle"
    /\ Goto(h, "send")
    /\ UNCHANGED <<cancelled, answer, history, clientVars>>

\* The caller of PlaceOrder goes away.
Cancel(h) ==
    /\ pc[h] \in {"send", "await"}
    /\ cancelled' = cancelled \cup {h}
    /\ UNCHANGED <<pc, answer, history, clientVars>>

\* Input() <- &msg
Enqueue(s) ==
    /\ pc[s] = "send"
    /\ Len(input) < Capacity
    /\ input' = Append(input, s)
    /\ Goto(s, "await")
    /\ UNCHANGED <<cancelled, answer, history, inflight, successes, errors, failed>>

\* Mutant: the outer ctx.Done() case falls through to the inner select.
CancelledSending_Awaits(h) ==
    /\ pc[h] = "send"
    /\ h \in cancelled
    /\ Goto(h, "await")
    /\ UNCHANGED <<cancelled, answer, history, clientVars>>

\* The outer ctx.Done() case returns.
CancelledSending(h) ==
    /\ pc[h] = "send"
    /\ h \in cancelled
    /\ Goto(h, "done")
    /\ UNCHANGED <<cancelled, answer, history, clientVars>>

\* After the answer a handler reads the flag; a goroutine ends.
Answered(s) == Goto(s, IF s \in Handlers THEN "flag" ELSE "done")

\* <-Successes()
TakeSuccess(s) ==
    /\ pc[s] = "await"
    /\ successes # <<>>
    /\ answer' = [answer EXCEPT ![s] = Head(successes)]
    /\ successes' = Tail(successes)
    /\ Answered(s)
    /\ UNCHANGED <<cancelled, history, input, inflight, errors, failed>>

\* <-Errors(); only handlers wait for errors.
TakeError(h) ==
    /\ pc[h] = "await"
    /\ errors # <<>>
    /\ errors' = Tail(errors)
    /\ Answered(h)
    /\ UNCHANGED <<cancelled, answer, history, input, inflight, successes, failed>>

\* Mutant: the inner select has no ctx.Done() case.
CancelledAwaiting_Ignored(h) == FALSE /\ UNCHANGED vars

\* The inner ctx.Done() case goes on to the flag; the answer stays unread.
CancelledAwaiting(h) ==
    /\ pc[h] = "await"
    /\ h \in cancelled
    /\ Answered(h)
    /\ abandoned' = abandoned \cup {h}
    /\ UNCHANGED <<cancelled, answer, logged, clientVars>>

\* kafkaQueueProblems is zero, or its goroutines are started.
ReadFlag(h) ==
    /\ pc[h] = "flag"
    /\ \E started \in {{}, CopiesOf[h]} :
          pc' = [s \in Senders |-> IF s = h THEN "done"
                                   ELSE IF s \in started THEN "send" ELSE pc[s]]
    /\ UNCHANGED <<cancelled, answer, history, clientVars>>

\* The client (external) reads Input while it has room, and can or cannot
\* produce what it reads ...
ClientTakes ==
    /\ input # <<>>
    /\ Cardinality(inflight) < MaxInflight
    /\ inflight' = inflight \cup {Head(input)}
    /\ input' = Tail(input)
    /\ \/ UNCHANGED failed
       \/ Cardinality(failed) < MaxErrors /\ failed' = failed \cup {Head(input)}
    /\ UNCHANGED <<pc, cancelled, answer, history, successes, errors>>

\* Mutant: Producer.Return.Successes is left FALSE.
ClientProduces_Silently(m) ==
    /\ m \in inflight \ failed
    /\ inflight' = inflight \ {m}
    /\ UNCHANGED <<pc, cancelled, answer, history, input, successes, errors, failed>>

\* ... and returns each message on one of the two channels, if it has room.
\* RequiredAcks is NoResponse: a success is a message written to a socket.
ClientProduces(m) ==
    /\ m \in inflight \ failed
    /\ Len(successes) < Capacity
    /\ inflight' = inflight \ {m}
    /\ successes' = Append(successes, m)
    /\ UNCHANGED <<pc, cancelled, answer, history, input, errors, failed>>

ClientFails(m) ==
    /\ m \in inflight \cap failed
    /\ Len(errors) < Capacity
    /\ inflight' = inflight \ {m}
    /\ errors' = Append(errors, m)
    /\ UNCHANGED <<pc, cancelled, answer, history, input, successes, failed>>

\* The goroutine of CreateKafkaProducer.
LogError ==
    /\ errors # <<>>
    /\ errors' = Tail(errors)
    /\ logged' = logged \cup {Head(errors)}
    /\ UNCHANGED <<abandoned, pc, cancelled, answer, input, inflight, successes, failed>>

Handle(h) ==
    Enqueue(h) \/ CancelledSending(h) \/ TakeSuccess(h) \/ TakeError(h)
    \/ CancelledAwaiting(h) \/ ReadFlag(h)

Copy(c) == Enqueue(c) \/ TakeSuccess(c)

ClientAnswers == \E m \in Senders : ClientProduces(m) \/ ClientFails(m)

Next ==
    \/ \E h \in Handlers : Begin(h) \/ Cancel(h) \/ Handle(h)
    \/ \E c \in Copies : Copy(c)
    \/ ClientTakes
    \/ ClientAnswers
    \/ LogError

\* Goroutines are scheduled.  The client takes messages until it is full, and
\* answers them as long as Successes has room.  When Successes is full, the
\* client may be blocked on it altogether: no answer, not even an error, is
\* assumed until somebody reads a success.
Fairness ==
    /\ \A h \in Handlers : WF_vars(Handle(h))
    /\ \A c \in Copies : WF_vars(Copy(c))
    /\ WF_vars(ClientTakes)
    /\ WF_vars(Len(successes) < Capacity /\ ClientAnswers)
    /\ WF_vars(LogError)

Spec     == Init /\ [][Next]_vars
FairSpec == Spec /\ Fairness

-----------------------------------------------------------------------------
\* Answers that are on their way to the senders
Pending == Len(input) + Cardinality(inflight) + Len(successes) + Len(errors)

Awaiting == {s \in Senders : pc[s] = "await"}

(* A sender waits for an answer that cannot come only because the logging
   goroutine has read an error: cancelled handlers, which leave their answers
   on the channels, take none away from the others. *)
StrandedNeedsLoggedError == Cardinality(Awaiting) <= Pending + Cardinality(logged)

\* What there is room for when nobody reads Successes: the channel itself, the
\* client, and Input.
Room == Capacity + MaxInflight + Capacity

(* The producer is stopped for good, with every channel full and nobody left
   to read an answer, only when so many handlers were cancelled while they
   waited that their unread answers alone fill it. *)
FullNeedsAbandoned ==
    /\ Len(successes) = Capacity
    /\ Cardinality(inflight) = MaxInflight
    /\ Len(input) = Capacity
    /\ Awaiting = {}
    => Room <= Cardinality(abandoned)

(* Every sender gets through sendToPostProcessor, and no goroutine is left
   behind, however the answers are mixed up, unless the logging goroutine
   takes an error away from the handlers or so many handlers are cancelled
   while they wait that their unread answers fill the producer.  Beyond either
   condition a goroutine of kafkaQueueProblems, or a handler whose caller is
   patient, may wait for ever: neither select of theirs has another way out. *)
EverySenderEnds ==
    [](logged = {} /\ Cardinality(abandoned) < Room) =>
        \A s \in Senders : pc[s] = "send" ~> pc[s] = "done"

(* A handler whose caller is gone gets through sendToPostProcessor even when
   the logging goroutine has taken the error it waits for, or when the
   producer is stopped. *)
CancelledHandlerEnds == \A h \in Handlers : h \in cancelled ~> pc[h] = "done"
=============================================================================
