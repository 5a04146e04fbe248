----------------------------- MODULE EventQueue -----------------------------
(***************************************************************************)
(* EventQueue of crates/shared/src/queue.rs: one consumer of one JetStream *)
(* stream.  A service calls consume_events, whose loop takes the messages  *)
(* the server has sent, calls the service's callback with each, and acks   *)
(* or naks it; the server delivers an event again when its ack-wait ends   *)
(* or a nak arrives, three times at most.                                  *)
(*                                                                         *)
(* The server is modelled from how the queue configures it: explicit acks, *)
(* a durable consumer of the events that are new when it is created, and a *)
(* stream of limited age in memory.  What the callback does is left open:  *)
(* it returns Ok or Err.                                                   *)
(*                                                                         *)
(* A definition A_B is A with the bug B.  No specification uses it; the    *)
(* project file names the property that fails when it replaces A.          *)
(***************************************************************************)
EXTENDS Naturals, Sequences, FiniteSets

CONSTANTS
  Event,       \* events somebody publishes, each once
  Garbage,     \* those whose payload cannot be parsed
  MaxDeliver,  \* max_deliver of the consumer
  Prefetch,    \* messages the client buffers
  Nothing,     \* no delivery
  MaxFaults    \* bound: crashes, receive errors, failed set-ups, events that age

ASSUME QueueAssumption ==
  /\ Garbage \subseteq Event
  /\ MaxDeliver \in Nat \ {0} /\ Prefetch \in Nat \ {0} /\ MaxFaults \in Nat
  /\ Nothing \notin Event \X (1 .. MaxDeliver)

VARIABLES
  stream,     \* the stream exists
  consumer,   \* the durable consumer exists
  log,        \* events the stream took, in order
  state,      \* of each event, at the server
  delivered,  \* how often the server has delivered each event
  inbox,      \* deliveries <<event, number>> the client buffers
  pc,         \* where the service's loop is
  current,    \* the delivery it handles
  replies,    \* acks and naks on their way, for ever if they get lost
  taken,      \* history: deliveries the loop has taken
  succeeded,  \* history: events of which a call returned Ok
  faults      \* faults so far

serverVars == <<stream, consumer, log, state, delivered>>
clientVars == <<inbox, pc, current>>
historyVars == <<taken, succeeded>>
vars == <<serverVars, clientVars, replies, historyVars, faults>>

\* "refused": no stream.  "missed": no consumer.  "out": the ack-wait is running.
\* "spent": delivered MaxDeliver times.  "aged": discarded by the stream.
States == {"unpublished", "refused", "missed", "ready", "out", "done", "spent", "aged"}
Handling == {"call", "ack", "nak"}
Open == {"idle"} \cup Handling
Locations == {"down", "setup", "dead", "closed"} \cup Open
Deliveries == Event \X (1 .. MaxDeliver)

TypeOK ==
  /\ stream \in BOOLEAN /\ consumer \in BOOLEAN
  /\ log \in Seq(Event)
  /\ state \in [Event -> States]
  /\ delivered \in [Event -> 0 .. MaxDeliver]
  /\ inbox \in Seq(Deliveries) /\ Len(inbox) <= Prefetch
  /\ pc \in Locations
  /\ IF pc \in Handling THEN current \in Deliveries ELSE current = Nothing
  /\ replies \subseteq Event \X {"ack", "nak"}
  /\ taken \subseteq Deliveries /\ succeeded \subseteq Event
  /\ faults \in 0 .. MaxFaults

Init ==
  /\ stream = FALSE /\ consumer = FALSE
  /\ log = <<>>
  /\ state = [e \in Event |-> "unpublished"]
  /\ delivered = [e \in Event |-> 0]
  /\ inbox = <<>> /\ pc = "down" /\ current = Nothing
  /\ replies = {} /\ taken = {} /\ succeeded = {}
  /\ faults = 0

Becomes(e, s) == state' = [state EXCEPT ![e] = s]

Fault == faults < MaxFaults /\ faults' = faults + 1

-----------------------------------------------------------------------------
(* Steps with a bug. *)

\* The newest message first.
Take_Newest ==
  /\ pc = "idle" /\ inbox # <<>>
  /\ LET d == inbox[Len(inbox)]
     IN  /\ pc' = IF d[1] \in Garbage THEN "ack" ELSE "call"
         /\ taken' = taken \cup {d}
         /\ current' = d
  /\ inbox' = SubSeq(inbox, 1, Len(inbox) - 1)
  /\ UNCHANGED <<serverVars, replies, succeeded, faults>>

\* A failed event is acked.
CallFails_Acks ==
  /\ pc = "call"
  /\ pc' = "ack"
  /\ UNCHANGED <<serverVars, inbox, current, replies, historyVars, faults>>

\* A payload that cannot be parsed ends the loop.
Take_StopsOnGarbage ==
  /\ pc = "idle" /\ inbox # <<>>
  /\ Head(inbox)[1] \notin Garbage
  /\ pc' = "call" /\ taken' = taken \cup {Head(inbox)}
  /\ current' = Head(inbox) /\ inbox' = Tail(inbox)
  /\ UNCHANGED <<serverVars, replies, succeeded, faults>>

\* A failed event ends the message stream, as a receive error does.
Reply_Reopens ==
  /\ pc \in {"ack", "nak"}
  /\ replies' = replies \cup {<<current[1], pc>>}
  /\ IF pc = "nak"
     THEN pc' = "closed" /\ inbox' = <<>>
     ELSE pc' = "idle" /\ UNCHANGED inbox
  /\ current' = Nothing
  /\ UNCHANGED <<serverVars, historyVars, faults>>

-----------------------------------------------------------------------------
(* The service's task: set-up, then the loop of consume_events. *)

\* ensure_stream creates the stream or finds it.
EnsureStream ==
  /\ pc = "down"
  /\ stream' = TRUE
  /\ pc' = "setup"
  /\ UNCHANGED <<consumer, log, state, delivered, inbox, current, replies, historyVars, faults>>

\* The consumer is durable: creating it again finds it as it was.
CreateConsumer ==
  /\ pc = "setup"
  /\ consumer' = TRUE
  /\ pc' = "closed"
  /\ UNCHANGED <<stream, log, state, delivered, inbox, current, replies, historyVars, faults>>

\* Either step fails: consume_events returns, and its task ends.
SetupFails ==
  /\ pc \in {"down", "setup"}
  /\ Fault
  /\ pc' = "dead"
  /\ UNCHANGED <<serverVars, inbox, current, replies, historyVars>>

\* consumer.messages(); a failure is tried again after a second.
OpenMessages ==
  /\ pc = "closed"
  /\ pc' = "idle"
  /\ UNCHANGED <<serverVars, inbox, current, replies, historyVars, faults>>

\* The next message; what cannot be parsed is acked unseen.
Take ==
  /\ pc = "idle" /\ inbox # <<>>
  /\ pc' = IF Head(inbox)[1] \in Garbage THEN "ack" ELSE "call"
  /\ taken' = taken \cup {Head(inbox)}
  /\ current' = Head(inbox) /\ inbox' = Tail(inbox)
  /\ UNCHANGED <<serverVars, replies, succeeded, faults>>

CallSucceeds ==
  /\ pc = "call"
  /\ succeeded' = succeeded \cup {current[1]}
  /\ pc' = "ack"
  /\ UNCHANGED <<serverVars, inbox, current, replies, taken, faults>>

CallFails ==
  /\ pc = "call"
  /\ pc' = "nak"
  /\ UNCHANGED <<serverVars, inbox, current, replies, historyVars, faults>>

\* The reply goes out, or fails to; either way the loop goes on.
Reply ==
  /\ pc \in {"ack", "nak"}
  /\ replies' \in {replies, replies \cup {<<current[1], pc>>}}
  /\ pc' = "idle" /\ current' = Nothing
  /\ UNCHANGED <<serverVars, inbox, historyVars, faults>>

\* The message stream returns an error or ends: it is dropped with what it has
\* buffered, and opened anew.
ReceiveError ==
  /\ pc = "idle"
  /\ Fault
  /\ pc' = "closed" /\ inbox' = <<>>
  /\ UNCHANGED <<serverVars, current, replies, historyVars>>

\* The process ends anywhere and is started again.
Crash ==
  /\ pc # "down"
  /\ Fault
  /\ pc' = "down" /\ inbox' = <<>> /\ current' = Nothing
  /\ UNCHANGED <<serverVars, replies, historyVars>>

-----------------------------------------------------------------------------
(* publish_event of some service.  The publisher waits for the stream's answer, *)
(* and gets an error when no stream has the subject.                            *)

Publish(e) ==
  /\ state[e] = "unpublished"
  /\ IF stream
     THEN Becomes(e, IF consumer THEN "ready" ELSE "missed") /\ log' = Append(log, e)
     ELSE Becomes(e, "refused") /\ UNCHANGED log
  /\ UNCHANGED <<stream, consumer, delivered, clientVars, replies, historyVars, faults>>

-----------------------------------------------------------------------------
(* The server. *)

NeverDelivered == {e \in Event : state[e] = "ready" /\ delivered[e] = 0}

\* New events in the order of the stream; an event to be delivered again goes
\* before or after them.
Deliver(e) ==
  /\ pc \in Open /\ Len(inbox) < Prefetch
  /\ state[e] = "ready" /\ delivered[e] < MaxDeliver
  /\ e \in NeverDelivered =>
       \E i \in DOMAIN log : log[i] = e /\ \A j \in 1 .. i - 1 : log[j] \notin NeverDelivered
  /\ delivered' = [delivered EXCEPT ![e] = @ + 1]
  /\ inbox' = Append(inbox, <<e, delivered[e] + 1>>)
  /\ Becomes(e, "out")
  /\ UNCHANGED <<stream, consumer, log, pc, current, replies, historyVars, faults>>

GiveUp(e) ==
  /\ state[e] = "ready" /\ delivered[e] = MaxDeliver
  /\ Becomes(e, "spent")
  /\ UNCHANGED <<stream, consumer, log, delivered, clientVars, replies, historyVars, faults>>

\* ack_wait: thirty seconds without an ack, whether the message is in a buffer, in
\* the callback's hands or forgotten.
AckWaitEnds(e) ==
  /\ state[e] = "out"
  /\ Becomes(e, "ready")
  /\ UNCHANGED <<stream, consumer, log, delivered, clientVars, replies, historyVars, faults>>

\* An ack settles its event whichever delivery it is for.
ReceiveAck(e) ==
  /\ <<e, "ack">> \in replies
  /\ replies' = replies \ {<<e, "ack">>}
  /\ IF state[e] \in {"ready", "out"} THEN Becomes(e, "done") ELSE UNCHANGED state
  /\ UNCHANGED <<stream, consumer, log, delivered, clientVars, historyVars, faults>>

ReceiveNak(e) ==
  /\ <<e, "nak">> \in replies
  /\ replies' = replies \ {<<e, "nak">>}
  /\ IF state[e] = "out" THEN Becomes(e, "ready") ELSE UNCHANGED state
  /\ UNCHANGED <<stream, consumer, log, delivered, clientVars, historyVars, faults>>

\* max_age, max_messages, max_bytes.
Age(e) ==
  /\ state[e] \in {"ready", "out"}
  /\ Fault
  /\ Becomes(e, "aged")
  /\ UNCHANGED <<stream, consumer, log, delivered, clientVars, replies, historyVars>>

-----------------------------------------------------------------------------

Setup == EnsureStream \/ CreateConsumer \/ OpenMessages
Call == CallSucceeds \/ CallFails
Failure == SetupFails \/ ReceiveError \/ Crash
Loop == Take \/ Call \/ Reply
Server(e) ==
  Deliver(e) \/ GiveUp(e) \/ AckWaitEnds(e) \/ ReceiveAck(e) \/ ReceiveNak(e) \/ Age(e)

Next ==
  \/ Setup \/ Loop \/ Failure
  \/ \E e \in Event : Publish(e) \/ Server(e)

Spec == Init /\ [][Next]_vars

\* The service's task runs, its callback returns, the server delivers what it may
\* and its timers fire.  Nothing obliges anybody to publish, or a reply to arrive.
FairSpec ==
  /\ Spec
  /\ WF_vars(Setup) /\ WF_vars(Loop)
  /\ \A e \in Event : WF_vars(Deliver(e)) /\ WF_vars(GiveUp(e)) /\ WF_vars(AckWaitEnds(e))

-----------------------------------------------------------------------------

\* Delivery without the server and its messages.
PhaseOf(s) ==
  CASE s = "unpublished" -> "unknown"
    [] s \in {"ready", "out"} -> "open"
    [] s = "done" -> "settled"
    [] OTHER -> "dropped"

Phase == [e \in Event |-> PhaseOf(state[e])]
Begun == {d \in taken : d[1] \notin Garbage}

Promise == INSTANCE Delivery WITH phase <- Phase, begun <- Begun

\* Through crashes, lost buffers, lost and late replies, an event is attempted at
\* most MaxDeliver times, and settled only after an attempt succeeded or because
\* its payload cannot be parsed.
KeepsPromise == Promise!Spec

Taken(e) == \E n \in 1 .. MaxDeliver : <<e, n>> \in taken
Held(e) == \E n \in 1 .. MaxDeliver : \E i \in DOMAIN inbox : inbox[i] = <<e, n>>

\* A delivery is in one place: once in the buffer, or taken by the loop; and the
\* server has made it.
OnePlace ==
  /\ \A i, j \in DOMAIN inbox : inbox[i] = inbox[j] => i = j
  /\ \A i \in DOMAIN inbox : inbox[i] \notin taken
  /\ \A d \in taken \cup {inbox[i] : i \in DOMAIN inbox} : d[2] <= delivered[d[1]]

\* As long as nothing fails, no event the stream took is given up before the loop
\* has taken it, or has it in its buffer.  (A receive error falsifies it: the
\* buffer may hold the last delivery of an event never taken.)
NothingGivenUpUnseen ==
  faults = 0 => \A e \in Event : state[e] = "spent" => Taken(e) \/ Held(e)

Before(e, f) == \E i, j \in DOMAIN log : i < j /\ log[i] = e /\ log[j] = f

\* As long as nothing fails, first attempts are made in the order in which the
\* stream took the events, whatever is delivered again in between.
FirstAttemptsInOrder ==
  [][\A f \in Event : ~Taken(f) /\ Taken(f)' /\ faults = 0 =>
       \A e \in Event : Before(e, f) => Taken(e) \/ state[e] = "missed"]_vars

\* An event the consumer is to see is settled, given up after MaxDeliver
\* deliveries or too old, unless the service has stopped consuming for good.
AcceptedIsSettled ==
  \A e \in Event : state[e] = "ready" ~> state[e] \in {"done", "spent", "aged"} \/ pc = "dead"

=============================================================================
