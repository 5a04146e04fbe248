-------------------------- MODULE EventQueueProofs --------------------------
(***************************************************************************)
(* Proofs about EventQueue, for every set of events and every value of the *)
(* bounds: its type invariant, that a delivery is in one place, that it    *)
(* implements Delivery, and that without faults no event is given up       *)
(* unseen and first attempts are made in the order of the stream.  Then    *)
(* about what events carry (FrameCompat): a frame that crosses as an event *)
(* means what it meant, and one made of an event crosses unchanged.        *)
(***************************************************************************)
EXTENDS EventQueue, FrameCompat, SequenceTheorems, TLAPS

\* The callback is called with what was taken and can be parsed.
CallTaken == pc = "call" => current \in taken /\ current[1] \notin Garbage

\* An ack, sent or to be sent, is for an event that succeeded or cannot be parsed.
AckEarned ==
  /\ pc = "ack" => current[1] \in succeeded \cup Garbage
  /\ \A e \in Event : <<e, "ack">> \in replies => e \in succeeded \cup Garbage

\* The server delivers what was published.
DeliveredKnown == \A e \in Event : delivered[e] > 0 => state[e] # "unpublished"

PlaceInv == TypeOK /\ OnePlace /\ CallTaken
Inv == PlaceInv /\ AckEarned /\ DeliveredKnown

-----------------------------------------------------------------------------

\* The type invariant holds in every reachable state.
THEOREM TypeCorrect == Spec => []TypeOK
<1> USE QueueAssumption DEF TypeOK, States, Handling, Open, Locations
<1>1. Init => TypeOK
  <2> SUFFICES ASSUME Init PROVE TypeOK
    OBVIOUS
  <2>1. log \in Seq(Event) /\ inbox \in Seq(Deliveries) /\ Len(inbox) <= Prefetch
    BY EmptySeq DEF Init
  <2>2. state \in [Event -> States] /\ delivered \in [Event -> 0 .. MaxDeliver]
    BY DEF Init
  <2>3. /\ stream \in BOOLEAN /\ consumer \in BOOLEAN
        /\ pc \in Locations \ Handling /\ current = Nothing
        /\ replies = {} /\ taken = {} /\ succeeded = {}
    BY DEF Init
  <2>4. faults \in 0 .. MaxFaults
    BY DEF Init
  <2> QED
    BY <2>1, <2>2, <2>3, <2>4
<1>2. TypeOK /\ [Next]_vars => TypeOK'
  <2> SUFFICES ASSUME TypeOK, [Next]_vars PROVE TypeOK'
    OBVIOUS
  <2> USE DEF serverVars, clientVars, historyVars
  <2>1. CASE Setup
    BY <2>1 DEF Setup, EnsureStream, CreateConsumer, OpenMessages
  <2>2. CASE Take
    <3>1. Head(inbox) \in Deliveries /\ Tail(inbox) \in Seq(Deliveries)
          /\ Len(Tail(inbox)) <= Prefetch
      BY <2>2, HeadTailProperties DEF Take
    <3> QED
      BY <2>2, <3>1 DEF Take
  <2>3. CASE Call
    BY <2>3 DEF Call, CallSucceeds, CallFails, Deliveries
  <2>4. CASE Reply
    BY <2>4 DEF Reply, Deliveries
  <2>5. CASE Failure
    <3>1. <<>> \in Seq(Deliveries) /\ Len(<<>>) = 0
      BY EmptySeq
    <3>2. CASE SetupFails
      BY <3>2 DEF SetupFails, Fault
    <3>3. CASE ReceiveError \/ Crash
      <4>1. inbox' = <<>>
        BY <3>3 DEF ReceiveError, Crash
      <4>2. pc' \in Locations \ Handling /\ current' = Nothing /\ faults' \in 0 .. MaxFaults
        BY <3>3 DEF ReceiveError, Crash, Fault
      <4> QED
        BY <3>1, <3>3, <4>1, <4>2 DEF ReceiveError, Crash
    <3> QED
      BY <2>5, <3>2, <3>3 DEF Failure
  <2>6. ASSUME NEW e \in Event, Publish(e) PROVE TypeOK'
    <3>1. Append(log, e) \in Seq(Event)
      BY AppendProperties
    <3> QED
      BY <2>6, <3>1 DEF Publish, Becomes
  <2>7. ASSUME NEW e \in Event, Server(e) PROVE TypeOK'
    <3>1. CASE Deliver(e)
      <4>1. <<e, delivered[e] + 1>> \in Deliveries
        BY <3>1 DEF Deliver, Deliveries
      <4>2. inbox' \in Seq(Deliveries) /\ Len(inbox') <= Prefetch
        BY <3>1, <4>1, AppendProperties DEF Deliver
      <4> QED
        BY <3>1, <4>2 DEF Deliver, Becomes
    <3>2. CASE GiveUp(e) \/ AckWaitEnds(e)
      BY <3>2 DEF GiveUp, AckWaitEnds, Becomes
    <3>4. CASE Age(e)
      BY <3>4 DEF Age, Becomes, Fault
    <3>3. CASE ReceiveAck(e) \/ ReceiveNak(e)
      BY <3>3 DEF ReceiveAck, ReceiveNak, Becomes
    <3> QED
      BY <2>7, <3>1, <3>2, <3>3, <3>4 DEF Server
  <2>8. CASE UNCHANGED vars
    BY <2>8 DEF vars
  <2> QED
    BY <2>1, <2>2, <2>3, <2>4, <2>5, <2>6, <2>7, <2>8 DEF Next, Loop
<1> QED
  BY <1>1, <1>2, PTL DEF Spec

-----------------------------------------------------------------------------

LEMMA TakenInbox ==
  ASSUME TypeOK, inbox # <<>>
  PROVE  /\ Head(inbox) = inbox[1] /\ 1 \in DOMAIN inbox /\ inbox[1] \in Deliveries
         /\ \A i \in DOMAIN Tail(inbox) :
              i + 1 \in DOMAIN inbox /\ i + 1 # 1 /\ Tail(inbox)[i] = inbox[i + 1]
<1>1. inbox \in Seq(Deliveries)
  BY DEF TypeOK
<1>2. Len(inbox) \in Nat \ {0} /\ DOMAIN inbox = 1 .. Len(inbox)
  BY <1>1, EmptySeq, LenProperties
<1>3. /\ Tail(inbox) \in Seq(Deliveries) /\ Len(Tail(inbox)) = Len(inbox) - 1
      /\ \A i \in 1 .. Len(Tail(inbox)) : Tail(inbox)[i] = inbox[i + 1]
      /\ Head(inbox) = inbox[1]
  BY <1>1, HeadTailProperties
<1>4. DOMAIN Tail(inbox) = 1 .. Len(Tail(inbox))
  BY <1>3, LenProperties
<1>5. inbox[1] \in Deliveries
  BY <1>1, <1>2, ElementOfSeq
<1> QED
  BY <1>2, <1>3, <1>4, <1>5

LEMMA LongerInbox ==
  ASSUME TypeOK, NEW d
  PROVE  \A i \in DOMAIN Append(inbox, d) :
           \/ i \in DOMAIN inbox /\ Append(inbox, d)[i] = inbox[i]
           \/ i = Len(inbox) + 1 /\ Append(inbox, d)[i] = d
<1>1. inbox \in Seq(Deliveries \cup {d}) /\ d \in Deliveries \cup {d}
  BY DEF TypeOK
<1> QED
  BY <1>1, AppendProperties, LenProperties

\* A delivery in the inbox is one the server has made.
LEMMA InboxDelivered ==
  ASSUME TypeOK, OnePlace, NEW i \in DOMAIN inbox
  PROVE  inbox[i] \in Deliveries /\ inbox[i][2] <= delivered[inbox[i][1]]
<1>1. inbox[i] \in Deliveries
  BY ElementOfSeq, LenProperties DEF TypeOK
<1>2. inbox[i][2] <= delivered[inbox[i][1]]
  BY DEF OnePlace
<1> QED
  BY <1>1, <1>2

LEMMA NextPlace ==
  TypeOK /\ OnePlace /\ [Next]_vars => OnePlace'
<1> SUFFICES ASSUME TypeOK, OnePlace, [Next]_vars PROVE OnePlace'
  OBVIOUS
<1> USE DEF serverVars, clientVars, historyVars
<1>1. CASE Take
  <2>1. /\ inbox # <<>> /\ inbox' = Tail(inbox) /\ taken' = taken \cup {inbox[1]}
        /\ delivered' = delivered
    BY <1>1, TakenInbox DEF Take
  <2>2. inbox[1] \in Deliveries /\ inbox[1][2] <= delivered[inbox[1][1]]
    BY <2>1, TakenInbox, InboxDelivered
  <2>3. \A i \in DOMAIN inbox' : i + 1 \in DOMAIN inbox /\ i + 1 # 1 /\ inbox'[i] = inbox[i + 1]
    BY <2>1, TakenInbox
  <2>4. \A i, j \in DOMAIN inbox' : inbox'[i] = inbox'[j] => i = j
    <3> TAKE i, j \in DOMAIN inbox'
    <3>1. inbox'[i] = inbox'[j] => i + 1 = j + 1
      BY <2>3 DEF OnePlace
    <3>2. i \in Nat /\ j \in Nat
      BY <2>1, HeadTailProperties, LenProperties DEF TypeOK
    <3> QED
      BY <3>1, <3>2
  <2>5. \A i \in DOMAIN inbox' : inbox'[i] \notin taken'
    <3> TAKE i \in DOMAIN inbox'
    <3>1. inbox[i + 1] # inbox[1] /\ inbox[i + 1] \notin taken
      BY <2>1, <2>3, TakenInbox DEF OnePlace
    <3> QED
      BY <2>1, <2>3, <3>1
  <2>6. \A i \in DOMAIN inbox' : inbox'[i][2] <= delivered[inbox'[i][1]]
    BY <2>3, InboxDelivered
  <2>7. \A d \in taken' : d[2] <= delivered[d[1]]
    BY <2>1, <2>2 DEF OnePlace
  <2> QED
    BY <2>1, <2>4, <2>5, <2>6, <2>7 DEF OnePlace
<1>2. ASSUME NEW e \in Event, Deliver(e) PROVE OnePlace'
  <2> DEFINE d == <<e, delivered[e] + 1>>
  <2>1. /\ inbox' = Append(inbox, d) /\ delivered' = [delivered EXCEPT ![e] = @ + 1]
        /\ taken' = taken
    BY <1>2 DEF Deliver
  <2>2. \A f \in Event : delivered[f] \in Nat /\ delivered'[f] \in Nat
                        /\ delivered[f] <= delivered'[f]
    BY <2>1 DEF TypeOK
  <2>3. delivered'[e] = delivered[e] + 1
    BY <2>1 DEF TypeOK
  <2>4. \A i \in DOMAIN inbox : inbox[i] # d
    BY <2>2, InboxDelivered
  <2>5. d \notin taken
    BY <2>2 DEF OnePlace
  <2>7. \A i \in DOMAIN inbox' : \/ i \in DOMAIN inbox /\ inbox'[i] = inbox[i]
                                 \/ i = Len(inbox) + 1 /\ inbox'[i] = d
    BY <2>1, LongerInbox
  <2>8. \A i, j \in DOMAIN inbox' : inbox'[i] = inbox'[j] => i = j
    BY <2>4, <2>7 DEF OnePlace
  <2>9. \A i \in DOMAIN inbox' : inbox'[i] \notin taken'
    BY <2>1, <2>5, <2>7 DEF OnePlace
  <2>10. \A i \in DOMAIN inbox' : inbox'[i][2] <= delivered'[inbox'[i][1]]
    <3> TAKE i \in DOMAIN inbox'
    <3>1. CASE inbox'[i] = d
      BY <3>1, <2>3, <2>2
    <3>2. CASE i \in DOMAIN inbox /\ inbox'[i] = inbox[i]
      <4>1. inbox[i] \in Deliveries /\ inbox[i][2] <= delivered[inbox[i][1]]
        BY <3>2, InboxDelivered
      <4> QED
        BY <3>2, <4>1, <2>2 DEF Deliveries
    <3> QED
      BY <2>7, <3>1, <3>2
  <2>11. \A b \in taken' : b[2] <= delivered'[b[1]]
    <3> TAKE b \in taken'
    <3>1. b \in Deliveries /\ b[2] <= delivered[b[1]]
      BY <2>1 DEF OnePlace, TypeOK
    <3> QED
      BY <3>1, <2>2 DEF Deliveries
  <2> QED
    BY <2>8, <2>9, <2>10, <2>11 DEF OnePlace
<1>3. CASE ReceiveError \/ Crash
  <2>1. inbox' = <<>> /\ DOMAIN <<>> = {} /\ UNCHANGED <<taken, delivered>>
    BY <1>3 DEF ReceiveError, Crash
  <2> QED
    BY <2>1 DEF OnePlace
<1>4. CASE UNCHANGED <<inbox, taken, delivered>>
  BY <1>4 DEF OnePlace
<1> QED
  <2>1. CASE Setup \/ Call \/ Reply \/ SetupFails
    BY <2>1, <1>4 DEF Setup, EnsureStream, CreateConsumer, OpenMessages, Call, CallSucceeds,
                      CallFails, Reply, SetupFails
  <2>2. ASSUME NEW e \in Event,
               Publish(e) \/ GiveUp(e) \/ AckWaitEnds(e) \/ ReceiveAck(e) \/ ReceiveNak(e) \/ Age(e)
        PROVE  OnePlace'
    BY <2>2, <1>4 DEF Publish, GiveUp, AckWaitEnds, ReceiveAck, ReceiveNak, Age
  <2>3. CASE UNCHANGED vars
    BY <2>3, <1>4 DEF vars
  <2> QED
    BY <1>1, <1>2, <1>3, <2>1, <2>2, <2>3 DEF Next, Loop, Failure, Server

LEMMA InitPlace == Init => OnePlace
<1> SUFFICES ASSUME Init PROVE OnePlace
  OBVIOUS
<1>1. DOMAIN inbox = {} /\ taken = {}
  BY DEF Init
<1> QED
  BY <1>1 DEF OnePlace

\* A delivery is in one place, whatever is lost or delivered again.
THEOREM DeliveriesInOnePlace == Spec => []OnePlace
  BY InitPlace, NextPlace, TypeCorrect, PTL DEF Spec

-----------------------------------------------------------------------------

LEMMA NextCall == TypeOK /\ CallTaken /\ [Next]_vars => CallTaken'
<1> SUFFICES ASSUME TypeOK, CallTaken, [Next]_vars PROVE CallTaken'
  OBVIOUS
<1> USE DEF serverVars, clientVars, historyVars, CallTaken
<1>1. CASE Loop
  BY <1>1 DEF Loop, Take, Call, CallSucceeds, CallFails, Reply
<1>2. CASE Setup \/ Failure
  BY <1>2 DEF Setup, EnsureStream, CreateConsumer, OpenMessages, Failure, SetupFails,
              ReceiveError, Crash
<1>3. ASSUME NEW e \in Event, Publish(e) \/ Server(e) PROVE CallTaken'
  BY <1>3 DEF Publish, Server, Deliver, GiveUp, AckWaitEnds, ReceiveAck, ReceiveNak, Age
<1>4. CASE UNCHANGED vars
  BY <1>4 DEF vars
<1> QED
  BY <1>1, <1>2, <1>3, <1>4 DEF Next

LEMMA NextEarned == TypeOK /\ AckEarned /\ [Next]_vars => AckEarned'
<1> SUFFICES ASSUME TypeOK, AckEarned, [Next]_vars PROVE AckEarned'
  OBVIOUS
<1> USE DEF serverVars, clientVars, historyVars, AckEarned
<1>1. CASE Take
  BY <1>1 DEF Take
<1>2. CASE Call
  BY <1>2 DEF Call, CallSucceeds, CallFails
<1>3. CASE Reply
  BY <1>3 DEF Reply
<1>4. CASE Setup \/ Failure
  BY <1>4 DEF Setup, EnsureStream, CreateConsumer, OpenMessages,
              Failure, SetupFails, ReceiveError, Crash
<1>5. ASSUME NEW e \in Event, Publish(e) \/ Server(e) PROVE AckEarned'
  BY <1>5 DEF Publish, Server, Deliver, GiveUp, AckWaitEnds, ReceiveAck, ReceiveNak, Age
<1>6. CASE UNCHANGED vars
  BY <1>6 DEF vars
<1> QED
  BY <1>1, <1>2, <1>3, <1>4, <1>5, <1>6 DEF Next, Loop

LEMMA NextKnown ==
  TypeOK /\ DeliveredKnown /\ [Next]_vars => DeliveredKnown'
<1> SUFFICES ASSUME TypeOK, DeliveredKnown, [Next]_vars PROVE DeliveredKnown'
  OBVIOUS
<1> USE DEF serverVars, DeliveredKnown, Becomes
<1>1. CASE Setup \/ Loop \/ Failure
  BY <1>1 DEF Setup, EnsureStream, CreateConsumer, OpenMessages, Loop, Take, Call,
              CallSucceeds, CallFails, Reply, Failure, SetupFails, ReceiveError, Crash
<1>2. ASSUME NEW e \in Event, Publish(e) PROVE DeliveredKnown'
  BY <1>2 DEF Publish, TypeOK
<1>3. ASSUME NEW e \in Event, Server(e) PROVE DeliveredKnown'
  BY <1>3 DEF Server, Deliver, GiveUp, AckWaitEnds, ReceiveAck, ReceiveNak, Age, TypeOK
<1>4. CASE UNCHANGED vars
  BY <1>4 DEF vars
<1> QED
  BY <1>1, <1>2, <1>3, <1>4 DEF Next

-----------------------------------------------------------------------------

\* What a step does to an event at the server, seen as a phase.
LEMMA PhaseMoves ==
  ASSUME TypeOK, NEW e \in Event, NEW s \in States, Becomes(e, s)
  PROVE  Phase' = [Phase EXCEPT ![e] = PhaseOf(s)]
  BY DEF Phase, PhaseOf, Becomes, TypeOK, States

LEMMA PhaseStays ==
  ASSUME UNCHANGED state
  PROVE  Phase' = Phase
  BY DEF Phase, PhaseOf

LEMMA PhaseRests ==
  ASSUME TypeOK, NEW e \in Event, NEW s \in States, Becomes(e, s),
         PhaseOf(state[e]) = PhaseOf(s)
  PROVE  Phase' = Phase
  BY PhaseMoves DEF Phase

LEMMA BegunStays == taken' = taken => Begun' = Begun
  BY DEF Begun

LEMMA NextPromised == Inv /\ [Next]_vars => [Promise!Next]_Promise!vars
<1> SUFFICES ASSUME Inv, [Next]_vars PROVE [Promise!Next]_Promise!vars
  OBVIOUS
<1> USE DEF serverVars, clientVars, historyVars, Promise!vars
<1>0. TypeOK /\ OnePlace /\ CallTaken /\ AckEarned /\ DeliveredKnown
      /\ (taken' = taken => Begun' = Begun)
  BY BegunStays DEF Inv, PlaceInv
<1>1. CASE Setup \/ Failure \/ CallFails \/ Reply
  BY <1>0, <1>1, PhaseStays
  DEF Setup, EnsureStream, CreateConsumer, OpenMessages, CallFails, Reply,
      Failure, SetupFails, ReceiveError, Crash
<1>2. CASE Take
  <2>1. inbox # <<>> /\ Head(inbox) = inbox[1] /\ 1 \in DOMAIN inbox
        /\ UNCHANGED <<state, succeeded, delivered>>
    BY <1>0, <1>2, TakenInbox DEF Take
  <2>2. CASE inbox[1][1] \in Garbage
    <3>1. Begun' = Begun
      BY <1>2, <2>1, <2>2 DEF Take, Begun
    <3> QED
      BY <2>1, <3>1, PhaseStays
  <2>3. CASE inbox[1][1] \notin Garbage
    <3>1. PICK e \in Event, n \in 1 .. MaxDeliver : inbox[1] = <<e, n>>
      BY <1>0, <2>1, InboxDelivered DEF Deliveries
    <3>2. n <= delivered[e] /\ delivered[e] \in Nat
      BY <1>0, <2>1, <3>1, InboxDelivered DEF TypeOK
    <3>3. state[e] # "unpublished"
      BY <1>0, <3>2 DEF DeliveredKnown
    <3>4. Phase[e] # "unknown"
      BY <3>3 DEF Phase, PhaseOf
    <3>5. <<e, n>> \notin Begun
      BY <1>0, <2>1, <3>1 DEF OnePlace, Begun
    <3>6. Begun' = Begun \cup {<<e, n>>}
      BY <1>2, <2>1, <2>3, <3>1 DEF Take, Begun
    <3>7. Promise!Attempt(e, n)
      BY <2>1, <2>3, <3>1, <3>4, <3>5, <3>6, PhaseStays DEF Promise!Attempt
    <3> QED
      BY <3>7 DEF Promise!Next
  <2> QED
    BY <2>2, <2>3
<1>3. CASE CallSucceeds
  <2>0. current \in Deliveries /\ current \in Begun
    BY <1>0, <1>3 DEF CallSucceeds, CallTaken, TypeOK, Handling, Begun
  <2>1. PICK e \in Event, n \in 1 .. MaxDeliver : current = <<e, n>> /\ <<e, n>> \in Begun
    BY <2>0 DEF Deliveries
  <2>2. Begun' = Begun
    BY <1>3 DEF CallSucceeds, Begun
  <2>3. Promise!Succeed(e)
    BY <1>3, <2>1, <2>2, PhaseStays DEF CallSucceeds, Promise!Succeed
  <2> QED
    BY <2>3 DEF Promise!Next
<1>4. ASSUME NEW e \in Event, Publish(e) PROVE Promise!Next
  <2>1. Phase[e] = "unknown" /\ UNCHANGED <<Begun, succeeded>>
    BY <1>0, <1>4 DEF Publish, Phase, PhaseOf
  <2>2. CASE Becomes(e, "ready")
    <3>1. Phase' = [Phase EXCEPT ![e] = "open"]
      BY <1>0, <2>2, PhaseMoves DEF PhaseOf, States
    <3> QED
      BY <2>1, <3>1 DEF Promise!Next, Promise!Accept, Promise!Move
  <2>3. CASE Becomes(e, "missed") \/ Becomes(e, "refused")
    <3>1. Phase' = [Phase EXCEPT ![e] = "dropped"]
      BY <1>0, <2>3, PhaseMoves DEF PhaseOf, States
    <3> QED
      BY <2>1, <3>1 DEF Promise!Next, Promise!Refuse, Promise!Move
  <2> QED
    BY <1>4, <2>2, <2>3 DEF Publish
<1>5. ASSUME NEW e \in Event, Server(e) PROVE [Promise!Next]_Promise!vars
  <2>1. CASE Deliver(e)
    BY <1>0, <2>1, PhaseRests DEF Deliver, PhaseOf, States
  <2>2. CASE AckWaitEnds(e)
    BY <1>0, <2>2, PhaseRests DEF AckWaitEnds, PhaseOf, States
  <2>3. CASE ReceiveNak(e)
    <3>1. CASE Becomes(e, "ready") /\ state[e] = "out"
      BY <1>0, <2>3, <3>1, PhaseRests DEF ReceiveNak, PhaseOf, States
    <3>2. CASE UNCHANGED state
      BY <1>0, <2>3, <3>2, PhaseStays DEF ReceiveNak
    <3> QED
      BY <2>3, <3>1, <3>2 DEF ReceiveNak
  <2>4. CASE GiveUp(e) \/ Age(e)
    <3>1. Phase[e] = "open" /\ UNCHANGED <<Begun, succeeded>>
      BY <1>0, <2>4 DEF GiveUp, Age, Phase, PhaseOf
    <3>2. Phase' = [Phase EXCEPT ![e] = "dropped"]
      BY <1>0, <2>4, PhaseMoves DEF GiveUp, Age, PhaseOf, States
    <3> QED
      BY <3>1, <3>2 DEF Promise!Next, Promise!Drop, Promise!Move
  <2>5. CASE ReceiveAck(e)
    <3>1. CASE UNCHANGED state
      BY <1>0, <2>5, <3>1, PhaseStays DEF ReceiveAck
    <3>2. CASE Becomes(e, "done") /\ state[e] \in {"ready", "out"}
      <4>1. Phase[e] = "open" /\ UNCHANGED <<Begun, succeeded>>
        BY <1>0, <2>5, <3>2 DEF ReceiveAck, Phase, PhaseOf
      <4>2. Phase' = [Phase EXCEPT ![e] = "settled"]
        BY <1>0, <3>2, PhaseMoves DEF PhaseOf, States
      <4>3. e \in succeeded \cup Garbage
        BY <1>0, <2>5 DEF ReceiveAck, AckEarned
      <4> QED
        BY <4>1, <4>2, <4>3 DEF Promise!Next, Promise!Settle, Promise!Move
    <3> QED
      BY <2>5, <3>1, <3>2 DEF ReceiveAck
  <2> QED
    BY <1>5, <2>1, <2>2, <2>3, <2>4, <2>5 DEF Server
<1>6. CASE UNCHANGED vars
  BY <1>0, <1>6, PhaseStays DEF vars
<1> QED
  BY <1>1, <1>2, <1>3, <1>4, <1>5, <1>6 DEF Next, Loop, Call

\* The queue keeps its promise: an event is attempted at most MaxDeliver times,
\* each delivery at most once, and settled only after an attempt succeeded or
\* because it cannot be parsed.
THEOREM PromiseKept == Spec => KeepsPromise
<1>1. Init => Promise!Init /\ CallTaken /\ AckEarned /\ DeliveredKnown
  BY DEF Init, Promise!Init, Phase, PhaseOf, Begun, CallTaken, AckEarned, DeliveredKnown
<1> QED
  BY <1>1, NextPromised, TypeCorrect, InitPlace, NextPlace, NextCall, NextEarned, NextKnown, PTL
  DEF Spec, KeepsPromise, Promise!Spec, Inv, PlaceInv

-----------------------------------------------------------------------------
(* Without faults: nothing given up unseen, first attempts in order.       *)

\* What is handled, or replied to, was taken.
HandledTaken ==
  /\ pc \in Handling => current \in taken
  /\ \A e \in Event, r \in {"ack", "nak"} : <<e, r>> \in replies => Taken(e)

\* The stream's log names each event once, and no event before its publication.
LogOK ==
  /\ \A i \in DOMAIN log : state[log[i]] \notin {"unpublished", "refused"}
  /\ \A i, j \in DOMAIN log : log[i] = log[j] => i = j

\* Given up means delivered as often as may be.
SpentOK == \A e \in Event : state[e] = "spent" => delivered[e] = MaxDeliver

\* What was never delivered is ready, unless the stream took it too early.
WaitingOK ==
  \A i \in DOMAIN log : delivered[log[i]] = 0 => state[log[i]] \in {"ready", "missed"}

InBuffer(e) == \E i \in DOMAIN inbox : inbox[i][1] = e

\* What was delivered was taken or waits in the buffer.
SeenOK == \A e \in Event : delivered[e] > 0 => Taken(e) \/ InBuffer(e)

\* An event in the buffer that was never taken comes after all before it in the
\* stream that were not either.
BufferOK ==
  \A i \in DOMAIN inbox : ~Taken(inbox[i][1]) =>
    \A e \in Event : Before(e, inbox[i][1]) =>
      Taken(e) \/ state[e] = "missed" \/ \E j \in DOMAIN inbox : j < i /\ inbox[j][1] = e

Flawless == faults = 0 => WaitingOK /\ SeenOK /\ BufferOK

QueueInv ==
  TypeOK /\ OnePlace /\ DeliveredKnown /\ HandledTaken /\ LogOK /\ SpentOK /\ Flawless

LEMMA TakenIs ==
  ASSUME TypeOK
  PROVE  \A e \in Event : /\ Taken(e) <=> \E d \in taken : d[1] = e
                          /\ Held(e) <=> InBuffer(e)
<1>1. \A e \in Event : Taken(e) <=> \E d \in taken : d[1] = e
  <2>1. \A d \in taken : d[2] \in 1 .. MaxDeliver /\ d = <<d[1], d[2]>>
    BY DEF TypeOK, Deliveries
  <2>2. \A e \in Event : Taken(e) => \E d \in taken : d[1] = e
    BY DEF Taken
  <2>3. ASSUME NEW e \in Event, NEW d \in taken, d[1] = e PROVE Taken(e)
    BY <2>1, <2>3 DEF Taken
  <2> QED
    BY <2>2, <2>3
<1>2. \A i \in DOMAIN inbox : inbox[i] \in Deliveries
  BY ElementOfSeq, LenProperties DEF TypeOK
<1>3. \A e \in Event : Held(e) <=> InBuffer(e)
  BY <1>2 DEF Held, InBuffer, Deliveries
<1> QED
  BY <1>1, <1>3

\* What was taken was delivered.
LEMMA TakenDelivered ==
  ASSUME TypeOK, OnePlace, NEW e \in Event, Taken(e)
  PROVE  delivered[e] > 0
<1>1. PICK n \in 1 .. MaxDeliver : <<e, n>> \in taken
  BY DEF Taken
<1>2. n <= delivered[e]
  BY <1>1 DEF OnePlace
<1> QED
  BY <1>2, QueueAssumption DEF TypeOK

\* What the loop takes moves the others up by one place.
LEMMA TakeMoves ==
  ASSUME TypeOK, Take
  PROVE  /\ inbox # <<>> /\ 1 \in DOMAIN inbox /\ inbox[1][1] \in Event
         /\ \A e \in Event : Taken(e)' <=> Taken(e) \/ inbox[1][1] = e
         /\ \A i \in DOMAIN inbox' : i \in Nat /\ i + 1 \in DOMAIN inbox /\ inbox'[i] = inbox[i + 1]
         /\ \A i \in DOMAIN inbox : i \in Nat /\ (i # 1 => i - 1 \in DOMAIN inbox' /\ inbox'[i - 1] = inbox[i])
         /\ current' = inbox[1] /\ current' \in taken' /\ taken \subseteq taken'
         /\ UNCHANGED <<log, state, delivered, faults, replies>>
<1>1. /\ inbox # <<>> /\ inbox' = Tail(inbox) /\ taken' = taken \cup {inbox[1]}
      /\ current' = inbox[1] /\ UNCHANGED <<log, state, delivered, faults, replies>>
  BY TakenInbox DEF Take, serverVars
<1>2. 1 \in DOMAIN inbox /\ inbox[1] \in Deliveries
  BY <1>1, TakenInbox
<1>3. /\ DOMAIN inbox = 1 .. Len(inbox) /\ Len(inbox) \in Nat
      /\ DOMAIN inbox' = 1 .. Len(inbox) - 1
      /\ \A i \in 1 .. Len(inbox) - 1 : inbox'[i] = inbox[i + 1]
  BY <1>1, HeadTailProperties, LenProperties DEF TypeOK
<1>4. \A e \in Event : Taken(e)' <=> Taken(e) \/ inbox[1][1] = e
  BY <1>1, <1>2 DEF Taken, Deliveries
<1>5. \A i \in DOMAIN inbox' : i \in Nat /\ i + 1 \in DOMAIN inbox /\ inbox'[i] = inbox[i + 1]
  BY <1>3
<1>6. \A i \in DOMAIN inbox : i \in Nat /\ (i # 1 => i - 1 \in DOMAIN inbox' /\ inbox'[i - 1] = inbox[i])
  BY <1>3
<1> QED
  BY <1>1, <1>2, <1>4, <1>5, <1>6 DEF Deliveries

\* A delivery is put last.
LEMMA DeliverAppends ==
  ASSUME TypeOK, NEW e \in Event, Deliver(e)
  PROVE  /\ \A i \in DOMAIN inbox : i \in DOMAIN inbox' /\ inbox'[i] = inbox[i]
         /\ \E n \in DOMAIN inbox' : inbox'[n][1] = e /\ \A i \in DOMAIN inbox : i < n
         /\ DOMAIN inbox' \subseteq Nat
         /\ \A i \in DOMAIN inbox' : i \in DOMAIN inbox
                                     \/ (inbox'[i][1] = e /\ \A j \in DOMAIN inbox : j < i)
         /\ UNCHANGED <<log, taken, faults, replies, pc, current>>
         /\ state' = [state EXCEPT ![e] = "out"] /\ delivered' = [delivered EXCEPT ![e] = @ + 1]
<1> DEFINE d == <<e, delivered[e] + 1>>
<1>1. /\ inbox' = Append(inbox, d)
      /\ UNCHANGED <<log, taken, faults, replies, pc, current>>
      /\ state' = [state EXCEPT ![e] = "out"] /\ delivered' = [delivered EXCEPT ![e] = @ + 1]
  BY DEF Deliver, Becomes, historyVars
<1>2. inbox \in Seq(Deliveries \cup {d}) /\ d \in Deliveries \cup {d}
  BY DEF TypeOK
<1>3. /\ DOMAIN inbox = 1 .. Len(inbox) /\ Len(inbox) \in Nat
      /\ DOMAIN inbox' = 1 .. Len(inbox) + 1
      /\ \A i \in 1 .. Len(inbox) : inbox'[i] = inbox[i]
      /\ inbox'[Len(inbox) + 1] = d
  BY <1>1, <1>2, LenProperties, AppendProperties
<1>4. /\ \A i \in DOMAIN inbox : i \in DOMAIN inbox' /\ inbox'[i] = inbox[i] /\ i < Len(inbox) + 1
      /\ Len(inbox) + 1 \in DOMAIN inbox'
      /\ \A i \in DOMAIN inbox' : i \in DOMAIN inbox \/ i = Len(inbox) + 1
  BY <1>3
<1> QED
  BY <1>1, <1>3, <1>4

\* A step without a fault takes, delivers or publishes, or moves only states.
LEMMA QuietStep ==
  ASSUME TypeOK, [Next]_vars, faults' = 0
  PROVE  /\ faults = 0
         /\ \/ Take \/ \E e \in Event : Deliver(e) \/ Publish(e)
            \/ /\ UNCHANGED <<inbox, taken, log, delivered>>
               /\ \/ UNCHANGED state
                  \/ \E e \in Event : GiveUp(e) \/ AckWaitEnds(e) \/ ReceiveAck(e) \/ ReceiveNak(e)
<1> USE DEF serverVars, clientVars, historyVars
<1>1. faults \in Nat
  BY QueueAssumption DEF TypeOK
<1>2. ~Fault
  BY <1>1 DEF Fault
<1>3. CASE Setup \/ Call \/ Reply \/ UNCHANGED vars
  BY <1>3 DEF Setup, EnsureStream, CreateConsumer, OpenMessages, Call, CallSucceeds, CallFails,
              Reply, vars
<1>4. CASE Failure
  BY <1>2, <1>4 DEF Failure, SetupFails, ReceiveError, Crash
<1>5. CASE Take
  BY <1>5 DEF Take
<1>6. ASSUME NEW e \in Event, Publish(e) \/ Deliver(e) PROVE faults = 0
  BY <1>6 DEF Publish, Deliver
<1>7. ASSUME NEW e \in Event, Age(e) PROVE FALSE
  BY <1>2, <1>7 DEF Age
<1>8. ASSUME NEW e \in Event, GiveUp(e) \/ AckWaitEnds(e) \/ ReceiveAck(e) \/ ReceiveNak(e)
      PROVE  UNCHANGED <<inbox, taken, log, delivered, faults>>
  BY <1>8 DEF GiveUp, AckWaitEnds, ReceiveAck, ReceiveNak
<1> QED
  BY <1>3, <1>4, <1>5, <1>6, <1>7, <1>8 DEF Next, Loop, Server

LEMMA NextHandled == TypeOK /\ HandledTaken /\ [Next]_vars => HandledTaken'
<1> SUFFICES ASSUME TypeOK, HandledTaken, [Next]_vars PROVE HandledTaken'
  OBVIOUS
<1> USE DEF serverVars, clientVars, historyVars
<1>1. CASE Take
  <2>1. \A e \in Event : Taken(e) => Taken(e)'
    BY <1>1, TakeMoves
  <2> QED
    BY <1>1, <2>1, TakeMoves DEF HandledTaken
<1>2. CASE taken' = taken /\ replies' \subseteq replies
           /\ (pc' \in Handling => pc \in Handling /\ current' = current)
  BY <1>2 DEF HandledTaken, Taken
<1>3. CASE Reply
  <2>1. current \in taken /\ Taken(current[1])
    BY <1>3, TakenIs DEF Reply, Handling, HandledTaken, TypeOK, Deliveries
  <2> QED
    BY <1>3, <2>1 DEF Reply, HandledTaken, Handling, Taken
<1>4. CASE Setup \/ Call \/ Failure \/ UNCHANGED vars
  <2>1. taken' = taken /\ replies' = replies
    BY <1>4 DEF Setup, EnsureStream, CreateConsumer, OpenMessages, Call, CallSucceeds, CallFails,
                Failure, SetupFails, ReceiveError, Crash, vars
  <2>2. pc' \in Handling => pc \in Handling /\ current' = current
    BY <1>4 DEF Setup, EnsureStream, CreateConsumer, OpenMessages, Call, CallSucceeds, CallFails,
                Failure, SetupFails, ReceiveError, Crash, vars, Handling
  <2> QED
    BY <1>2, <2>1, <2>2
<1>5. ASSUME NEW e \in Event, Publish(e) \/ Server(e) PROVE HandledTaken'
  BY <1>2, <1>5 DEF Publish, Server, Deliver, GiveUp, AckWaitEnds, ReceiveAck, ReceiveNak, Age
<1> QED
  BY <1>1, <1>3, <1>4, <1>5 DEF Next, Loop

LEMMA NextSpent == TypeOK /\ SpentOK /\ [Next]_vars => SpentOK'
<1> SUFFICES ASSUME TypeOK, SpentOK, [Next]_vars PROVE SpentOK'
  OBVIOUS
<1> USE DEF serverVars, SpentOK, Becomes
<1>1. CASE Setup \/ Loop \/ Failure \/ UNCHANGED vars
  BY <1>1 DEF Setup, EnsureStream, CreateConsumer, OpenMessages, Loop, Take, Call, CallSucceeds,
              CallFails, Reply, Failure, SetupFails, ReceiveError, Crash, vars
<1>2. ASSUME NEW e \in Event, Publish(e) \/ Server(e) PROVE SpentOK'
  BY <1>2 DEF Publish, Server, Deliver, GiveUp, AckWaitEnds, ReceiveAck, ReceiveNak, Age, TypeOK
<1> QED
  BY <1>1, <1>2 DEF Next

LEMMA NextLog == TypeOK /\ LogOK /\ [Next]_vars => LogOK'
<1> SUFFICES ASSUME TypeOK, LogOK, [Next]_vars PROVE LogOK'
  OBVIOUS
<1> USE DEF serverVars, Becomes
<1>0. /\ DOMAIN log = 1 .. Len(log) /\ Len(log) \in Nat
      /\ \A i \in DOMAIN log : log[i] \in Event
  BY LenProperties, ElementOfSeq DEF TypeOK
<1>1. CASE Setup \/ Loop \/ Failure \/ UNCHANGED vars
  <2>1. UNCHANGED <<log, state>>
    BY <1>1 DEF Setup, EnsureStream, CreateConsumer, OpenMessages, Loop, Take, Call,
                CallSucceeds, CallFails, Reply, Failure, SetupFails, ReceiveError, Crash, vars
  <2> QED
    BY <2>1 DEF LogOK
<1>2. ASSUME NEW e \in Event, Server(e) PROVE LogOK'
  <2>1. log' = log /\ \A f \in Event : state'[f] \in {state[f], "out", "spent", "ready", "done", "aged"}
    BY <1>2 DEF Server, Deliver, GiveUp, AckWaitEnds, ReceiveAck, ReceiveNak, Age, TypeOK
  <2> QED
    BY <1>0, <2>1 DEF LogOK
<1>3. ASSUME NEW e \in Event, Publish(e) PROVE LogOK'
  <2>1. CASE log' = log
    <3>1. \A f \in Event \ {e} : state'[f] = state[f]
      BY <1>3 DEF Publish, TypeOK
    <3>2. \A i \in DOMAIN log : log[i] # e
      BY <1>3 DEF Publish, LogOK
    <3> QED
      BY <1>0, <2>1, <3>1, <3>2 DEF LogOK
  <2>2. CASE log' = Append(log, e) /\ state'[e] \in {"ready", "missed"}
    <3>1. /\ DOMAIN log' = 1 .. Len(log) + 1
          /\ \A i \in 1 .. Len(log) : log'[i] = log[i]
          /\ log'[Len(log) + 1] = e
      BY <2>2, AppendProperties DEF TypeOK
    <3>2. \A f \in Event \ {e} : state'[f] = state[f]
      BY <1>3 DEF Publish, TypeOK
    <3>3. \A i \in DOMAIN log : log[i] # e
      BY <1>3 DEF Publish, LogOK
    <3>4. \A i \in DOMAIN log' : i \in DOMAIN log \/ i = Len(log) + 1
      BY <1>0, <3>1
    <3>5. \A i \in DOMAIN log' : state'[log'[i]] \notin {"unpublished", "refused"}
      BY <1>0, <2>2, <3>1, <3>2, <3>3, <3>4 DEF LogOK
    <3>6. \A i, j \in DOMAIN log' : log'[i] = log'[j] => i = j
      BY <1>0, <3>1, <3>3, <3>4 DEF LogOK
    <3> QED
      BY <3>5, <3>6 DEF LogOK
  <2> QED
    BY <1>3, <2>1, <2>2 DEF Publish, TypeOK
<1> QED
  BY <1>1, <1>2, <1>3 DEF Next

\* A published event becomes the last of the log, or none of it.
LEMMA PublishAppends ==
  ASSUME TypeOK, DeliveredKnown, NEW e \in Event, Publish(e)
  PROVE  /\ UNCHANGED <<inbox, taken, delivered, faults>>
         /\ delivered[e] = 0 /\ \A f \in Event \ {e} : state'[f] = state[f]
         /\ \/ log' = log
            \/ /\ state'[e] \in {"ready", "missed"}
               /\ \A i \in DOMAIN log' : \/ i \in DOMAIN log /\ log'[i] = log[i]
                                         \/ log'[i] = e /\ \A j \in DOMAIN log' : j <= i
<1>1. /\ UNCHANGED <<inbox, taken, delivered, faults>>
      /\ delivered[e] = 0 /\ \A f \in Event \ {e} : state'[f] = state[f]
  BY DEF Publish, Becomes, TypeOK, DeliveredKnown, clientVars, historyVars
<1>2. CASE log' = Append(log, e) /\ state'[e] \in {"ready", "missed"}
  <2>1. /\ DOMAIN log = 1 .. Len(log) /\ Len(log) \in Nat
        /\ DOMAIN log' = 1 .. Len(log) + 1
        /\ \A i \in 1 .. Len(log) : log'[i] = log[i]
        /\ log'[Len(log) + 1] = e
    BY <1>2, LenProperties, AppendProperties DEF TypeOK
  <2>2. \A i \in DOMAIN log' : \/ i \in DOMAIN log /\ log'[i] = log[i]
                               \/ log'[i] = e /\ \A j \in DOMAIN log' : j <= i
    BY <2>1
  <2> QED
    BY <1>1, <1>2, <2>2
<1> QED
  BY <1>1, <1>2 DEF Publish, Becomes, TypeOK

\* Only an event that was taken is acked.
LEMMA NextWaiting ==
  ASSUME TypeOK, OnePlace, DeliveredKnown, HandledTaken, WaitingOK, [Next]_vars, faults' = 0
  PROVE  WaitingOK'
<1>0. \A i \in DOMAIN log : log[i] \in Event
  BY LenProperties, ElementOfSeq DEF TypeOK
<1>1. CASE Take \/ UNCHANGED <<state, log, delivered>>
  <2>1. UNCHANGED <<state, log, delivered>>
    BY <1>1, TakeMoves
  <2> QED
    BY <2>1 DEF WaitingOK
<1>2. ASSUME NEW e \in Event, Deliver(e) PROVE WaitingOK'
  <2>1. /\ log' = log /\ delivered'[e] # 0
        /\ \A f \in Event \ {e} : state'[f] = state[f] /\ delivered'[f] = delivered[f]
    BY <1>2, DeliverAppends, QueueAssumption DEF TypeOK
  <2> QED
    BY <1>0, <2>1 DEF WaitingOK
<1>3. ASSUME NEW e \in Event, Publish(e) PROVE WaitingOK'
  <2>1. CASE log' = log
    <3>1. \A i \in DOMAIN log : log[i] = e => delivered[e] = 0 /\ state[e] \in {"ready", "missed"}
      BY <1>3, PublishAppends DEF WaitingOK
    <3>2. state[e] = "unpublished"
      BY <1>3 DEF Publish
    <3> QED
      BY <1>0, <1>3, <2>1, <3>1, <3>2, PublishAppends DEF WaitingOK
  <2>2. CASE log' # log
    BY <1>0, <1>3, <2>2, PublishAppends DEF WaitingOK
  <2> QED
    BY <2>1, <2>2
<1>4. ASSUME NEW e \in Event, GiveUp(e) \/ AckWaitEnds(e) \/ ReceiveAck(e) \/ ReceiveNak(e),
             UNCHANGED <<log, delivered>>
      PROVE  WaitingOK'
  <2>1. \A f \in Event \ {e} : state'[f] = state[f]
    BY <1>4 DEF GiveUp, AckWaitEnds, ReceiveAck, ReceiveNak, Becomes, TypeOK
  <2>2. state'[e] \in {state[e], "ready"} \/ delivered[e] # 0
    <3>1. CASE GiveUp(e)
      BY <3>1, QueueAssumption DEF GiveUp
    <3>2. CASE AckWaitEnds(e) \/ ReceiveNak(e)
      BY <3>2 DEF AckWaitEnds, ReceiveNak, Becomes, TypeOK
    <3>3. CASE ReceiveAck(e)
      <4>1. Taken(e)
        BY <3>3 DEF ReceiveAck, HandledTaken
      <4> QED
        BY <4>1, TakenDelivered DEF TypeOK
    <3> QED
      BY <1>4, <3>1, <3>2, <3>3
  <2> QED
    BY <1>0, <1>4, <2>1, <2>2 DEF WaitingOK
<1> QED
  BY <1>1, <1>2, <1>3, <1>4, QuietStep

\* Without a fault a delivery leaves the buffer only to be taken.
LEMMA NextSeen ==
  ASSUME TypeOK, DeliveredKnown, SeenOK, [Next]_vars, faults' = 0
  PROVE  SeenOK'
<1>1. CASE Take
  <2>1. ASSUME NEW e \in Event, delivered'[e] > 0 PROVE Taken(e)' \/ InBuffer(e)'
    <3>1. Taken(e) \/ InBuffer(e)
      BY <1>1, <2>1, TakeMoves DEF SeenOK
    <3>2. CASE InBuffer(e)
      <4>1. PICK i \in DOMAIN inbox : inbox[i][1] = e
        BY <3>2 DEF InBuffer
      <4>2. CASE i = 1
        BY <1>1, <4>1, <4>2, TakeMoves
      <4>3. CASE i # 1
        BY <1>1, <4>1, <4>3, TakeMoves DEF InBuffer
      <4> QED
        BY <4>2, <4>3
    <3> QED
      BY <1>1, <3>1, <3>2, TakeMoves
  <2> QED
    BY <2>1 DEF SeenOK
<1>2. ASSUME NEW e \in Event, Deliver(e) PROVE SeenOK'
  <2>1. \A f \in Event : Taken(f) => Taken(f)'
    BY <1>2, DeliverAppends DEF Taken
  <2>2. \A f \in Event : InBuffer(f) \/ f = e => InBuffer(f)'
    BY <1>2, DeliverAppends DEF InBuffer
  <2>3. \A f \in Event \ {e} : delivered'[f] = delivered[f]
    BY <1>2, DeliverAppends DEF TypeOK
  <2> QED
    BY <2>1, <2>2, <2>3 DEF SeenOK
<1>3. CASE UNCHANGED <<inbox, taken, delivered>>
  BY <1>3 DEF SeenOK, Taken, InBuffer
<1> QED
  BY <1>1, <1>2, <1>3, QuietStep, PublishAppends

\* A step moves no event out of "missed".
LEMMA MissedStays ==
  ASSUME TypeOK, [Next]_vars, faults' = 0
  PROVE  \A f \in Event : state[f] = "missed" => state'[f] = "missed"
<1>1. CASE Take \/ UNCHANGED state
  BY <1>1, TakeMoves
<1>2. ASSUME NEW e \in Event, Publish(e) \/ Deliver(e)
      PROVE  \A f \in Event : state[f] = "missed" => state'[f] = "missed"
  BY <1>2 DEF Publish, Deliver, Becomes, TypeOK
<1>3. ASSUME NEW e \in Event, GiveUp(e) \/ AckWaitEnds(e) \/ ReceiveAck(e) \/ ReceiveNak(e)
      PROVE  \A f \in Event : state[f] = "missed" => state'[f] = "missed"
  BY <1>3 DEF GiveUp, AckWaitEnds, ReceiveAck, ReceiveNak, Becomes, TypeOK
<1> QED
  BY <1>1, <1>2, <1>3, QuietStep

\* The server delivers a new event after all before it in the stream.
LEMMA DeliverIsNext ==
  ASSUME TypeOK, LogOK, WaitingOK, NEW e \in Event, Deliver(e), delivered[e] = 0,
         NEW f \in Event, Before(f, e)
  PROVE  state[f] = "missed" \/ delivered[f] > 0
<1>1. PICK i \in DOMAIN log, j \in DOMAIN log : i < j /\ log[i] = f /\ log[j] = e
  BY DEF Before
<1>2. PICK k \in DOMAIN log : log[k] = e /\ \A l \in 1 .. k - 1 : log[l] \notin NeverDelivered
  BY DEF Deliver, NeverDelivered
<1>3. k = j
  BY <1>1, <1>2 DEF LogOK
<1>4. i \in 1 .. k - 1
  BY <1>1, <1>3, LenProperties DEF TypeOK
<1>5. f \notin NeverDelivered
  BY <1>1, <1>2, <1>4
<1>6. state[f] # "ready" \/ delivered[f] # 0
  BY <1>5 DEF NeverDelivered
<1>7. delivered[f] \in Nat
  BY QueueAssumption DEF TypeOK
<1> QED
  BY <1>1, <1>6, <1>7 DEF WaitingOK

LEMMA BufferNext ==
  ASSUME \A i \in DOMAIN inbox' : \A g : g = inbox'[i][1] /\ ~Taken(g)' =>
           \A e \in Event : Before(e, g)' =>
             \/ Taken(e)' \/ state'[e] = "missed"
             \/ \E j \in DOMAIN inbox' : j < i /\ inbox'[j][1] = e
  PROVE  BufferOK'
BY DEF BufferOK, Taken, Before

\* The buffer keeps the order of the stream for what was never taken.
LEMMA NextBuffer ==
  ASSUME TypeOK, OnePlace, DeliveredKnown, LogOK, WaitingOK, SeenOK, BufferOK,
         [Next]_vars, faults' = 0
  PROVE  BufferOK'
<1>0. ASSUME NEW i \in DOMAIN inbox
      PROVE  inbox[i][1] \in Event /\ delivered[inbox[i][1]] > 0
  <2>1. inbox[i] \in Event \X (1 .. MaxDeliver) /\ inbox[i][2] <= delivered[inbox[i][1]]
    BY InboxDelivered DEF Deliveries
  <2>2. delivered[inbox[i][1]] \in 0 .. MaxDeliver
    BY <2>1 DEF TypeOK
  <2> QED
    BY <2>1, <2>2, QueueAssumption
<1>1. CASE Take
  <2> SUFFICES ASSUME NEW i \in DOMAIN inbox', NEW g, g = inbox'[i][1], ~Taken(g)',
                      NEW e \in Event, Before(e, g)'
               PROVE  \/ Taken(e)' \/ state'[e] = "missed"
                      \/ \E j \in DOMAIN inbox' : j < i /\ inbox'[j][1] = e
    BY BufferNext
  <2>1. i \in Nat /\ i + 1 \in DOMAIN inbox /\ inbox'[i] = inbox[i + 1]
    BY <1>1, TakeMoves
  <2>2. g \in Event /\ ~Taken(g)
    BY <1>0, <1>1, <2>1, TakeMoves DEF Taken
  <2>3. Before(e, g)
    BY <1>1, TakeMoves DEF Before
  <2>4. \/ Taken(e) \/ state[e] = "missed"
        \/ \E j \in DOMAIN inbox : j < i + 1 /\ inbox[j][1] = e
    BY <2>1, <2>2, <2>3 DEF BufferOK
  <2>5. CASE \E j \in DOMAIN inbox : j < i + 1 /\ inbox[j][1] = e
    <3>1. PICK j \in DOMAIN inbox : j < i + 1 /\ inbox[j][1] = e
      BY <2>5
    <3>2. CASE j = 1
      BY <1>1, <3>1, <3>2, TakeMoves
    <3>3. CASE j # 1
      <4>1. j - 1 \in DOMAIN inbox' /\ inbox'[j - 1] = inbox[j] /\ j \in Nat
        BY <1>1, <3>1, <3>3, TakeMoves
      <4>2. j - 1 < i
        BY <2>1, <3>1, <4>1
      <4> QED
        BY <3>1, <4>1, <4>2
    <3> QED
      BY <3>2, <3>3
  <2> QED
    BY <1>1, <2>4, <2>5, TakeMoves
<1>2. ASSUME NEW d \in Event, Deliver(d) PROVE BufferOK'
  <2> SUFFICES ASSUME NEW i \in DOMAIN inbox', NEW g, g = inbox'[i][1], ~Taken(g)',
                      NEW e \in Event, Before(e, g)'
               PROVE  \/ Taken(e)' \/ state'[e] = "missed"
                      \/ \E j \in DOMAIN inbox' : j < i /\ inbox'[j][1] = e
    BY BufferNext
  <2>1. UNCHANGED <<log, taken>>
    BY <1>2, DeliverAppends
  <2>2. ~Taken(g) /\ Before(e, g)
    BY <2>1 DEF Taken, Before
  <2>3. Taken(e) => Taken(e)'
    BY <2>1 DEF Taken
  <2>4. state[e] = "missed" => state'[e] = "missed"
    BY MissedStays
  <2>5. ASSUME NEW k \in DOMAIN inbox, inbox[k][1] = g,
               i = k \/ k < i
        PROVE  \/ Taken(e) \/ state[e] = "missed"
               \/ \E j \in DOMAIN inbox' : j < i /\ inbox'[j][1] = e
    <3>1. \/ Taken(e) \/ state[e] = "missed"
          \/ \E j \in DOMAIN inbox : j < k /\ inbox[j][1] = e
      BY <2>2, <2>5 DEF BufferOK
    <3>2. CASE \E j \in DOMAIN inbox : j < k /\ inbox[j][1] = e
      <4>1. PICK j \in DOMAIN inbox : j < k /\ inbox[j][1] = e
        BY <3>2
      <4>2. j \in DOMAIN inbox' /\ inbox'[j] = inbox[j]
        BY <1>2, DeliverAppends
      <4>3. j \in Nat /\ k \in Nat /\ i \in Nat
        BY <1>2, DeliverAppends
      <4> QED
        BY <2>5, <4>1, <4>2, <4>3
    <3> QED
      BY <3>1, <3>2
  <2>6. CASE i \in DOMAIN inbox
    BY <1>2, <2>3, <2>4, <2>5, <2>6, DeliverAppends
  <2>7. CASE inbox'[i][1] = d /\ \A j \in DOMAIN inbox : j < i
    <3>1. CASE delivered[d] = 0
      <4>1. state[e] = "missed" \/ delivered[e] > 0
        BY <1>2, <2>2, <2>7, <3>1, DeliverIsNext
      <4>2. state[e] = "missed" \/ Taken(e) \/ InBuffer(e)
        BY <4>1 DEF SeenOK
      <4>3. CASE InBuffer(e)
        BY <1>2, <2>7, <4>3, DeliverAppends DEF InBuffer
      <4> QED
        BY <2>3, <2>4, <4>2, <4>3
    <3>2. CASE delivered[d] # 0
      <4>1. InBuffer(d)
        BY <2>2, <2>7, <3>2, QueueAssumption DEF SeenOK, TypeOK
      <4>2. PICK k \in DOMAIN inbox : inbox[k][1] = d
        BY <4>1 DEF InBuffer
      <4> QED
        BY <2>3, <2>4, <2>5, <2>7, <4>2
    <3> QED
      BY <3>1, <3>2
  <2> QED
    BY <1>2, <2>6, <2>7, DeliverAppends
<1>3. ASSUME NEW d \in Event, Publish(d) PROVE BufferOK'
  <2>1. UNCHANGED <<inbox, taken>> /\ delivered[d] = 0
    BY <1>3, PublishAppends
  <2>2. ASSUME NEW i \in DOMAIN inbox, NEW e \in Event, Before(e, inbox[i][1])'
        PROVE  Before(e, inbox[i][1])
    <3>1. inbox[i][1] # d
      BY <1>0, <2>1
    <3>2. PICK a \in DOMAIN log', b \in DOMAIN log' :
            a < b /\ log'[a] = e /\ log'[b] = inbox[i][1]
      BY <2>1, <2>2 DEF Before
    <3>3. b \in DOMAIN log /\ log[b] = inbox[i][1]
      BY <1>3, <3>1, <3>2, PublishAppends
    <3>4. a \in Int /\ b \in Int
      BY <1>3, <3>2, LenProperties, AppendProperties DEF TypeOK, Publish
    <3>5. a \in DOMAIN log /\ log[a] = e
      BY <1>3, <3>2, <3>4, PublishAppends
    <3> QED
      BY <3>2, <3>3, <3>5 DEF Before
  <2> QED
    BY <2>1, <2>2, MissedStays DEF BufferOK, Taken
<1>4. CASE UNCHANGED <<inbox, taken, log>>
  BY <1>4, MissedStays DEF BufferOK, Taken, Before
<1> QED
  BY <1>1, <1>2, <1>3, <1>4, QuietStep

LEMMA NextFlawless == QueueInv /\ [Next]_vars => Flawless'
<1> SUFFICES ASSUME QueueInv, [Next]_vars, faults' = 0
             PROVE  WaitingOK' /\ SeenOK' /\ BufferOK'
  BY DEF Flawless
<1>1. WaitingOK /\ SeenOK /\ BufferOK
  BY QuietStep DEF QueueInv, Flawless
<1> QED
  BY <1>1, NextWaiting, NextSeen, NextBuffer DEF QueueInv

LEMMA QueueInvariant == Spec => []QueueInv
<1>1. TypeOK /\ Init => QueueInv
  <2> SUFFICES ASSUME TypeOK, Init PROVE QueueInv
    OBVIOUS
  <2>1. OnePlace
    BY InitPlace
  <2>2. log = <<>> /\ DOMAIN log = {} /\ inbox = <<>> /\ DOMAIN inbox = {}
    BY EmptySeq DEF Init
  <2>3. DeliveredKnown /\ HandledTaken /\ SpentOK /\ LogOK
    BY <2>2 DEF Init, DeliveredKnown, HandledTaken, Handling, SpentOK, LogOK
  <2>4. WaitingOK /\ SeenOK /\ BufferOK
    BY <2>2 DEF Init, WaitingOK, SeenOK, BufferOK
  <2> QED
    BY <2>1, <2>3, <2>4 DEF QueueInv, Flawless
<1>2. QueueInv /\ TypeOK' /\ [Next]_vars => QueueInv'
  BY NextPlace, NextKnown, NextHandled, NextLog, NextSpent, NextFlawless DEF QueueInv
<1> QED
  BY <1>1, <1>2, TypeCorrect, PTL DEF Spec

\* As long as nothing fails, no event is given up that the loop has not taken and
\* its buffer does not hold (max_deliver against the loop of consume_events).
THEOREM NothingLostUnseen == Spec => []NothingGivenUpUnseen
<1>1. QueueInv => NothingGivenUpUnseen
  <2> SUFFICES ASSUME QueueInv, faults = 0, NEW e \in Event, state[e] = "spent"
               PROVE  Taken(e) \/ Held(e)
    BY DEF NothingGivenUpUnseen
  <2>1. delivered[e] > 0
    BY QueueAssumption DEF QueueInv, SpentOK, TypeOK
  <2>2. Taken(e) \/ InBuffer(e)
    BY <2>1 DEF QueueInv, Flawless, SeenOK
  <2> QED
    BY <2>2, TakenIs DEF QueueInv
<1> QED
  BY <1>1, QueueInvariant, PTL

\* As long as nothing fails, the loop of consume_events takes the events for the
\* first time in the order in which the stream took them.
THEOREM FirstAttemptsAreOrdered == Spec => FirstAttemptsInOrder
<1> DEFINE InOrder(f) ==
      \A e \in Event : Before(e, f) => Taken(e) \/ state[e] = "missed"
<1>1. ASSUME QueueInv, [Next]_vars, NEW f \in Event, ~Taken(f), Taken(f)', faults = 0
      PROVE  InOrder(f)
  <2>1. CASE Take
    <3>1. inbox[1][1] = f /\ 1 \in DOMAIN inbox
      BY <1>1, <2>1, TakeMoves DEF QueueInv
    <3>2. \A e \in Event : Before(e, f) =>
            Taken(e) \/ state[e] = "missed" \/ \E j \in DOMAIN inbox : j < 1
      BY <1>1, <3>1 DEF QueueInv, Flawless, BufferOK
    <3>3. \A j \in DOMAIN inbox : ~(j < 1)
      BY <1>1, LenProperties DEF QueueInv, TypeOK
    <3> QED
      BY <3>2, <3>3
  <2>2. CASE UNCHANGED taken
    BY <1>1, <2>2 DEF Taken
  <2>3. [Next]_vars => Take \/ UNCHANGED taken
    BY DEF Next, vars, Setup, EnsureStream, CreateConsumer, OpenMessages, Loop, Call,
           CallSucceeds, CallFails, Reply, Failure, SetupFails, ReceiveError, Crash, Publish,
           Server, Deliver, GiveUp, AckWaitEnds, ReceiveAck, ReceiveNak, Age, historyVars
  <2> QED
    BY <1>1, <2>1, <2>2, <2>3
<1>2. QueueInv /\ [Next]_vars =>
        [\A f \in Event : ~Taken(f) /\ Taken(f)' /\ faults = 0 => InOrder(f)]_vars
  BY <1>1
<1> QED
  BY <1>2, QueueInvariant, PTL DEF Spec, FirstAttemptsInOrder

-----------------------------------------------------------------------------
(* Frames that travel as events.                                           *)

\* A type of event comes of one kind of frame.
LEMMA TypesDiffer ==
  \A j, k \in Kinds : EventType[j] = EventType[k] => j = k
  BY SMTT(60) DEF EventType, Kinds, SystemKinds, ControlKinds, DataKinds, AudioKinds

LEMMA KnownIsKind == KnownKinds \subseteq Kinds
  BY DEF KnownKinds, Kinds, SystemKinds, ControlKinds, DataKinds, AudioKinds

LEMMA KindIsKnown ==
  ASSUME NEW k \in KnownKinds
  PROVE  (CHOOSE j \in KnownKinds : EventType[j] = EventType[k]) = k
  BY TypesDiffer, KnownIsKind

\* What an event becomes is a frame, of a kind that is known, complete and PCM16.
LEMMA EventBecomesFrame ==
  ASSUME NEW e \in ForeignEvent, Convertible(e)
  PROVE  /\ FromEvent(e) \in Frame
         /\ FromEvent(e).complete = TRUE /\ FromEvent(e).pcm16 = TRUE
         /\ FromEvent(e).kind \in KnownKinds
<1>1. PICK k \in KnownKinds : EventType[k] = e.type
  BY DEF Convertible
<1>2. (CHOOSE j \in KnownKinds : EventType[j] = e.type) = k
  BY <1>1, KindIsKnown
<1> DEFINE c == IF k \in Bare \/ e.content = Missing THEN Default ELSE e.content
           p == IF k \in SystemKinds THEN 0 ELSE e.stamp
           r == IF k = "Error" /\ e.recoverable # Missing THEN e.recoverable ELSE TRUE
<1>3. FromEvent(e) = [kind |-> k, session |-> e.session, content |-> c, stamp |-> p,
                      recoverable |-> r, complete |-> TRUE, pcm16 |-> TRUE]
  BY <1>2 DEF FromEvent
<1>4. /\ e.session \in Session /\ e.content \in Content \cup {Missing} /\ e.stamp \in {0, 1}
      /\ e.recoverable \in BOOLEAN \cup {Missing}
  BY DEF ForeignEvent
<1>5. k \in Kinds
  BY KnownIsKind
<1>6. c \in Content /\ (k \in Bare => c = Default)
  BY <1>4, CompatAssumption
<1>7. p \in {0, 1} /\ (k \in SystemKinds => p = 0)
  BY <1>4
<1>8. r \in BOOLEAN /\ (k # "Error" => r = TRUE)
  BY <1>4
<1> HIDE DEF c, p, r
<1> QED
  BY <1>3, <1>4, <1>5, <1>6, <1>7, <1>8 DEF Frame

\* The event of a frame of a known kind is read: audio is in it.
LEMMA KnownComesBack ==
  ASSUME NEW f \in Frame, f.kind \in KnownKinds
  PROVE  Convertible(ToEvent(f))
<1>1. ToEvent(f).type = EventType[f.kind] /\ ToEvent(f).content = f.content
  BY DEF ToEvent
<1>2. f.content \in Content
  BY DEF Frame
<1> QED
  BY <1>1, <1>2, CompatAssumption DEF Convertible

\* There and back a frame means what it meant, and is what it was when it was complete
\* and PCM16.
LEMMA ThereAndBack ==
  ASSUME NEW f \in Frame, Convertible(ToEvent(f))
  PROVE  /\ Meaning(FromEvent(ToEvent(f))) = Meaning(f)
         /\ f.complete = TRUE /\ f.pcm16 = TRUE => FromEvent(ToEvent(f)) = f
<1> DEFINE e == ToEvent(f)
           g == FromEvent(e)
<1>1. /\ f.kind \in Kinds /\ f.content \in Content /\ f.stamp \in {0, 1}
      /\ f.recoverable \in BOOLEAN
      /\ f.kind \in Bare => f.content = Default
      /\ f.kind # "Error" => f.recoverable = TRUE
      /\ f.kind \in SystemKinds => f.stamp = 0
      /\ f = [kind |-> f.kind, session |-> f.session, content |-> f.content, stamp |-> f.stamp,
              recoverable |-> f.recoverable, complete |-> f.complete, pcm16 |-> f.pcm16]
  BY DEF Frame
<1>2. /\ e.type = EventType[f.kind] /\ e.session = f.session /\ e.content = f.content
      /\ e.recoverable = IF f.kind = "Error" THEN f.recoverable ELSE Missing
      /\ f.kind \notin SystemKinds => e.stamp = f.stamp
  BY DEF ToEvent
<1>3. PICK k \in KnownKinds : EventType[k] = EventType[f.kind]
  BY <1>2 DEF Convertible
<1>4. f.kind = k
  BY <1>1, <1>3, TypesDiffer, KnownIsKind
<1>5. (CHOOSE j \in KnownKinds : EventType[j] = e.type) = f.kind
  BY <1>2, <1>4, KindIsKnown
<1> HIDE DEF e
<1> DEFINE c == IF f.kind \in Bare \/ e.content = Missing THEN Default ELSE e.content
           p == IF f.kind \in SystemKinds THEN 0 ELSE e.stamp
           r == IF f.kind = "Error" /\ e.recoverable # Missing THEN e.recoverable ELSE TRUE
<1>6. g = [kind |-> f.kind, session |-> f.session, content |-> c, stamp |-> p,
           recoverable |-> r, complete |-> TRUE, pcm16 |-> TRUE]
  BY <1>2, <1>5 DEF FromEvent
<1>7. c = f.content
  BY <1>1, <1>2, CompatAssumption
<1>8. p = f.stamp
  BY <1>1, <1>2
<1>9. f.kind = "Error" => e.recoverable = f.recoverable /\ f.recoverable # Missing
  BY <1>1, <1>2, CompatAssumption
<1>10. r = f.recoverable
  BY <1>1, <1>9
<1> HIDE DEF c, p, r, g
<1> QED
  BY <1>1, <1>6, <1>7, <1>8, <1>10 DEF Meaning, e, g

\* Whatever it carries, a frame of a kind that is not lost comes back from its event
\* and means what it meant: to_processing_event writes, kind by kind, what
\* from_processing_event reads.
THEOREM FrameKeepsItsMeaning == MeaningSurvives
<1> SUFFICES ASSUME NEW f \in Frame, f.kind \notin LostKinds
             PROVE  Convertible(ToEvent(f)) /\ Meaning(FromEvent(ToEvent(f))) = Meaning(f)
  BY DEF MeaningSurvives
<1>1. f.kind \in KnownKinds
  <2>1. f.kind \in Kinds
    BY DEF Frame
  <2> QED
    BY <2>1 DEF Kinds, KnownKinds, LostKinds, SystemKinds, ControlKinds, DataKinds, AudioKinds
<1>2. Convertible(ToEvent(f))
  BY <1>1, KnownComesBack
<1> QED
  BY <1>2, ThereAndBack

\* Whoever produced the event a frame was made of, the frame comes back from any further
\* event as it is: the conversions are inverse to one another on what
\* from_processing_event makes.
THEOREM NormalisedOnce == SecondHopIsExact
<1> SUFFICES ASSUME NEW e \in ForeignEvent, Convertible(e)
             PROVE  /\ Convertible(ToEvent(FromEvent(e)))
                    /\ FromEvent(ToEvent(FromEvent(e))) = FromEvent(e)
  BY DEF SecondHopIsExact
<1> DEFINE f == FromEvent(e)
<1>1. f \in Frame /\ f.complete = TRUE /\ f.pcm16 = TRUE /\ f.kind \in KnownKinds
  BY EventBecomesFrame
<1> HIDE DEF f
<1>2. Convertible(ToEvent(f))
  BY <1>1, KnownComesBack
<1>3. FromEvent(ToEvent(f)) = f
  BY <1>1, <1>2, ThereAndBack
<1> QED
  BY <1>2, <1>3 DEF f

=============================================================================
