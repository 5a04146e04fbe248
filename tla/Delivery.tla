------------------------------ MODULE Delivery ------------------------------
(***************************************************************************)
(* What a consumer of EventQueue promises the service that calls           *)
(* consume_events, without the server, its timers and the messages between *)
(* them: an event is attempted at most MaxDeliver times, each delivery at  *)
(* most once, and it is settled only after an attempt succeeded, or when   *)
(* there is nothing in it to attempt.                                      *)
(***************************************************************************)
EXTENDS Naturals

CONSTANTS
  Event,      \* events
  Garbage,    \* the events whose payload cannot be parsed
  MaxDeliver  \* how often an event is delivered at most

VARIABLES
  phase,      \* of each event
  begun,      \* the deliveries <<event, number>> the callback was called with
  succeeded   \* events of which a call returned Ok

vars == <<phase, begun, succeeded>>

Phases == {"unknown", "open", "settled", "dropped"}

Init ==
  /\ phase = [e \in Event |-> "unknown"]
  /\ begun = {}
  /\ succeeded = {}

Move(e, from, to) ==
  /\ phase[e] = from
  /\ phase' = [phase EXCEPT ![e] = to]
  /\ UNCHANGED <<begun, succeeded>>

\* An event comes into being; it is taken, or nobody will ever see it.
Accept(e) == Move(e, "unknown", "open")
Refuse(e) == Move(e, "unknown", "dropped")

\* An attempt at an event that is known, settled events included: a copy may have
\* been on its way.
Attempt(e, n) ==
  /\ phase[e] # "unknown" /\ e \notin Garbage
  /\ <<e, n>> \notin begun
  /\ begun' = begun \cup {<<e, n>>}
  /\ UNCHANGED <<phase, succeeded>>

Succeed(e) ==
  /\ \E n \in 1 .. MaxDeliver : <<e, n>> \in begun
  /\ succeeded' = succeeded \cup {e}
  /\ UNCHANGED <<phase, begun>>

Settle(e) == e \in succeeded \cup Garbage /\ Move(e, "open", "settled")
Drop(e) == Move(e, "open", "dropped")

Next ==
  \E e \in Event :
    \/ Accept(e) \/ Refuse(e) \/ Succeed(e) \/ Settle(e) \/ Drop(e)
    \/ \E n \in 1 .. MaxDeliver : Attempt(e, n)

Spec == Init /\ [][Next]_vars

=============================================================================
