---------------------------- MODULE AtomicRunner ----------------------------
(***************************************************************************)
(* What one executor promises who pushes frames: process_next_frame acts   *)
(* as if it ran in one step.  Frames are served the most urgent first, each *)
(* once; an interruption drops all that wait at that moment, and data and  *)
(* control frames are dropped until it ends.                               *)
(***************************************************************************)
CONSTANTS
  Id,         \* identities of frames
  Kinds       \* kinds of frame

System == {"StartInterruption", "StopInterruption", "End", "FatalError", "OtherSystem"}
Frame == [id : Id, kind : Kinds]

VARIABLES
  waiting,    \* frames that wait to be served
  muted,      \* an interruption is in effect
  outcome     \* what became of each frame

vars == <<waiting, muted, outcome>>

Outcomes == {"new", "waiting", "served", "dropped"}

Init ==
  /\ waiting = {}
  /\ muted = FALSE
  /\ outcome = [i \in Id |-> "new"]

Arrive(f) ==
  /\ outcome[f.id] = "new"
  /\ waiting' = waiting \cup {f}
  /\ outcome' = [outcome EXCEPT ![f.id] = "waiting"]
  /\ UNCHANGED muted

\* System frames before control frames before data frames.
Outranks(g, f) ==
  \/ g.kind \in System /\ f.kind \notin System
  \/ g.kind = "Control" /\ f.kind = "Data"

\* A frame leaves: nothing that waits is more urgent.
Leave(f, o) ==
  /\ f \in waiting
  /\ \A g \in waiting : ~Outranks(g, f)
  /\ waiting' = waiting \ {f}
  /\ outcome' = [outcome EXCEPT ![f.id] = o]

\* An interruption takes everything that waits with it.
Interrupt(f) ==
  /\ f.kind = "StartInterruption" /\ f \in waiting
  /\ waiting' = {}
  /\ outcome' = [i \in Id |-> IF i = f.id THEN "served"
                              ELSE IF \E g \in waiting : g.id = i THEN "dropped"
                              ELSE outcome[i]]
  /\ muted' = TRUE

Resume(f) == f.kind = "StopInterruption" /\ Leave(f, "served") /\ muted' = FALSE

\* Any other system frame is served even while an interruption is in effect.
Serve(f) ==
  /\ f.kind \in System \ {"StartInterruption", "StopInterruption"}
  /\ Leave(f, "served")
  /\ UNCHANGED muted

\* A control or data frame is given to the processors unless it is interrupted.
Give(f) ==
  /\ f.kind \notin System
  /\ Leave(f, IF muted THEN "dropped" ELSE "served")
  /\ UNCHANGED muted

Next ==
  \E f \in Frame : Arrive(f) \/ Interrupt(f) \/ Resume(f) \/ Serve(f) \/ Give(f)

Spec == Init /\ [][Next]_vars

=============================================================================
