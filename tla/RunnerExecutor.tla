--------------------------- MODULE RunnerExecutor ---------------------------
(***************************************************************************)
(* RunnerExecutor::run, the task that owns a Runner: it starts it, and on  *)
(* every tick reads the status and calls process_next_frame, until it      *)
(* reads Stopped.  It is the only worker; other tasks push frames through  *)
(* the shared Pipeline and set the status through its public handle.       *)
(***************************************************************************)
EXTENDS Runner

CONSTANT Executor

\* It is the only worker.
ExecutorOwnsRunner == Worker = {Executor}

VARIABLES
  loop,   \* "init", "ticking" or "exited"
  \* history
  muted   \* the flag as whoever gets its lock reads it

runVars == <<vars, loop, muted>>

RunInit == ExecutorOwnsRunner /\ Init /\ loop = "init" /\ muted = FALSE

\* From the first write of an interruption to its clear the lock is held.
Observe == muted' = IF pc'[Executor] = "clear" THEN muted ELSE interrupted'

-----------------------------------------------------------------------------

\* run() starts the runner whatever its status was.
Begin ==
  /\ loop = "init"
  /\ loop' = "ticking"
  /\ Start

\* Bug: the loop is left only once nothing is queued.
TickStopped_WaitsForDrain ==
  /\ loop = "ticking" /\ pc[Executor] = "idle"
  /\ status = "Stopped" /\ queue = {}
  /\ loop' = "exited"
  /\ UNCHANGED vars

\* A tick that finds Stopped leaves the loop.
TickStopped ==
  /\ loop = "ticking" /\ pc[Executor] = "idle"
  /\ status = "Stopped"
  /\ loop' = "exited"
  /\ UNCHANGED vars

\* A tick that finds Running calls process_next_frame.
TickRunning ==
  /\ loop = "ticking" /\ status = "Running"
  /\ Call(Executor)
  /\ UNCHANGED loop

ExecutorStep ==
  /\ Begin \/ TickStopped \/ TickRunning \/ (Step(Executor) /\ UNCHANGED loop)
  /\ Observe

RunNext == ExecutorStep \/ (Environment /\ UNCHANGED loop /\ Observe)

RunSpec == RunInit /\ [][RunNext]_runVars

\* Tokio keeps polling a task whose timer or lock is ready, and processors
\* return; nothing obliges the other tasks to do anything.
FairRunSpec == RunSpec /\ WF_runVars(ExecutorStep)

-----------------------------------------------------------------------------
(* Safety. *)

\* The executor holds a data or control frame the processors see or have seen.
InChain ==
  /\ pc[Executor] \in {"process", "emit", "record"}
  /\ Category(cur[Executor]) # 0

\* After an interruption is handled, no frame that existed when the queue was
\* cleared ever reaches a processor (handle_system_frame and clear): what the
\* user interrupted stays interrupted, even after StopInterruptionFrame.
NoStaleFrame == InChain => cur[Executor].id >= flushMark

\* An interruption outbids what is queued: a frame that was in the queue when a
\* StartInterruptionFrame was pushed is never given to a processor, whatever is
\* pushed, stopped or restarted meanwhile (Ord of PrioritizedFrame, clear).
InterruptionOutbids == InChain => cur[Executor].id \notin outbid

\* The frames that wait: the queue, and a system frame whose effect is still to come.
Waiting ==
  queue \cup (IF pc[Executor] \in {"system", "clear"} THEN {cur[Executor]} ELSE {})

\* A data or control frame is decided by the flag when it is popped: only the
\* executor writes the flag, and it has the frame at hand until it has read it.
Awaited(i) == \E f \in Waiting : f.id = i
AtHand(i) == cur[Executor] # NoFrame /\ cur[Executor].id = i
OutcomeOf(i) ==
  IF fate[i] \in {"processed", "failed"} THEN "served"
  ELSE IF fate[i] \in {"interrupted", "cleared"} THEN "dropped"
  ELSE IF Awaited(i) THEN "waiting"
  ELSE IF ~AtHand(i) THEN "new"
  ELSE IF pc[Executor] = "check" /\ interrupted THEN "dropped"
  ELSE "served"
Outcome == [i \in Id |-> OutcomeOf(i)]

Atomic == INSTANCE AtomicRunner WITH waiting <- Waiting, outcome <- Outcome

\* Whatever is pushed, stopped and started between its awaits, process_next_frame
\* of one executor acts as if it took and decided its frame in one step: an
\* interruption drops all that waits and nothing else, and what is given to the
\* processors was the most urgent frame of a moment without interruption.
ActsAtomically == Atomic!Spec

(* Liveness, up to the frame whose metrics panic (Record), which ends the task. *)

Panicked == pc[Executor] = "panicked"

\* Once the runner is stopped, the executor leaves its loop, unless somebody
\* starts the runner again first.
StopEndsRun ==
  status = "Stopped" /\ loop # "init" ~>
    loop = "exited" \/ status = "Running" \/ Panicked

\* Once nobody pushes any more, a queued frame does not stay for ever in a runner that
\* keeps running: it is handled, dropped, or cleared by an interruption.  While pushes
\* go on it may: a tick takes one frame, and of equals the heap gives any.
QueueDrainsOncePushesEnd ==
  <>[][FALSE]_nextId =>
    \A i \in Id :
      Queued(i) # {} /\ loop = "ticking" ~>
        Queued(i) = {} \/ status # "Running" \/ Panicked

=============================================================================
