------------------------------- MODULE Runner -------------------------------
(***************************************************************************)
(* Runner and Pipeline of crates/orchestrator: a priority queue of frames, *)
(* a status, an interruption flag and the metrics, shared by the tasks     *)
(* that push frames and by the Workers, the tasks that have called         *)
(* Runner::process_next_frame.  Every await of that method is the end of a *)
(* step, so other tasks run between any two of them.                       *)
(*                                                                         *)
(* A frame is an identity and a kind.  The frames processors create, and   *)
(* those producers push, take their identity from nextId; MaxFrames bounds *)
(* it.  The variables after the line "history" exist for the properties.   *)
(*                                                                         *)
(* A definition A_B is A with the bug B.  No specification uses it; the    *)
(* project file names the property that fails when it replaces A.          *)
(***************************************************************************)
EXTENDS Integers, Sequences, FiniteSets

CONSTANTS
  Worker,         \* tasks that drive the runner with process_next_frame
  NumProcessors,  \* length of the pipeline's processor chain
  Kinds,          \* kinds of frame pushed or created by processors
  MaxFrames,      \* bound: frames that ever exist
  MaxExtras,      \* bound: outputs of a processor after the first
  CountModulus,   \* 2^32 in the code: the width of the metrics divisor
  NoFrame         \* the hand of a worker that holds no frame

SystemKinds == {"StartInterruption", "StopInterruption", "End", "FatalError",
                "OtherSystem"}
AllKinds == SystemKinds \cup {"Control", "Data"}

ASSUME RunnerAssumption ==
  /\ NumProcessors \in Nat
  /\ MaxFrames \in Nat
  /\ MaxExtras \in Nat
  /\ CountModulus \in Nat \ {0}
  /\ Kinds \subseteq AllKinds

Id == 0 .. MaxFrames - 1
Frame == [id : Id, kind : Kinds]

ASSUME NoFrameAssumption == NoFrame \notin Frame

VARIABLES
  status,      \* RunnerStatus; Paused and Error are never assigned
  interrupted, \* the flag behind its RwLock
  queue,       \* Pipeline::frame_queue
  processed,   \* RunnerMetrics::frames_processed
  nextId,      \* identity of the next frame to exist
  pc,          \* where each worker is in process_next_frame
  cur,         \* the frame each worker popped
  stage,       \* processors that frame has been through
  outs,        \* outputs[1..] each worker has still to push
  \* history
  fate,        \* what became of each frame that left the queue
  flushMark,   \* nextId when the queue was last cleared
  outbid,      \* non-system frames queued when a StartInterruption arrived
  late         \* frames each worker has popped since the runner stopped

taskVars == <<pc, cur, stage, outs>>
historyVars == <<fate, flushMark, outbid, late>>
vars == <<status, interrupted, queue, processed, nextId, taskVars, historyVars>>

Statuses == {"Idle", "Running", "Stopped"}
Locations == {"idle", "entered", "pop", "system", "clear", "check", "process",
              "emit", "record", "panicked"}
Fates == {"open", "processed", "interrupted", "cleared", "failed"}

TypeOK ==
  /\ status \in Statuses
  /\ interrupted \in BOOLEAN
  /\ queue \in SUBSET Frame
  /\ processed \in Nat
  /\ nextId \in 0 .. MaxFrames
  /\ pc \in [Worker -> Locations]
  /\ cur \in [Worker -> Frame \cup {NoFrame}]
  /\ stage \in [Worker -> 0 .. NumProcessors]
  /\ outs \in [Worker -> Seq(Frame)]
  /\ fate \in [Id -> Fates]
  /\ flushMark \in 0 .. MaxFrames
  /\ outbid \in SUBSET Id
  /\ late \in [Worker -> Nat]

Init ==
  /\ status = "Idle"
  /\ interrupted = FALSE
  /\ queue = {}
  /\ processed = 0
  /\ nextId = 0
  /\ pc = [w \in Worker |-> "idle"]
  /\ cur = [w \in Worker |-> NoFrame]
  /\ stage = [w \in Worker |-> 0]
  /\ outs = [w \in Worker |-> <<>>]
  /\ fate = [i \in Id |-> "open"]
  /\ flushMark = 0
  /\ outbid = {}
  /\ late = [w \in Worker |-> 0]

-----------------------------------------------------------------------------
(* The priority queue. *)

\* FrameCategory as a number: the smaller, the more urgent.
Category(f) == IF f.kind \in SystemKinds THEN 0
               ELSE IF f.kind = "Control" THEN 1 ELSE 2

\* Pipeline::push_frame, with the history of what an interruption outbids.
Enqueue(f) ==
  /\ queue' = queue \cup {f}
  /\ outbid' = IF f.kind = "StartInterruption"
               THEN outbid \cup {g.id : g \in {h \in queue : Category(h) # 0}}
               ELSE outbid

-----------------------------------------------------------------------------
(* Helpers of the steps. *)

\* The worker goes to location l with its frame; or returns to its caller.
GoTo(w, l) == pc' = [pc EXCEPT ![w] = l] /\ UNCHANGED <<cur, stage, outs>>
Return(w, l) ==
  /\ pc' = [pc EXCEPT ![w] = l]
  /\ cur' = [cur EXCEPT ![w] = NoFrame]
  /\ stage' = [stage EXCEPT ![w] = 0]
  /\ outs' = [outs EXCEPT ![w] = <<>>]

Settle(w, f) == fate' = [fate EXCEPT ![cur[w].id] = f]

\* A worker in "clear" holds the write guard of the flag.
FlagLocked == \E w \in Worker : pc[w] = "clear"

\* Bug: the least urgent frame first, Ord not reversed.
MostUrgent_Reversed(f) == \A g \in queue : Category(g) <= Category(f)

\* What BinaryHeap::pop may return: a frame nothing queued is more urgent
\* than.  Among equals the heap promises no order.
MostUrgent(f) == \A g \in queue : Category(f) <= Category(g)

\* The location after n processors: a call of the next, or the metrics.
Proceed(n) == IF n < NumProcessors THEN "process" ELSE "record"

-----------------------------------------------------------------------------
(* Steps with a bug. *)

\* The pop of a stopped runner.
ReadStatus_Unchecked(w) ==
  /\ pc[w] = "entered"
  /\ GoTo(w, "pop")
  /\ UNCHANGED <<status, interrupted, queue, processed, nextId, historyVars>>

\* peek() for pop().
Pop_Peeks(w) ==
  /\ pc[w] = "pop"
  /\ \E f \in queue :
       /\ MostUrgent(f)
       /\ cur' = [cur EXCEPT ![w] = f]
       /\ pc' = [pc EXCEPT ![w] = IF Category(f) = 0 THEN "system" ELSE "check"]
  /\ UNCHANGED <<status, interrupted, queue, processed, nextId, stage, outs,
                 historyVars>>

\* An interruption that only sets the flag.
ClearQueue_KeepsFrames(w) ==
  /\ pc[w] = "clear"
  /\ flushMark' = nextId
  /\ GoTo(w, "record")
  /\ UNCHANGED <<status, interrupted, queue, processed, nextId, fate, outbid, late>>

\* A frame met while interrupted goes back to the queue.
CheckInterrupted_Requeues(w) ==
  /\ pc[w] = "check"
  /\ IF interrupted
     THEN Return(w, "idle") /\ queue' = queue \cup {cur[w]}
     ELSE GoTo(w, Proceed(0)) /\ UNCHANGED queue
  /\ UNCHANGED <<status, interrupted, processed, nextId, historyVars>>

\* The flag is read by nobody.
CheckInterrupted_Unread(w) ==
  /\ pc[w] = "check"
  /\ GoTo(w, Proceed(0))
  /\ UNCHANGED <<status, interrupted, queue, processed, nextId, historyVars>>

-----------------------------------------------------------------------------
(* Tasks that hold the runner: start, stop and push_frame. *)

Push(k) ==
  /\ nextId < MaxFrames
  /\ Enqueue([id |-> nextId, kind |-> k])
  /\ nextId' = nextId + 1
  /\ UNCHANGED <<status, interrupted, processed, taskVars, fate, flushMark, late>>

SetRunning == status' = "Running" /\ late' = [w \in Worker |-> 0]

Start ==
  /\ SetRunning
  /\ UNCHANGED <<interrupted, queue, processed, nextId, taskVars, fate,
                 flushMark, outbid>>

Stop ==
  /\ status' = "Stopped"
  /\ UNCHANGED <<interrupted, queue, processed, nextId, taskVars, historyVars>>

-----------------------------------------------------------------------------
(* process_next_frame, one step per await. *)

Call(w) ==
  /\ pc[w] = "idle"
  /\ GoTo(w, "entered")
  /\ UNCHANGED <<status, interrupted, queue, processed, nextId, historyVars>>

\* The status is read and its guard dropped before the pop.
ReadStatus(w) ==
  /\ pc[w] = "entered"
  /\ GoTo(w, IF status = "Running" THEN "pop" ELSE "idle")
  /\ UNCHANGED <<status, interrupted, queue, processed, nextId, historyVars>>

PopEmpty(w) ==
  /\ pc[w] = "pop"
  /\ queue = {}
  /\ GoTo(w, "idle")
  /\ UNCHANGED <<status, interrupted, queue, processed, nextId, historyVars>>

Pop(w) ==
  /\ pc[w] = "pop"
  /\ \E f \in queue :
       /\ MostUrgent(f)
       /\ queue' = queue \ {f}
       /\ cur' = [cur EXCEPT ![w] = f]
       /\ pc' = [pc EXCEPT ![w] = IF Category(f) = 0 THEN "system" ELSE "check"]
  /\ late' = IF status = "Stopped" THEN [late EXCEPT ![w] = @ + 1] ELSE late
  /\ UNCHANGED <<status, interrupted, processed, nextId, stage, outs, fate,
                 flushMark, outbid>>

\* StartInterruptionFrame: the flag first, its guard held over the clear.
BeginInterruption(w) ==
  /\ pc[w] = "system"
  /\ cur[w].kind = "StartInterruption"
  /\ ~FlagLocked
  /\ interrupted' = TRUE
  /\ GoTo(w, "clear")
  /\ UNCHANGED <<status, queue, processed, nextId, historyVars>>

ClearQueue(w) ==
  /\ pc[w] = "clear"
  /\ queue' = {}
  /\ fate' = [i \in Id |-> IF \E f \in queue : f.id = i THEN "cleared" ELSE fate[i]]
  /\ flushMark' = nextId
  /\ GoTo(w, "record")
  /\ UNCHANGED <<status, interrupted, processed, nextId, outbid, late>>

StopInterruption(w) ==
  /\ pc[w] = "system"
  /\ cur[w].kind = "StopInterruption"
  /\ ~FlagLocked
  /\ interrupted' = FALSE
  /\ GoTo(w, "record")
  /\ UNCHANGED <<status, queue, processed, nextId, historyVars>>

\* EndFrame, and ErrorFrame that is not recoverable, call Runner::stop.
EndSession(w) ==
  /\ pc[w] = "system"
  /\ cur[w].kind \in {"End", "FatalError"}
  /\ status' = "Stopped"
  /\ GoTo(w, "record")
  /\ UNCHANGED <<interrupted, queue, processed, nextId, historyVars>>

\* Every other system frame, CancelFrame among them, falls through the match.
IgnoreSystem(w) ==
  /\ pc[w] = "system"
  /\ cur[w].kind = "OtherSystem"
  /\ GoTo(w, "record")
  /\ UNCHANGED <<status, interrupted, queue, processed, nextId, historyVars>>

\* The flag is read once, before the first processor.
CheckInterrupted(w) ==
  /\ pc[w] = "check"
  /\ ~FlagLocked
  /\ IF interrupted
     THEN Return(w, "idle") /\ Settle(w, "interrupted")
     ELSE GoTo(w, Proceed(0)) /\ UNCHANGED fate
  /\ UNCHANGED <<status, interrupted, queue, processed, nextId, flushMark,
                 outbid, late>>

\* A processor fails: the error leaves the method before the metrics.
ProcessorFails(w) ==
  /\ pc[w] = "process"
  /\ Return(w, "idle")
  /\ Settle(w, "failed")
  /\ UNCHANGED <<status, interrupted, queue, processed, nextId, flushMark,
                 outbid, late>>

\* A processor returns no output: the rest of the chain is skipped.
ProcessorAbsorbs(w) ==
  /\ pc[w] = "process"
  /\ GoTo(w, "record")
  /\ UNCHANGED <<status, interrupted, queue, processed, nextId, historyVars>>

\* A processor returns outputs: the first goes on down the chain (its content
\* does not matter here), the others are new frames for the shared queue.
ProcessorEmits(w) ==
  /\ pc[w] = "process"
  /\ \E n \in 0 .. MaxExtras : \E kinds \in [1 .. n -> Kinds] :
       /\ nextId + n <= MaxFrames
       /\ nextId' = nextId + n
       /\ outs' = [outs EXCEPT ![w] =
                     [i \in 1 .. n |-> [id |-> nextId + i - 1, kind |-> kinds[i]]]]
       /\ pc' = [pc EXCEPT ![w] = IF n = 0 THEN Proceed(stage[w] + 1) ELSE "emit"]
  /\ stage' = [stage EXCEPT ![w] = @ + 1]
  /\ UNCHANGED <<status, interrupted, queue, processed, cur, historyVars>>

PushOutput(w) ==
  /\ pc[w] = "emit"
  /\ Enqueue(Head(outs[w]))
  /\ outs' = [outs EXCEPT ![w] = Tail(@)]
  /\ pc' = [pc EXCEPT ![w] = IF Len(outs[w]) = 1 THEN Proceed(stage[w]) ELSE "emit"]
  /\ UNCHANGED <<status, interrupted, processed, nextId, cur, stage, fate,
                 flushMark, late>>

\* record_frame_processed divides by frames_processed as u32: the task panics
\* when the count, cut to that width, is zero.
Record(w) ==
  /\ pc[w] = "record"
  /\ processed' = processed + 1
  /\ Return(w, IF processed' % CountModulus = 0 THEN "panicked" ELSE "idle")
  /\ Settle(w, "processed")
  /\ UNCHANGED <<status, interrupted, queue, nextId, flushMark, outbid, late>>

HandleSystem(w) ==
  \/ BeginInterruption(w) \/ ClearQueue(w) \/ StopInterruption(w)
  \/ EndSession(w) \/ IgnoreSystem(w)

ProcessData(w) ==
  \/ CheckInterrupted(w) \/ ProcessorFails(w) \/ ProcessorAbsorbs(w)
  \/ ProcessorEmits(w) \/ PushOutput(w)

\* A step of a call of process_next_frame already under way.
Step(w) ==
  ReadStatus(w) \/ PopEmpty(w) \/ Pop(w) \/ HandleSystem(w) \/ ProcessData(w)
  \/ Record(w)

Environment == Start \/ Stop \/ \E k \in Kinds : Push(k)

Next == Environment \/ \E w \in Worker : Call(w) \/ Step(w)

Spec == Init /\ [][Next]_vars

-----------------------------------------------------------------------------
(* Properties of a runner shared by any number of workers. *)

\* The places a frame can be in.
Held(i) == {w \in Worker : cur[w] # NoFrame /\ cur[w].id = i}
Queued(i) == {f \in queue : f.id = i}
Pending(i) == {w \in Worker : \E j \in DOMAIN outs[w] : outs[w][j].id = i}

\* Whatever the interleaving of pushes, clears, failures and workers, every
\* frame that exists is in exactly one place: queued, about to be queued, in
\* the hands of one worker, or settled with one fate (push_frame, pop_frame,
\* clear and the error returns of process_next_frame).
EveryFrameInOnePlace ==
  \A i \in Id : i < nextId =>
    Cardinality(Held(i)) + Cardinality(Queued(i)) + Cardinality(Pending(i))
      + (IF fate[i] = "open" THEN 0 ELSE 1) = 1

\* frames_processed counts exactly the frames handled to the end: neither the
\* frames dropped while interrupted nor those lost to an error or a clear.
MetricsCountHandled ==
  processed = Cardinality({i \in Id : fate[i] = "processed"})

\* The status is checked before the pop and not after: each worker may take
\* one frame after stop(), and never two.
AtMostOneFrameAfterStop == \A w \in Worker : late[w] <= 1

\* The write guard of the flag is held from setting it until the queue is
\* cleared (handle_system_frame), so no StopInterruptionFrame another worker
\* handles can come between the two: whoever finds a clear under way, finds the
\* flag set.
FlagHeldOverClear == FlagLocked => interrupted

=============================================================================
