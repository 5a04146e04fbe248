----------------------------- MODULE RunnerProofs -----------------------------
(***************************************************************************)
(* Theorems about Runner, for every set of workers, chain of processors    *)
(* and bound, and about the runner its executor drives alone               *)
(* (RunnerExecutor): what an interruption guarantees.                      *)
(***************************************************************************)
EXTENDS RunnerExecutor, SequenceTheorems, FiniteSetTheorems, TLAPS

\* The history and the data each step leaves alone are named by these tuples.
USE DEF vars, taskVars, historyVars

-----------------------------------------------------------------------------
(* Type correctness. *)

LEMMA NothingToPush == <<>> \in Seq(Frame)
  BY EmptySeq

LEMMA InitType == Init => TypeOK
<1> SUFFICES ASSUME Init PROVE TypeOK
  OBVIOUS
<1>1. outs \in [Worker -> Seq(Frame)]
  BY NothingToPush DEF Init
<1>2. /\ fate \in [Id -> Fates]
      /\ pc \in [Worker -> Locations]
      /\ status \in Statuses
  BY DEF Init, Fates, Locations, Statuses
<1>3. interrupted \in BOOLEAN
  BY Zenon DEF Init
<1>4. QED
  BY <1>1, <1>2, <1>3, RunnerAssumption DEF RunnerAssumption, Init, TypeOK

LEMMA EnvironmentType == TypeOK /\ Environment => TypeOK'
<1> SUFFICES ASSUME TypeOK, Environment PROVE TypeOK'
  OBVIOUS
<1> USE RunnerAssumption DEF RunnerAssumption, TypeOK
<1>1. CASE Start
  BY <1>1 DEF Start, SetRunning, Statuses
<1>2. CASE Stop
  BY <1>2 DEF Stop, Statuses
<1>3. ASSUME NEW k \in Kinds, Push(k) PROVE TypeOK'
  <2>1. [id |-> nextId, kind |-> k] \in Frame
    BY <1>3 DEF Push, Frame, Id
  <2>2. outbid' \in SUBSET Id
    BY <1>3, <2>1 DEF Push, Enqueue, Frame
  <2>3. QED
    BY <1>3, <2>1, <2>2 DEF Push, Enqueue
<1>4. QED
  BY <1>1, <1>2, <1>3 DEF Environment

\* The first output to push, and the rest, when there is one.
LEMMA OutputType ==
  ASSUME TypeOK, NEW w \in Worker, outs[w] # <<>>
  PROVE  /\ Head(outs[w]) \in Frame
         /\ Tail(outs[w]) \in Seq(Frame)
  BY HeadTailProperties DEF TypeOK

\* The frames a processor call creates, numbered from nextId.
NewFrames(n, kinds) == [i \in 1 .. n |-> [id |-> nextId + i - 1, kind |-> kinds[i]]]

LEMMA EmitsType ==
  ASSUME TypeOK, NEW w \in Worker, stage[w] < NumProcessors, ProcessorEmits(w)
  PROVE  TypeOK'
<1> USE RunnerAssumption DEF RunnerAssumption, TypeOK
<1>1. PICK n \in 0 .. MaxExtras : \E kinds \in [1 .. n -> Kinds] :
        /\ nextId + n <= MaxFrames
        /\ nextId' = nextId + n
        /\ outs' = [outs EXCEPT ![w] = NewFrames(n, kinds)]
        /\ pc' = [pc EXCEPT ![w] = IF n = 0 THEN Proceed(stage[w] + 1) ELSE "emit"]
  BY DEF ProcessorEmits, NewFrames
<1>2. PICK kinds \in [1 .. n -> Kinds] :
        /\ nextId + n <= MaxFrames
        /\ nextId' = nextId + n
        /\ outs' = [outs EXCEPT ![w] = NewFrames(n, kinds)]
        /\ pc' = [pc EXCEPT ![w] = IF n = 0 THEN Proceed(stage[w] + 1) ELSE "emit"]
  BY <1>1
<1>3. NewFrames(n, kinds) \in Seq(Frame)
  <2>1. \A i \in 1 .. n : [id |-> nextId + i - 1, kind |-> kinds[i]] \in Frame
    BY <1>2 DEF Frame, Id
  <2>2. NewFrames(n, kinds) \in [1 .. n -> Frame]
    BY <2>1 DEF NewFrames
  <2>3. QED
    BY <2>2
<1>4. outs' \in [Worker -> Seq(Frame)]
  BY <1>2, <1>3
<1>5. nextId' \in 0 .. MaxFrames
  BY <1>2
<1>6. pc' \in [Worker -> Locations]
  BY <1>2 DEF Proceed, Locations
<1>7. stage' \in [Worker -> 0 .. NumProcessors]
  BY DEF ProcessorEmits
<1>8. interrupted' \in BOOLEAN
  BY Zenon DEF ProcessorEmits
<1>9. QED
  BY <1>4, <1>5, <1>6, <1>7, <1>8 DEF ProcessorEmits

LEMMA StepType ==
  ASSUME TypeOK, NEW w \in Worker, pc[w] = "emit" => outs[w] # <<>>,
         pc[w] = "process" => stage[w] < NumProcessors,
         pc[w] \in {"system", "clear", "check", "process", "emit", "record"}
           => cur[w] \in Frame,
         Call(w) \/ Step(w)
  PROVE  TypeOK'
<1> USE RunnerAssumption DEF RunnerAssumption, TypeOK, GoTo, Return, Settle, Locations, Statuses, Fates
<1>1. CASE Call(w)
  BY <1>1 DEF Call
<1>2. CASE ReadStatus(w)
  BY <1>2 DEF ReadStatus
<1>3. CASE PopEmpty(w)
  BY <1>3 DEF PopEmpty
<1>4. CASE Pop(w)
  BY <1>4 DEF Pop
<1>5. CASE HandleSystem(w)
  BY <1>5 DEF HandleSystem, BeginInterruption, ClearQueue, StopInterruption,
              EndSession, IgnoreSystem
<1>6. CASE CheckInterrupted(w)
  <2>1. cur[w] \in Frame /\ cur[w].id \in Id
    BY <1>6 DEF CheckInterrupted, Frame
  <2>2. interrupted' \in BOOLEAN
    BY <1>6, Zenon DEF CheckInterrupted
  <2>3. CASE interrupted
    <3>1. Return(w, "idle") /\ Settle(w, "interrupted")
      BY <1>6, <2>3, Zenon DEF CheckInterrupted
    <3>2. QED
      BY <1>6, <2>1, <2>2, <3>1, NothingToPush DEF CheckInterrupted
  <2>4. CASE ~interrupted
    <3>1. GoTo(w, Proceed(0)) /\ UNCHANGED fate
      BY <1>6, <2>4, Zenon DEF CheckInterrupted
    <3>2. QED
      BY <1>6, <2>2, <3>1 DEF CheckInterrupted, Proceed
  <2>5. QED
    BY <2>3, <2>4, Zenon
<1>7. CASE ProcessorFails(w)
  <2>1. cur[w] \in Frame /\ cur[w].id \in Id
    BY <1>7 DEF ProcessorFails, Frame
  <2>2. QED
    BY <1>7, <2>1, NothingToPush DEF ProcessorFails
<1>8. CASE ProcessorAbsorbs(w)
  BY <1>8 DEF ProcessorAbsorbs
<1>9. CASE ProcessorEmits(w)
  BY <1>9, EmitsType DEF ProcessorEmits
<1>10. CASE PushOutput(w)
  <2>1. Head(outs[w]) \in Frame /\ Tail(outs[w]) \in Seq(Frame)
    BY <1>10, OutputType DEF PushOutput
  <2>2. outbid' \in SUBSET Id
    BY <1>10, <2>1 DEF PushOutput, Enqueue, Frame
  <2>3. QED
    BY <1>10, <2>1, <2>2 DEF PushOutput, Enqueue, Proceed
<1>11. CASE Record(w)
  <2>1. cur[w] \in Frame /\ cur[w].id \in Id
    BY <1>11 DEF Record, Frame
  <2>2. QED
    BY <1>11, <2>1, NothingToPush DEF Record
<1>12. QED
  BY <1>1, <1>2, <1>3, <1>4, <1>5, <1>6, <1>7, <1>8, <1>9, <1>10, <1>11
  DEF Step, ProcessData

-----------------------------------------------------------------------------
(* What a worker holds at each location. *)

Holding == {"system", "clear", "check", "process", "emit", "record"}

ShapeOf(w) ==
  /\ cur[w] # NoFrame <=> pc[w] \in Holding
  /\ outs[w] # <<>> <=> pc[w] = "emit"
  /\ pc[w] \in {"system", "clear"} => Category(cur[w]) = 0
  /\ pc[w] = "clear" => cur[w].kind = "StartInterruption"
  /\ pc[w] \in {"check", "process", "emit"} => Category(cur[w]) # 0
  /\ pc[w] = "process" => stage[w] < NumProcessors
  /\ pc[w] \notin {"process", "emit", "record"} => stage[w] = 0

WorkerShape == \A w \in Worker : ShapeOf(w)

LEMMA InitShape == Init => WorkerShape
  BY DEF Init, WorkerShape, ShapeOf, Holding

LEMMA EnvironmentShape == WorkerShape /\ Environment => WorkerShape'
  BY DEF WorkerShape, ShapeOf, Environment, Start, SetRunning, Stop, Push,
         Category

\* A step of one worker leaves the others where they are.
LEMMA OthersStay ==
  ASSUME TypeOK, NEW w \in Worker, Call(w) \/ Step(w), NEW u \in Worker \ {w}
  PROVE  /\ pc'[u] = pc[u] /\ cur'[u] = cur[u] /\ outs'[u] = outs[u]
         /\ stage'[u] = stage[u] /\ late'[u] = late[u]
<1> USE DEF TypeOK, GoTo, Return
<1>1. CASE Call(w) \/ ReadStatus(w) \/ PopEmpty(w) \/ Pop(w)
  BY <1>1 DEF Call, ReadStatus, PopEmpty, Pop
<1>2. CASE HandleSystem(w)
  BY <1>2 DEF HandleSystem, BeginInterruption, ClearQueue, StopInterruption,
              EndSession, IgnoreSystem
<1>3. CASE ProcessData(w)
  BY <1>3 DEF ProcessData, CheckInterrupted, ProcessorFails, ProcessorAbsorbs,
              ProcessorEmits, PushOutput
<1>4. CASE Record(w)
  BY <1>4 DEF Record
<1>5. QED
  BY <1>1, <1>2, <1>3, <1>4 DEF Step

LEMMA LastOne ==
  ASSUME NEW S, NEW s \in Seq(S), s # <<>>
  PROVE  Len(s) = 1 <=> Tail(s) = <<>>
<1>1. Tail(s) \in Seq(S) /\ Len(Tail(s)) = Len(s) - 1 /\ Len(s) \in Nat
  BY HeadTailProperties, LenProperties
<1>2. Tail(s) = <<>> <=> Len(Tail(s)) = 0
  BY <1>1, EmptySeq
<1>3. QED
  BY <1>1, <1>2

LEMMA NoNewFrames ==
  ASSUME NEW n \in Nat, NEW kinds
  PROVE  /\ NewFrames(n, kinds) # <<>> <=> n # 0
         /\ DOMAIN NewFrames(n, kinds) = 1 .. n
<1>1. DOMAIN NewFrames(n, kinds) = 1 .. n
  BY DEF NewFrames
<1>2. n # 0 => 1 \in DOMAIN NewFrames(n, kinds)
  BY <1>1
<1>3. DOMAIN <<>> = {}
  OBVIOUS
<1>4. n = 0 => NewFrames(n, kinds) = <<>>
  BY DEF NewFrames
<1>5. QED
  BY <1>1, <1>2, <1>3, <1>4

LEMMA OwnShape ==
  ASSUME TypeOK, NEW w \in Worker, ShapeOf(w), Call(w) \/ Step(w)
  PROVE  ShapeOf(w)'
<1> USE RunnerAssumption, NoFrameAssumption
    DEF RunnerAssumption, TypeOK, GoTo, Return, ShapeOf, Holding, Category
<1>1. CASE Call(w) \/ ReadStatus(w) \/ PopEmpty(w)
  BY <1>1 DEF Call, ReadStatus, PopEmpty
<1>2. CASE Pop(w)
  BY <1>2 DEF Pop
<1>3. CASE HandleSystem(w)
  BY <1>3 DEF HandleSystem, BeginInterruption, ClearQueue, StopInterruption,
              EndSession, IgnoreSystem
<1>4. CASE CheckInterrupted(w)
  BY <1>4 DEF CheckInterrupted, Proceed
<1>5. CASE ProcessorFails(w) \/ ProcessorAbsorbs(w)
  BY <1>5 DEF ProcessorFails, ProcessorAbsorbs
<1>6. CASE ProcessorEmits(w)
  <2>1. PICK n \in 0 .. MaxExtras : \E kinds \in [1 .. n -> Kinds] :
          /\ outs' = [outs EXCEPT ![w] = NewFrames(n, kinds)]
          /\ pc' = [pc EXCEPT ![w] =
                      IF n = 0 THEN Proceed(stage[w] + 1) ELSE "emit"]
    BY <1>6 DEF ProcessorEmits, NewFrames
  <2>2. outs'[w] # <<>> <=> n # 0
    BY <2>1, NoNewFrames, RunnerAssumption DEF RunnerAssumption
  <2>3. QED
    BY <1>6, <2>1, <2>2 DEF ProcessorEmits, Proceed
<1>7. CASE PushOutput(w)
  <2>1. Len(outs[w]) = 1 <=> Tail(outs[w]) = <<>>
    BY <1>7, LastOne DEF PushOutput
  <2>2. QED
    BY <1>7, <2>1 DEF PushOutput, Proceed
<1>8. CASE Record(w)
  BY <1>8 DEF Record
<1>9. QED
  BY <1>1, <1>2, <1>3, <1>4, <1>5, <1>6, <1>7, <1>8 DEF Step, ProcessData

LEMMA NextShape == TypeOK /\ WorkerShape /\ [Next]_vars => WorkerShape'
<1> SUFFICES ASSUME TypeOK, WorkerShape, [Next]_vars PROVE WorkerShape'
  OBVIOUS
<1>1. CASE UNCHANGED vars
  BY <1>1 DEF WorkerShape, ShapeOf, Category
<1>2. CASE Environment
  BY <1>2, EnvironmentShape
<1>3. ASSUME NEW w \in Worker, Call(w) \/ Step(w) PROVE WorkerShape'
  <2>1. ShapeOf(w)'
    BY <1>3, OwnShape DEF WorkerShape
  <2>2. ASSUME NEW u \in Worker \ {w} PROVE ShapeOf(u)'
    BY <1>3, OthersStay DEF WorkerShape, ShapeOf, Category
  <2>3. QED
    BY <2>1, <2>2 DEF WorkerShape
<1>4. QED
  BY <1>1, <1>2, <1>3 DEF Next

\* Every state of a runner is well typed: whatever tasks push, start, stop and
\* drive it, the queue holds frames and every worker is at a known location.
THEOREM TypeCorrect == Spec => [](TypeOK /\ WorkerShape)
<1>1. Init => TypeOK /\ WorkerShape
  BY InitType, InitShape
<1>2. TypeOK /\ WorkerShape /\ [Next]_vars => TypeOK'
  <2> SUFFICES ASSUME TypeOK, WorkerShape, [Next]_vars PROVE TypeOK'
    OBVIOUS
  <2>1. CASE UNCHANGED vars
    BY <2>1, Zenon DEF TypeOK
  <2>2. CASE Environment
    BY <2>2, EnvironmentType
  <2>3. ASSUME NEW w \in Worker, Call(w) \/ Step(w) PROVE TypeOK'
    BY <2>3, StepType DEF WorkerShape, ShapeOf, Holding, TypeOK
  <2>4. QED
    BY <2>1, <2>2, <2>3 DEF Next
<1>3. QED
  BY <1>1, <1>2, NextShape, PTL DEF Spec

-----------------------------------------------------------------------------
(* The race between stop() and the pop. *)

\* A worker goes to the pop only while the runner is running, when nothing has
\* been popped late; so the one late frame of a worker is the last.
LateInv ==
  /\ status # "Stopped" => \A w \in Worker : late[w] = 0
  /\ \A w \in Worker : late[w] <= 1 /\ (pc[w] = "pop" => late[w] = 0)

LEMMA NextLate == TypeOK /\ LateInv /\ [Next]_vars => LateInv'
<1> SUFFICES ASSUME TypeOK, LateInv, [Next]_vars PROVE LateInv'
  OBVIOUS
<1> USE DEF LateInv
<1>1. CASE UNCHANGED vars
  BY <1>1
<1>2. CASE Environment
  <2>1. CASE Start
    <3>1. status' = "Running" /\ \A w \in Worker : late'[w] = 0
      BY <2>1 DEF Start, SetRunning
    <3>2. QED
      BY <3>1
  <2>2. CASE Stop
    BY <2>2 DEF Stop
  <2>3. CASE \E k \in Kinds : Push(k)
    BY <2>3 DEF Push
  <2>4. QED
    BY <1>2, <2>1, <2>2, <2>3 DEF Environment
<1>3. ASSUME NEW w \in Worker, Call(w) \/ Step(w) PROVE LateInv'
  <2> USE DEF GoTo, Return, TypeOK
  <2>1. CASE Call(w) \/ ReadStatus(w) \/ PopEmpty(w)
    BY <2>1 DEF Call, ReadStatus, PopEmpty
  <2>2. CASE Pop(w)
    BY <2>2 DEF Pop
  <2>3. CASE HandleSystem(w)
    BY <2>3 DEF HandleSystem, BeginInterruption, ClearQueue, StopInterruption,
                EndSession, IgnoreSystem
  <2>4. CASE ProcessData(w)
    BY <2>4 DEF ProcessData, CheckInterrupted, ProcessorFails, ProcessorAbsorbs,
                ProcessorEmits, PushOutput, Proceed
  <2>5. CASE Record(w)
    BY <2>5 DEF Record
  <2>6. QED
    BY <1>3, <2>1, <2>2, <2>3, <2>4, <2>5 DEF Step
<1>4. QED
  BY <1>1, <1>2, <1>3 DEF Next

\* However many workers share a runner and whenever stop() comes, each of them
\* takes at most one more frame from the queue until somebody starts the runner
\* again (the check of the status and the pop of process_next_frame).
THEOREM StopRaceBounded == Spec => []AtMostOneFrameAfterStop
<1>1. Init => LateInv
  BY DEF Init, LateInv
<1>2. LateInv => AtMostOneFrameAfterStop
  BY DEF LateInv, AtMostOneFrameAfterStop
<1>3. QED
  BY <1>1, <1>2, NextLate, TypeCorrect, PTL DEF Spec

-----------------------------------------------------------------------------
(* The guard of the interruption flag. *)

\* At most one worker is between the flag and the clear, and the flag is up.
FlagInv ==
  \A w \in Worker :
    pc[w] = "clear" => interrupted = TRUE /\ \A u \in Worker : pc[u] = "clear" => u = w

LEMMA NextFlag == TypeOK /\ FlagInv /\ [Next]_vars => FlagInv'
<1> SUFFICES ASSUME TypeOK, FlagInv, [Next]_vars PROVE FlagInv'
  OBVIOUS
<1> USE DEF FlagInv
<1>1. CASE UNCHANGED vars
  BY <1>1
<1>2. CASE Environment
  BY <1>2 DEF Environment, Start, Stop, Push
<1>3. ASSUME NEW w \in Worker, Call(w) \/ Step(w) PROVE FlagInv'
  <2> USE DEF GoTo, Return, TypeOK, FlagLocked
  <2>1. CASE Call(w) \/ ReadStatus(w) \/ PopEmpty(w) \/ Pop(w) \/ Record(w)
    BY <2>1 DEF Call, ReadStatus, PopEmpty, Pop, Record
  <2>2. CASE BeginInterruption(w)
    BY <2>2 DEF BeginInterruption
  <2>3. CASE StopInterruption(w)
    BY <2>3 DEF StopInterruption
  <2>4. CASE ClearQueue(w) \/ EndSession(w) \/ IgnoreSystem(w)
    BY <2>4 DEF ClearQueue, EndSession, IgnoreSystem
  <2>5. CASE ProcessData(w)
    BY <2>5 DEF ProcessData, CheckInterrupted, ProcessorFails, ProcessorAbsorbs,
                ProcessorEmits, PushOutput, Proceed
  <2>6. QED
    BY <1>3, <2>1, <2>2, <2>3, <2>4, <2>5 DEF Step, HandleSystem
<1>4. QED
  BY <1>1, <1>2, <1>3 DEF Next

\* Nobody ever finds a queue being cleared with the interruption flag down, so
\* a StopInterruptionFrame cannot come between the two halves of an interruption.
THEOREM InterruptionAtomic == Spec => []FlagHeldOverClear
<1>1. Init => FlagInv
  BY DEF Init, FlagInv
<1>2. FlagInv => FlagHeldOverClear
  BY DEF FlagInv, FlagHeldOverClear, FlagLocked
<1>3. QED
  BY <1>1, <1>2, NextFlag, TypeCorrect, PTL DEF Spec

-----------------------------------------------------------------------------
(* Every frame is in one place. *)

Holds(w) == cur[w] # NoFrame

\* No frame is in two places ...
PlacedOnce ==
  /\ \A f \in queue, g \in queue : f.id = g.id => f = g
  /\ \A w \in Worker, f \in queue : Holds(w) => cur[w].id # f.id
  /\ \A w \in Worker, u \in Worker :
       Holds(w) /\ Holds(u) /\ cur[w].id = cur[u].id => w = u
  /\ \A w \in Worker, f \in queue : \A j \in DOMAIN outs[w] : outs[w][j].id # f.id
  /\ \A w \in Worker, u \in Worker : \A j \in DOMAIN outs[w] :
       Holds(u) => outs[w][j].id # cur[u].id
  /\ \A w \in Worker, u \in Worker : \A i \in DOMAIN outs[w], j \in DOMAIN outs[u] :
       outs[w][i].id = outs[u][j].id => w = u /\ i = j

\* ... every place holds frames that exist and are not settled ...
PlacedOpen ==
  /\ \A f \in queue : f.id < nextId /\ fate[f.id] = "open"
  /\ \A w \in Worker : Holds(w) => cur[w].id < nextId /\ fate[cur[w].id] = "open"
  /\ \A w \in Worker : \A j \in DOMAIN outs[w] :
       outs[w][j].id < nextId /\ fate[outs[w][j].id] = "open"
  /\ \A i \in Id : fate[i] # "open" => i < nextId

\* ... and a frame that exists and is not settled is in some place.
PlacedSomewhere ==
  \A i \in Id : i < nextId /\ fate[i] = "open" =>
    \/ \E f \in queue : f.id = i
    \/ \E w \in Worker : Holds(w) /\ cur[w].id = i
    \/ \E w \in Worker : \E j \in DOMAIN outs[w] : outs[w][j].id = i

PlaceInv == PlacedOnce /\ PlacedOpen /\ PlacedSomewhere

LEMMA InitPlace == Init => PlaceInv
<1> SUFFICES ASSUME Init PROVE PlaceInv
  OBVIOUS
<1>1. queue = {} /\ nextId = 0 /\ \A i \in Id : fate[i] = "open" /\ i >= 0
  BY RunnerAssumption DEF Init, Id, RunnerAssumption
<1>2. \A w \in Worker : ~Holds(w) /\ DOMAIN outs[w] = {}
  <2>1. DOMAIN <<>> = {}
    OBVIOUS
  <2>2. QED
    BY <2>1 DEF Init, Holds
<1>3. QED
  BY <1>1, <1>2 DEF PlaceInv, PlacedOnce, PlacedOpen, PlacedSomewhere, Id

LEMMA OutputFrames ==
  ASSUME TypeOK, NEW w \in Worker, NEW j \in DOMAIN outs[w]
  PROVE  outs[w][j] \in Frame /\ outs[w][j].id \in Id
<1>1. outs[w] \in Seq(Frame)
  BY DEF TypeOK
<1>2. j \in 1 .. Len(outs[w])
  BY <1>1, LenProperties
<1>3. outs[w][j] \in Frame
  BY <1>1, <1>2, ElementOfSeq, Zenon
<1>4. QED
  BY <1>3 DEF Frame

\* Steps that move no frame.
LEMMA StillPlaced ==
  ASSUME PlaceInv, UNCHANGED <<queue, cur, outs, fate, nextId>>
  PROVE  PlaceInv'
  BY DEF PlaceInv, PlacedOnce, PlacedOpen, PlacedSomewhere, Holds

\* A new frame enters the queue.
LEMMA PushPlaced ==
  ASSUME TypeOK, PlaceInv, NEW k \in Kinds, Push(k)
  PROVE  PlaceInv'
<1> DEFINE new == [id |-> nextId, kind |-> k]
<1>1. /\ queue' = queue \cup {new} /\ new.id = nextId /\ nextId' = nextId + 1
      /\ UNCHANGED <<cur, outs, fate>> /\ nextId \in Id /\ nextId \in Nat
  BY RunnerAssumption DEF Push, Enqueue, TypeOK, RunnerAssumption, Id
<1> USE DEF PlaceInv, PlacedOnce, PlacedOpen, PlacedSomewhere, Holds
<1>2. \A f \in queue : f.id \in Nat
  BY DEF TypeOK, Frame, Id
<1>3. \A w \in Worker : Holds(w) => cur[w].id \in Nat
  BY DEF TypeOK, Frame, Id
<1>4. \A w \in Worker : \A j \in DOMAIN outs[w] : outs[w][j].id \in Nat
  BY OutputFrames DEF Id
<1>. HIDE DEF new
<1>5. fate[nextId] = "open"
  BY <1>1
<1>6. PlacedOnce'
  BY <1>1, <1>2, <1>3, <1>4
<1>7. PlacedOpen'
  BY <1>1, <1>2, <1>3, <1>4, <1>5 DEF Id
<1>8. PlacedSomewhere'
  BY <1>1 DEF Id
<1>9. QED
  BY <1>6, <1>7, <1>8

\* A frame goes from the queue to a worker with empty hands.
LEMMA PopPlaced ==
  ASSUME TypeOK, WorkerShape, PlaceInv, NEW w \in Worker, Pop(w)
  PROVE  PlaceInv'
<1>1. PICK f \in queue : /\ queue' = queue \ {f}
                         /\ cur' = [cur EXCEPT ![w] = f]
  BY DEF Pop
<1>2. UNCHANGED <<outs, fate, nextId>>
  BY DEF Pop
<1>3. ~Holds(w)
  BY DEF Pop, WorkerShape, ShapeOf, Holding, Holds
<1>4. cur'[w] = f /\ \A u \in Worker \ {w} : cur'[u] = cur[u]
  BY <1>1 DEF TypeOK
<1>5. f # NoFrame
  BY <1>1, NoFrameAssumption DEF TypeOK
<1> USE DEF PlaceInv, PlacedOnce, PlacedOpen, PlacedSomewhere, Holds
<1>6. PlacedOnce'
  BY <1>1, <1>2, <1>3, <1>4, <1>5
<1>7. PlacedOpen'
  BY <1>1, <1>2, <1>3, <1>4, <1>5
<1>8. PlacedSomewhere'
  BY <1>1, <1>2, <1>3, <1>4, <1>5
<1>9. QED
  BY <1>6, <1>7, <1>8

\* The frame in a worker's hands is settled.
LEMMA SettlePlaced ==
  ASSUME TypeOK, PlaceInv, NEW w \in Worker, Holds(w), outs[w] = <<>>,
         NEW l, NEW r \in Fates \ {"open"}, Return(w, l), Settle(w, r),
         UNCHANGED <<queue, nextId>>
  PROVE  PlaceInv'
<1>1. /\ ~Holds(w)' /\ outs' = outs
      /\ \A u \in Worker \ {w} : cur'[u] = cur[u]
  BY DEF Return, TypeOK, Holds
<1>2. cur[w].id \in Id
  BY DEF Holds, TypeOK, Frame
<1>3. /\ fate'[cur[w].id] = r
      /\ \A i \in Id \ {cur[w].id} : fate'[i] = fate[i]
  BY <1>2 DEF Settle, TypeOK
<1>4. \A f \in queue : f.id \in Id
  BY DEF TypeOK, Frame
<1>5. \A u \in Worker : Holds(u) => cur[u].id \in Id
  BY DEF TypeOK, Frame, Holds
<1>6. \A u \in Worker : \A j \in DOMAIN outs[u] : outs[u][j].id \in Id
  BY OutputFrames
<1> USE DEF PlaceInv, PlacedOnce, PlacedOpen, PlacedSomewhere, Holds
<1>7. PlacedOnce'
  BY <1>1
<1>8. PlacedOpen'
  BY <1>1, <1>2, <1>3, <1>4, <1>5, <1>6
<1>9. PlacedSomewhere'
  BY <1>1, <1>2, <1>3
<1>10. QED
  BY <1>7, <1>8, <1>9

\* The queue is cleared.
LEMMA ClearPlaced ==
  ASSUME TypeOK, PlaceInv, NEW w \in Worker, ClearQueue(w)
  PROVE  PlaceInv'
<1>1. queue' = {} /\ UNCHANGED <<cur, outs, nextId>>
  BY DEF ClearQueue, GoTo
<1>2. \A i \in Id : fate'[i] = IF \E f \in queue : f.id = i THEN "cleared"
                              ELSE fate[i]
  BY DEF ClearQueue
<1>3. \A f \in queue : f.id \in Id
  BY DEF TypeOK, Frame
<1>4. \A u \in Worker : Holds(u) => cur[u].id \in Id
  BY DEF TypeOK, Frame, Holds
<1>5. \A u \in Worker : \A j \in DOMAIN outs[u] : outs[u][j].id \in Id
  BY OutputFrames
<1> USE DEF PlaceInv, PlacedOnce, PlacedOpen, PlacedSomewhere, Holds
<1>6. PlacedOnce'
  BY <1>1
<1>7. PlacedOpen'
  BY <1>1, <1>2, <1>3, <1>4, <1>5
<1>8. PlacedSomewhere'
  BY <1>1, <1>2
<1>9. QED
  BY <1>6, <1>7, <1>8

\* A processor creates frames: they wait in the worker's outputs.
LEMMA EmitPlaced ==
  ASSUME TypeOK, WorkerShape, PlaceInv, NEW w \in Worker, ProcessorEmits(w)
  PROVE  PlaceInv'
<1>1. PICK n \in 0 .. MaxExtras : \E kinds \in [1 .. n -> Kinds] :
        /\ nextId + n <= MaxFrames /\ nextId' = nextId + n
        /\ outs' = [outs EXCEPT ![w] = NewFrames(n, kinds)]
  BY DEF ProcessorEmits, NewFrames
<1>2. /\ outs[w] = <<>> /\ UNCHANGED <<queue, cur, fate>>
      /\ n \in Nat /\ nextId \in Nat /\ MaxFrames \in Nat
  BY RunnerAssumption
  DEF ProcessorEmits, WorkerShape, ShapeOf, TypeOK, RunnerAssumption
<1>3. DOMAIN outs[w] = {}
  BY <1>2
<1>4. /\ DOMAIN outs'[w] = 1 .. n
      /\ \A j \in 1 .. n : outs'[w][j].id = nextId + j - 1
      /\ \A u \in Worker \ {w} : outs'[u] = outs[u] /\ DOMAIN outs'[u] = DOMAIN outs[u]
  BY <1>1, <1>2 DEF NewFrames, TypeOK
<1>5. \A f \in queue : f.id \in Nat
  BY DEF TypeOK, Frame, Id
<1>6. \A u \in Worker : Holds(u) => cur[u].id \in Nat
  BY DEF TypeOK, Frame, Id, Holds
<1>7. \A u \in Worker : \A j \in DOMAIN outs[u] : outs[u][j].id \in Nat
  BY OutputFrames DEF Id
<1>8. \A i \in Id : i \in Nat /\ (i >= nextId => fate[i] = "open")
  BY <1>2 DEF Id, PlaceInv, PlacedOpen
<1>9. nextId' = nextId + n /\ nextId + n <= MaxFrames
  BY <1>1
<1>10. \A j \in 1 .. n : outs'[w][j].id \in Id /\ nextId <= outs'[w][j].id
                       /\ outs'[w][j].id < nextId'
  BY <1>2, <1>4, <1>9 DEF Id
<1>11. \A i \in 1 .. n, j \in 1 .. n : outs'[w][i].id = outs'[w][j].id => i = j
  BY <1>2, <1>4
<1>12. \A i \in Id : i < nextId' => i < nextId \/ \E j \in 1 .. n : outs'[w][j].id = i
  <2> SUFFICES ASSUME NEW i \in Id, i < nextId + n, ~(i < nextId)
               PROVE  \E j \in 1 .. n : nextId + j - 1 = i
    BY <1>4, <1>9
  <2>1. i - nextId + 1 \in 1 .. n /\ nextId + (i - nextId + 1) - 1 = i
    BY <1>2, <1>8
  <2>2. QED
    BY <2>1
<1> USE DEF PlaceInv, PlacedOnce, PlacedOpen, PlacedSomewhere, Holds
<1>13. \A f \in queue : f.id < nextId
  OBVIOUS
<1>14. \A u \in Worker : Holds(u) => cur[u].id < nextId
  OBVIOUS
<1>15. \A u \in Worker : \A j \in DOMAIN outs[u] : outs[u][j].id < nextId
  OBVIOUS
<1>16. \A i \in Id : i < nextId => i < nextId'
  BY <1>2, <1>8, <1>9
<1>17. PlacedOnce'
  <2>1. \A u \in Worker, f \in queue : \A j \in DOMAIN outs'[u] : outs'[u][j].id # f.id
    <3>1. \A f \in queue : \A j \in 1 .. n : outs'[w][j].id # f.id
      BY <1>2, <1>5, <1>8, <1>10, <1>13
    <3>2. QED
      BY <3>1, <1>4
  <2>2. \A u \in Worker, v \in Worker : \A j \in DOMAIN outs'[u] :
          Holds(v) => outs'[u][j].id # cur[v].id
    <3>1. \A v \in Worker : \A j \in 1 .. n : Holds(v) => outs'[w][j].id # cur[v].id
      BY <1>2, <1>6, <1>8, <1>10, <1>14
    <3>2. QED
      BY <3>1, <1>4
  <2>3. \A u \in Worker, v \in Worker : \A i \in DOMAIN outs'[u], j \in DOMAIN outs'[v] :
          outs'[u][i].id = outs'[v][j].id => u = v /\ i = j
    <3>1. \A v \in Worker \ {w} : \A i \in 1 .. n, j \in DOMAIN outs[v] :
            outs'[w][i].id # outs[v][j].id
      <4> SUFFICES ASSUME NEW v \in Worker \ {w}, NEW i \in 1 .. n,
                          NEW j \in DOMAIN outs[v]
                   PROVE  outs'[w][i].id # outs[v][j].id
        OBVIOUS
      <4>1. outs[v][j].id \in Nat /\ outs[v][j].id < nextId
        BY <1>7, <1>15
      <4>2. outs'[w][i].id \in Nat /\ nextId <= outs'[w][i].id
        BY <1>8, <1>10
      <4>3. QED
        BY <4>1, <4>2, <1>2
    <3>2. SUFFICES ASSUME NEW u \in Worker, NEW v \in Worker,
                          NEW i \in DOMAIN outs'[u], NEW j \in DOMAIN outs'[v],
                          outs'[u][i].id = outs'[v][j].id
                   PROVE  u = v /\ i = j
      OBVIOUS
    <3>3. CASE u = w /\ v = w
      BY <3>2, <3>3, <1>4, <1>11
    <3>4. CASE u = w /\ v # w
      BY <3>1, <3>2, <3>4, <1>4
    <3>5. CASE u # w /\ v = w
      BY <3>1, <3>2, <3>5, <1>4
    <3>6. CASE u # w /\ v # w
      BY <3>2, <3>6, <1>4
    <3>7. QED
      BY <3>3, <3>4, <3>5, <3>6
  <2>4. QED
    BY <2>1, <2>2, <2>3, <1>2
<1>18. PlacedOpen'
  <2>1. \A f \in queue : f.id \in Id
    BY DEF TypeOK, Frame
  <2>2. \A u \in Worker : Holds(u) => cur[u].id \in Id
    BY DEF TypeOK, Frame
  <2>3. \A u \in Worker : \A j \in DOMAIN outs'[u] :
          outs'[u][j].id < nextId' /\ fate[outs'[u][j].id] = "open"
    <3>1. \A j \in 1 .. n : outs'[w][j].id < nextId' /\ fate[outs'[w][j].id] = "open"
      BY <1>2, <1>8, <1>10
    <3>2. \A u \in Worker \ {w} : \A j \in DOMAIN outs[u] :
            outs[u][j].id < nextId' /\ fate[outs[u][j].id] = "open"
      BY OutputFrames, <1>16
    <3>3. QED
      BY <3>1, <3>2, <1>4
  <2>4. QED
    BY <2>1, <2>2, <2>3, <1>2, <1>16
<1>19. PlacedSomewhere'
  <2>1. ASSUME NEW i \in Id, i < nextId', fate[i] = "open"
        PROVE  \/ \E f \in queue : f.id = i
               \/ \E u \in Worker : Holds(u) /\ cur[u].id = i
               \/ \E u \in Worker : \E j \in DOMAIN outs'[u] : outs'[u][j].id = i
    BY <2>1, <1>3, <1>4, <1>12
  <2>2. QED
    BY <2>1, <1>2
<1>20. QED
  BY <1>17, <1>18, <1>19

\* The first of those frames goes to the queue.
LEMMA OutputPlaced ==
  ASSUME TypeOK, WorkerShape, PlaceInv, NEW w \in Worker, PushOutput(w)
  PROVE  PlaceInv'
<1>1. outs[w] # <<>> /\ outs[w] \in Seq(Frame)
  BY DEF PushOutput, WorkerShape, ShapeOf, TypeOK
<1>2. /\ queue' = queue \cup {outs[w][1]} /\ outs' = [outs EXCEPT ![w] = Tail(@)]
      /\ UNCHANGED <<cur, fate, nextId>>
  BY <1>1 DEF PushOutput, Enqueue
<1>3. /\ 1 \in DOMAIN outs[w]
      /\ \A j \in DOMAIN outs'[w] : j + 1 \in DOMAIN outs[w] /\ outs'[w][j] = outs[w][j + 1]
                              /\ j \in Nat \ {0}
      /\ \A j \in DOMAIN outs[w] : j \in Nat /\ (j # 1 => j - 1 \in DOMAIN outs'[w])
  <2>1. DOMAIN outs[w] = 1 .. Len(outs[w]) /\ Len(outs[w]) \in Nat \ {0}
    BY <1>1, LenProperties, EmptySeq
  <2>2. /\ Tail(outs[w]) \in Seq(Frame) /\ Len(Tail(outs[w])) = Len(outs[w]) - 1
        /\ \A j \in 1 .. Len(Tail(outs[w])) : Tail(outs[w])[j] = outs[w][j + 1]
    BY <1>1, HeadTailProperties
  <2>3. outs'[w] = Tail(outs[w]) /\ DOMAIN outs'[w] = 1 .. Len(Tail(outs[w]))
    BY <1>2, <2>2, LenProperties DEF TypeOK
  <2>4. QED
    BY <2>1, <2>2, <2>3
<1>4. \A u \in Worker \ {w} : outs'[u] = outs[u] /\ DOMAIN outs'[u] = DOMAIN outs[u]
  BY <1>2 DEF TypeOK
<1> USE DEF PlaceInv, PlacedOnce, PlacedOpen, PlacedSomewhere, Holds
<1>5. PlacedOnce'
  <2>1. \A f \in queue', g \in queue' : f.id = g.id => f = g
    BY <1>2, <1>3
  <2>2. \A u \in Worker, f \in queue' : Holds(u) => cur[u].id # f.id
    BY <1>2, <1>3
  <2>3. \A u \in Worker, f \in queue' : \A j \in DOMAIN outs'[u] : outs'[u][j].id # f.id
    <3>1. \A f \in queue' : \A j \in DOMAIN outs'[w] : outs'[w][j].id # f.id
      BY <1>2, <1>3
    <3>2. QED
      BY <3>1, <1>2, <1>3, <1>4
  <2>4. \A u \in Worker, v \in Worker : \A j \in DOMAIN outs'[u] :
          Holds(v) => outs'[u][j].id # cur[v].id
    BY <1>3, <1>4
  <2>5. \A u \in Worker, v \in Worker : \A i \in DOMAIN outs'[u], j \in DOMAIN outs'[v] :
          outs'[u][i].id = outs'[v][j].id => u = v /\ i = j
    BY <1>3, <1>4
  <2>6. QED
    BY <2>1, <2>2, <2>3, <2>4, <2>5, <1>2
<1>6. PlacedOpen'
  BY <1>2, <1>3, <1>4
<1>7. PlacedSomewhere'
  <2>1. ASSUME NEW u \in Worker, NEW j \in DOMAIN outs[u]
        PROVE  \/ \E f \in queue' : f.id = outs[u][j].id
               \/ \E k \in DOMAIN outs'[u] : outs'[u][k].id = outs[u][j].id
    <3>1. CASE u # w
      BY <3>1, <1>4
    <3>2. CASE u = w /\ j = 1
      BY <3>2, <1>2
    <3>3. CASE u = w /\ j # 1
      <4>1. j - 1 \in DOMAIN outs'[w] /\ (j - 1) + 1 = j
        BY <3>3, <1>3
      <4>2. QED
        BY <3>3, <4>1, <1>3
    <3>4. QED
      BY <3>1, <3>2, <3>3
  <2>2. QED
    BY <2>1, <1>2
<1>8. QED
  BY <1>5, <1>6, <1>7

LEMMA NextPlace == TypeOK /\ WorkerShape /\ PlaceInv /\ [Next]_vars => PlaceInv'
<1> SUFFICES ASSUME TypeOK, WorkerShape, PlaceInv, [Next]_vars PROVE PlaceInv'
  OBVIOUS
<1>1. CASE UNCHANGED vars
  BY <1>1, StillPlaced
<1>2. CASE Environment
  <2>1. CASE Start \/ Stop
    BY <2>1, StillPlaced DEF Start, SetRunning, Stop
  <2>2. QED
    BY <1>2, <2>1, PushPlaced DEF Environment
<1>3. ASSUME NEW w \in Worker, Call(w) \/ Step(w) PROVE PlaceInv'
  <2> USE DEF GoTo
  <2>1. CASE Call(w) \/ ReadStatus(w) \/ PopEmpty(w) \/ ProcessorAbsorbs(w)
    BY <2>1, StillPlaced DEF Call, ReadStatus, PopEmpty, ProcessorAbsorbs
  <2>2. CASE BeginInterruption(w) \/ StopInterruption(w) \/ EndSession(w)
             \/ IgnoreSystem(w)
    BY <2>2, StillPlaced
    DEF BeginInterruption, StopInterruption, EndSession, IgnoreSystem
  <2>3. ASSUME pc[w] \in {"check", "process", "record"}, NEW l,
               NEW r \in {"processed", "interrupted", "failed"},
               Return(w, l), Settle(w, r), UNCHANGED <<queue, nextId>>
        PROVE  PlaceInv'
    <3>1. Holds(w) /\ outs[w] = <<>> /\ r \in Fates \ {"open"}
      BY <2>3 DEF WorkerShape, ShapeOf, Holding, Holds, Fates
    <3>2. QED
      BY <2>3, <3>1, SettlePlaced
  <2>4. CASE CheckInterrupted(w)
    <3>1. CASE interrupted
      <4>1. Return(w, "idle") /\ Settle(w, "interrupted")
        BY <2>4, <3>1, Zenon DEF CheckInterrupted
      <4>2. QED
        BY <2>3, <2>4, <4>1 DEF CheckInterrupted
    <3>2. CASE ~interrupted
      <4>1. GoTo(w, Proceed(0)) /\ UNCHANGED fate
        BY <2>4, <3>2, Zenon DEF CheckInterrupted
      <4>2. QED
        BY <2>4, <4>1, StillPlaced DEF CheckInterrupted
    <3>3. QED
      BY <3>1, <3>2, Zenon
  <2>5. CASE ProcessorFails(w)
    BY <2>3, <2>5 DEF ProcessorFails
  <2>6. CASE Record(w)
    BY <2>3, <2>6 DEF Record
  <2>7. QED
    BY <1>3, <2>1, <2>2, <2>4, <2>5, <2>6, PopPlaced, ClearPlaced, EmitPlaced,
       OutputPlaced
    DEF Step, HandleSystem, ProcessData
<1>4. QED
  BY <1>1, <1>2, <1>3 DEF Next

\* A set whose members are all equal has at most one.
LEMMA AtMostOne ==
  ASSUME NEW S, \A x \in S, y \in S : x = y
  PROVE  Cardinality(S) = IF S = {} THEN 0 ELSE 1
<1>1. CASE S = {}
  BY <1>1, FS_EmptySet
<1>2. CASE S # {}
  <2>1. PICK x \in S : TRUE
    BY <1>2
  <2>2. S = {x}
    BY <2>1
  <2>3. Cardinality({x}) = 1
    BY FS_Singleton
  <2>4. QED
    BY <1>2, <2>2, <2>3
<1>3. QED
  BY <1>1, <1>2

LEMMA PlacedImpliesOne == TypeOK /\ PlaceInv => EveryFrameInOnePlace
<1> SUFFICES ASSUME TypeOK, PlaceInv, NEW i \in Id, i < nextId
             PROVE  Cardinality(Held(i)) + Cardinality(Queued(i))
                      + Cardinality(Pending(i))
                      + (IF fate[i] = "open" THEN 0 ELSE 1) = 1
  BY DEF EveryFrameInOnePlace
<1> USE DEF PlaceInv, Held, Queued, Pending, Holds
<1>1. Cardinality(Held(i)) = IF Held(i) = {} THEN 0 ELSE 1
  BY AtMostOne DEF PlacedOnce
<1>2. Cardinality(Queued(i)) = IF Queued(i) = {} THEN 0 ELSE 1
  BY AtMostOne DEF PlacedOnce
<1>3. Cardinality(Pending(i)) = IF Pending(i) = {} THEN 0 ELSE 1
  BY AtMostOne DEF PlacedOnce
<1>4. Held(i) = {} \/ Queued(i) = {}
  BY DEF PlacedOnce
<1>5. Held(i) = {} \/ Pending(i) = {}
  BY DEF PlacedOnce
<1>6. Queued(i) = {} \/ Pending(i) = {}
  BY DEF PlacedOnce
<1>7. fate[i] # "open" => Held(i) = {} /\ Queued(i) = {} /\ Pending(i) = {}
  BY DEF PlacedOpen
<1>8. fate[i] = "open" => Held(i) # {} \/ Queued(i) # {} \/ Pending(i) # {}
  BY DEF PlacedSomewhere
<1> HIDE DEF Held, Queued, Pending
<1>9. QED
  BY <1>1, <1>2, <1>3, <1>4, <1>5, <1>6, <1>7, <1>8

\* No interleaving of pushes, pops, clears, failures and re-entering outputs
\* loses a frame or puts it in two places.
THEOREM NoFrameLostOrDoubled == Spec => []EveryFrameInOnePlace
<1>1. QED
  BY InitPlace, NextPlace, PlacedImpliesOne, TypeCorrect, PTL DEF Spec

-----------------------------------------------------------------------------
(* The metrics. *)

Handled == {i \in Id : fate[i] = "processed"}

\* Steps that settle no frame as processed leave the count as it is.
LEMMA SameHandled ==
  ASSUME TypeOK, PlaceInv, NEW w \in Worker, Holds(w), NEW r \in Fates \ {"processed"},
         Settle(w, r)
  PROVE  Handled' = Handled
<1>1. cur[w].id \in Id /\ fate[cur[w].id] = "open"
  BY DEF TypeOK, Frame, Holds, PlaceInv, PlacedOpen
<1>2. \A i \in Id : fate'[i] = IF i = cur[w].id THEN r ELSE fate[i]
  BY <1>1 DEF Settle, TypeOK
<1>3. QED
  BY <1>1, <1>2 DEF Handled

LEMMA NextMetrics ==
  TypeOK /\ WorkerShape /\ PlaceInv /\ MetricsCountHandled /\ [Next]_vars
    => MetricsCountHandled'
<1> SUFFICES ASSUME TypeOK, WorkerShape, PlaceInv, processed = Cardinality(Handled),
                    [Next]_vars
             PROVE  processed' = Cardinality(Handled')
  BY DEF MetricsCountHandled, Handled
<1>1. CASE UNCHANGED vars
  BY <1>1 DEF Handled
<1>2. CASE Environment
  BY <1>2 DEF Environment, Start, Stop, Push, Handled
<1>3. ASSUME NEW w \in Worker, Call(w) \/ Step(w)
      PROVE  processed' = Cardinality(Handled')
  <2>1. CASE Call(w) \/ ReadStatus(w) \/ PopEmpty(w) \/ Pop(w)
    BY <2>1 DEF Call, ReadStatus, PopEmpty, Pop, Handled
  <2>2. CASE BeginInterruption(w) \/ StopInterruption(w) \/ EndSession(w)
             \/ IgnoreSystem(w)
    BY <2>2
    DEF BeginInterruption, StopInterruption, EndSession, IgnoreSystem, Handled
  <2>3. CASE ClearQueue(w)
    <3>1. \A i \in Id : fate'[i] = "processed" <=> fate[i] = "processed"
      BY <2>3 DEF ClearQueue, TypeOK, Frame, PlaceInv, PlacedOpen
    <3>2. QED
      BY <2>3, <3>1 DEF ClearQueue, Handled
  <2>4. CASE ProcessorAbsorbs(w) \/ ProcessorEmits(w) \/ PushOutput(w)
    BY <2>4 DEF ProcessorAbsorbs, ProcessorEmits, PushOutput, Handled
  <2>5. CASE CheckInterrupted(w)
    <3>1. Holds(w) /\ processed' = processed
      BY <2>5 DEF CheckInterrupted, WorkerShape, ShapeOf, Holding, Holds
    <3>2. Settle(w, "interrupted") \/ UNCHANGED fate
      BY <2>5, Zenon DEF CheckInterrupted
    <3>3. QED
      BY <3>1, <3>2, SameHandled DEF Fates, Handled
  <2>6. CASE ProcessorFails(w)
    <3>1. Holds(w) /\ processed' = processed /\ Settle(w, "failed")
      BY <2>6 DEF ProcessorFails, WorkerShape, ShapeOf, Holding, Holds
    <3>2. QED
      BY <3>1, SameHandled DEF Fates
  <2>7. CASE Record(w)
    <3>1. /\ Holds(w) /\ processed' = processed + 1
          /\ fate' = [fate EXCEPT ![cur[w].id] = "processed"]
      BY <2>7 DEF Record, Settle, WorkerShape, ShapeOf, Holding, Holds
    <3>2. cur[w].id \in Id /\ fate[cur[w].id] = "open"
      BY <3>1 DEF TypeOK, Frame, Holds, PlaceInv, PlacedOpen
    <3>3. Handled' = Handled \cup {cur[w].id} /\ cur[w].id \notin Handled
      BY <3>1, <3>2 DEF Handled, TypeOK
    <3>4. IsFiniteSet(Handled)
      <4>1. IsFiniteSet(Id)
        BY FS_Interval, RunnerAssumption DEF Id, RunnerAssumption
      <4>2. QED
        BY <4>1, FS_Subset DEF Handled
    <3>5. QED
      BY <3>1, <3>3, <3>4, FS_AddElement
  <2>8. QED
    BY <1>3, <2>1, <2>2, <2>3, <2>4, <2>5, <2>6, <2>7
    DEF Step, HandleSystem, ProcessData
<1>4. QED
  BY <1>1, <1>2, <1>3 DEF Next

\* frames_processed is the number of frames handled to the end, under every
\* interleaving of the workers' updates.
THEOREM MetricsExact == Spec => []MetricsCountHandled
<1>1. Init => MetricsCountHandled
  <2> SUFFICES ASSUME Init PROVE processed = Cardinality(Handled)
    BY DEF MetricsCountHandled, Handled
  <2>1. Handled = {} /\ processed = 0
    BY DEF Init, Handled
  <2>2. QED
    BY <2>1, FS_EmptySet
<1>2. QED
  BY <1>1, InitPlace, NextPlace, NextMetrics, TypeCorrect, PTL DEF Spec

-----------------------------------------------------------------------------
(* The executor alone.                                                     *)

\* The executor is one of the tasks Runner allows: every step is a step of the
\* runner or leaves it alone.
LEMMA ExecutorStepIsRunnerStep ==
  ExecutorOwnsRunner /\ [RunNext]_runVars => [Next]_vars
  BY DEF ExecutorOwnsRunner, RunNext, ExecutorStep, Begin, TickStopped, TickRunning, runVars,
         Next, Environment

\* What the proofs need of it.
Alone == Executor \in Worker /\ \A w \in Worker : w = Executor

LEMMA RunImplementsRunner == RunSpec => Spec /\ []Alone
<1>1. RunInit => ExecutorOwnsRunner /\ Init
  BY DEF RunInit
<1>2. ExecutorOwnsRunner /\ [RunNext]_runVars => ExecutorOwnsRunner'
  BY DEF ExecutorOwnsRunner
<1>3. ExecutorOwnsRunner => Alone
  BY DEF ExecutorOwnsRunner, Alone
<1>4. QED
  BY <1>1, <1>2, <1>3, ExecutorStepIsRunnerStep, PTL DEF RunSpec, Spec

\* The executor holds a data or control frame.
HoldsData == pc[Executor] \in Holding /\ Category(cur[Executor]) # 0

-----------------------------------------------------------------------------
(* No stale frame. *)

\* Whatever is queued, waits to be queued or is held is younger than the clear.
StaleInv ==
  /\ flushMark <= nextId
  /\ \A f \in queue : flushMark <= f.id
  /\ \A j \in DOMAIN outs[Executor] : flushMark <= outs[Executor][j].id
  /\ HoldsData => flushMark <= cur[Executor].id

LEMMA NextStale ==
  Alone /\ TypeOK /\ WorkerShape /\ StaleInv /\ [Next]_vars => StaleInv'
<1> SUFFICES ASSUME Alone, TypeOK, WorkerShape, StaleInv, [Next]_vars PROVE StaleInv'
  OBVIOUS
<1> USE DEF Alone, StaleInv, HoldsData, Holding, Category
<1>1. CASE UNCHANGED vars
  BY <1>1
<1>2. CASE Start \/ Stop
  BY <1>2 DEF Start, Stop
<1>3. ASSUME NEW k \in Kinds, Push(k) PROVE StaleInv'
  BY <1>3 DEF Push, Enqueue, TypeOK
<1>4. CASE Call(Executor) \/ ReadStatus(Executor) \/ PopEmpty(Executor)
  BY <1>4 DEF Call, ReadStatus, PopEmpty, GoTo, TypeOK
<1>5. CASE Pop(Executor)
  BY <1>5 DEF Pop, TypeOK
<1>6. CASE HandleSystem(Executor)
  <2>1. CASE ClearQueue(Executor)
    <3>1. outs[Executor] = <<>> /\ Category(cur[Executor]) = 0
      BY <2>1 DEF ClearQueue, WorkerShape, ShapeOf
    <3>2. DOMAIN <<>> = {}
      OBVIOUS
    <3>3. QED
      BY <2>1, <3>1, <3>2 DEF ClearQueue, GoTo, TypeOK
  <2>2. CASE BeginInterruption(Executor) \/ StopInterruption(Executor)
             \/ EndSession(Executor) \/ IgnoreSystem(Executor)
    <3>1. pc[Executor] = "system" /\ Category(cur[Executor]) = 0
      BY <2>2
      DEF BeginInterruption, StopInterruption, EndSession, IgnoreSystem,
          WorkerShape, ShapeOf
    <3>2. QED
      BY <2>2, <3>1
      DEF BeginInterruption, StopInterruption, EndSession, IgnoreSystem, GoTo
  <2>3. QED
    BY <1>6, <2>1, <2>2 DEF HandleSystem
<1>7. ASSUME NEW l \in {"idle", "panicked"}, Return(Executor, l),
             UNCHANGED <<queue, flushMark, nextId>>
      PROVE  StaleInv'
  <2>1. DOMAIN <<>> = {}
    OBVIOUS
  <2>2. QED
    BY <1>7, <2>1 DEF Return, TypeOK
<1>8. CASE CheckInterrupted(Executor)
  <2>1. Return(Executor, "idle") \/ GoTo(Executor, Proceed(0))
    BY <1>8, Zenon DEF CheckInterrupted
  <2>2. CASE Return(Executor, "idle")
    BY <1>7, <1>8, <2>2 DEF CheckInterrupted
  <2>3. CASE GoTo(Executor, Proceed(0))
    BY <1>8, <2>3 DEF CheckInterrupted, GoTo, TypeOK
  <2>4. QED
    BY <2>1, <2>2, <2>3
<1>9. CASE ProcessorFails(Executor)
  BY <1>7, <1>9 DEF ProcessorFails
<1>10. CASE ProcessorAbsorbs(Executor)
  BY <1>10 DEF ProcessorAbsorbs, GoTo, TypeOK
<1>11. CASE ProcessorEmits(Executor)
  <2>1. PICK n \in 0 .. MaxExtras : \E kinds \in [1 .. n -> Kinds] :
          /\ nextId' = nextId + n
          /\ outs' = [outs EXCEPT ![Executor] = NewFrames(n, kinds)]
    BY <1>11 DEF ProcessorEmits, NewFrames
  <2>2. \A j \in DOMAIN outs'[Executor] : flushMark <= outs'[Executor][j].id
    BY <2>1, RunnerAssumption DEF NewFrames, TypeOK, RunnerAssumption
  <2>3. flushMark <= nextId'
    BY <2>1, RunnerAssumption DEF TypeOK, RunnerAssumption
  <2>4. QED
    BY <1>11, <2>2, <2>3 DEF ProcessorEmits, TypeOK
<1>12. CASE PushOutput(Executor)
  <2>1. outs[Executor] # <<>> /\ outs[Executor] \in Seq(Frame)
    BY <1>12 DEF PushOutput, WorkerShape, ShapeOf, TypeOK
  <2>2. flushMark <= Head(outs[Executor]).id
    BY <2>1, LenProperties, EmptySeq
  <2>3. \A j \in DOMAIN Tail(outs[Executor]) : flushMark <= Tail(outs[Executor])[j].id
    BY <2>1, HeadTailProperties, LenProperties
  <2>4. QED
    BY <1>12, <2>2, <2>3 DEF PushOutput, Enqueue, TypeOK
<1>13. CASE Record(Executor)
  BY <1>7, <1>13 DEF Record
<1>14. QED
  BY <1>1, <1>2, <1>3, <1>4, <1>5, <1>6, <1>8, <1>9, <1>10, <1>11, <1>12, <1>13
  DEF Next, Environment, Step, ProcessData

\* After an interruption is handled, no frame that existed at its clear is ever
\* given to a processor, whatever is pushed, stopped or restarted since.
THEOREM InterruptedStaysInterrupted == RunSpec => []NoStaleFrame
<1>1. Alone /\ Init => StaleInv
  <2>1. DOMAIN <<>> = {}
    OBVIOUS
  <2>2. QED
    BY <2>1 DEF Alone, Init, StaleInv, HoldsData, Holding
<1>2. StaleInv => NoStaleFrame
  BY DEF StaleInv, HoldsData, Holding, NoStaleFrame, InChain
<1>3. Spec /\ []Alone => []NoStaleFrame
  BY <1>1, <1>2, NextStale, TypeCorrect, PTL DEF Spec
<1>4. QED
  BY <1>3, RunImplementsRunner, PTL

-----------------------------------------------------------------------------
(* Interruptions outbid what is queued. *)

\* A StartInterruptionFrame is queued, or is being handled and has not cleared.
Interrupting ==
  \/ \E g \in queue : g.kind = "StartInterruption"
  \/ pc[Executor] \in {"system", "clear"} /\ cur[Executor].kind = "StartInterruption"

\* An outbid frame is either queued behind the interruption that will remove
\* it, or gone: never in the outputs, nor in the hands of the executor.
OutbidInv ==
  /\ \A i \in outbid : i < nextId
  /\ \A f \in queue : f.id \in outbid /\ Category(f) # 0 => Interrupting
  /\ \A j \in DOMAIN outs[Executor] : outs[Executor][j].id \notin outbid
  /\ HoldsData => cur[Executor].id \notin outbid

\* Entering the queue marks only frames of the queue, and the frame that marks
\* them is the interruption that will remove them.
LEMMA EnqueueOutbids ==
  ASSUME TypeOK, OutbidInv, NEW f, Enqueue(f), f.id \notin outbid
  PROVE  /\ outbid' \subseteq outbid \cup {g.id : g \in queue}
         /\ \A g \in queue' : g.id \in outbid' /\ Category(g) # 0 =>
              Interrupting \/ \E h \in queue' : h.kind = "StartInterruption"
<1>1. CASE f.kind = "StartInterruption"
  BY <1>1 DEF Enqueue
<1>2. CASE f.kind # "StartInterruption"
  BY <1>2 DEF Enqueue, OutbidInv
<1>3. QED
  BY <1>1, <1>2

LEMMA NextOutbid ==
  Alone /\ TypeOK /\ WorkerShape /\ PlaceInv /\ OutbidInv /\ [Next]_vars => OutbidInv'
<1> SUFFICES ASSUME Alone, TypeOK, WorkerShape, PlaceInv, OutbidInv, [Next]_vars
             PROVE  OutbidInv'
  OBVIOUS
<1> USE DEF Alone, OutbidInv, HoldsData, Holding, Category, Interrupting
<1>1. CASE UNCHANGED vars
  BY <1>1
<1>2. CASE Start \/ Stop
  BY <1>2 DEF Start, Stop
<1>3. ASSUME NEW k \in Kinds, Push(k) PROVE OutbidInv'
  <2> DEFINE new == [id |-> nextId, kind |-> k]
  <2>1. /\ Enqueue(new) /\ new.id = nextId /\ nextId' = nextId + 1
        /\ UNCHANGED <<pc, cur, outs>> /\ nextId \in Nat
    BY <1>3 DEF Push, TypeOK
  <2>2. nextId \notin outbid /\ outbid \subseteq Nat
    BY <2>1 DEF TypeOK, Id
  <2> HIDE DEF new
  <2>3. /\ outbid' \subseteq outbid \cup {g.id : g \in queue}
        /\ \A g \in queue' : g.id \in outbid' /\ Category(g) # 0 =>
              Interrupting \/ \E h \in queue' : h.kind = "StartInterruption"
    BY <2>1, <2>2, EnqueueOutbids
  <2>4. \A i \in outbid' : i < nextId'
    BY <2>1, <2>2, <2>3 DEF PlaceInv, PlacedOpen, TypeOK, Frame, Id
  <2>5. \A f \in queue' : f.id \in outbid' /\ Category(f) # 0 => Interrupting'
    BY <2>1, <2>3 DEF Enqueue
  <2>6. \A j \in DOMAIN outs[Executor] : outs[Executor][j].id \notin outbid'
    BY <2>3 DEF PlaceInv, PlacedOnce
  <2>7. HoldsData => cur[Executor].id \notin outbid'
    BY <2>3 DEF PlaceInv, PlacedOnce, Holds, WorkerShape, ShapeOf
  <2>8. QED
    BY <2>1, <2>4, <2>5, <2>6, <2>7
<1>4. CASE Call(Executor) \/ ReadStatus(Executor) \/ PopEmpty(Executor)
  BY <1>4 DEF Call, ReadStatus, PopEmpty, GoTo, TypeOK
<1>5. CASE Pop(Executor)
  <2>1. PICK f \in queue :
          /\ MostUrgent(f) /\ queue' = queue \ {f}
          /\ cur' = [cur EXCEPT ![Executor] = f]
          /\ pc' = [pc EXCEPT ![Executor] = IF Category(f) = 0 THEN "system" ELSE "check"]
    BY <1>5 DEF Pop
  <2>2. /\ pc[Executor] = "pop" /\ UNCHANGED <<outs, nextId, outbid>>
        /\ pc'[Executor] = (IF Category(f) = 0 THEN "system" ELSE "check")
        /\ cur'[Executor] = f
    BY <1>5, <2>1 DEF Pop, TypeOK
  <2>3. CASE Category(f) = 0
    BY <2>1, <2>2, <2>3
  <2>4. CASE Category(f) # 0
    <3>1. \A g \in queue : g.kind # "StartInterruption"
      BY <2>1, <2>4 DEF MostUrgent, SystemKinds
    <3>2. \A g \in queue : g.id \in outbid => Category(g) = 0
      BY <3>1, <2>2
    <3>3. QED
      BY <2>1, <2>2, <2>4, <3>2
  <2>5. QED
    BY <2>3, <2>4
<1>6. CASE HandleSystem(Executor)
  <2>1. CASE ClearQueue(Executor)
    <3>1. Category(cur[Executor]) = 0
      BY <2>1 DEF ClearQueue, WorkerShape, ShapeOf
    <3>2. QED
      BY <2>1, <3>1 DEF ClearQueue, GoTo, TypeOK
  <2>2. CASE BeginInterruption(Executor)
    BY <2>2 DEF BeginInterruption, GoTo, TypeOK, WorkerShape, ShapeOf
  <2>3. CASE StopInterruption(Executor) \/ EndSession(Executor)
             \/ IgnoreSystem(Executor)
    <3>1. /\ pc[Executor] = "system" /\ Category(cur[Executor]) = 0
          /\ cur[Executor].kind # "StartInterruption"
      BY <2>3 DEF StopInterruption, EndSession, IgnoreSystem, WorkerShape, ShapeOf
    <3>2. QED
      BY <2>3, <3>1 DEF StopInterruption, EndSession, IgnoreSystem, GoTo, TypeOK
  <2>4. QED
    BY <1>6, <2>1, <2>2, <2>3 DEF HandleSystem
<1>7. ASSUME pc[Executor] \in {"check", "process", "record"},
             NEW l \in {"idle", "panicked"}, Return(Executor, l),
             UNCHANGED <<queue, nextId, outbid>>
      PROVE  OutbidInv'
  <2>1. DOMAIN <<>> = {}
    OBVIOUS
  <2>2. QED
    BY <1>7, <2>1 DEF Return, TypeOK
<1>8. CASE CheckInterrupted(Executor)
  <2>1. Return(Executor, "idle") \/ GoTo(Executor, Proceed(0))
    BY <1>8, Zenon DEF CheckInterrupted
  <2>2. CASE Return(Executor, "idle")
    BY <1>7, <1>8, <2>2 DEF CheckInterrupted
  <2>3. CASE GoTo(Executor, Proceed(0))
    BY <1>8, <2>3 DEF CheckInterrupted, GoTo, TypeOK
  <2>4. QED
    BY <2>1, <2>2, <2>3
<1>9. CASE ProcessorFails(Executor)
  BY <1>7, <1>9 DEF ProcessorFails
<1>10. CASE ProcessorAbsorbs(Executor)
  BY <1>10 DEF ProcessorAbsorbs, GoTo, TypeOK
<1>11. CASE ProcessorEmits(Executor)
  <2>1. PICK n \in 0 .. MaxExtras : \E kinds \in [1 .. n -> Kinds] :
          /\ nextId' = nextId + n
          /\ outs' = [outs EXCEPT ![Executor] = NewFrames(n, kinds)]
    BY <1>11 DEF ProcessorEmits, NewFrames
  <2>2. n \in Nat /\ nextId \in Nat /\ \A i \in outbid : i \in Nat
    BY RunnerAssumption DEF RunnerAssumption, TypeOK, Id
  <2>3. \A j \in DOMAIN outs'[Executor] : outs'[Executor][j].id \notin outbid
    BY <2>1, <2>2 DEF NewFrames, TypeOK
  <2>4. \A i \in outbid : i < nextId'
    BY <2>1, <2>2
  <2>5. QED
    BY <1>11, <2>3, <2>4 DEF ProcessorEmits, TypeOK
<1>12. CASE PushOutput(Executor)
  <2> DEFINE o == outs[Executor]
  <2>1. o # <<>> /\ o \in Seq(Frame) /\ Len(o) \in Nat \ {0} /\ DOMAIN o = 1 .. Len(o)
    BY <1>12, LenProperties, EmptySeq DEF PushOutput, WorkerShape, ShapeOf, TypeOK
  <2>2. /\ Enqueue(Head(o)) /\ Head(o) = o[1] /\ 1 \in DOMAIN o
        /\ UNCHANGED <<nextId, cur>> /\ outs'[Executor] = Tail(o)
        /\ pc[Executor] = "emit"
        /\ pc'[Executor] \in {"emit", "process", "record"}
    <3>1. Head(o) = o[1] /\ 1 \in DOMAIN o
      BY <2>1
    <3>2. Enqueue(Head(o)) /\ UNCHANGED <<nextId, cur>> /\ pc[Executor] = "emit"
      BY <1>12 DEF PushOutput
    <3>3. outs'[Executor] = Tail(o)
      BY <1>12 DEF PushOutput, TypeOK
    <3>4. pc'[Executor] \in {"emit", "process", "record"}
      BY <1>12 DEF PushOutput, Proceed, TypeOK
    <3>5. QED
      BY <3>1, <3>2, <3>3, <3>4
  <2>3. \A j \in DOMAIN Tail(o) : j + 1 \in DOMAIN o /\ Tail(o)[j] = o[j + 1]
    BY <2>1, HeadTailProperties, LenProperties
  <2>4. Head(o).id \notin outbid
    BY <2>2
  <2>5. /\ outbid' \subseteq outbid \cup {g.id : g \in queue}
        /\ \A g \in queue' : g.id \in outbid' /\ Category(g) # 0 =>
              Interrupting \/ \E h \in queue' : h.kind = "StartInterruption"
    BY <2>2, <2>4, EnqueueOutbids
  <2> HIDE DEF o
  <2>6. \A i \in outbid' : i < nextId'
    BY <2>2, <2>5 DEF PlaceInv, PlacedOpen
  <2>7. \A f \in queue' : f.id \in outbid' /\ Category(f) # 0 => Interrupting'
    BY <2>2, <2>5 DEF Enqueue
  <2>8. \A j \in DOMAIN Tail(o) : Tail(o)[j].id \notin outbid'
    <3>1. \A j \in DOMAIN o : o[j].id \notin outbid'
      BY <2>5 DEF o, PlaceInv, PlacedOnce
    <3>2. QED
      BY <3>1, <2>3
  <2>9. HoldsData' => cur'[Executor].id \notin outbid'
    <3>1. Holds(Executor) /\ HoldsData
      BY <2>2 DEF Holds, WorkerShape, ShapeOf
    <3>2. QED
      BY <3>1, <2>2, <2>5 DEF PlaceInv, PlacedOnce
  <2>10. QED
    BY <2>2, <2>6, <2>7, <2>8, <2>9
<1>13. CASE Record(Executor)
  BY <1>7, <1>13 DEF Record
<1>14. QED
  BY <1>1, <1>2, <1>3, <1>4, <1>5, <1>6, <1>8, <1>9, <1>10, <1>11, <1>12, <1>13
  DEF Next, Environment, Step, ProcessData

\* What is queued when a StartInterruptionFrame arrives never reaches a
\* processor: the priority of system frames and the clear guarantee it together.
THEOREM InterruptionComesFirst == RunSpec => []InterruptionOutbids
<1>1. Alone /\ Init => OutbidInv
  <2>1. DOMAIN <<>> = {}
    OBVIOUS
  <2>2. QED
    BY <2>1 DEF Alone, Init, OutbidInv, HoldsData, Holding
<1>2. OutbidInv => InterruptionOutbids
  BY DEF OutbidInv, HoldsData, Holding, InterruptionOutbids, InChain
<1>3. Spec /\ []Alone => []InterruptionOutbids
  BY <1>1, <1>2, InitPlace, NextPlace, NextOutbid, TypeCorrect, PTL DEF Spec
<1>4. QED
  BY <1>3, RunImplementsRunner, PTL

-----------------------------------------------------------------------------
(* One frame at a time.                                                    *)

\* Outside the clear, the flag is what whoever gets its lock reads.
MutedInv ==
  /\ muted \in BOOLEAN
  /\ pc[Executor] # "clear" => muted = interrupted

LEMMA InitMuted == RunInit => MutedInv
  BY DEF RunInit, ExecutorOwnsRunner, Init, MutedInv

LEMMA NextMuted == TypeOK /\ TypeOK' /\ MutedInv /\ [RunNext]_runVars => MutedInv'
<1> SUFFICES ASSUME TypeOK, TypeOK', MutedInv, [RunNext]_runVars PROVE MutedInv'
  OBVIOUS
<1>1. Observe \/ UNCHANGED <<vars, muted>>
  BY DEF RunNext, ExecutorStep, runVars
<1> QED
  BY <1>1 DEF Observe, MutedInv, TypeOK, vars, taskVars

LEMMA AtomicStutters ==
  ASSUME Waiting' = Waiting, muted' = muted, \A i \in Id : OutcomeOf(i)' = OutcomeOf(i)
  PROVE  UNCHANGED Atomic!vars
  BY DEF Outcome, Atomic!vars

\* Where the queue, the hand and the fates stay, and the frame in the hand is as decided
\* as before, nothing happens.
LEMMA NothingMoves ==
  ASSUME muted' = muted, UNCHANGED <<queue, cur, fate>>,
         \/ pc'[Executor] = pc[Executor] /\ UNCHANGED interrupted
         \/ /\ pc[Executor] \notin {"system", "clear", "check"}
            /\ pc'[Executor] \notin {"system", "clear", "check"}
         \/ pc[Executor] = "system" /\ pc'[Executor] = "clear"
         \/ pc[Executor] = "check" /\ ~interrupted /\ pc'[Executor] \in {"process", "record"}
  PROVE  UNCHANGED Atomic!vars
<1>1. Waiting' = Waiting
  BY DEF Waiting
<1>2. ASSUME NEW i \in Id PROVE OutcomeOf(i)' = OutcomeOf(i)
  <2>1. (Awaited(i))' <=> Awaited(i)
    BY <1>1 DEF Awaited
  <2>2. (AtHand(i))' <=> AtHand(i)
    BY DEF AtHand
  <2>3. ~Awaited(i) /\ AtHand(i) => pc[Executor] # "system"
    BY DEF Awaited, AtHand, Waiting
  <2> QED
    BY <2>1, <2>2, <2>3 DEF OutcomeOf
<1> QED
  BY <1>1, <1>2, AtomicStutters

\* A frame of a new id enters the queue.
LEMMA FrameArrives ==
  ASSUME NEW f \in Frame, queue' = queue \cup {f}, UNCHANGED <<cur, fate, muted, interrupted>>,
         \/ pc'[Executor] = pc[Executor]
         \/ /\ pc[Executor] \notin {"system", "clear", "check"}
            /\ pc'[Executor] \notin {"system", "clear", "check"},
         fate[f.id] = "open", ~Awaited(f.id), ~AtHand(f.id)
  PROVE  Atomic!Arrive(f)
<1>1. f.id \in Id /\ Waiting' = Waiting \cup {f}
  BY DEF Waiting, Frame
<1>2. Outcome[f.id] = "new"
  BY <1>1 DEF Outcome, OutcomeOf
<1>3. ASSUME NEW i \in Id
      PROVE  OutcomeOf(i)' = IF i = f.id THEN "waiting" ELSE OutcomeOf(i)
  <2>1. (Awaited(i))' <=> Awaited(i) \/ i = f.id
    BY <1>1 DEF Awaited
  <2>2. (AtHand(i))' <=> AtHand(i)
    BY DEF AtHand
  <2> QED
    BY <2>1, <2>2 DEF OutcomeOf
<1>4. Outcome' = [Outcome EXCEPT ![f.id] = "waiting"]
  BY <1>1, <1>3 DEF Outcome
<1> QED
  BY <1>1, <1>2, <1>4 DEF Atomic!Arrive

\* A system frame takes effect.
LEMMA SystemFrameLeaves ==
  ASSUME TypeOK, Alone, WorkerShape, PlaceInv, pc[Executor] = "system", pc'[Executor] = "record",
         UNCHANGED <<queue, cur, fate>>
  PROVE  /\ cur[Executor] \in Atomic!Frame /\ cur[Executor].kind \in Atomic!System
         /\ Atomic!Leave(cur[Executor], "served")
<1> DEFINE f == cur[Executor]
<1>1. f \in Frame /\ f.kind \in SystemKinds /\ f.id \in Id
  BY DEF TypeOK, Alone, WorkerShape, ShapeOf, Holding, Category, Frame
<1>2. \A g \in queue : g.id # f.id
  BY <1>1, NoFrameAssumption DEF PlaceInv, PlacedOnce, Holds, Alone
<1>3. fate[f.id] = "open" /\ f # NoFrame
  BY <1>1, NoFrameAssumption DEF PlaceInv, PlacedOpen, Holds, Alone
<1>4. Waiting = queue \cup {f} /\ Waiting' = Waiting \ {f}
  BY <1>2 DEF Waiting
<1>5. ASSUME NEW i \in Id
      PROVE  OutcomeOf(i)' = IF i = f.id THEN "served" ELSE OutcomeOf(i)
  <2>1. (Awaited(i))' <=> Awaited(i) /\ i # f.id
    BY <1>2, <1>4 DEF Awaited
  <2>2. (AtHand(i))' <=> AtHand(i)
    BY DEF AtHand
  <2>3. AtHand(i) <=> i = f.id
    BY <1>3 DEF AtHand
  <2> QED
    BY <1>3, <2>1, <2>2, <2>3 DEF OutcomeOf
<1>6. Outcome' = [Outcome EXCEPT ![f.id] = "served"]
  BY <1>1, <1>5 DEF Outcome
<1>7. \A g \in Waiting : ~Atomic!Outranks(g, f)
  BY <1>1 DEF Atomic!Outranks, Atomic!System, SystemKinds
<1> QED
  BY <1>1, <1>4, <1>6, <1>7
  DEF Atomic!Leave, Atomic!Frame, Atomic!System, Frame, SystemKinds

\* The interruption drops what waits.
LEMMA InterruptionDrops ==
  ASSUME TypeOK, TypeOK', Alone, WorkerShape, PlaceInv, FlagInv, MutedInv', ClearQueue(Executor)
  PROVE  cur[Executor] \in Atomic!Frame /\ Atomic!Interrupt(cur[Executor])
<1> DEFINE f == cur[Executor]
<1>1. /\ pc[Executor] = "clear" /\ pc'[Executor] = "record" /\ queue' = {} /\ cur' = cur
      /\ interrupted' = interrupted
      /\ fate' = [i \in Id |-> IF \E g \in queue : g.id = i THEN "cleared" ELSE fate[i]]
  BY DEF ClearQueue, GoTo, TypeOK, Alone
<1>2. f \in Frame /\ f.id \in Id /\ f.kind = "StartInterruption" /\ interrupted = TRUE
  BY <1>1 DEF TypeOK, Alone, WorkerShape, ShapeOf, Holding, Frame, FlagInv
<1>3. \A g \in queue : g.id # f.id
  BY <1>2, NoFrameAssumption DEF PlaceInv, PlacedOnce, Holds, Alone
<1>4. fate[f.id] = "open" /\ f # NoFrame
  BY <1>2, NoFrameAssumption DEF PlaceInv, PlacedOpen, Holds, Alone
<1>5. Waiting = queue \cup {f} /\ Waiting' = {}
  BY <1>1 DEF Waiting
<1>6. muted' = TRUE
  BY <1>1, <1>2 DEF MutedInv
<1>7. ASSUME NEW i \in Id
      PROVE  OutcomeOf(i)' = IF i = f.id THEN "served"
                             ELSE IF \E g \in Waiting : g.id = i THEN "dropped"
                             ELSE OutcomeOf(i)
  <2>1. ~(Awaited(i))' /\ (Awaited(i) <=> i = f.id \/ \E g \in queue : g.id = i)
    BY <1>5 DEF Awaited
  <2>2. ((AtHand(i))' <=> AtHand(i)) /\ (AtHand(i) <=> i = f.id)
    BY <1>1, <1>4 DEF AtHand
  <2>3. fate'[i] = IF \E g \in queue : g.id = i THEN "cleared" ELSE fate[i]
    BY <1>1
  <2> QED
    BY <1>1, <1>3, <1>4, <1>5, <2>1, <2>2, <2>3 DEF OutcomeOf, Awaited
<1>8. Outcome' = [i \in Id |-> IF i = f.id THEN "served"
                               ELSE IF \E g \in Waiting : g.id = i THEN "dropped"
                               ELSE Outcome[i]]
  BY <1>7 DEF Outcome
<1> QED
  BY <1>2, <1>5, <1>6, <1>8 DEF Atomic!Interrupt, Atomic!Frame, Frame

\* A system frame that is popped still waits; another is decided.
LEMMA FramePops ==
  ASSUME TypeOK, Alone, WorkerShape, PlaceInv, MutedInv, muted' = muted, Pop(Executor)
  PROVE  [Atomic!Next]_Atomic!vars
<1>1. PICK f \in queue :
        /\ MostUrgent(f) /\ queue' = queue \ {f}
        /\ cur' = [cur EXCEPT ![Executor] = f]
        /\ pc' = [pc EXCEPT ![Executor] = IF Category(f) = 0 THEN "system" ELSE "check"]
  BY DEF Pop
<1>2. /\ pc[Executor] = "pop" /\ UNCHANGED <<fate, interrupted>>
      /\ pc'[Executor] = (IF Category(f) = 0 THEN "system" ELSE "check")
      /\ cur'[Executor] = f /\ cur[Executor] = NoFrame
  BY <1>1 DEF Pop, TypeOK, Alone, WorkerShape, ShapeOf, Holding
<1>3. /\ f \in Frame /\ f.id \in Id /\ f # NoFrame /\ fate[f.id] = "open"
      /\ \A g \in queue \ {f} : g.id # f.id
  BY NoFrameAssumption DEF TypeOK, Frame, PlaceInv, PlacedOpen, PlacedOnce
<1>4. Waiting = queue
  BY <1>2 DEF Waiting
<1>5. ASSUME NEW i \in Id PROVE ~AtHand(i) /\ ((AtHand(i))' <=> i = f.id)
  BY <1>2, <1>3 DEF AtHand
<1>6. CASE Category(f) = 0
  <2>1. Waiting' = Waiting
    BY <1>1, <1>2, <1>4, <1>6 DEF Waiting
  <2>2. ASSUME NEW i \in Id PROVE OutcomeOf(i)' = OutcomeOf(i)
    <3>1. (Awaited(i))' <=> Awaited(i)
      BY <2>1 DEF Awaited
    <3>2. i = f.id => Awaited(i)
      BY <1>4 DEF Awaited
    <3> QED
      BY <1>2, <1>5, <3>1, <3>2 DEF OutcomeOf
  <2> QED
    BY <2>1, <2>2, AtomicStutters
<1>7. CASE Category(f) # 0
  <2>1. Waiting' = Waiting \ {f} /\ pc'[Executor] = "check" /\ muted = interrupted
    BY <1>1, <1>2, <1>4, <1>7 DEF Waiting, MutedInv
  <2>2. ASSUME NEW i \in Id
        PROVE  OutcomeOf(i)' = IF i # f.id THEN OutcomeOf(i)
                               ELSE IF muted THEN "dropped" ELSE "served"
    <3>1. (Awaited(i))' <=> Awaited(i) /\ i # f.id
      BY <1>3, <1>4, <2>1 DEF Awaited
    <3> QED
      BY <1>2, <1>3, <1>5, <2>1, <3>1 DEF OutcomeOf
  <2>3. Outcome' = [Outcome EXCEPT ![f.id] = IF muted THEN "dropped" ELSE "served"]
    BY <1>3, <2>2 DEF Outcome
  <2>4. f.kind \notin Atomic!System /\ \A g \in Waiting : ~Atomic!Outranks(g, f)
    <3>1. f.kind \notin SystemKinds
      BY <1>7 DEF Category
    <3>2. ASSUME NEW g \in queue
          PROVE  g.kind \notin SystemKinds /\ (f.kind = "Data" => g.kind # "Control")
      <4>1. Category(f) <= Category(g)
        BY <1>1 DEF MostUrgent
      <4>2. Category(f) \in {1, 2} /\ (f.kind = "Data" => Category(f) = 2)
        BY <3>1 DEF Category
      <4>3. /\ g.kind \in SystemKinds => Category(g) = 0
            /\ g.kind = "Control" => Category(g) = 1
        BY DEF Category, SystemKinds
      <4> QED
        BY <4>1, <4>2, <4>3
    <3> QED
      BY <1>4, <3>1, <3>2 DEF Atomic!Outranks, Atomic!System, SystemKinds
  <2>5. Atomic!Give(f) /\ f \in Atomic!Frame
    BY <1>3, <1>4, <2>1, <2>3, <2>4 DEF Atomic!Give, Atomic!Leave, Atomic!Frame, Frame
  <2> QED
    BY <2>5 DEF Atomic!Next
<1> QED
  BY <1>6, <1>7

\* A frame settles as it was decided.
LEMMA FrameSettles ==
  ASSUME TypeOK, Alone, WorkerShape, PlaceInv, muted' = muted, NEW l \in {"idle", "panicked"},
         Return(Executor, l), NEW x, Settle(Executor, x), UNCHANGED queue,
         \/ x = "interrupted" /\ pc[Executor] = "check" /\ interrupted
         \/ x \in {"processed", "failed"} /\ pc[Executor] \in {"process", "record"}
  PROVE  UNCHANGED Atomic!vars
<1>1. /\ cur[Executor] # NoFrame /\ cur[Executor].id \in Id
      /\ fate[cur[Executor].id] = "open"
      /\ \A g \in queue : g.id # cur[Executor].id
      /\ cur'[Executor] = NoFrame /\ pc'[Executor] = l
  BY DEF TypeOK, Alone, WorkerShape, ShapeOf, Holding, Frame, PlaceInv, PlacedOpen, PlacedOnce,
         Holds, Return
<1>2. Waiting = queue /\ Waiting' = queue
  BY <1>1 DEF Waiting
<1>3. ASSUME NEW i \in Id PROVE OutcomeOf(i)' = OutcomeOf(i)
  <2>1. (Awaited(i))' <=> Awaited(i)
    BY <1>2 DEF Awaited
  <2>2. ~(AtHand(i))' /\ (AtHand(i) <=> i = cur[Executor].id)
    BY <1>1 DEF AtHand
  <2>3. fate'[i] = IF i = cur[Executor].id THEN x ELSE fate[i]
    BY DEF Settle, TypeOK
  <2>4. Awaited(i) => i # cur[Executor].id
    BY <1>1, <1>2 DEF Awaited
  <2> QED
    BY <1>1, <2>1, <2>2, <2>3, <2>4 DEF OutcomeOf
<1> QED
  BY <1>2, <1>3, AtomicStutters

\* Every step of the executor, and of those around it, is one of an atomic runner or
\* none at all.
LEMMA NextAtomic ==
  ASSUME Alone, TypeOK, TypeOK', WorkerShape, PlaceInv, FlagInv, MutedInv, MutedInv',
         [RunNext]_runVars
  PROVE  [Atomic!Next]_Atomic!vars
<1> DEFINE e == Executor
<1>1. CASE UNCHANGED runVars
  <2>1. UNCHANGED <<queue, cur, fate, pc, interrupted, muted>>
    BY <1>1 DEF runVars, vars, taskVars, historyVars
  <2> QED
    BY <2>1, NothingMoves
<1>2. ASSUME Observe, UNCHANGED <<interrupted, queue, cur, fate>>,
             \/ pc'[e] = pc[e]
             \/ /\ pc[e] \notin {"system", "clear", "check"}
                /\ pc'[e] \notin {"system", "clear", "check"}
      PROVE  [Atomic!Next]_Atomic!vars
  <2>1. muted' = muted
    BY <1>2 DEF Observe, MutedInv
  <2> QED
    BY <1>2, <2>1, NothingMoves
<1>3. ASSUME Observe, NEW f \in Frame, Enqueue(f), UNCHANGED <<interrupted, cur, fate>>,
             \/ pc'[e] = pc[e]
             \/ /\ pc[e] \notin {"system", "clear", "check"}
                /\ pc'[e] \notin {"system", "clear", "check"},
             fate[f.id] = "open", \A g \in queue : g.id # f.id, ~AtHand(f.id)
      PROVE  [Atomic!Next]_Atomic!vars
  <2>1. muted' = muted
    BY <1>3 DEF Observe, MutedInv
  <2>2. ~Awaited(f.id)
    BY <1>3, NoFrameAssumption DEF Awaited, Waiting, AtHand, WorkerShape, ShapeOf, Holding, Alone
  <2>3. Atomic!Arrive(f)
    BY <1>3, <2>1, <2>2, FrameArrives DEF Enqueue
  <2> QED
    BY <2>3 DEF Atomic!Next, Atomic!Frame, Frame
<1>4. CASE ExecutorStep
  <2>1. Observe
    BY <1>4 DEF ExecutorStep
  <2>2. CASE Begin \/ TickStopped
    BY <1>2, <2>1, <2>2 DEF Begin, TickStopped, Start, vars, taskVars, historyVars
  <2>3. CASE TickRunning
    BY <1>2, <2>1, <2>3 DEF TickRunning, Call, GoTo, TypeOK, Alone, historyVars
  <2>4. CASE ReadStatus(e) \/ PopEmpty(e)
    BY <1>2, <2>1, <2>4 DEF ReadStatus, PopEmpty, GoTo, TypeOK, Alone, historyVars
  <2>5. CASE Pop(e)
    <3>1. pc'[e] \in {"system", "check"} /\ pc[e] = "pop" /\ interrupted' = interrupted
      BY <2>5 DEF Pop, TypeOK, Alone
    <3>2. muted' = muted
      BY <2>1, <3>1 DEF Observe, MutedInv
    <3> QED
      BY <2>5, <3>2, FramePops
  <2>6. CASE BeginInterruption(e)
    <3>1. /\ pc[e] = "system" /\ pc'[e] = "clear" /\ UNCHANGED <<queue, cur, fate>>
      BY <2>6 DEF BeginInterruption, GoTo, TypeOK, Alone, historyVars
    <3>2. muted' = muted
      BY <2>1, <3>1 DEF Observe
    <3> QED
      BY <3>1, <3>2, NothingMoves
  <2>7. CASE ClearQueue(e)
    BY <2>7, InterruptionDrops DEF Atomic!Next
  <2>8. CASE StopInterruption(e) \/ EndSession(e) \/ IgnoreSystem(e)
    <3>1. pc[e] = "system" /\ pc'[e] = "record" /\ UNCHANGED <<queue, cur, fate>>
      BY <2>8 DEF StopInterruption, EndSession, IgnoreSystem, GoTo, TypeOK, Alone, historyVars
    <3>2. /\ cur[e] \in Atomic!Frame /\ cur[e].kind \in Atomic!System
          /\ Atomic!Leave(cur[e], "served")
      BY <3>1, SystemFrameLeaves
    <3>3. muted' = interrupted' /\ muted = interrupted
      BY <2>1, <3>1 DEF Observe, MutedInv
    <3>4. CASE StopInterruption(e)
      BY <3>2, <3>3, <3>4 DEF StopInterruption, Atomic!Next, Atomic!Resume
    <3>5. CASE EndSession(e) \/ IgnoreSystem(e)
      BY <3>2, <3>3, <3>5 DEF EndSession, IgnoreSystem, Atomic!Next, Atomic!Serve
    <3> QED
      BY <2>8, <3>4, <3>5
  <2>9. CASE CheckInterrupted(e)
    <3>1. pc[e] = "check" /\ UNCHANGED <<interrupted, queue>>
      BY <2>9 DEF CheckInterrupted
    <3>2. CASE interrupted
      <4>1. Return(e, "idle") /\ Settle(e, "interrupted")
        BY <2>9, <3>2 DEF CheckInterrupted
      <4>2. pc'[e] = "idle"
        BY <4>1 DEF Return, TypeOK, Alone
      <4>3. muted' = muted
        BY <2>1, <3>1, <4>2 DEF Observe, MutedInv
      <4> QED
        BY <3>1, <3>2, <4>1, <4>3, FrameSettles
    <3>3. CASE ~interrupted
      <4>1. GoTo(e, Proceed(0)) /\ UNCHANGED fate
        BY <2>9, <3>3 DEF CheckInterrupted
      <4>2. pc'[e] \in {"process", "record"} /\ UNCHANGED cur
        BY <4>1 DEF GoTo, Proceed, TypeOK, Alone
      <4>3. muted' = muted
        BY <2>1, <3>1, <4>2 DEF Observe, MutedInv
      <4> QED
        BY <3>1, <3>3, <4>1, <4>2, <4>3, NothingMoves
    <3> QED
      BY <3>2, <3>3
  <2>10. CASE ProcessorFails(e)
    <3>1. /\ pc[e] = "process" /\ Return(e, "idle") /\ Settle(e, "failed")
          /\ UNCHANGED <<interrupted, queue>>
      BY <2>10 DEF ProcessorFails
    <3>2. pc'[e] = "idle"
      BY <3>1 DEF Return, TypeOK, Alone
    <3>3. muted' = muted
      BY <2>1, <3>1, <3>2 DEF Observe, MutedInv
    <3> QED
      BY <3>1, <3>3, FrameSettles
  <2>11. CASE ProcessorAbsorbs(e) \/ ProcessorEmits(e)
    <3>1. /\ pc[e] = "process" /\ UNCHANGED <<interrupted, queue, cur, fate>>
          /\ pc'[e] \in {"process", "emit", "record"}
      BY <2>11 DEF ProcessorAbsorbs, ProcessorEmits, GoTo, Proceed, TypeOK, Alone, historyVars
    <3> QED
      BY <1>2, <2>1, <3>1
  <2>12. CASE PushOutput(e)
    <3> DEFINE f == Head(outs[e])
    <3>1. /\ pc[e] = "emit" /\ Enqueue(f) /\ UNCHANGED <<interrupted, cur, fate>>
          /\ pc'[e] \in {"process", "emit", "record"}
      BY <2>12 DEF PushOutput, Proceed, TypeOK, Alone
    <3>2. outs[e] \in Seq(Frame) /\ outs[e] # <<>>
      BY <3>1 DEF TypeOK, Alone, WorkerShape, ShapeOf
    <3>3. 1 \in DOMAIN outs[e] /\ f = outs[e][1] /\ f \in Frame
      BY <3>2, LenProperties, EmptySeq
    <3>4. fate[f.id] = "open" /\ \A g \in queue : g.id # f.id
      BY <3>3 DEF PlaceInv, PlacedOnce, PlacedOpen, Alone
    <3>5. ~AtHand(f.id)
      BY <3>3 DEF PlaceInv, PlacedOnce, Holds, AtHand, Alone
    <3> HIDE DEF f
    <3> QED
      BY <1>3, <2>1, <3>1, <3>3, <3>4, <3>5
  <2>13. CASE Record(e)
    <3>1. PICK l \in {"idle", "panicked"} : Return(e, l)
      BY <2>13, Zenon DEF Record
    <3>2. /\ pc[e] = "record" /\ Settle(e, "processed") /\ UNCHANGED <<interrupted, queue>>
      BY <2>13 DEF Record
    <3>3. pc'[e] # "clear"
      BY <3>1 DEF Return, TypeOK, Alone
    <3>4. muted' = muted
      BY <2>1, <3>2, <3>3 DEF Observe, MutedInv
    <3> QED
      BY <3>1, <3>2, <3>4, FrameSettles
  <2> QED
    BY <1>4, <2>2, <2>3, <2>4, <2>5, <2>6, <2>7, <2>8, <2>9, <2>10, <2>11, <2>12, <2>13
    DEF ExecutorStep, Step, HandleSystem, ProcessData
<1>5. CASE Environment /\ Observe
  <2>1. CASE Start \/ Stop
    BY <1>2, <1>5, <2>1 DEF Start, Stop, taskVars, historyVars
  <2>2. ASSUME NEW k \in Kinds, Push(k) PROVE [Atomic!Next]_Atomic!vars
    <3> DEFINE f == [id |-> nextId, kind |-> k]
    <3>1. /\ Enqueue(f) /\ nextId \in Id /\ UNCHANGED <<interrupted, cur, fate, pc>>
      BY <2>2, RunnerAssumption DEF Push, TypeOK, Id, RunnerAssumption, taskVars
    <3>2. f \in Frame /\ f.id = nextId /\ nextId \in Nat
      BY <3>1, RunnerAssumption DEF Frame, Id, RunnerAssumption
    <3> HIDE DEF f
    <3>3. fate[f.id] = "open" /\ (\A g \in queue : g.id # f.id) /\ ~AtHand(f.id)
      BY <3>1, <3>2 DEF PlaceInv, PlacedOpen, Holds, AtHand, Alone, TypeOK, Fates
    <3> QED
      BY <1>3, <1>5, <3>1, <3>2, <3>3
  <2> QED
    BY <1>5, <2>1, <2>2 DEF Environment
<1> QED
  BY <1>1, <1>4, <1>5 DEF RunNext

LEMMA InitAtomic == RunInit => Atomic!Init
<1> SUFFICES ASSUME RunInit PROVE Atomic!Init
  OBVIOUS
<1>1. /\ queue = {} /\ pc[Executor] = "idle" /\ cur[Executor] = NoFrame /\ muted = FALSE
      /\ \A i \in Id : fate[i] = "open"
  BY DEF RunInit, ExecutorOwnsRunner, Init
<1>2. Waiting = {} /\ \A i \in Id : OutcomeOf(i) = "new"
  BY <1>1 DEF Waiting, OutcomeOf, Awaited, AtHand
<1> QED
  BY <1>1, <1>2 DEF Atomic!Init, Outcome

\* What process_next_frame takes and what it makes of it cannot be told from a single
\* step, for any chain of processors and any number of frames: no push, stop or start
\* between its awaits makes the executor drop, keep or process what a runner without
\* awaits would not.
THEOREM OneFrameAtATime == RunSpec => ActsAtomically
<1>1. RunInit => Init
  BY DEF RunInit
<1>2. Init => FlagInv
  BY DEF Init, FlagInv
<1>3. Spec /\ []Alone => [](TypeOK /\ WorkerShape /\ PlaceInv /\ FlagInv)
  BY <1>2, InitPlace, NextPlace, NextFlag, TypeCorrect, PTL DEF Spec
<1>4. RunSpec => [](Alone /\ TypeOK /\ WorkerShape /\ PlaceInv /\ FlagInv)
  BY <1>3, RunImplementsRunner, PTL
<1>5. RunSpec => []MutedInv
  BY <1>4, InitMuted, NextMuted, PTL DEF RunSpec
<1> QED
  BY <1>4, <1>5, InitAtomic, NextAtomic, PTL DEF RunSpec, ActsAtomically, Atomic!Spec

=============================================================================
