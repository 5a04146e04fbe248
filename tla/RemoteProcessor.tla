-------------------------- MODULE RemoteProcessor --------------------------
(***************************************************************************)
(* RemoteProcessor of crates/shared: frames are sent to a remote service   *)
(* over one WebSocket, whose two halves sit behind two locks, and the next *)
(* message that arrives is taken for the answer.  A Caller is one call of  *)
(* process(); a step of it ends at an await.                               *)
(*                                                                         *)
(* The remote service answers the frames of a connection in order, if at   *)
(* all; an answer is named after the call it answers.                      *)
(*                                                                         *)
(* A definition A_B is A with the bug B.  No specification uses it; the    *)
(* project file names the property that fails when it replaces A.          *)
(***************************************************************************)
EXTENDS Naturals, Sequences, FiniteSets

CONSTANTS
  Caller,  \* calls of process()
  Nobody   \* the holder of a free lock

ASSUME RemoteAssumption == Nobody \notin Caller

VARIABLES
  connected,   \* writer and reader are Some: they are set and taken together
  alive,       \* the connection behind them still works
  writerLock,  \* holder of the writer's mutex, or Nobody
  readerLock,  \* holder of the reader's mutex, or Nobody
  pc,          \* where each call is
  result,      \* what each call returned: the call its answer is for
  sent,        \* calls whose frame the connection accepted, in order
  answers,     \* answers on their way back, in order
  answered,    \* how many of sent the remote service is done with
  readers,     \* history: the calls that have read an answer
  overlapped   \* history: a call began while another ran; never under an executor

connVars == <<connected, alive>>
lockVars == <<writerLock, readerLock>>
wireVars == <<sent, answers, answered>>
historyVars == <<readers, overlapped>>
vars == <<connVars, lockVars, pc, result, wireVars, historyVars>>

Locations == {"start", "lockReader", "connect", "send", "sending", "await", "read", "done"}
Failure == "failed"

ASSUME FailureAssumption == Failure \notin Caller

TypeOK ==
  /\ connected \in BOOLEAN /\ alive \in BOOLEAN
  /\ writerLock \in Caller \cup {Nobody}
  /\ readerLock \in Caller \cup {Nobody}
  /\ pc \in [Caller -> Locations]
  /\ result \in [Caller -> {<<>>, <<Failure>>} \cup {<<c>> : c \in Caller}]
  /\ sent \in Seq(Caller) /\ answers \in Seq(Caller)
  /\ answered \in 0 .. Len(sent)
  /\ readers \subseteq Caller /\ overlapped \in BOOLEAN

Init ==
  /\ connected = FALSE /\ alive = FALSE
  /\ writerLock = Nobody /\ readerLock = Nobody
  /\ pc = [c \in Caller |-> "start"]
  /\ result = [c \in Caller |-> <<>>]
  /\ sent = <<>> /\ answers = <<>> /\ answered = 0
  /\ readers = {} /\ overlapped = FALSE

GoTo(c, l) == pc' = [pc EXCEPT ![c] = l]
Return(c, r) == GoTo(c, "done") /\ result' = [result EXCEPT ![c] = r]

-----------------------------------------------------------------------------
(* Steps with a bug. *)

\* The answer is looked at and left in the stream.
Read_Peeks(c) ==
  /\ pc[c] = "read"
  /\ answers # <<>>
  /\ readerLock' = Nobody
  /\ \/ Return(c, <<Head(answers)>>)
     \/ Return(c, <<Failure>>)
  /\ UNCHANGED <<connVars, writerLock, wireVars, historyVars>>

\* The time-out covers the wait for the lock and not the read.
Timeout_LockOnly(c) ==
  /\ pc[c] = "await"
  /\ Return(c, <<Failure>>)
  /\ UNCHANGED <<connVars, lockVars, wireVars, historyVars>>

\* The late answer is thrown away with the call that waited for it.
Timeout_Discards(c) ==
  /\ pc[c] \in {"await", "read"}
  /\ readerLock' = IF pc[c] = "read" THEN Nobody ELSE readerLock
  /\ answers' = IF answers = <<>> THEN answers ELSE Tail(answers)
  /\ Return(c, <<Failure>>)
  /\ UNCHANGED <<connVars, writerLock, sent, answered, historyVars>>

-----------------------------------------------------------------------------
(* ensure_connected: the writer's lock, then the reader's, then a connection   *)
(* if there is none.  A broken connection is still Some.                       *)

\* The calls under way.
Active == {c \in Caller : pc[c] \notin {"start", "done"}}

LockWriter(c) ==
  /\ pc[c] = "start"
  /\ writerLock = Nobody
  /\ writerLock' = c
  /\ GoTo(c, "lockReader")
  /\ overlapped' = (overlapped \/ Active # {})
  /\ UNCHANGED <<connVars, readerLock, result, wireVars, readers>>

LockReader(c) ==
  /\ pc[c] = "lockReader"
  /\ readerLock = Nobody
  /\ IF connected
     THEN writerLock' = Nobody /\ UNCHANGED readerLock /\ GoTo(c, "send")
     ELSE readerLock' = c /\ UNCHANGED writerLock /\ GoTo(c, "connect")
  /\ UNCHANGED <<connVars, result, wireVars, historyVars>>

\* connect_async ends when the remote end answers; both locks are held until then.
Connect(c) ==
  /\ pc[c] = "connect"
  /\ \/ connected' = TRUE /\ alive' = TRUE /\ GoTo(c, "send") /\ UNCHANGED result
     \/ UNCHANGED connVars /\ Return(c, <<Failure>>)
  /\ writerLock' = Nobody /\ readerLock' = Nobody
  /\ UNCHANGED <<wireVars, historyVars>>

-----------------------------------------------------------------------------
(* process. *)

TakeWriter(c) ==
  /\ pc[c] = "send"
  /\ writerLock = Nobody
  /\ writerLock' = c
  /\ GoTo(c, "sending")
  /\ UNCHANGED <<connVars, readerLock, result, wireVars, historyVars>>

\* The frame goes out when the connection has room for it; the writer's lock is held
\* until then.  A broken connection fails the call or, not noticed yet, swallows the
\* frame.
Send(c) ==
  /\ pc[c] = "sending"
  /\ \/ sent' = Append(sent, c) /\ GoTo(c, "await") /\ UNCHANGED result
     \/ ~alive /\ UNCHANGED sent /\ Return(c, <<Failure>>)
  /\ writerLock' = Nobody
  /\ UNCHANGED <<connVars, readerLock, answers, answered, historyVars>>

TakeReader(c) ==
  /\ pc[c] = "await"
  /\ readerLock = Nobody
  /\ readerLock' = c
  /\ GoTo(c, "read")
  /\ UNCHANGED <<connVars, writerLock, result, wireVars, historyVars>>

\* The next answer of the connection, whoever it was meant for.  One that is no
\* frame fails the call.
Read(c) ==
  /\ pc[c] = "read"
  /\ answers # <<>>
  /\ answers' = Tail(answers)
  /\ readers' = readers \cup {c}
  /\ readerLock' = Nobody
  /\ \/ Return(c, <<Head(answers)>>)
     \/ Return(c, <<Failure>>)
  /\ UNCHANGED <<connVars, writerLock, sent, answered, overlapped>>

\* The call fails and leaves the answers where they are.
NoAnswer(c) ==
  /\ pc[c] = "read"
  /\ readerLock' = Nobody
  /\ Return(c, <<Failure>>)
  /\ UNCHANGED <<connVars, writerLock, wireVars, historyVars>>

\* The stream has ended, or returns an error.
ReadFails(c) == ~alive /\ answers = <<>> /\ NoAnswer(c)

\* What comes next is no text: a ping, say.
ReadOther(c) == alive /\ NoAnswer(c)

\* timeout(30 s) spans the wait for the reader's lock and the read.
Timeout(c) ==
  /\ pc[c] \in {"await", "read"}
  /\ readerLock' = IF pc[c] = "read" THEN Nobody ELSE readerLock
  /\ Return(c, <<Failure>>)
  /\ UNCHANGED <<connVars, writerLock, wireVars, historyVars>>

-----------------------------------------------------------------------------
(* The remote service. *)

Answer ==
  /\ alive
  /\ answered < Len(sent)
  /\ answered' = answered + 1
  /\ answers' = Append(answers, sent[answered + 1])
  /\ UNCHANGED <<connVars, lockVars, pc, result, sent, historyVars>>

\* The connection breaks; answers that have arrived can still be read.
Break ==
  /\ alive
  /\ alive' = FALSE
  /\ UNCHANGED <<connected, lockVars, pc, result, wireVars, historyVars>>

\* What a call does without the remote end.
Process(c) ==
  LockWriter(c) \/ LockReader(c) \/ TakeWriter(c) \/ TakeReader(c)
  \/ Read(c) \/ ReadFails(c) \/ Timeout(c)

\* What it waits for the remote end to let it do.
Exchange(c) == Connect(c) \/ Send(c) \/ ReadOther(c)

Remote == Answer \/ Break

\* No call is left.
Finished == (\A c \in Caller : pc[c] = "done") /\ UNCHANGED vars

Next == (\E c \in Caller : Process(c) \/ Exchange(c)) \/ Remote \/ Finished

Spec == Init /\ [][Next]_vars

\* Tokio polls what can go on and timers fire.  The remote end owes nothing: no
\* answer, and no end of a connection attempt or of a send.
FairSpec == Spec /\ \A c \in Caller : WF_vars(Process(c))

-----------------------------------------------------------------------------

Before(c, d) == \E i, j \in DOMAIN sent : i < j /\ sent[i] = c /\ sent[j] = d

\* Position of a call among those sent.
Position(c) == CHOOSE i \in DOMAIN sent : sent[i] = c

\* As long as calls run one at a time an answer is off by exactly the number of
\* earlier calls that returned without reading one: each such call shifts the
\* answers of all later calls by one, for good, and nothing else does.
AnswersSlipByGivingUp ==
  \A c, d \in Caller : result[c] = <<d>> /\ ~overlapped =>
    Position(c) = Position(d)
      + Cardinality({b \in Caller : Before(b, c) /\ b \notin readers})

\* No answer is given to two calls, however they interleave.
NoAnswerTwice ==
  \A c, d \in Caller : c # d /\ result[c] = result[d] => result[c] \in {<<>>, <<Failure>>}

\* Unless a connection attempt or a send hangs for ever, every call of process()
\* returns, answered or not: the time-out covers the wait for the reader's lock and
\* for the answer.  Nothing covers connect_async and ws.send, which hold locks.
EveryCallEnds ==
  (\A d \in Caller : []<>(pc[d] \notin {"connect", "sending"})) =>
    \A c \in Caller : pc[c] # "start" ~> pc[c] = "done"

=============================================================================
