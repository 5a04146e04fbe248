# A verification of meshag

meshag is a framework for voice agents: services for transport, speech-to-text
(STT), a language model (LLM) and text-to-speech (TTS) exchange frames and
events over NATS, and a library runs frames through a pipeline of processors.
This directory holds TLA+ modules of its parts, the TLC runs that check them on
small instances, and theorems about them that the TLA+ proof system checks.

    tlasany M.tla                          parse
    tlc -workers 2 -config X.cfg M.tla     model-check (M and X as in PROJECT.json)
    tlapm P.tla                            check the proofs of P

`PROJECT.json` lists the runs, the source lines every definition models, the
mutants that show each property can fail, the hazards and the theorems.

## 1. Inventory

Paths are relative to the repository.

| part | source | state | operations | hard because |
|---|---|---|---|---|
| Runner, Pipeline | `crates/orchestrator/src/runner`, `pipeline` | priority heap, status, interruption flag, metrics | push, start, stop, `process_next_frame`, the executor's loop | every await is an interleaving point; an interruption clears what others push; stop races a pop |
| Multi-session LLM | `crates/services/llm/src/multi_session.rs` | two subscriptions, a handler with two bounded channels per session, the conversations | dispatch, interrupt, drain, answer | one dispatcher for all sessions blocks on a full channel; interruption races dispatch |
| Event queue | `crates/shared/src/queue.rs` | JetStream streams, one durable consumer per service | publish, deliver, ack, nak, redeliver | at-least-once with three attempts; acks get lost; a publish without a stream fails |
| LLM and TTS on events | `crates/services/llm/src/lib.rs`, `tts/src/lib.rs` | conversations, connectors | answer a transcription, speak an answer | a failed publish naks an event whose effects are already in the conversation |
| Calls over WebSocket | `services/meshag-service/src/transport.rs` | one socket, its stream id and format, a relay task with a channel | start, media, close, relay of audio | the audio may be ready before anybody subscribed to it, or after the call ended |
| STT | `crates/services/stt/src/lib.rs`, `connectors/providers/deepgram.rs` | sessions with an audio buffer, a provider session each | session start and end, audio, poll of transcriptions | audio before, during and after the provider session; lost buffers; a poller that dies |
| Remote processor | `crates/shared/src/processor/remote.rs` | one WebSocket, its two halves behind locks | process with a timeout | a late reply answers the next request |
| Frames and codec | `crates/shared/src/frames` | none | bincode, JSON, conversion to and from events | the two directions know different kinds |
| Transport | `crates/services/transport`, `connectors/providers/{twilio,daily}.rs` | two maps of sessions, rooms at the provider | create, refresh, join, end | two maps that change one after the other; a lock of a thread held over an await; a room and its session have different names |
| Gateway | `services/meshag-service/src/gateway`, `services/api-gateway-service` | connected clients | register, relay both ways, unregister | clients that leave are noticed late |
| Agent configuration | `crates/orchestrator/src/config.rs`, `router.rs`, `lib.rs` | none (a validated pipeline) | validate, next, previous, route | routing by a table that validation accepts |
| Configuration store | `crates/orchestrator/src/valkey_config.rs` | keys with a TTL and an index set in Valkey | store, read, extend, delete, clean up | two commands per operation, other clients between them |
| Connectors | `crates/connectors/src/providers` | HTTP and WebSocket clients | generate, synthesize, stream | I/O |
| Common server, bindings | `crates/service-common`, `crates/meshag-python`, `crates/python-bindings` | none | HTTP routes, Python wrappers | I/O and stubs |

How they interact.  The transport service reads media from a WebSocket and
publishes it on the STT subject; STT feeds a provider and publishes
transcriptions on the LLM subject; the LLM service answers on the TTS subject;
TTS synthesizes and publishes on the transport subject.  Those hops use JetStream events
(`EventQueue`), except the last, plain NATS.  The gateway and the multi-session
LLM service are a second path: frames on `SYSTEM.session.<id>` and
`DATA.session.<id>`, plain NATS.  A `Runner` is a library object: tasks push
frames into its heap, and one task, `RunnerExecutor::run`, drives it.

What makes each part correct:

- Runner: no frame is lost or handled twice except where the code drops it; what
  an interruption cleared is never processed; `stop` is effective; the metrics
  mean what they say.
- LLM sessions: an interrupted utterance is not answered; answers are whole and
  in order; every system frame is served, and every transcription of a session that is
  neither interrupted for good nor over.
- Event queue: an event accepted by a stream is handled or given up after three
  attempts, and settled only when it was handled; a copy that was already buffered
  may still be attempted after that.
- STT: audio reaches the provider in order and once; a transcription is
  published under its session; a session's end leaves nothing behind.
- Remote processor: every call ends as long as the remote end lets it connect and
  send, no reply is given twice, and only a call that gives up makes later replies
  answer the wrong request.
- Frames: a frame comes back from its event and means what it meant; what a conversion
  normalises it normalises once.
- Calls: nothing is said for a call before its start was read, or twice unless a delivery
  was repeated; every transcription is answered aloud.
- Transport: the two maps agree, an ended session stays ended, and no room is
  left at the provider that the service has lost sight of.
- Configuration: a stored configuration can be read until it expires, and is
  listed exactly while it exists.

## 2. Plan

Order, the most important behaviour first; what is done is in bold.

1. **`Runner`, `RunnerExecutor`**, **`AtomicRunner`**, the abstract specification that
   one executor implements, and **`RunnerProofs`**: the frame pipeline, its type
   invariant and its safety.
2. **`LlmSessions`**: the dispatcher and its handlers; **`LlmProofs`**.
3. **`FrameCompat`** (the conversions between frames and events), **`FrameHops`** (a frame
   that travels by them),
   **`RemoteProcessor`** (a reply and its request) and **`RemoteProofs`**.
4. **`EventQueue`**, one consumer over a JetStream stream, **`Delivery`**, the
   abstract specification it implements, and **`EventQueueProofs`**, which holds the
   theorems of `FrameCompat` too: a frame travels as an event.
5. **`SttService`** with the Deepgram sessions, and **`SttProofs`**.
6. **`VoiceCall`**: a call through the LLM and TTS handlers on events, each behind a
   queue as `Delivery` describes it, and the relay to the caller; **`VoiceCallProofs`**.
7. **`TransportSessions`** and **`TransportProofs`**; **`ConfigStore`** and
   **`ConfigProofs`** (sessions and stored configurations, under several clients).
8. `Gateway` and `AgentPipeline` (section 6 says why they come last).

Each component has one run that asks all its questions; what `FrameCompat` states is
about constants, so it is an assumption of `MCEventQueue` that TLC evaluates before that
run, and a theorem.

## 3. Modules

### Runner

A `Runner` shared by tasks that push frames, start and stop it (`Push`, `Start`,
`Stop`) and by `Worker`s inside `process_next_frame`.  One action is what the
method does between two awaits: `ReadStatus` (the guard is dropped before the
pop), `Pop` or `PopEmpty`, then for a system frame `BeginInterruption` and
`ClearQueue` (the write guard of the flag is held over both), `StopInterruption`,
`EndSession` or `IgnoreSystem`; for any other frame `CheckInterrupted` and, for each
processor, `ProcessorFails`, `ProcessorAbsorbs` or `ProcessorEmits` followed by one
`PushOutput` per output after the first; at last `Record`.  `Record` panics when
the number of frames handled, cut to 32 bits, is zero (`CountModulus` stands for
2^32).  The heap returns any frame of the least category value: Rust's
`BinaryHeap` does not promise an order among equals.

What a processor computes is not modelled: it fails, returns nothing, or
returns one output for the next processor and up to `MaxExtras` new frames of
any kind.  History variables: `fate` (how a frame left), `flushMark` (the
identities below it existed when the queue was last cleared), `outbid` (frames
waiting when an interruption arrived), `late` (pops since the runner stopped).

### RunnerExecutor

EXTENDS `Runner` with the loop of `RunnerExecutor::run`, which owns its runner and is
the only worker (`ExecutorOwnsRunner`, part of the initial condition): `Begin`
starts the runner whatever its status was, `TickStopped` leaves, `TickRunning` calls
`process_next_frame`; errors are only logged.  `FairRunSpec` adds weak fairness of
the executor's steps alone: Tokio polls a task whose timer fired or whose
lock is free.  Nothing obliges other tasks to push, start or stop.

### AtomicRunner

What who pushes frames may rely on: frames wait, and one step takes the most urgent and
decides it.  An interruption drops all that waits at that moment (`Interrupt`); a data
or control frame is dropped or given to the processors by whether an interruption is in
effect then (`Give`).  `ActsAtomically` says that `RunnerExecutor` implements it.  The
refinement mapping places a system frame's step at its effect, so it waits until then,
and a data frame's at its pop, before the flag is read; the history variable `muted` is
the flag as others can read it, because the clear of an interruption comes after the
write of the flag and under its lock.

### LlmSessions

One dispatcher (`DispatchSystem`, `PollSystemSub`, `DispatchData`, `Send`) and one
handler per session (`HandleSystem`, `Drain`, `PollSystemCh`, `TakeData` and the steps of
`process_transcription`).  Both loops are biased selects that look at one source
and then at the other, so a system frame may arrive between the two looks; that is
what the locations "polled" are for.  `Send` waits for room in the channel, and
gives up when the handler has ended.  A frame for a session that has ended is sent to a
dropped receiver and lost.  What a handler publishes on
`DATA.session.<id>`, and its error frames on `SYSTEM.session.<id>`, come back to the
dispatcher's subscriptions.  `Decodable` is the set of kinds `from_bytes` can read:
empty in the code as it stands (the finding of `llm_codec`), every kind in the other
runs, which show what the design does once the codec works.  `purged` holds
what waited in a channel when an interruption was handled, and what its drain dropped.
`FairSpec` has weak fairness of the dispatcher and of each handler, which includes that
the connector answers or fails: its HTTP client has no time-out, so this is an
assumption about the provider.

### FrameCompat, FrameHops

`to_event` and `from_event` as functions on what frames and events are made of.  Texts,
ids and payloads are model values; what matters is which kinds and fields each direction
knows, which defaults it fills in, and which frame comes out as another kind.
`MeaningSurvives` and `SecondHopIsExact` are statements about the two functions, without
variables: theorems, and assumptions of `MCEventQueue`
(`ConversionsChecked`).  `LostKinds` are the seven kinds that become events no arm
reads.  `FrameHops` is the journey: `PublishFrame`, then `Receive` or `Reject`, as often
as one likes.

### RemoteProcessor

Calls of `process`, each a sequence of the steps between two awaits: `LockWriter`,
`LockReader` and `Connect` (`ensure_connected` holds the first lock while it takes
the second), `TakeWriter`, `Send` (with the writer's lock held), `TakeReader`, `Read` or a
failure to read, and `Timeout`, which spans the wait for the reader's lock and the read and
nothing before.  The remote service answers the frames of a connection in order, if at
all; the connection may break, which nobody notices by itself.  An executor calls one at
a time; other owners may not, and the variable `overlapped` tells the two apart.  `FairSpec`
has weak fairness of what a call does alone and of its timer.  The remote end owes
nothing: neither an answer, nor the end of `Connect` or `Send` (`Exchange`), which have no
time-out.  `EveryCallEnds` therefore is about executions in which no call stays in one of
the two for ever; in others that call holds one lock or both, and all calls wait.

### EventQueue, Delivery

One consumer: `EnsureStream`, `CreateConsumer` and `OpenMessages`, then the loop
(`Take`, `CallSucceeds` or `CallFails`, `Reply`).  The server is modelled from how the
queue configures it: `Deliver` fills the client's buffer in the order of the stream,
`AckWaitEnds` may come at any time, `GiveUp` after `MaxDeliver` deliveries, `ReceiveAck`
and `ReceiveNak` at any later time or never.  Faults, at most `MaxFaults` of them: a
failed set-up, a receive error (which drops the buffer), a crash and restart, an
event too old.  `FairSpec` has weak fairness of the loop and of the server's
deliveries and timers, none of the replies and none of who publishes.

`Delivery` is what a service may rely on: an event is attempted at most
`MaxDeliver` times, each delivery at most once, and settled only after an attempt
succeeded or when there is nothing in it to attempt.  `KeepsPromise` says that
`EventQueue` implements it, with the server's states seen as phases.

### SttService

The event task (`Handle` and the steps of the handlers between their awaits) and the
poller of transcriptions, over the map of session states, which only the event task
touches, and the connector's map of provider sessions, which both lock.  Events
come as `EventQueue` shows they do: one at a time, `MaxDeliver` times at most, first
attempts in the order of the stream, any of them again later.  `Break` is the end of a
WebSocket, noticed later by the task that writes to it.  The branch of
`handle_session_start` for a session with a format that is not established is not an
action: it is never taken, which is the theorem `FormatIsLast`.  `FairSpec` has weak fairness
of the poller and strong fairness of the event task, because Tokio's locks are
queues: a task that waits for one gets it although another takes it again and again.

### VoiceCall

A call from the first media message to the audio the caller hears.  Per session the
handler of the WebSocket (`Connect`, `ReadStart`, `ReadMedia`, the outcome of what it
publishes, `Close`, `End`) selects at random between the caller and the relay task's
channel (`Relay`); the relay task subscribes some time after the connection opens
(`Subscribe`) and then composes and forwards one audio at a time (`Compose`, `Forward`), with
the stream id the session has by then.  The LLM and the TTS handler sit behind queues
that keep `Delivery`'s promise and no more: an event comes `MaxDeliver` times at most,
first attempts in the order of the stream, any of them again.  The last hop is plain
NATS, so audio published before `Subscribe` is lost (`missed`).  The STT service is one
action, since `SttService` models it.  `MaxFaults` bounds failed generations,
syntheses and publications, restarts, which empty the conversations, and repeated
deliveries.  A start without a streamSid stores "unknown" in its place; media is
published and answered all the same.  `started` says that a start stored something, and the
field `named` of a message that it was composed after that.  `FairSpec`: weak fairness of the
publications, the relay task and both handlers, except for `Generate` and `Synthesize`, whose
HTTP requests have no time-out (`TranscriptionIsAnswered` assumes that none hangs for
ever), and strong fairness of `Relay`, for a select that picks at random among what is
ready does not pass over one branch for ever.

### TransportSessions

`create_session`, `get_session`, `end_session` and `join_as_ai_agent`, each the steps between
its awaits, over the maps `sessions` and `providers`, whose two inserts and two removals
other tasks may come between.  These are operations of the library's
`TransportServiceState`: the service's binary has no route to them, and it registers no
Daily connector, so the clients of this module are programs that use the crate.  The
sessions are Daily's; a creation at Twilio changes nothing, because its request's form
holds a list (`twilio.rs:242`), which cannot be encoded, and `send` returns an error before
anything is sent.  Daily's connector looks for the room of the session's own id, which
exists only when a caller has named a room so (`MakeRoom`); else a refresh and an end fail.
`Stranger` is an id of no session.

The `sessions` map is a DashMap: `get_session` keeps a shard's read guard over the call to the
provider and then writes to the same shard.  An insert or a removal waits for the guards of
its shard, be the key there or not, and blocks its worker thread, of which there are
`Workers`; readers pass a pending writer.  `Wedged` and `Starved` name the two ways in which
that stops calls, and `CallReturns` that there is no third.  `FairSpec` is weak fairness of
the steps a client takes on its thread.  Nobody owes an answer; `CallReturns` assumes
that what is `Outside` answers when there is a worker to take it, and that calls cease, for
overlapping guards can keep a writer out.

### ConfigStore

`ConfigStorage`, command by command: `store_config` is `Store` (its time is taken), `SetEx`,
`SAdd`; `get_config` may `Del` and `SRem` what it finds expired; `delete_config`,
`extend_config_ttl`, `cleanup_expired_configs` likewise.  Valkey runs one command at a
time, and other clients come between any two; any command may fail.  A configuration
has two ends of life: that of its key, which EXPIRE moves, and `created_at` + TTL, by
which `get_config` goes.  There is one clock (`Tick`).  The history variables `raced` and
`taken` mark the configurations that a removal already under way may still
reach, so that the properties can say what holds of all others.

## 4. Runs

| run | question | instance |
|---|---|---|
| `runner_shared` | is a runner safe when several tasks drive it | 2 workers, 1 processor, 3 frames of 5 kinds |
| `executor` | does what was interrupted stay interrupted, does the executor stop, does the queue drain once pushes end, does a call act as if it had no awaits | 2 processors, 4 frames of 5 kinds, divisor wraps at 4 |
| `llm_sessions` | are answers whole, in order and not of what was interrupted; what can leave a frame unserved | 1 session, channels of 1, 3 frames of 4 kinds |
| `llm_wedge` | is every system frame served (it is not) | 1 session, channels of 1, 4 frames |
| `llm_codec` | does a frame reach a handler (it does not) | nothing decodable |
| `text_roundtrip` | does a text frame come back from its event (it does not) | every kind, two ids, any number of hops |
| `remote` | whose answer does a call get, and does it end | 3 calls, overlapping or not |
| `queue` | is the promise of delivery kept (and, evaluated before it, what of a frame survives the way through an event) | an event and garbage, 3 deliveries each, 1 fault, buffer of 2; frames of every kind, two ids |
| `stt` | is audio kept, ordered and ended | 1 session, 3 events, 2 deliveries each, 1 transcription |
| `voice` | is a transcription answered aloud, once, in order, to somebody | 1 session, 2 events, 3 deliveries each, channel of 1, 2 faults |
| `transport` | do the maps agree, is an end final, does every call return | 3 clients, 2 sessions, 5 calls, one shard, 2 workers |
| `config` | is what can be read listed and kept, does a cleanup clean | 2 clients, 2 sessions, TTL 2, time 3, 4 operations |

Bounds.  Three frames are enough for one to be in a worker's hands, one in the
heap and one to interrupt them; the fourth of `executor` is an output created after
the clear, and makes the divisor wrap.  A second worker is needed for the races of
status and flag, a third adds no new pair.  Channels of one frame fill with the
second; three published frames let an interruption, a transcription and a
resumption meet in one session, and the fourth of `llm_wedge` waits behind them.  The
session of these runs meets another only in the one dispatcher; that sessions do
not mix is part of the theorems of `LlmProofs`, which hold for any number.  Three calls
are what it takes for an answer to slip by two.  Two events are what it takes
for an order, and three deliveries are the code's own bound.  Three audio events let
a chunk be buffered behind a failed connection, another establish the session and
the session end, or two be flushed after a start; a second session meets the first
only in the poller's locks, which the first meets as well.  In `voice` two faults let one
event be refused and another repeated, or a restart fall between two attempts.  In
`transport` one shard is the worst case, two workers let two clients wait for a third's
guard, and five calls are a creation, a refresh, an end and two more of any kind.  In
`config` a TTL of 2 gives a configuration an age at which it is neither new nor over,
and the clock runs one unit past its end; four operations let a store, a
removal and a cleanup overlap with another store.  Clients and sessions are
interchangeable there, which the symmetry uses; the run has no liveness property.

The runs of `LlmSessions`, `EventQueue`, `SttService`, `VoiceCall`, `TransportSessions`
and `ConfigStore` do not check deadlock: nobody is obliged to publish or to call, and
what is published or called is bounded.

The violation runs state what the repository says of the program and are listed as
findings: "bypass queues" and "Process system frames immediately" of its README
(`llm_wedge`), "Central dispatcher routes frames" there (`llm_codec`), and the test
`test_roundtrip_conversion` (`tests/integration_test.rs:180`), which unwraps the frame made
of the event of a text frame: `from_processing_event` has no arm for it and returns an
error (`text_roundtrip`).

What does not hold, and is therefore stated with its condition or not at all:

- With two workers on one runner `NoStaleFrame` and `InterruptionOutbids` fail: one
  worker may carry a frame past the flag before another handles the interruption.
  The code's own use has one executor, and the properties are stated for it.
- A frame queued as EndFrame can be cleared unhandled by an interruption, so the
  runner goes on: only "it leaves the queue" is claimed.
- A frame can wait for ever in a runner into which others keep pushing: a tick takes one
  frame, of an equal or higher priority if there is one, and the heap is not a queue
  among equals.  `QueueDrainsOncePushesEnd` has the end of pushes for its premise, and
  `TranscriptionIsServed` the end of publications, since the biased selects prefer system
  frames.
- A frame for a session whose handler has ended is lost, whatever its kind.
- After a receive error `NothingGivenUpUnseen` fails: ack-waits that end while a
  message waits in the buffer use its three deliveries up, and the error drops all
  three copies.  After any fault, first attempts may be out of order.
- With calls that overlap, `RemoteProcessor` may swap answers.  A remote end that accepts
  no connection or reads nothing holds every call for ever, and an HTTP request to a
  provider that hangs holds its handler: neither has a time-out.
- An audio event that comes again is sent again, and one that comes again after
  `session_end` makes a session that nobody ends.
- An interruption does not stop the answer that is being made: the session's
  `cancel_token` is never cancelled.  Only what still waits is purged.
- Frames of seven kinds, a text or cancel frame among them, become events for which
  `from_processing_event` has no arm, and are rejected (`LostKinds`): `MeaningSurvives` is
  about the others, and `text_roundtrip` shows the loss of a text.
- An answer whose event is delivered again is spoken again, and audio
  that is published before the relay task subscribed is lost (`NoEchoWithoutRetry`,
  `TranscriptionIsAnswered` name both).
- The `session_end` of a WebSocket that was closed is published on a subject that no stream
  has: nobody learns of it.
- A call whose start has no streamSid is answered into the stream "unknown":
  `NothingBeforeStart` only says that no other message says so.
- A creation at Twilio never succeeds.  An end that overtakes the second insert of a
  creation leaves an entry in one map and the room; a creation whose token is refused
  leaves the room.
- A `get_session` whose refresh succeeds waits for the guard it holds itself, and with it
  every writer of that shard.
- `extend_config_ttl` keeps the key, but `get_config` still goes by `created_at`: nothing
  can be read past its first TTL.  A store that overlaps a removal of the same session
  may be lost or stay unlisted.

## 5. Proofs

`RunnerProofs` proves, for every finite or infinite set of workers and every value of the
bounds: `TypeCorrect`, `StopRaceBounded`, `InterruptionAtomic`, `NoFrameLostOrDoubled`
and `MetricsExact`.  The inductive invariant is in three layers.  `WorkerShape` ties
what a worker holds to its location (a frame exactly outside "idle", "entered" and
"pop"; a pending output exactly in "emit"; a system frame exactly in the system
locations).  On it rest `StopInv` and `FlagInv`, each a few lines about one
location.  `PlaceInv` says that identities below `nextId` are in one place and
those above in none; it is what makes a count of places inductive, for `Cardinality`
alone says nothing of which worker holds a frame.

Its last section is about `RunnerExecutor`.  It first shows that a run of the executor
is a run of the runner with one worker (`RunImplementsRunner`), so every theorem before
it holds of the executor, and then proves `InterruptedStaysInterrupted`
(`NoStaleFrame`) and `InterruptionComesFirst` (`InterruptionOutbids`).  The
strengthenings say where old frames may be while the flag is set and before the clear.
Both need that the executor is alone, which the initial condition of `RunSpec` says.
So does `OneFrameAtATime` (`ActsAtomically`): with `PlaceInv`, which says that an id is in
one place, and `MutedInv`, every step of the executor, and of those who push around it,
is a step of `AtomicRunner` or a stutter, action by action in `NextAtomic`.

`EventQueueProofs` proves, for every set of events and every bound, `TypeCorrect`,
`DeliveriesInOnePlace` (`OnePlace`) and `PromiseKept`: `EventQueue` implements `Delivery`.
`OnePlace` is inductive with the type invariant: a new delivery has a number the
server has not used, so it is neither buffered nor taken.  The refinement needs
three facts more: the callback is called with what was taken and can be parsed
(`CallTaken`), an ack on its way is for an event that succeeded or is garbage
(`AckEarned`, which is what lets a late ack settle an event), and what was delivered was
published (`DeliveredKnown`).  Each step then maps to a step of `Delivery` or to a
stutter.

The two properties of a queue where nothing fails follow from `QueueInv`:
`NothingLostUnseen` (`NothingGivenUpUnseen`) and `FirstAttemptsAreOrdered`
(`FirstAttemptsInOrder`).  An event in the log that was never delivered is ready or
missed (`WaitingOK`), because only what was taken is acked; what was delivered was taken
or is in the buffer (`SeenOK`), because without a fault nothing else empties it; and the
buffer holds what was never taken in the order of the stream (`BufferOK`), because the
server delivers a new event only after all new ones before it, and the log names each
event once (`LogOK`).  What the loop takes is first in the buffer, hence next in order.

The last section of `EventQueueProofs` is about `FrameCompat`: `FrameKeepsItsMeaning`
(`MeaningSurvives`) and `NormalisedOnce` (`SecondHopIsExact`), for any ids, texts and
payloads.  `ThereAndBack` says of the two conversions what comes back of a frame, kind by
kind; it needs that no two kinds share a type of event (`TypesDiffer`).  A frame made of
an event is complete, PCM16 and of a kind that comes back (`KnownComesBack`), for which the
way there and back is exact.

`SttProofs` proves every safety property of `SttService`, for any set of sessions (a
run has one) and every bound: `TypeCorrect`, `MapsStayTogether`
(`EstablishedIsConnected`), `FormatIsLast` (`FormatComesLast`), `AudioStaysKept`
(`AckedAudioIsKept`), `EndedIsGone` (`EndLeavesNothing`) and `AudioStaysInOrder`
(`AudioInOrder`).  The properties speak of
moments between two events or of acked events, and steps in between break them; `IInv`
says what holds meanwhile.  `MapsAgree`: established means connected at every moment,
and only the flush at hand finds audio in the buffer of an established session.
`AudioKept`: the chunk at hand counts as taken over from the moment it is buffered, not
only once its event is acked.  `LastOK` and `EndOK`: what is handled is the last event
of its session, and it is in "close" exactly when it is a `session_end`, so the only
ended session with something left is the one about to be closed.  `OrderInv`: as long as
no event comes again, what a connection heard comes before what is buffered, both rise,
and what is about to be sent comes after both, while every event begun for the first
time comes after all begun before it.

`LlmProofs` proves every safety property of `LlmSessions`, for any set of sessions, any
kinds and bounds, and whatever the codec can decode: `TypeCorrect`, `PurgedIsNeverAnswered`
(`InterruptedIsNotAnswered`), `AnswersAreWhole` (`AnswersDoNotInterleave`) and
`ConversationsAreOrdered` (`ConversationInOrder`).  All three rest on an order of arrival.
An id is `Old` when every transcription that has not reached a session yet has a larger
one; `OldStays` says that it remains so, although what a session publishes comes back to
the dispatcher.  Then what a session holds is old and in order (`InOrder`), no two
sessions hold the same (`Apart`), and what was purged is in nobody's hands and in a
channel only while that channel drains (`PurgedIsGone`).  `AnswerInv` and
`ConversationInv` tie the last thing published, or said, to the place the handler is at.

`RemoteProofs` proves, for every set of calls, `TypeCorrect`, `NoReplyGivenTwice`
(`NoAnswerTwice`) and `SlipIsCounted` (`AnswersSlipByGivingUp`).  `Window` says that the
answers on their way are for a window of the frames sent, one after the other;
`Readers`, that a call with an answer took it off that window's lower end, so no two
took the same; `UnreadCounted`, that the window is as far behind as calls gave up.  Only
the last needs that calls have not overlapped (`Alone`).

`TransportProofs` proves every safety property of `TransportSessions`, for any clients,
hashing and number of workers: `TypeCorrect`, `MapsStayTogether` (`MapsAgree`),
`EndIsFinal` (`EndedStaysEnded`) and `RunningIsListed` (`NothingRunsUnlisted`).  The
invariant says what holds in the middle of an operation: nobody but its creator knows a
session before the first insert (`CreateOK`), nor is at it between the two unless an end
overtook it (`ProviderOK`); an end that comes to the removals deleted a room named after
the session, overtook it, or found none (`RemoveOK`); a guard is of a session that is
there (`GuardOK`), which is why a refresh brings nothing back.

`ConfigProofs` proves every safety property of `ConfigStore`, for any clients, sessions,
TTL and clock: `TypeCorrect`, `ReadableIsListed` (`StoredIsListed`), `FreshSurvives`
(`FreshIsKept`) and `CleanupIsComplete` (`CleanupCleans`).  Its parts say, of each command
that some client has yet to send, what it may still hit: an SREM finds the session gone or
`raced` (`SRemOK`), a DEL finds it expired or `taken` (`DelOK`), and no SADD is pending for
what a cleanup knows to be missing (`MissingOK`).

`VoiceCallProofs` proves every safety property of `VoiceCall`, for any set of sessions
and every bound:

- `TypeCorrect` (`TypeOK`).  That the stream of answers stays within its bound is the
  part that is not inductive: a text may be answered once per attempt, so the answers
  and the one being made are at most the attempts begun (`Room`).
- `NothingIsSaidEarly` (`NothingBeforeStart`).  `StreamInv` follows the start of a stream
  downstream: who was heard has started, what was asked, answered or spoken is of
  somebody who was heard, so what the relay task composes finds what a start stored.
- `AnswersStandWithQuestions` (`ConversationIsPaired`).  `PairInv`: while an answer is
  generated, its question is the last message of its conversation, since the handler
  takes one event at a time and a forgotten conversation begins anew with it.
- `NothingIsDoubled` (`NoEchoWithoutRetry`).  The way of an answer is four queues
  (`Written`, `Queued`, `Held`, and the relay task's `inbox`), and `NextMoves` says that
  every step only moves an answer along them, drops it, or appends the one being
  spoken.  `EchoInv` counts: what is on the way and what is being spoken is at most the
  attempts.
- `AnswersComeInOrder` (`AnswersInOrder`).  As long as nothing is attempted twice
  (`Once`), each queue and each handler is behind the next: the answers of the stream
  rise (`ThinkOrder`), the TTS handler is at the newest that was tried (`SpeakOrder`),
  and the four queues in a row rise and hold nothing that was not spoken (`LineOrder`).

Some theorems state what no run lists: the two of `FrameCompat`, `InterruptionAtomic`
(the flag is set while the queue is cleared), `MetricsExact`, `DeliveriesInOnePlace`,
`FormatIsLast` and the type invariants of `Runner`, `RemoteProcessor`, `EventQueue`,
`SttService`, `TransportSessions` and `ConfigStore`.

Assumptions, all evaluated by TLC: `RunnerAssumption`, `LlmAssumption`, `SttAssumption`,
`TransportAssumption`, `ShardAssumption`, `StoreAssumption` (bounds are natural numbers, and
the like), `NoFrameAssumption`, `QueueAssumption`, `RemoteAssumption` and `FailureAssumption`
(the values for "none" and "failed" are nothing else), `CallAssumption` (bounds),
`NothingAssumption` and `CompatAssumption` (what stands for "no value" is no value).
`ConversionsChecked` is assumed by no proof.

Every safety property that a run checks, invariant or action property, is stated by a
theorem.  Only model-checked are the liveness properties (`StopEndsRun`,
`QueueDrainsOncePushesEnd`, `OnlyWedgeHoldsSystemFrames`, `TranscriptionIsServed`,
`EveryCallEnds`, `AcceptedIsSettled`, `HandlerReturns`, `TranscriptionIsAnswered`,
`CallReturns`): they rest on fairness, that is on ENABLED, which is out of the prover's
reach.

## 6. Not modelled

- The gateways (`websocket.rs` of both services) move frames between one socket and the
  two subjects of its session.  Their only state is a map of session ids that nothing
  reads, and what they publish is the environment of `LlmSessions`, which allows every
  order of frames.  No text of the repository says what becomes of a client that
  leaves; the gateway of `meshag-service` notices only when it next has something to send.
- The agent's configuration (`config.rs`), its router and `ConfigManager`: look-ups in a list
  that does not change once read, and one event published with what they find.  Which
  services the list names is data of the user.
- The codec (bincode, JSON) beyond the parameter `Decodable`, connectors' HTTP traffic, the
  HTTP servers, the Python bindings and the deployment files: I/O without state of their
  own.

Inside the modelled parts: what processors, providers and callbacks compute; the read
task of a closed provider session, which lives on until its WebSocket ends and has
nobody to send to; a session id that is no UUID, at which the poller of transcriptions
would end (every id the program makes is one); a crash of the STT service, which empties
all its state, so that what follows it starts from the initial state; the Twilio
connector of the transport service, which never makes a session, and with it
`read_websocket_message` and `write_websocket_message`; lists, counts and health checks,
which only read.
