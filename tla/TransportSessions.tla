------------------------- MODULE TransportSessions -------------------------
(***************************************************************************)
(* The session registry of the transport service and the Daily connector:  *)
(* create_session, get_session, end_session and join_as_ai_agent, called    *)
(* by concurrent clients of the library.                                   *)
(*                                                                         *)
(* A session's id is made by the service and handed to the caller.  It does *)
(* not name the session at Daily: a room has a name of its own unless a     *)
(* caller names it after a session.  A creation at Twilio changes nothing:  *)
(* the form of its request holds a list, which cannot be encoded, so it     *)
(* returns an error before anything is sent.                               *)
(*                                                                         *)
(* A shard of a DashMap is locked by the thread, not by the task: a guard  *)
(* is kept over an await, and a writer that waits for it keeps one of the   *)
(* runtime's worker threads.  A pending writer does not hold up readers.   *)
(*                                                                         *)
(* A definition A_B is A with the bug B.                                   *)
(***************************************************************************)
EXTENDS Integers, FiniteSets

CONSTANTS
  Client,       \* concurrent callers of the service's operations
  Shard,        \* the shard of the sessions map each id hashes to
  Workers,      \* worker threads of the runtime
  MaxSessions,  \* bound: sessions created
  MaxCalls      \* bound: calls of the service's operations

ASSUME TransportAssumption ==
  /\ Workers \in Nat \ {0} /\ MaxSessions \in Nat /\ MaxCalls \in Nat

Id == 1 .. MaxSessions
\* An id of no session, which a caller may name all the same.
Stranger == MaxSessions + 1
Handle == Id \cup {Stranger}
OwnName(i) == -i
RoomName == Id \cup {OwnName(i) : i \in Id}

ASSUME ShardAssumption == Handle \subseteq DOMAIN Shard

VARIABLES
  sessions,   \* keys of the sessions map
  providers,  \* keys of the session_providers map, all with the value "daily"
  configs,    \* sessions with a stored configuration (module ConfigStore)
  rooms,      \* external: the rooms at Daily and the session each was made for
  pc,         \* of each client: what its operation does next
  arg,        \* the id it is about
  late,       \* it began when an end of that id had already returned Ok
  \* history
  created,    \* sessions so far
  made,       \* calls of operations so far
  past        \* ids by what happened to them

vars == <<sessions, providers, configs, rooms, pc, arg, late, created, made, past>>
maps == <<sessions, providers, configs>>
client == <<pc, arg, late>>
history == <<created, made, past>>

Past == [handed : SUBSET Id,        \* given to the caller of create_session
         ended : SUBSET Handle,     \* end_session has returned Ok
         brokeOff : SUBSET Id,      \* creation failed with the provider's half done
         overtaken : SUBSET Id,     \* an end found it half registered
         namesake : SUBSET Id]      \* a room was named after it

Init ==
  /\ sessions = {} /\ providers = {} /\ configs = {} /\ rooms = << >>
  /\ pc = [c \in Client |-> "idle"]
  /\ arg = [c \in Client |-> 0]
  /\ late = [c \in Client |-> FALSE]
  /\ created = 0 /\ made = 0
  /\ past = [handed |-> {}, ended |-> {}, brokeOff |-> {}, overtaken |-> {}, namesake |-> {}]

\* A map with an entry more, or without one.
With(f, x, y) == [z \in DOMAIN f \cup {x} |-> IF z = x THEN y ELSE f[z]]
Without(f, x) == [z \in DOMAIN f \ {x} |-> f[z]]

At(c, where) == pc[c] = where
Goes(c, where) == pc' = [pc EXCEPT ![c] = where] /\ UNCHANGED <<arg, late>>
Returns(c) == Goes(c, "idle")
Known(h, what) == past' = [past EXCEPT ![what] = @ \cup {h}]

(* The shards' locks and the threads that wait for them. *)

Guarded_Dropped == {}
Guarded_OverRemoval == {"asking", "update", "remove"}

\* Where a client holds the guard of sessions.get: over an await, and still when
\* it inserts the refreshed session.
Guarded == {"asking", "update"}
Unlocked(i) == \A c \in Client : pc[c] \in Guarded => Shard[arg[c]] # Shard[i]

\* Where a client is between two awaits, on a thread of its own, and where it
\* awaits what Daily, the store or the queue answers.
OnThread == {"insert", "update", "provider", "remove", "removeProvider"}
Outside == {"room", "token", "asking", "hangup", "deleteConfig", "joining", "greeting"}
HasWorker == Cardinality({c \in Client : pc[c] \in OnThread}) < Workers

(***************************************************************************)
(* create_session                                                          *)
(***************************************************************************)
Begins(c, h, where) ==
  /\ At(c, "idle") /\ HasWorker /\ made < MaxCalls
  /\ made' = made + 1
  /\ pc' = [pc EXCEPT ![c] = where]
  /\ arg' = [arg EXCEPT ![c] = h]
  /\ late' = [late EXCEPT ![c] = h \in past.ended]

Create(c) ==
  /\ created < MaxSessions
  /\ Begins(c, created + 1, "room")
  /\ created' = created + 1
  /\ UNCHANGED <<maps, rooms, past>>

\* create_room: the name the request asks for, or one of its own.
MakeRoom(c) ==
  /\ At(c, "room") /\ HasWorker
  /\ \E n \in past.handed \cup {OwnName(arg[c])} :
       /\ n \notin DOMAIN rooms
       /\ rooms' = With(rooms, n, arg[c])
       /\ IF n \in Id THEN Known(n, "namesake") ELSE UNCHANGED past
  /\ Goes(c, "token")
  /\ UNCHANGED <<maps, created, made>>

\* create_meeting_token; its failure, or an answer that cannot be read, leaves the
\* room behind.
Token(c) ==
  /\ At(c, "token") /\ HasWorker
  /\ \/ Goes(c, "insert") /\ UNCHANGED past
     \/ Returns(c) /\ Known(arg[c], "brokeOff")
  /\ UNCHANGED <<maps, rooms, created, made>>

\* Daily refuses, or cannot be reached: nothing is registered.
CreateFails(c) ==
  /\ At(c, "room") /\ HasWorker
  /\ Returns(c)
  /\ UNCHANGED <<maps, rooms, history>>

\* sessions.insert, of create_session and of get_session
InsertSession(c) ==
  /\ pc[c] \in {"insert", "update"} /\ Unlocked(arg[c])
  /\ sessions' = sessions \cup {arg[c]}
  /\ Goes(c, IF At(c, "insert") THEN "provider" ELSE "idle")
  /\ UNCHANGED <<providers, configs, rooms, history>>

InsertProvider(c) ==
  /\ At(c, "provider")
  /\ providers' = providers \cup {arg[c]}
  /\ Returns(c) /\ Known(arg[c], "handed")
  /\ UNCHANGED <<sessions, configs, rooms, created, made>>

(***************************************************************************)
(* get_session                                                             *)
(***************************************************************************)
\* The ids a caller has: those handed out, those listed, and one of nothing.
Callable == past.handed \cup sessions \cup {Stranger}

\* sessions.get and, under its guard, the lookup of the provider.
Get(c) ==
  /\ \E i \in sessions \cap providers : Begins(c, i, "asking")
  /\ UNCHANGED <<maps, rooms, created, past>>

\* The connector finds the session only as a room of that name.
Refresh(c) ==
  /\ At(c, "asking") /\ HasWorker
  /\ arg[c] \in DOMAIN rooms
  /\ Goes(c, "update")
  /\ UNCHANGED <<maps, rooms, history>>

\* The session is answered as it was created.
RefreshFails(c) ==
  /\ At(c, "asking") /\ HasWorker
  /\ Returns(c)
  /\ UNCHANGED <<maps, rooms, history>>

(***************************************************************************)
(* end_session                                                             *)
(***************************************************************************)
\* A half registered session has no provider yet: its connector is not told.
End(c) ==
  /\ \E h \in Callable :
       /\ Begins(c, h, IF h \in providers THEN "hangup" ELSE "remove")
       /\ IF h \in sessions \ providers THEN Known(h, "overtaken") ELSE UNCHANGED past
  /\ UNCHANGED <<maps, rooms, created>>

\* Daily is asked to delete the room of that name; its answer may be lost.
HangUp(c) ==
  /\ At(c, "hangup") /\ HasWorker
  /\ arg[c] \in DOMAIN rooms
  /\ rooms' = Without(rooms, arg[c])
  /\ Goes(c, "remove") \/ Returns(c)
  /\ UNCHANGED <<maps, history>>

HangUpFails_Ignored(c) ==
  /\ At(c, "hangup") /\ HasWorker
  /\ Goes(c, "remove")
  /\ UNCHANGED <<maps, rooms, history>>

\* The error of the request is returned.
HangUpFails(c) ==
  /\ At(c, "hangup") /\ HasWorker
  /\ Returns(c)
  /\ UNCHANGED <<maps, rooms, history>>

\* A removal takes the lock of the shard whether or not the id is there.
RemoveSession(c) ==
  /\ At(c, "remove") /\ Unlocked(arg[c])
  /\ sessions' = sessions \ {arg[c]}
  /\ Goes(c, "removeProvider")
  /\ UNCHANGED <<providers, configs, rooms, history>>

RemoveProvider_Forgotten(c) ==
  /\ At(c, "removeProvider")
  /\ Goes(c, "deleteConfig")
  /\ UNCHANGED <<maps, rooms, history>>

RemoveProvider(c) ==
  /\ At(c, "removeProvider")
  /\ providers' = providers \ {arg[c]}
  /\ Goes(c, "deleteConfig")
  /\ UNCHANGED <<sessions, configs, rooms, history>>

\* An error of the store is only logged.
DeleteConfig(c) ==
  /\ At(c, "deleteConfig") /\ HasWorker
  /\ configs' \in {configs, configs \ {arg[c]}}
  /\ Returns(c) /\ Known(arg[c], "ended")
  /\ UNCHANGED <<sessions, providers, rooms, created, made>>

(***************************************************************************)
(* join_as_ai_agent, start_ai_agent_pipeline                               *)
(***************************************************************************)
Join(c) ==
  /\ \E i \in Callable \cap providers : Begins(c, i, "joining")
  /\ UNCHANGED <<maps, rooms, created, past>>

\* Daily's token for the room of that name, and get_config.
FindConfig(c) ==
  /\ At(c, "joining") /\ HasWorker
  /\ arg[c] \in configs
  /\ Goes(c, "greeting")
  /\ UNCHANGED <<maps, rooms, history>>

\* No token, no configuration, no store, no router; or the router finds none to load
\* any more, and nobody is greeted although the join returns Ok.
JoinFails(c) ==
  /\ pc[c] \in {"joining", "greeting"} /\ HasWorker
  /\ Returns(c)
  /\ UNCHANGED <<maps, rooms, history>>

\* send_ai_greeting: the session's events are routed, so somebody is greeted.
Greet(c) ==
  /\ At(c, "greeting") /\ HasWorker
  /\ arg[c] \in configs
  /\ Returns(c)
  /\ UNCHANGED <<maps, rooms, history>>

StoreConfig ==
  /\ \E h \in past.handed \ configs : configs' = configs \cup {h}
  /\ made < MaxCalls /\ made' = made + 1
  /\ UNCHANGED <<sessions, providers, rooms, client, created, past>>

(***************************************************************************)
(* Specification.                                                          *)
(***************************************************************************)
OnItsThread(c) ==
  InsertSession(c) \/ InsertProvider(c) \/ RemoveSession(c) \/ RemoveProvider(c)

Answered(c) ==
  \/ MakeRoom(c) \/ Token(c) \/ CreateFails(c)
  \/ Refresh(c) \/ RefreshFails(c)
  \/ HangUp(c) \/ HangUpFails(c) \/ DeleteConfig(c)
  \/ FindConfig(c) \/ JoinFails(c) \/ Greet(c)

Start(c) == Create(c) \/ Get(c) \/ End(c) \/ Join(c)

Next ==
  \/ \E c \in Client : Start(c) \/ Answered(c) \/ OnItsThread(c)
  \/ StoreConfig

Spec == Init /\ [][Next]_vars

\* A thread that has what it waits for runs.  Nobody owes an answer: the connector's
\* HTTP client has no time-out.
FairSpec == Spec /\ \A c \in Client : WF_vars(OnItsThread(c))

-----------------------------------------------------------------------------
(* Correctness. *)

TypeOK ==
  /\ sessions \subseteq Id /\ providers \subseteq Id /\ configs \subseteq Id
  /\ DOMAIN rooms \subseteq RoomName /\ \A n \in DOMAIN rooms : rooms[n] \in Id
  /\ pc \in [Client -> {"idle", "room", "token", "insert", "provider",
                      "asking", "update", "hangup", "remove", "removeProvider",
                      "deleteConfig", "joining", "greeting"}]
  /\ arg \in [Client -> Handle \cup {0}] /\ late \in [Client -> BOOLEAN]
  /\ created \in 0 .. MaxSessions /\ made \in 0 .. MaxCalls
  /\ past \in Past

Doing(i, where) == \E c \in Client : pc[c] \in where /\ arg[c] = i

\* The two maps know the same sessions, except while one of them is between its
\* two inserts or its two removals: the lookups of get_session, end_session and
\* join_as_ai_agent, which go through one map to the other, rest on it.  It fails
\* for a session an end overtook.
MapsAgree ==
  \A i \in Id :
    \/ i \in sessions <=> i \in providers
    \/ Doing(i, {"provider", "removeProvider"})
    \/ i \in past.overtaken

\* A session end_session has answered Ok for does not come back: no refresh that
\* was under way puts it in again, and no join begun later greets anybody.
EndedStaysEnded ==
  \A i \in (past.ended \cap Id) \ past.overtaken :
    /\ i \notin sessions /\ i \notin providers
    /\ \A c \in Client : arg[c] = i /\ late[c] => ~At(c, "greeting")

Runs(i) == \E n \in DOMAIN rooms : rooms[n] = i

\* A room at Daily is of a session the service lists, so somebody can see
\* it; unless its creation is under way or broke off half way, an end overtook
\* it, or its end deleted another session's room that bore its id.
NothingRunsUnlisted ==
  \A i \in Id : Runs(i) =>
    \/ i \in sessions \cup past.brokeOff \cup past.overtaken \cup past.namesake
    \/ Doing(i, {"token", "insert"})

(* Liveness. *)

Waits(c) == pc[c] \in {"insert", "update", "remove"}

\* A refresh that succeeded keeps its own insert waiting, and all others of its
\* shard.
Wedged(c) ==
  \E d \in Client :
    At(d, "update") /\ (d = c \/ (Waits(c) /\ Shard[arg[c]] = Shard[arg[d]]))

\* Every worker waits for a guard, so none takes the answer to the one that holds it.
Starved ==
  /\ ~HasWorker
  /\ \A c \in Client : pc[c] \in OnThread => Waits(c) /\ ~Unlocked(arg[c])

\* Once no more calls come, every operation returns, as long as what it asks for is
\* answered when there is a worker to take the answer; unless a refresh succeeded or
\* the workers are used up.  While calls do come, their guards can overlap and keep
\* a writer out for ever.
CallReturns ==
  /\ <>[][FALSE]_made
  /\ \A d \in Client : []<>(pc[d] \notin Outside \/ ~HasWorker)
  => \A c \in Client : ~At(c, "idle") ~> At(c, "idle") \/ Wedged(c) \/ Starved

=============================================================================
