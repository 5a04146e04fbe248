----------------------------- MODULE ConfigStore -----------------------------
(***************************************************************************)
(* The agents' configurations in Valkey: ConfigStorage's operations, run by *)
(* any number of services at once.                                         *)
(*                                                                         *)
(* Valkey executes one command at a time and an operation is several of    *)
(* them: a configuration under its key, which Valkey drops when its time   *)
(* is over, and the set of keys for listing, which it does not.  Both the  *)
(* key and the configuration have a time: EXPIRE moves the key's, and      *)
(* get_config goes by the configuration's own, its created_at.  The clocks *)
(* of the services and of Valkey are one.                                  *)
(*                                                                         *)
(* A definition A_B is A with the bug B.                                   *)
(***************************************************************************)
EXTENDS Integers, FiniteSets

CONSTANTS
  Client,    \* callers of the operations, of any service
  Session,
  TTL,       \* life of a configuration, 3600 s in the code
  MaxTime,   \* bound: the clock
  MaxOps     \* bound: operations

ASSUME StoreAssumption ==
  /\ TTL \in Nat \ {0} /\ MaxTime \in Nat /\ MaxOps \in Nat

Time == 0 .. MaxTime

VARIABLES
  now,
  born,     \* created_at of the configuration under each session's key
  until,    \* when Valkey drops the key; at 0 there is none
  keys,     \* the set "config:keys"
  pc,       \* of each client: the command its operation sends next
  op,       \* and which operation that is
  arg,      \* the session it is about
  stamp,    \* the created_at a store has taken
  todo,     \* the keys a cleanup has still to look at
  \* history
  ops,
  broken,   \* the store of the key's configuration failed half way
  raced,    \* it was stored while an SREM of it was to come
  taken,    \* it was stored while a DEL of it was to come, or a removal was asked
            \* for since; or there was none
  missing   \* of each cleanup: sessions that had no configuration since it began

valkey == <<born, until, keys>>
client == <<pc, op, arg, stamp, todo>>
history == <<ops, broken, raced, taken, missing>>
vars == <<now, valkey, client, history>>

Init ==
  /\ now = 0
  /\ born = [s \in Session |-> 0] /\ until = [s \in Session |-> 0] /\ keys = {}
  /\ pc = [c \in Client |-> "idle"] /\ op = [c \in Client |-> "none"]
  /\ arg \in [Client -> Session]
  /\ stamp = [c \in Client |-> 0] /\ todo = [c \in Client |-> {}]
  /\ ops = 0 /\ broken = {} /\ raced = {} /\ taken = Session
  /\ missing = [c \in Client |-> {}]

Exists(s) == now < until[s]

At(c, where) == pc[c] = where
Sends(c, command) == pc' = [pc EXCEPT ![c] = command]
Returns(c) == Sends(c, "idle")

Begins(c, what, s, command) ==
  /\ At(c, "idle") /\ ops < MaxOps
  /\ ops' = ops + 1
  /\ Sends(c, command)
  /\ op' = [op EXCEPT ![c] = what]
  /\ arg' = [arg EXCEPT ![c] = s]

Doing(what, s) == \E c \in Client : ~At(c, "idle") /\ op[c] = what /\ arg[c] = s

\* Some client is about to send this command about the session.
Pending(command, s) == \E c \in Client : At(c, command) /\ arg[c] = s

(***************************************************************************)
(* store_config                                                            *)
(***************************************************************************)
Store(c) ==
  /\ \E s \in Session : Begins(c, "store", s, "setex")
  /\ stamp' = [stamp EXCEPT ![c] = now]
  /\ UNCHANGED <<now, valkey, todo, broken, raced, taken, missing>>

SetEx(c) ==
  LET s == arg[c] IN
  /\ At(c, "setex")
  /\ born' = [born EXCEPT ![s] = stamp[c]]
  /\ until' = [until EXCEPT ![s] = now + TTL]
  /\ Sends(c, "sadd")
  /\ raced' = IF Pending("srem", s) THEN raced \cup {s} ELSE raced \ {s}
  /\ taken' = IF Pending("del", s) THEN taken \cup {s} ELSE taken \ {s}
  /\ broken' = broken \ {s}
  /\ missing' = [d \in Client |-> missing[d] \ {s}]
  /\ UNCHANGED <<now, keys, op, arg, stamp, todo, ops>>

SAdd(c) ==
  /\ At(c, "sadd")
  /\ keys' = keys \cup {arg[c]}
  /\ Returns(c)
  /\ UNCHANGED <<now, born, until, op, arg, stamp, todo, history>>

(***************************************************************************)
(* get_config, delete_config                                               *)
(***************************************************************************)
Expired_Early(s) == now - born[s] + 1 >= TTL
Expired(s) == now - born[s] >= TTL

\* GET, and what is answered of it: a configuration that is too old is deleted.
Get(c) ==
  /\ \E s \in Session :
       Begins(c, "get", s, IF Exists(s) /\ Expired(s) THEN "del" ELSE "idle")
  /\ UNCHANGED <<now, valkey, stamp, todo, broken, raced, taken, missing>>

Delete(c) ==
  /\ \E s \in Session : Begins(c, "delete", s, "del") /\ taken' = taken \cup {s}
  /\ UNCHANGED <<now, valkey, stamp, todo, broken, raced, missing>>

Del(c) ==
  /\ At(c, "del")
  /\ until' = [until EXCEPT ![arg[c]] = 0]
  /\ Sends(c, "srem")
  /\ UNCHANGED <<now, born, keys, op, arg, stamp, todo, history>>

\* SREM, of a deletion and of a cleanup, which goes on to its next key.
SRem(c) ==
  /\ At(c, "srem")
  /\ keys' = keys \ {arg[c]}
  /\ Sends(c, IF op[c] = "cleanup" THEN "ttl" ELSE "idle")
  /\ UNCHANGED <<now, born, until, op, arg, stamp, todo, history>>

(***************************************************************************)
(* extend_config_ttl                                                       *)
(***************************************************************************)
\* EXPIRE: a time of zero deletes the key.
Extend(c) ==
  /\ \E s \in Session, t \in 0 .. TTL :
       /\ Begins(c, "extend", s, "idle")
       /\ IF Exists(s)
            THEN /\ until' = [until EXCEPT ![s] = now + t]
                 /\ IF now + t < until[s] THEN taken' = taken \cup {s} ELSE UNCHANGED taken
            ELSE UNCHANGED <<until, taken>>
  /\ UNCHANGED <<now, born, keys, stamp, todo, broken, raced, missing>>

(***************************************************************************)
(* cleanup_expired_configs                                                 *)
(***************************************************************************)
\* SMEMBERS
Cleanup(c) ==
  /\ Begins(c, "cleanup", arg[c], "ttl")
  /\ todo' = [todo EXCEPT ![c] = keys]
  /\ missing' = [missing EXCEPT ![c] = {s \in Session : ~Exists(s) /\ ~Doing("store", s)}]
  /\ UNCHANGED <<now, valkey, stamp, broken, raced, taken>>

TimeToLive_Kept(s) == "ttl"
TimeToLive_Inverted(s) == IF Exists(s) THEN "srem" ELSE "ttl"

\* The key is gone: it is removed from the set by the next command.
TimeToLive(s) == IF Exists(s) THEN "ttl" ELSE "srem"

\* TTL, of one key after the other.
Look(c) ==
  /\ At(c, "ttl")
  /\ \E s \in todo[c] :
       /\ todo' = [todo EXCEPT ![c] = @ \ {s}]
       /\ arg' = [arg EXCEPT ![c] = s]
       /\ Sends(c, TimeToLive(s))
  /\ UNCHANGED <<now, valkey, op, stamp, history>>

Cleaned(c) ==
  /\ At(c, "ttl") /\ todo[c] = {}
  /\ Returns(c)
  /\ UNCHANGED <<now, valkey, op, arg, stamp, todo, history>>

(***************************************************************************)
(* A command that fails, and time.                                         *)
(***************************************************************************)
\* The connection breaks: the operation returns its error.
Fails(c) ==
  /\ ~At(c, "idle")
  /\ Returns(c)
  /\ IF At(c, "sadd") THEN broken' = broken \cup {arg[c]} ELSE UNCHANGED broken
  /\ op' = [op EXCEPT ![c] = "failed"]
  /\ UNCHANGED <<now, valkey, arg, stamp, todo, ops, raced, taken, missing>>

Tick ==
  /\ now < MaxTime /\ now' = now + 1
  /\ UNCHANGED <<valkey, client, history>>

(***************************************************************************)
(* Specification                                                           *)
(***************************************************************************)
Operation(c) ==
  \/ Store(c) \/ SetEx(c) \/ SAdd(c)
  \/ Get(c) \/ Delete(c) \/ Del(c) \/ SRem(c)
  \/ Extend(c)
  \/ Cleanup(c) \/ Look(c) \/ Cleaned(c)
  \/ Fails(c)

Next == Tick \/ \E c \in Client : Operation(c)

Spec == Init /\ [][Next]_vars

-----------------------------------------------------------------------------
(* Correctness. *)

TypeOK ==
  /\ now \in Time
  /\ born \in [Session -> Time] /\ until \in [Session -> 0 .. MaxTime + TTL]
  /\ keys \subseteq Session
  /\ pc \in [Client -> {"idle", "setex", "sadd", "del", "srem", "ttl"}]
  /\ op \in [Client -> {"none", "store", "get", "delete", "extend", "cleanup", "failed"}]
  /\ arg \in [Client -> Session] /\ stamp \in [Client -> Time]
  /\ todo \in [Client -> SUBSET Session] /\ missing \in [Client -> SUBSET Session]
  /\ ops \in 0 .. MaxOps
  /\ broken \subseteq Session /\ raced \subseteq Session /\ taken \subseteq Session

\* A configuration that can be read is listed (list_configs goes by the set of
\* keys alone), unless its store has yet to add it, failed before it did, or ran
\* while a removal of the same session was under way.
StoredIsListed ==
  \A s \in Session : Exists(s) =>
    \/ s \in keys \cup broken \cup raced
    \/ Pending("sadd", s)

\* A configuration is there for its whole life: no cleanup, no reader that finds
\* an older one expired, and no command of another operation takes it away, unless
\* a removal was asked for or was under way when it was stored.
FreshIsKept ==
  \A s \in Session \ taken : now - born[s] < TTL => Exists(s)

\* A cleanup that has returned has taken every session off the list that had no
\* configuration since it began.
CleanupCleans ==
  \A c \in Client : op[c] = "cleanup" /\ At(c, "idle") => missing[c] \cap keys = {}

=============================================================================
