---------------------------- MODULE ConfigProofs ----------------------------
(***************************************************************************)
(* Proofs about ConfigStore, for every set of clients and of sessions and   *)
(* every bound: its type invariant, that what can be read is listed, that a *)
(* fresh configuration is kept, and that a cleanup cleans.                 *)
(***************************************************************************)
EXTENDS ConfigStore, TLAPS

(* The invariant. *)

\* A store has taken its time, and a cleanup is what looks at keys.
OperationOK ==
  \A c \in Client :
    /\ stamp[c] <= now
    /\ pc[c] \in {"setex", "sadd"} => op[c] = "store"
    /\ pc[c] = "ttl" => op[c] = "cleanup"

\* What an SREM is about is gone, or was stored after the SREM was due.
SRemOK == \A s \in Session : Pending("srem", s) /\ Exists(s) => s \in raced

\* What a DEL is about has expired, unless it was asked for.
DelOK == \A s \in Session \ taken : Pending("del", s) => Expired(s)

\* Valkey keeps a fresh configuration until its own time is over.
UntilOK == \A s \in Session \ taken : Expired(s) \/ until[s] >= born[s] + TTL

\* A session that has had no configuration since a cleanup began still has none,
\* and no store is about to list it.
MissingOK ==
  \A c \in Client : \A s \in missing[c] : ~Exists(s) /\ ~Pending("sadd", s)

\* What a cleanup has not yet looked at, or is about to remove, is all that it
\* has to clean.
CleaningOK ==
  \A c \in Client : op[c] = "cleanup" =>
    \A s \in missing[c] \cap keys :
      \/ pc[c] \in {"ttl", "srem"} /\ s \in todo[c]
      \/ At(c, "srem") /\ arg[c] = s

IInv ==
  /\ TypeOK /\ OperationOK /\ StoredIsListed
  /\ SRemOK /\ DelOK /\ UntilOK /\ MissingOK /\ CleaningOK

\* In the beginning there is no configuration.
LEMMA InitOK == Init => IInv
  BY StoreAssumption, SMT
  DEF Init, IInv, TypeOK, OperationOK, StoredIsListed, SRemOK, DelOK, UntilOK, MissingOK,
      CleaningOK, Exists, Pending, At, Time

-----------------------------------------------------------------------------
(* Every action keeps the invariant. *)

\* store_config takes its time.
LEMMA KeepsStore ==
  ASSUME IInv, NEW c \in Client, Store(c)
  PROVE  IInv'
<1> USE StoreAssumption
    DEF IInv, TypeOK, OperationOK, Exists, Pending, At, Sends, Returns, Begins, Doing,
        Expired, TimeToLive, valkey, client, history, Time
<1>1. TypeOK'
  BY SMT DEF Store
<1>2. OperationOK'
  BY SMT DEF Store
<1>3. StoredIsListed'
  BY SMT DEF Store, StoredIsListed
<1>4. SRemOK'
  BY SMT DEF Store, SRemOK
<1>5. DelOK'
  BY SMT DEF Store, DelOK
<1>6. UntilOK'
  BY SMT DEF Store, UntilOK
<1>7. MissingOK'
  BY SMT DEF Store, MissingOK
<1>8. CleaningOK'
  BY SMT DEF Store, CleaningOK
<1> QED
  BY <1>1, <1>2, <1>3, <1>4, <1>5, <1>6, <1>7, <1>8

\* SETEX: an SREM that is to come is noted.
LEMMA KeepsSetEx ==
  ASSUME IInv, NEW c \in Client, SetEx(c)
  PROVE  IInv'
<1> USE StoreAssumption
    DEF IInv, TypeOK, OperationOK, Exists, Pending, At, Sends, Returns, Begins, Doing,
        Expired, TimeToLive, valkey, client, history, Time
<1>1. TypeOK'
  BY SMT DEF SetEx
<1>2. OperationOK'
  BY SMT DEF SetEx
<1>3. StoredIsListed'
  BY SMT DEF SetEx, StoredIsListed
<1>4. SRemOK'
  BY SMT DEF SetEx, SRemOK
<1>5. DelOK'
  BY SMT DEF SetEx, DelOK
<1>6. UntilOK'
  BY SMT DEF SetEx, UntilOK
<1>7. MissingOK'
  BY SMT DEF SetEx, MissingOK
<1>8. CleaningOK'
  BY SMT DEF SetEx, CleaningOK
<1> QED
  BY <1>1, <1>2, <1>3, <1>4, <1>5, <1>6, <1>7, <1>8

\* SADD lists no session of which a cleanup knows that it is missing.
LEMMA KeepsSAdd ==
  ASSUME IInv, NEW c \in Client, SAdd(c)
  PROVE  IInv'
<1> USE StoreAssumption
    DEF IInv, TypeOK, OperationOK, Exists, Pending, At, Sends, Returns, Begins, Doing,
        Expired, TimeToLive, valkey, client, history, Time
<1>1. TypeOK'
  BY SMT DEF SAdd
<1>2. OperationOK'
  BY SMT DEF SAdd
<1>3. StoredIsListed'
  BY SMT DEF SAdd, StoredIsListed
<1>4. SRemOK'
  BY SMT DEF SAdd, SRemOK
<1>5. DelOK'
  BY SMT DEF SAdd, DelOK
<1>6. UntilOK'
  BY SMT DEF SAdd, UntilOK
<1>7. MissingOK'
  BY SMT DEF SAdd, MissingOK
<1>8. CleaningOK'
  BY SMT DEF SAdd, CleaningOK, MissingOK
<1> QED
  BY <1>1, <1>2, <1>3, <1>4, <1>5, <1>6, <1>7, <1>8

\* get_config finds a configuration expired before it deletes it.
LEMMA KeepsGet ==
  ASSUME IInv, NEW c \in Client, Get(c)
  PROVE  IInv'
<1> USE StoreAssumption
    DEF IInv, TypeOK, OperationOK, Exists, Pending, At, Sends, Returns, Begins, Doing,
        Expired, TimeToLive, valkey, client, history, Time
<1>1. TypeOK'
  BY SMT DEF Get
<1>2. OperationOK'
  BY SMT DEF Get
<1>3. StoredIsListed'
  BY SMT DEF Get, StoredIsListed
<1>4. SRemOK'
  BY SMT DEF Get, SRemOK
<1>5. DelOK'
  BY SMT DEF Get, DelOK
<1>6. UntilOK'
  BY SMT DEF Get, UntilOK
<1>7. MissingOK'
  BY SMT DEF Get, MissingOK
<1>8. CleaningOK'
  BY SMT DEF Get, CleaningOK
<1> QED
  BY <1>1, <1>2, <1>3, <1>4, <1>5, <1>6, <1>7, <1>8

\* delete_config is asked for.
LEMMA KeepsDelete ==
  ASSUME IInv, NEW c \in Client, Delete(c)
  PROVE  IInv'
<1> USE StoreAssumption
    DEF IInv, TypeOK, OperationOK, Exists, Pending, At, Sends, Returns, Begins, Doing,
        Expired, TimeToLive, valkey, client, history, Time
<1>1. TypeOK'
  BY SMT DEF Delete
<1>2. OperationOK'
  BY SMT DEF Delete
<1>3. StoredIsListed'
  BY SMT DEF Delete, StoredIsListed
<1>4. SRemOK'
  BY SMT DEF Delete, SRemOK
<1>5. DelOK'
  BY SMT DEF Delete, DelOK
<1>6. UntilOK'
  BY SMT DEF Delete, UntilOK
<1>7. MissingOK'
  BY SMT DEF Delete, MissingOK
<1>8. CleaningOK'
  BY SMT DEF Delete, CleaningOK
<1> QED
  BY <1>1, <1>2, <1>3, <1>4, <1>5, <1>6, <1>7, <1>8

\* DEL takes what has expired, or what was asked for.
LEMMA KeepsDel ==
  ASSUME IInv, NEW c \in Client, Del(c)
  PROVE  IInv'
<1> USE StoreAssumption
    DEF IInv, TypeOK, OperationOK, Exists, Pending, At, Sends, Returns, Begins, Doing,
        Expired, TimeToLive, valkey, client, history, Time
<1>1. TypeOK'
  BY SMT DEF Del
<1>2. OperationOK'
  BY SMT DEF Del
<1>3. StoredIsListed'
  BY SMT DEF Del, StoredIsListed
<1>4. SRemOK'
  BY SMT DEF Del, SRemOK
<1>5. DelOK'
  BY SMT DEF Del, DelOK
<1>6. UntilOK'
  BY SMT DEF Del, UntilOK, DelOK
<1>7. MissingOK'
  BY SMT DEF Del, MissingOK
<1>8. CleaningOK'
  BY SMT DEF Del, CleaningOK
<1> QED
  BY <1>1, <1>2, <1>3, <1>4, <1>5, <1>6, <1>7, <1>8

\* SREM takes what is gone, or raced.
LEMMA KeepsSRem ==
  ASSUME IInv, NEW c \in Client, SRem(c)
  PROVE  IInv'
<1> USE StoreAssumption
    DEF IInv, TypeOK, OperationOK, Exists, Pending, At, Sends, Returns, Begins, Doing,
        Expired, TimeToLive, valkey, client, history, Time
<1>1. TypeOK'
  BY SMT DEF SRem
<1>2. OperationOK'
  BY SMT DEF SRem
<1>3. StoredIsListed'
  BY SMT DEF SRem, StoredIsListed, SRemOK
<1>4. SRemOK'
  BY SMT DEF SRem, SRemOK
<1>5. DelOK'
  BY SMT DEF SRem, DelOK
<1>6. UntilOK'
  BY SMT DEF SRem, UntilOK
<1>7. MissingOK'
  BY SMT DEF SRem, MissingOK
<1>8. CleaningOK'
  BY SMT DEF SRem, CleaningOK
<1> QED
  BY <1>1, <1>2, <1>3, <1>4, <1>5, <1>6, <1>7, <1>8

\* EXPIRE shortens only what it then counts as taken.
LEMMA KeepsExtend ==
  ASSUME IInv, NEW c \in Client, Extend(c)
  PROVE  IInv'
<1> USE StoreAssumption
    DEF IInv, TypeOK, OperationOK, Exists, Pending, At, Sends, Returns, Begins, Doing,
        Expired, TimeToLive, valkey, client, history, Time
<1>1. TypeOK'
  BY SMT DEF Extend
<1>2. OperationOK'
  BY SMT DEF Extend
<1>3. StoredIsListed'
  BY SMT DEF Extend, StoredIsListed
<1>4. SRemOK'
  BY SMT DEF Extend, SRemOK
<1>5. DelOK'
  BY SMT DEF Extend, DelOK
<1>6. UntilOK'
  BY SMT DEF Extend, UntilOK
<1>7. MissingOK'
  BY SMT DEF Extend, MissingOK
<1>8. CleaningOK'
  BY SMT DEF Extend, CleaningOK
<1> QED
  BY <1>1, <1>2, <1>3, <1>4, <1>5, <1>6, <1>7, <1>8

\* A cleanup begins with all that is listed.
LEMMA KeepsCleanup ==
  ASSUME IInv, NEW c \in Client, Cleanup(c)
  PROVE  IInv'
<1> USE StoreAssumption
    DEF IInv, TypeOK, OperationOK, Exists, Pending, At, Sends, Returns, Begins, Doing,
        Expired, TimeToLive, valkey, client, history, Time
<1>1. TypeOK'
  BY SMT DEF Cleanup
<1>2. OperationOK'
  BY SMT DEF Cleanup
<1>3. StoredIsListed'
  BY SMT DEF Cleanup, StoredIsListed
<1>4. SRemOK'
  BY SMT DEF Cleanup, SRemOK
<1>5. DelOK'
  BY SMT DEF Cleanup, DelOK
<1>6. UntilOK'
  BY SMT DEF Cleanup, UntilOK
<1>7. MissingOK'
  BY SMT DEF Cleanup, MissingOK
<1>8. CleaningOK'
  BY SMT DEF Cleanup, CleaningOK
<1> QED
  BY <1>1, <1>2, <1>3, <1>4, <1>5, <1>6, <1>7, <1>8

\* A cleanup goes on from a key only if it is there.
LEMMA KeepsLook ==
  ASSUME IInv, NEW c \in Client, Look(c)
  PROVE  IInv'
<1> USE StoreAssumption
    DEF IInv, TypeOK, OperationOK, Exists, Pending, At, Sends, Returns, Begins, Doing,
        Expired, TimeToLive, valkey, client, history, Time
<1>1. TypeOK'
  BY SMT DEF Look
<1>2. OperationOK'
  BY SMT DEF Look
<1>3. StoredIsListed'
  BY SMT DEF Look, StoredIsListed
<1>4. SRemOK'
  BY SMT DEF Look, SRemOK
<1>5. DelOK'
  BY SMT DEF Look, DelOK
<1>6. UntilOK'
  BY SMT DEF Look, UntilOK
<1>7. MissingOK'
  BY SMT DEF Look, MissingOK
<1>8. CleaningOK'
  BY SMT DEF Look, CleaningOK, MissingOK
<1> QED
  BY <1>1, <1>2, <1>3, <1>4, <1>5, <1>6, <1>7, <1>8

\* A cleanup ends when nothing is left to look at.
LEMMA KeepsCleaned ==
  ASSUME IInv, NEW c \in Client, Cleaned(c)
  PROVE  IInv'
<1> USE StoreAssumption
    DEF IInv, TypeOK, OperationOK, Exists, Pending, At, Sends, Returns, Begins, Doing,
        Expired, TimeToLive, valkey, client, history, Time
<1>1. TypeOK'
  BY SMT DEF Cleaned
<1>2. OperationOK'
  BY SMT DEF Cleaned
<1>3. StoredIsListed'
  BY SMT DEF Cleaned, StoredIsListed
<1>4. SRemOK'
  BY SMT DEF Cleaned, SRemOK
<1>5. DelOK'
  BY SMT DEF Cleaned, DelOK
<1>6. UntilOK'
  BY SMT DEF Cleaned, UntilOK
<1>7. MissingOK'
  BY SMT DEF Cleaned, MissingOK
<1>8. CleaningOK'
  BY SMT DEF Cleaned, CleaningOK
<1> QED
  BY <1>1, <1>2, <1>3, <1>4, <1>5, <1>6, <1>7, <1>8

\* A broken SADD is noted.
LEMMA KeepsFails ==
  ASSUME IInv, NEW c \in Client, Fails(c)
  PROVE  IInv'
<1> USE StoreAssumption
    DEF IInv, TypeOK, OperationOK, Exists, Pending, At, Sends, Returns, Begins, Doing,
        Expired, TimeToLive, valkey, client, history, Time
<1>1. TypeOK'
  BY SMT DEF Fails
<1>2. OperationOK'
  BY SMT DEF Fails
<1>3. StoredIsListed'
  BY SMT DEF Fails, StoredIsListed
<1>4. SRemOK'
  BY SMT DEF Fails, SRemOK
<1>5. DelOK'
  BY SMT DEF Fails, DelOK
<1>6. UntilOK'
  BY SMT DEF Fails, UntilOK
<1>7. MissingOK'
  BY SMT DEF Fails, MissingOK
<1>8. CleaningOK'
  BY SMT DEF Fails, CleaningOK
<1> QED
  BY <1>1, <1>2, <1>3, <1>4, <1>5, <1>6, <1>7, <1>8

\* Time passes.
LEMMA KeepsTick ==
  ASSUME IInv, Tick
  PROVE  IInv'
<1> USE StoreAssumption
    DEF IInv, TypeOK, OperationOK, Exists, Pending, At, Sends, Returns, Begins, Doing,
        Expired, TimeToLive, valkey, client, history, Time
<1>1. TypeOK'
  BY SMT DEF Tick
<1>2. OperationOK'
  BY SMT DEF Tick
<1>3. StoredIsListed'
  BY SMT DEF Tick, StoredIsListed
<1>4. SRemOK'
  BY SMT DEF Tick, SRemOK
<1>5. DelOK'
  BY SMT DEF Tick, DelOK
<1>6. UntilOK'
  BY SMT DEF Tick, UntilOK
<1>7. MissingOK'
  BY SMT DEF Tick, MissingOK
<1>8. CleaningOK'
  BY SMT DEF Tick, CleaningOK
<1> QED
  BY <1>1, <1>2, <1>3, <1>4, <1>5, <1>6, <1>7, <1>8

LEMMA Invariant == Spec => []IInv
<1>1. Init => IInv
  BY InitOK
<1>2. ASSUME IInv, [Next]_vars PROVE IInv'
  <2> USE <1>2
  <2>1. CASE UNCHANGED vars
    BY <2>1, SMT
    DEF vars, valkey, client, history, IInv, TypeOK, OperationOK, StoredIsListed, SRemOK,
        DelOK, UntilOK, MissingOK, CleaningOK, Exists, Expired, Pending, At
  <2>2. CASE Tick
    BY <2>2, KeepsTick
  <2>3. ASSUME NEW c \in Client, Operation(c) PROVE IInv'
    BY <2>3, KeepsStore, KeepsSetEx, KeepsSAdd, KeepsGet, KeepsDelete, KeepsDel, KeepsSRem,
       KeepsExtend, KeepsCleanup, KeepsLook, KeepsCleaned, KeepsFails DEF Operation
  <2> QED
    BY <2>1, <2>2, <2>3 DEF Next
<1> QED
  BY <1>1, <1>2, PTL DEF Spec

-----------------------------------------------------------------------------
(* The theorems. *)

\* The clock, the keys and the set in Valkey, and what each client is at, have
\* their types.
THEOREM TypeCorrect == Spec => []TypeOK
<1> IInv => TypeOK
  BY DEF IInv
<1> QED
  BY Invariant, PTL

\* list_configs names every session whose configuration can be read, unless its
\* store has yet to list it, failed, or met a removal of the same session.
THEOREM ReadableIsListed == Spec => []StoredIsListed
<1> IInv => StoredIsListed
  BY DEF IInv
<1> QED
  BY Invariant, PTL

\* Only a removal that was asked for, or was under way when it was stored, takes
\* a configuration away before its time: no reader's deletion and no cleanup does.
THEOREM FreshSurvives == Spec => []FreshIsKept
<1> IInv => FreshIsKept
  <2> SUFFICES ASSUME IInv, NEW s \in Session \ taken, now - born[s] < TTL PROVE Exists(s)
    BY DEF FreshIsKept
  <2>1. /\ Expired(s) \/ until[s] >= born[s] + TTL
        /\ now \in Nat /\ born[s] \in Nat /\ until[s] \in Nat /\ TTL \in Nat
    BY StoreAssumption DEF IInv, UntilOK, TypeOK, Time
  <2> QED
    BY <2>1 DEF Expired, Exists
<1> QED
  BY Invariant, PTL

\* After a cleanup, nothing is listed that had no configuration since it began.
THEOREM CleanupIsComplete == Spec => []CleanupCleans
<1> IInv => CleanupCleans
  BY DEF IInv, CleaningOK, CleanupCleans, At
<1> QED
  BY Invariant, PTL

=============================================================================
