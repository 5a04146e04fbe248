-------------------------- MODULE TransportProofs --------------------------
(***************************************************************************)
(* Proofs about TransportSessions, for every set of clients, every hashing  *)
(* of the ids and any number of worker threads: its type invariant, that    *)
(* the two maps agree, that a session that has ended stays ended, and that  *)
(* what runs at a provider is listed.                                      *)
(***************************************************************************)
EXTENDS TransportSessions, TLAPS

-----------------------------------------------------------------------------
(* The invariant. *)

\* A client that holds a guard finds its session in the map.
GuardOK == \A c \in Client : pc[c] \in Guarded => arg[c] \in sessions

\* Until its first insert nobody but its creator knows a session.
BeforeInsert == {"room", "token", "insert"}
Alone(c) == \A d \in Client \ {c} : arg[d] = arg[c] => At(d, "idle")
CreateOK ==
  \A c \in Client : pc[c] \in BeforeInsert =>
    /\ arg[c] \in Id /\ arg[c] \notin sessions \cup past.handed \cup past.ended
    /\ arg[c] \notin providers
    /\ Alone(c)

\* The ids that are known are those of sessions created, or no session's, and an
\* operation is about one of them.
Used(h) == h \in Id => h <= created
RegisteredOK ==
  /\ \A h \in sessions \cup providers \cup past.handed \cup past.ended : Used(h)
  /\ \A c \in Client : Used(arg[c]) /\ (At(c, "idle") \/ arg[c] \in Handle)
  /\ \A n \in DOMAIN rooms : Used(rooms[n])

\* Between the two inserts nobody but its creator is at a session, unless an end
\* has overtaken it.
ProviderOK ==
  \A c \in Client : At(c, "provider") =>
    /\ arg[c] \in Id
    /\ \/ arg[c] \in past.overtaken
       \/ /\ arg[c] \in sessions
          /\ arg[c] \notin providers \cup past.handed \cup past.ended
          /\ Alone(c)

\* An end that comes to the removals has deleted a room that bore the session's
\* name, or overtaken it, or there is no session of that id.
RemoveOK ==
  \A c \in Client : At(c, "remove") /\ arg[c] \in Id =>
    arg[c] \notin sessions \/ arg[c] \in past.overtaken \cup past.namesake

\* After a removal it is gone.
DeletedOK ==
  \A c \in Client : arg[c] \in Id \ past.overtaken =>
    /\ pc[c] \in {"removeProvider", "deleteConfig"} => arg[c] \notin sessions
    /\ At(c, "deleteConfig") => arg[c] \notin providers

\* A room with a session's id for its name.
NameOK == DOMAIN rooms \cap Id \subseteq past.namesake

\* A join that began after the end is of a session an end overtook.
JoinOK ==
  \A c \in Client : pc[c] \in {"joining", "greeting"} /\ late[c] /\ arg[c] \in Id =>
    arg[c] \in past.overtaken

IInv ==
  /\ TypeOK /\ MapsAgree /\ EndedStaysEnded /\ NothingRunsUnlisted
  /\ GuardOK /\ CreateOK /\ RegisteredOK /\ ProviderOK
  /\ RemoveOK /\ DeletedOK /\ NameOK /\ JoinOK

\* In the beginning there is no session.
LEMMA InitOK == Init => IInv
  BY TransportAssumption, SMT
  DEF Init, IInv, TypeOK, MapsAgree, EndedStaysEnded, NothingRunsUnlisted, GuardOK, CreateOK,
        RegisteredOK, ProviderOK, RemoveOK, DeletedOK, NameOK, JoinOK,
        Id, Handle, Past, RoomName, Runs, Doing, At, Guarded, BeforeInsert, Alone, Used

\* A new session has an id nobody knows.
LEMMA KeepsCreate ==
  ASSUME IInv, NEW c \in Client, Create(c)
  PROVE  IInv'
<1> USE TransportAssumption DEF IInv, TypeOK,
      Id, Handle, Stranger, Begins, At, Goes, Returns, Known, Past, With, Without,
      maps, client, history
<1>1. TypeOK'
  BY SMT DEF Create
<1>2. MapsAgree'
  BY SMT DEF Create, MapsAgree, Doing
<1>3. EndedStaysEnded'
  BY SMT DEF Create, EndedStaysEnded
<1>4. NothingRunsUnlisted'
  BY SMT DEF Create, NothingRunsUnlisted, Runs, Doing
<1>5. GuardOK'
  BY SMT DEF Create, GuardOK, Guarded
<1>6. CreateOK'
  BY SMT DEF Create, CreateOK, RegisteredOK, Used, BeforeInsert, Alone
<1>7. RegisteredOK'
  BY SMT DEF Create, RegisteredOK, Used
<1>8. ProviderOK'
  BY SMT DEF Create, ProviderOK, RegisteredOK, Used, Alone
<1>9. RemoveOK'
  BY SMT DEF Create, RemoveOK
<1>10. DeletedOK'
  BY SMT DEF Create, DeletedOK
<1>11. NameOK'
  BY SMT DEF Create, NameOK
<1>12. JoinOK'
  BY SMT DEF Create, JoinOK
<1> QED
  BY <1>1, <1>2, <1>3, <1>4, <1>5, <1>6, <1>7, <1>8, <1>9, <1>10, <1>11, <1>12

\* The room may bear the name of a session that was handed out.
LEMMA KeepsMakeRoom ==
  ASSUME IInv, NEW c \in Client, MakeRoom(c)
  PROVE  IInv'
<1> USE TransportAssumption DEF IInv, TypeOK,
      Id, Handle, Stranger, Begins, At, Goes, Returns, Known, Past, With, Without,
      maps, client, history
<1>1. TypeOK'
  BY SMT DEF MakeRoom, CreateOK, BeforeInsert, RoomName, OwnName
<1>2. MapsAgree'
  BY SMT DEF MakeRoom, MapsAgree, Doing
<1>3. EndedStaysEnded'
  BY SMT DEF MakeRoom, EndedStaysEnded
<1>4. NothingRunsUnlisted'
  <2> SUFFICES ASSUME NEW i \in Id, Runs(i)'
               PROVE  \/ i \in (sessions \cup past.brokeOff \cup past.overtaken \cup past.namesake)'
                      \/ Doing(i, {"token", "insert"})'
    BY DEF NothingRunsUnlisted
  <2>1. PICK n : /\ rooms' = With(rooms, n, arg[c])
                 /\ IF n \in Id THEN Known(n, "namesake") ELSE UNCHANGED past
    BY DEF MakeRoom
  <2>2. CASE i = arg[c]
    BY <2>2, SMT DEF MakeRoom, Doing
  <2>3. CASE i # arg[c]
    <3>1. Runs(i)
      <4>1. ASSUME NEW m \in DOMAIN rooms', rooms'[m] = i PROVE m \in DOMAIN rooms /\ rooms[m] = i
        BY <4>1, <2>1, <2>3
      <4> QED
        BY <4>1 DEF MakeRoom, Runs
    <3>2. \/ i \in sessions \cup past.brokeOff \cup past.overtaken \cup past.namesake
          \/ Doing(i, {"token", "insert"})
      BY <3>1 DEF NothingRunsUnlisted
    <3> QED
      BY <3>2, <2>1, SMT DEF MakeRoom, Doing
  <2> QED
    BY <2>2, <2>3
<1>5. GuardOK'
  BY SMT DEF MakeRoom, GuardOK, Guarded
<1>6. CreateOK'
  BY SMT DEF MakeRoom, CreateOK, BeforeInsert, Alone
<1>7. RegisteredOK'
  BY SMT DEF MakeRoom, RegisteredOK, Used
<1>8. ProviderOK'
  BY SMT DEF MakeRoom, ProviderOK, Alone
<1>9. RemoveOK'
  BY SMT DEF MakeRoom, RemoveOK
<1>10. DeletedOK'
  BY SMT DEF MakeRoom, DeletedOK
<1>11. NameOK'
  BY SMT DEF MakeRoom, NameOK
<1>12. JoinOK'
  BY SMT DEF MakeRoom, JoinOK
<1> QED
  BY <1>1, <1>2, <1>3, <1>4, <1>5, <1>6, <1>7, <1>8, <1>9, <1>10, <1>11, <1>12

\* The token, or a creation that broke off.
LEMMA KeepsToken ==
  ASSUME IInv, NEW c \in Client, Token(c)
  PROVE  IInv'
<1> USE TransportAssumption DEF IInv, TypeOK,
      Id, Handle, Stranger, Begins, At, Goes, Returns, Known, Past, With, Without,
      maps, client, history
<1>1. TypeOK'
  BY SMT DEF Token, CreateOK, BeforeInsert
<1>2. MapsAgree'
  BY SMT DEF Token, MapsAgree, Doing
<1>3. EndedStaysEnded'
  BY SMT DEF Token, EndedStaysEnded
<1>4. NothingRunsUnlisted'
  BY SMT DEF Token, NothingRunsUnlisted, Runs, Doing
<1>5. GuardOK'
  BY SMT DEF Token, GuardOK, Guarded
<1>6. CreateOK'
  BY SMT DEF Token, CreateOK, BeforeInsert, Alone
<1>7. RegisteredOK'
  BY SMT DEF Token, RegisteredOK, Used
<1>8. ProviderOK'
  BY SMT DEF Token, ProviderOK, Alone
<1>9. RemoveOK'
  BY SMT DEF Token, RemoveOK
<1>10. DeletedOK'
  BY SMT DEF Token, DeletedOK
<1>11. NameOK'
  BY SMT DEF Token, NameOK
<1>12. JoinOK'
  BY SMT DEF Token, JoinOK
<1> QED
  BY <1>1, <1>2, <1>3, <1>4, <1>5, <1>6, <1>7, <1>8, <1>9, <1>10, <1>11, <1>12

\* Nothing is registered.
LEMMA KeepsCreateFails ==
  ASSUME IInv, NEW c \in Client, CreateFails(c)
  PROVE  IInv'
<1> USE TransportAssumption DEF IInv, TypeOK,
      Id, Handle, Stranger, Begins, At, Goes, Returns, Known, Past, With, Without,
      maps, client, history
<1>1. TypeOK'
  BY SMT DEF CreateFails
<1>2. MapsAgree'
  BY SMT DEF CreateFails, MapsAgree, Doing
<1>3. EndedStaysEnded'
  BY SMT DEF CreateFails, EndedStaysEnded
<1>4. NothingRunsUnlisted'
  BY SMT DEF CreateFails, NothingRunsUnlisted, Runs, Doing
<1>5. GuardOK'
  BY SMT DEF CreateFails, GuardOK, Guarded
<1>6. CreateOK'
  BY SMT DEF CreateFails, CreateOK, BeforeInsert, Alone
<1>7. RegisteredOK'
  BY SMT DEF CreateFails, RegisteredOK, Used
<1>8. ProviderOK'
  BY SMT DEF CreateFails, ProviderOK, Alone
<1>9. RemoveOK'
  BY SMT DEF CreateFails, RemoveOK
<1>10. DeletedOK'
  BY SMT DEF CreateFails, DeletedOK
<1>11. NameOK'
  BY SMT DEF CreateFails, NameOK
<1>12. JoinOK'
  BY SMT DEF CreateFails, JoinOK
<1> QED
  BY <1>1, <1>2, <1>3, <1>4, <1>5, <1>6, <1>7, <1>8, <1>9, <1>10, <1>11, <1>12

\* Only a creation inserts: a refresh waits for its own guard.
LEMMA KeepsInsertSession ==
  ASSUME IInv, NEW c \in Client, InsertSession(c)
  PROVE  IInv'
<1> USE TransportAssumption DEF IInv, TypeOK,
      Id, Handle, Stranger, Begins, At, Goes, Returns, Known, Past, With, Without,
      maps, client, history
<1>0. At(c, "insert")
  BY SMT DEF InsertSession, Unlocked, Guarded
<1>1. TypeOK'
  <2>1. sessions' = sessions \cup {arg[c]} /\ sessions \subseteq Id /\ arg[c] \in Id
    BY <1>0, SMT DEF InsertSession, CreateOK, BeforeInsert
  <2>2. sessions' \subseteq Id
    BY <2>1, Zenon
  <2> QED
    BY <2>2, <1>0, SMT DEF InsertSession, CreateOK, BeforeInsert
<1>2. MapsAgree'
  BY <1>0, SMT DEF InsertSession, MapsAgree, Doing, CreateOK, BeforeInsert
<1>3. EndedStaysEnded'
  BY <1>0, SMT DEF InsertSession, EndedStaysEnded, CreateOK, BeforeInsert
<1>4. NothingRunsUnlisted'
  BY <1>0, SMT DEF InsertSession, NothingRunsUnlisted, Runs, Doing
<1>5. GuardOK'
  BY <1>0, SMT DEF InsertSession, GuardOK, Guarded
<1>6. CreateOK'
  BY <1>0, SMT DEF InsertSession, CreateOK, BeforeInsert, Alone
<1>7. RegisteredOK'
  BY <1>0, SMT DEF InsertSession, RegisteredOK, CreateOK, BeforeInsert, Used
<1>8. ProviderOK'
  BY <1>0, SMT DEF InsertSession, ProviderOK, CreateOK, BeforeInsert, Alone
<1>9. RemoveOK'
  BY <1>0, SMT DEF InsertSession, RemoveOK, CreateOK, BeforeInsert, Alone
<1>10. DeletedOK'
  BY <1>0, SMT DEF InsertSession, DeletedOK, CreateOK, BeforeInsert, Alone
<1>11. NameOK'
  BY <1>0, SMT DEF InsertSession, NameOK
<1>12. JoinOK'
  BY <1>0, SMT DEF InsertSession, JoinOK
<1> QED
  BY <1>1, <1>2, <1>3, <1>4, <1>5, <1>6, <1>7, <1>8, <1>9, <1>10, <1>11, <1>12

\* The second insert, and the id is handed out.
LEMMA KeepsInsertProvider ==
  ASSUME IInv, NEW c \in Client, InsertProvider(c)
  PROVE  IInv'
<1> USE TransportAssumption DEF IInv, TypeOK,
      Id, Handle, Stranger, Begins, At, Goes, Returns, Known, Past, With, Without,
      maps, client, history
<1>1. TypeOK'
  <2>1. providers' = providers \cup {arg[c]} /\ providers \subseteq Id /\ arg[c] \in Id
    BY SMT DEF InsertProvider, ProviderOK
  <2>2. providers' \subseteq Id
    BY <2>1, Zenon
  <2> QED
    BY <2>1, <2>2, SMT DEF InsertProvider
<1>2. MapsAgree'
  BY SMT DEF InsertProvider, MapsAgree, Doing, ProviderOK
<1>3. EndedStaysEnded'
  BY SMT DEF InsertProvider, EndedStaysEnded, ProviderOK
<1>4. NothingRunsUnlisted'
  BY SMT DEF InsertProvider, NothingRunsUnlisted, Runs, Doing
<1>5. GuardOK'
  BY SMT DEF InsertProvider, GuardOK, Guarded
<1>6. CreateOK'
  BY SMT DEF InsertProvider, CreateOK, ProviderOK, BeforeInsert, Alone
<1>7. RegisteredOK'
  BY SMT DEF InsertProvider, RegisteredOK, ProviderOK, Used
<1>8. ProviderOK'
  BY SMT DEF InsertProvider, ProviderOK, Alone
<1>9. RemoveOK'
  BY SMT DEF InsertProvider, RemoveOK
<1>10. DeletedOK'
  BY SMT DEF InsertProvider, DeletedOK, ProviderOK, Alone
<1>11. NameOK'
  BY SMT DEF InsertProvider, NameOK
<1>12. JoinOK'
  BY SMT DEF InsertProvider, JoinOK
<1> QED
  BY <1>1, <1>2, <1>3, <1>4, <1>5, <1>6, <1>7, <1>8, <1>9, <1>10, <1>11, <1>12

\* A guard is taken of a session that is there.
LEMMA KeepsGet ==
  ASSUME IInv, NEW c \in Client, Get(c)
  PROVE  IInv'
<1> USE TransportAssumption DEF IInv, TypeOK,
      Id, Handle, Stranger, Begins, At, Goes, Returns, Known, Past, With, Without,
      maps, client, history
<1>1. TypeOK'
  BY SMT DEF Get
<1>2. MapsAgree'
  BY SMT DEF Get, MapsAgree, Doing
<1>3. EndedStaysEnded'
  BY SMT DEF Get, EndedStaysEnded
<1>4. NothingRunsUnlisted'
  BY SMT DEF Get, NothingRunsUnlisted, Runs, Doing
<1>5. GuardOK'
  BY SMT DEF Get, GuardOK, Guarded
<1>6. CreateOK'
  BY SMT DEF Get, CreateOK, BeforeInsert, Alone
<1>7. RegisteredOK'
  BY SMT DEF Get, RegisteredOK, Used
<1>8. ProviderOK'
  BY SMT DEF Get, ProviderOK, Alone
<1>9. RemoveOK'
  BY SMT DEF Get, RemoveOK
<1>10. DeletedOK'
  BY SMT DEF Get, DeletedOK
<1>11. NameOK'
  BY SMT DEF Get, NameOK
<1>12. JoinOK'
  BY SMT DEF Get, JoinOK
<1> QED
  BY <1>1, <1>2, <1>3, <1>4, <1>5, <1>6, <1>7, <1>8, <1>9, <1>10, <1>11, <1>12

\* The guard is kept.
LEMMA KeepsRefresh ==
  ASSUME IInv, NEW c \in Client, Refresh(c)
  PROVE  IInv'
<1> USE TransportAssumption DEF IInv, TypeOK,
      Id, Handle, Stranger, Begins, At, Goes, Returns, Known, Past, With, Without,
      maps, client, history
<1>1. TypeOK'
  BY SMT DEF Refresh
<1>2. MapsAgree'
  BY SMT DEF Refresh, MapsAgree, Doing
<1>3. EndedStaysEnded'
  BY SMT DEF Refresh, EndedStaysEnded
<1>4. NothingRunsUnlisted'
  BY SMT DEF Refresh, NothingRunsUnlisted, Runs, Doing
<1>5. GuardOK'
  BY SMT DEF Refresh, GuardOK, Guarded
<1>6. CreateOK'
  BY SMT DEF Refresh, CreateOK, BeforeInsert, Alone
<1>7. RegisteredOK'
  BY SMT DEF Refresh, RegisteredOK, Used
<1>8. ProviderOK'
  BY SMT DEF Refresh, ProviderOK, Alone
<1>9. RemoveOK'
  BY SMT DEF Refresh, RemoveOK
<1>10. DeletedOK'
  BY SMT DEF Refresh, DeletedOK
<1>11. NameOK'
  BY SMT DEF Refresh, NameOK
<1>12. JoinOK'
  BY SMT DEF Refresh, JoinOK
<1> QED
  BY <1>1, <1>2, <1>3, <1>4, <1>5, <1>6, <1>7, <1>8, <1>9, <1>10, <1>11, <1>12

\* The guard is dropped.
LEMMA KeepsRefreshFails ==
  ASSUME IInv, NEW c \in Client, RefreshFails(c)
  PROVE  IInv'
<1> USE TransportAssumption DEF IInv, TypeOK,
      Id, Handle, Stranger, Begins, At, Goes, Returns, Known, Past, With, Without,
      maps, client, history
<1>1. TypeOK'
  BY SMT DEF RefreshFails
<1>2. MapsAgree'
  BY SMT DEF RefreshFails, MapsAgree, Doing
<1>3. EndedStaysEnded'
  BY SMT DEF RefreshFails, EndedStaysEnded
<1>4. NothingRunsUnlisted'
  BY SMT DEF RefreshFails, NothingRunsUnlisted, Runs, Doing
<1>5. GuardOK'
  BY SMT DEF RefreshFails, GuardOK, Guarded
<1>6. CreateOK'
  BY SMT DEF RefreshFails, CreateOK, BeforeInsert, Alone
<1>7. RegisteredOK'
  BY SMT DEF RefreshFails, RegisteredOK, Used
<1>8. ProviderOK'
  BY SMT DEF RefreshFails, ProviderOK, Alone
<1>9. RemoveOK'
  BY SMT DEF RefreshFails, RemoveOK
<1>10. DeletedOK'
  BY SMT DEF RefreshFails, DeletedOK
<1>11. NameOK'
  BY SMT DEF RefreshFails, NameOK
<1>12. JoinOK'
  BY SMT DEF RefreshFails, JoinOK
<1> QED
  BY <1>1, <1>2, <1>3, <1>4, <1>5, <1>6, <1>7, <1>8, <1>9, <1>10, <1>11, <1>12

\* An end finds a provider, or overtakes the creation, or nothing.
LEMMA KeepsEnd ==
  ASSUME IInv, NEW c \in Client, End(c)
  PROVE  IInv'
<1> USE TransportAssumption DEF IInv, TypeOK,
      Id, Handle, Stranger, Begins, At, Goes, Returns, Known, Past, With, Without,
      maps, client, history
<1>1. TypeOK'
  BY SMT DEF End, Callable
<1>2. MapsAgree'
  BY SMT DEF End, MapsAgree, Doing
<1>3. EndedStaysEnded'
  BY SMT DEF End, EndedStaysEnded
<1>4. NothingRunsUnlisted'
  BY SMT DEF End, NothingRunsUnlisted, Runs, Doing
<1>5. GuardOK'
  BY SMT DEF End, GuardOK, Guarded
<1>6. CreateOK'
  BY SMT DEF End, CreateOK, Callable, BeforeInsert, Alone
<1>7. RegisteredOK'
  BY SMT DEF End, RegisteredOK, Callable, Used
<1>8. ProviderOK'
  BY SMT DEF End, ProviderOK, Alone
<1>9. RemoveOK'
  BY SMT DEF End, RemoveOK
<1>10. DeletedOK'
  BY SMT DEF End, DeletedOK
<1>11. NameOK'
  BY SMT DEF End, NameOK
<1>12. JoinOK'
  BY SMT DEF End, JoinOK
<1> QED
  BY <1>1, <1>2, <1>3, <1>4, <1>5, <1>6, <1>7, <1>8, <1>9, <1>10, <1>11, <1>12

\* Only a room that bears the name of the session is deleted.
LEMMA KeepsHangUp ==
  ASSUME IInv, NEW c \in Client, HangUp(c)
  PROVE  IInv'
<1> USE TransportAssumption DEF IInv, TypeOK,
      Id, Handle, Stranger, Begins, At, Goes, Returns, Known, Past, With, Without,
      maps, client, history
<1>1. TypeOK'
  BY SMT DEF HangUp
<1>2. MapsAgree'
  BY SMT DEF HangUp, MapsAgree, Doing
<1>3. EndedStaysEnded'
  BY SMT DEF HangUp, EndedStaysEnded
<1>4. NothingRunsUnlisted'
  <2> SUFFICES ASSUME NEW i \in Id, Runs(i)'
               PROVE  \/ i \in (sessions \cup past.brokeOff \cup past.overtaken \cup past.namesake)'
                      \/ Doing(i, {"token", "insert"})'
    BY DEF NothingRunsUnlisted
  <2>1. Runs(i)
    <3>1. ASSUME NEW m \in DOMAIN rooms', rooms'[m] = i PROVE m \in DOMAIN rooms /\ rooms[m] = i
      BY <3>1 DEF HangUp
    <3> QED
      BY <3>1 DEF HangUp, Runs
  <2>2. \/ i \in sessions \cup past.brokeOff \cup past.overtaken \cup past.namesake
        \/ Doing(i, {"token", "insert"})
    BY <2>1 DEF NothingRunsUnlisted
  <2> QED
    BY <2>2, SMT DEF HangUp, Doing
<1>5. GuardOK'
  BY SMT DEF HangUp, GuardOK, Guarded
<1>6. CreateOK'
  BY SMT DEF HangUp, CreateOK, BeforeInsert, Alone
<1>7. RegisteredOK'
  BY SMT DEF HangUp, RegisteredOK, Used
<1>8. ProviderOK'
  BY SMT DEF HangUp, ProviderOK, Alone
<1>9. RemoveOK'
  BY SMT DEF HangUp, RemoveOK, NameOK
<1>10. DeletedOK'
  BY SMT DEF HangUp, DeletedOK
<1>11. NameOK'
  BY SMT DEF HangUp, NameOK
<1>12. JoinOK'
  BY SMT DEF HangUp, JoinOK
<1> QED
  BY <1>1, <1>2, <1>3, <1>4, <1>5, <1>6, <1>7, <1>8, <1>9, <1>10, <1>11, <1>12

\* Nothing is removed.
LEMMA KeepsHangUpFails ==
  ASSUME IInv, NEW c \in Client, HangUpFails(c)
  PROVE  IInv'
<1> USE TransportAssumption DEF IInv, TypeOK,
      Id, Handle, Stranger, Begins, At, Goes, Returns, Known, Past, With, Without,
      maps, client, history
<1>1. TypeOK'
  BY SMT DEF HangUpFails
<1>2. MapsAgree'
  BY SMT DEF HangUpFails, MapsAgree, Doing
<1>3. EndedStaysEnded'
  BY SMT DEF HangUpFails, EndedStaysEnded
<1>4. NothingRunsUnlisted'
  BY SMT DEF HangUpFails, NothingRunsUnlisted, Runs, Doing
<1>5. GuardOK'
  BY SMT DEF HangUpFails, GuardOK, Guarded
<1>6. CreateOK'
  BY SMT DEF HangUpFails, CreateOK, BeforeInsert, Alone
<1>7. RegisteredOK'
  BY SMT DEF HangUpFails, RegisteredOK, Used
<1>8. ProviderOK'
  BY SMT DEF HangUpFails, ProviderOK, Alone
<1>9. RemoveOK'
  BY SMT DEF HangUpFails, RemoveOK
<1>10. DeletedOK'
  BY SMT DEF HangUpFails, DeletedOK
<1>11. NameOK'
  BY SMT DEF HangUpFails, NameOK
<1>12. JoinOK'
  BY SMT DEF HangUpFails, JoinOK
<1> QED
  BY <1>1, <1>2, <1>3, <1>4, <1>5, <1>6, <1>7, <1>8, <1>9, <1>10, <1>11, <1>12

\* The first removal.
LEMMA KeepsRemoveSession ==
  ASSUME IInv, NEW c \in Client, RemoveSession(c)
  PROVE  IInv'
<1> USE TransportAssumption DEF IInv, TypeOK,
      Id, Handle, Stranger, Begins, At, Goes, Returns, Known, Past, With, Without,
      maps, client, history
<1>1. TypeOK'
  <2>1. sessions' = sessions \ {arg[c]} /\ sessions \subseteq Id
    BY SMT DEF RemoveSession
  <2>2. sessions' \subseteq Id
    BY <2>1, Zenon
  <2> QED
    BY <2>2, SMT DEF RemoveSession
<1>2. MapsAgree'
  BY SMT DEF RemoveSession, MapsAgree, Doing
<1>3. EndedStaysEnded'
  BY SMT DEF RemoveSession, EndedStaysEnded
<1>4. NothingRunsUnlisted'
  BY SMT DEF RemoveSession, NothingRunsUnlisted, Runs, Doing, RemoveOK
<1>5. GuardOK'
  BY SMT DEF RemoveSession, GuardOK, Unlocked, Guarded
<1>6. CreateOK'
  BY SMT DEF RemoveSession, CreateOK, BeforeInsert, Alone
<1>7. RegisteredOK'
  BY SMT DEF RemoveSession, RegisteredOK, Used
<1>8. ProviderOK'
  BY SMT DEF RemoveSession, ProviderOK, Alone
<1>9. RemoveOK'
  BY SMT DEF RemoveSession, RemoveOK
<1>10. DeletedOK'
  BY SMT DEF RemoveSession, DeletedOK
<1>11. NameOK'
  BY SMT DEF RemoveSession, NameOK
<1>12. JoinOK'
  BY SMT DEF RemoveSession, JoinOK
<1> QED
  BY <1>1, <1>2, <1>3, <1>4, <1>5, <1>6, <1>7, <1>8, <1>9, <1>10, <1>11, <1>12

\* The second removal.
LEMMA KeepsRemoveProvider ==
  ASSUME IInv, NEW c \in Client, RemoveProvider(c)
  PROVE  IInv'
<1> USE TransportAssumption DEF IInv, TypeOK,
      Id, Handle, Stranger, Begins, At, Goes, Returns, Known, Past, With, Without,
      maps, client, history
<1>1. TypeOK'
  <2>1. providers' = providers \ {arg[c]} /\ providers \subseteq Id
    BY SMT DEF RemoveProvider
  <2>2. providers' \subseteq Id
    BY <2>1, Zenon
  <2> QED
    BY <2>2, SMT DEF RemoveProvider
<1>2. MapsAgree'
  BY SMT DEF RemoveProvider, MapsAgree, Doing, DeletedOK
<1>3. EndedStaysEnded'
  BY SMT DEF RemoveProvider, EndedStaysEnded
<1>4. NothingRunsUnlisted'
  BY SMT DEF RemoveProvider, NothingRunsUnlisted, Runs, Doing
<1>5. GuardOK'
  BY SMT DEF RemoveProvider, GuardOK, Guarded
<1>6. CreateOK'
  BY SMT DEF RemoveProvider, CreateOK, BeforeInsert, Alone
<1>7. RegisteredOK'
  BY SMT DEF RemoveProvider, RegisteredOK, Used
<1>8. ProviderOK'
  BY SMT DEF RemoveProvider, ProviderOK, Alone
<1>9. RemoveOK'
  BY SMT DEF RemoveProvider, RemoveOK
<1>10. DeletedOK'
  BY SMT DEF RemoveProvider, DeletedOK
<1>11. NameOK'
  BY SMT DEF RemoveProvider, NameOK
<1>12. JoinOK'
  BY SMT DEF RemoveProvider, JoinOK
<1> QED
  BY <1>1, <1>2, <1>3, <1>4, <1>5, <1>6, <1>7, <1>8, <1>9, <1>10, <1>11, <1>12

\* The end returns Ok.
LEMMA KeepsDeleteConfig ==
  ASSUME IInv, NEW c \in Client, DeleteConfig(c)
  PROVE  IInv'
<1> USE TransportAssumption DEF IInv, TypeOK,
      Id, Handle, Stranger, Begins, At, Goes, Returns, Known, Past, With, Without,
      maps, client, history
<1>1. TypeOK'
  BY SMT DEF DeleteConfig, RegisteredOK
<1>2. MapsAgree'
  BY SMT DEF DeleteConfig, MapsAgree, Doing
<1>3. EndedStaysEnded'
  BY SMT DEF DeleteConfig, EndedStaysEnded, DeletedOK, JoinOK
<1>4. NothingRunsUnlisted'
  BY SMT DEF DeleteConfig, NothingRunsUnlisted, Runs, Doing
<1>5. GuardOK'
  BY SMT DEF DeleteConfig, GuardOK, Guarded
<1>6. CreateOK'
  BY SMT DEF DeleteConfig, CreateOK, BeforeInsert, Alone
<1>7. RegisteredOK'
  BY SMT DEF DeleteConfig, RegisteredOK, Used
<1>8. ProviderOK'
  BY SMT DEF DeleteConfig, ProviderOK, Alone
<1>9. RemoveOK'
  BY SMT DEF DeleteConfig, RemoveOK
<1>10. DeletedOK'
  BY SMT DEF DeleteConfig, DeletedOK
<1>11. NameOK'
  BY SMT DEF DeleteConfig, NameOK
<1>12. JoinOK'
  BY SMT DEF DeleteConfig, JoinOK
<1> QED
  BY <1>1, <1>2, <1>3, <1>4, <1>5, <1>6, <1>7, <1>8, <1>9, <1>10, <1>11, <1>12

\* A session that has ended has no provider.
LEMMA KeepsJoin ==
  ASSUME IInv, NEW c \in Client, Join(c)
  PROVE  IInv'
<1> USE TransportAssumption DEF IInv, TypeOK,
      Id, Handle, Stranger, Begins, At, Goes, Returns, Known, Past, With, Without,
      maps, client, history
<1>1. TypeOK'
  BY SMT DEF Join, Callable
<1>2. MapsAgree'
  BY SMT DEF Join, MapsAgree, Doing
<1>3. EndedStaysEnded'
  BY SMT DEF Join, EndedStaysEnded
<1>4. NothingRunsUnlisted'
  BY SMT DEF Join, NothingRunsUnlisted, Runs, Doing
<1>5. GuardOK'
  BY SMT DEF Join, GuardOK, Guarded
<1>6. CreateOK'
  BY SMT DEF Join, CreateOK, BeforeInsert, Alone
<1>7. RegisteredOK'
  BY SMT DEF Join, Callable, RegisteredOK, Used
<1>8. ProviderOK'
  BY SMT DEF Join, ProviderOK, Alone
<1>9. RemoveOK'
  BY SMT DEF Join, RemoveOK
<1>10. DeletedOK'
  BY SMT DEF Join, DeletedOK
<1>11. NameOK'
  BY SMT DEF Join, NameOK
<1>12. JoinOK'
  <2>1. PICK i \in Callable \cap providers : Begins(c, i, "joining")
    BY DEF Join
  <2>2. i \in Id /\ (i \in past.ended => i \in past.overtaken)
    BY <2>1 DEF EndedStaysEnded
  <2>3. /\ pc' = [pc EXCEPT ![c] = "joining"] /\ arg' = [arg EXCEPT ![c] = i]
        /\ late' = [late EXCEPT ![c] = i \in past.ended] /\ past' = past
    BY <2>1 DEF Join
  <2> SUFFICES ASSUME NEW d \in Client, pc'[d] \in {"joining", "greeting"}, late'[d], arg'[d] \in Id
               PROVE  arg'[d] \in past.overtaken
    BY <2>3 DEF JoinOK
  <2>4. CASE d = c
    BY <2>2, <2>3, <2>4
  <2>5. CASE d # c
    <3>1. pc'[d] = pc[d] /\ arg'[d] = arg[d] /\ late'[d] = late[d]
      BY <2>3, <2>5
    <3> QED
      BY <3>1 DEF JoinOK
  <2> QED
    BY <2>4, <2>5
<1> QED
  BY <1>1, <1>2, <1>3, <1>4, <1>5, <1>6, <1>7, <1>8, <1>9, <1>10, <1>11, <1>12

\* The join goes on.
LEMMA KeepsFindConfig ==
  ASSUME IInv, NEW c \in Client, FindConfig(c)
  PROVE  IInv'
<1> USE TransportAssumption DEF IInv, TypeOK,
      Id, Handle, Stranger, Begins, At, Goes, Returns, Known, Past, With, Without,
      maps, client, history
<1>1. TypeOK'
  BY SMT DEF FindConfig
<1>2. MapsAgree'
  BY SMT DEF FindConfig, MapsAgree, Doing
<1>3. EndedStaysEnded'
  BY SMT DEF FindConfig, EndedStaysEnded, JoinOK
<1>4. NothingRunsUnlisted'
  BY SMT DEF FindConfig, NothingRunsUnlisted, Runs, Doing
<1>5. GuardOK'
  BY SMT DEF FindConfig, GuardOK, Guarded
<1>6. CreateOK'
  BY SMT DEF FindConfig, CreateOK, BeforeInsert, Alone
<1>7. RegisteredOK'
  BY SMT DEF FindConfig, RegisteredOK, Used
<1>8. ProviderOK'
  BY SMT DEF FindConfig, ProviderOK, Alone
<1>9. RemoveOK'
  BY SMT DEF FindConfig, RemoveOK
<1>10. DeletedOK'
  BY SMT DEF FindConfig, DeletedOK
<1>11. NameOK'
  BY SMT DEF FindConfig, NameOK
<1>12. JoinOK'
  BY SMT DEF FindConfig, JoinOK
<1> QED
  BY <1>1, <1>2, <1>3, <1>4, <1>5, <1>6, <1>7, <1>8, <1>9, <1>10, <1>11, <1>12

\* It does not.
LEMMA KeepsJoinFails ==
  ASSUME IInv, NEW c \in Client, JoinFails(c)
  PROVE  IInv'
<1> USE TransportAssumption DEF IInv, TypeOK,
      Id, Handle, Stranger, Begins, At, Goes, Returns, Known, Past, With, Without,
      maps, client, history
<1>1. TypeOK'
  BY SMT DEF JoinFails
<1>2. MapsAgree'
  BY SMT DEF JoinFails, MapsAgree, Doing
<1>3. EndedStaysEnded'
  BY SMT DEF JoinFails, EndedStaysEnded
<1>4. NothingRunsUnlisted'
  BY SMT DEF JoinFails, NothingRunsUnlisted, Runs, Doing
<1>5. GuardOK'
  BY SMT DEF JoinFails, GuardOK, Guarded
<1>6. CreateOK'
  BY SMT DEF JoinFails, CreateOK, BeforeInsert, Alone
<1>7. RegisteredOK'
  BY SMT DEF JoinFails, RegisteredOK, Used
<1>8. ProviderOK'
  BY SMT DEF JoinFails, ProviderOK, Alone
<1>9. RemoveOK'
  BY SMT DEF JoinFails, RemoveOK
<1>10. DeletedOK'
  BY SMT DEF JoinFails, DeletedOK
<1>11. NameOK'
  BY SMT DEF JoinFails, NameOK
<1>12. JoinOK'
  BY SMT DEF JoinFails, JoinOK
<1> QED
  BY <1>1, <1>2, <1>3, <1>4, <1>5, <1>6, <1>7, <1>8, <1>9, <1>10, <1>11, <1>12

\* It greets.
LEMMA KeepsGreet ==
  ASSUME IInv, NEW c \in Client, Greet(c)
  PROVE  IInv'
<1> USE TransportAssumption DEF IInv, TypeOK,
      Id, Handle, Stranger, Begins, At, Goes, Returns, Known, Past, With, Without,
      maps, client, history
<1>1. TypeOK'
  BY SMT DEF Greet
<1>2. MapsAgree'
  BY SMT DEF Greet, MapsAgree, Doing
<1>3. EndedStaysEnded'
  BY SMT DEF Greet, EndedStaysEnded
<1>4. NothingRunsUnlisted'
  BY SMT DEF Greet, NothingRunsUnlisted, Runs, Doing
<1>5. GuardOK'
  BY SMT DEF Greet, GuardOK, Guarded
<1>6. CreateOK'
  BY SMT DEF Greet, CreateOK, BeforeInsert, Alone
<1>7. RegisteredOK'
  BY SMT DEF Greet, RegisteredOK, Used
<1>8. ProviderOK'
  BY SMT DEF Greet, ProviderOK, Alone
<1>9. RemoveOK'
  BY SMT DEF Greet, RemoveOK
<1>10. DeletedOK'
  BY SMT DEF Greet, DeletedOK
<1>11. NameOK'
  BY SMT DEF Greet, NameOK
<1>12. JoinOK'
  BY SMT DEF Greet, JoinOK
<1> QED
  BY <1>1, <1>2, <1>3, <1>4, <1>5, <1>6, <1>7, <1>8, <1>9, <1>10, <1>11, <1>12

\* What is stored with a session is no part of it.
LEMMA KeepsOthers ==
  ASSUME IInv, StoreConfig \/ UNCHANGED vars
  PROVE  IInv'
<1> USE TransportAssumption
    DEF IInv, TypeOK, MapsAgree, EndedStaysEnded, NothingRunsUnlisted, GuardOK, CreateOK,
        RegisteredOK, ProviderOK, RemoveOK, DeletedOK, NameOK, JoinOK,
        Id, Handle, Past, RoomName, Runs, Doing, At, Guarded, BeforeInsert, Alone, Used, maps, client, history
<1>1. CASE StoreConfig
  BY <1>1, SMT DEF StoreConfig
<1>2. CASE UNCHANGED vars
  BY <1>2, SMT DEF vars
<1> QED
  BY <1>1, <1>2

LEMMA Invariant == Spec => []IInv
<1>1. Init => IInv
  BY InitOK
<1>2. ASSUME IInv, [Next]_vars PROVE IInv'
  <2> USE <1>2
  <2>1. ASSUME NEW c \in Client, Start(c) PROVE IInv'
    BY <2>1, KeepsCreate, KeepsGet, KeepsEnd, KeepsJoin DEF Start
  <2>2. ASSUME NEW c \in Client, Answered(c) PROVE IInv'
    BY <2>2, KeepsMakeRoom, KeepsToken, KeepsCreateFails, KeepsRefresh, KeepsRefreshFails,
       KeepsHangUp, KeepsHangUpFails, KeepsDeleteConfig, KeepsFindConfig, KeepsJoinFails,
       KeepsGreet DEF Answered
  <2>3. ASSUME NEW c \in Client, OnItsThread(c) PROVE IInv'
    BY <2>3, KeepsInsertSession, KeepsInsertProvider, KeepsRemoveSession,
       KeepsRemoveProvider DEF OnItsThread
  <2> QED
    BY <2>1, <2>2, <2>3, KeepsOthers DEF Next
<1> QED
  BY <1>1, <1>2, PTL DEF Spec

-----------------------------------------------------------------------------
(* The theorems. *)

\* The maps, what is up at the providers, and what each client is at have their
\* types.
THEOREM TypeCorrect == Spec => []TypeOK
<1> IInv => TypeOK
  BY DEF IInv
<1> QED
  BY Invariant, PTL

\* The sessions map and the session_providers map have the same keys, except in the
\* middle of an operation and for a session an end overtook.
THEOREM MapsStayTogether == Spec => []MapsAgree
<1> IInv => MapsAgree
  BY DEF IInv
<1> QED
  BY Invariant, PTL

\* A session that has ended stays ended, whatever refresh was under way: the guard
\* get_session keeps over its await, which can hold it up for ever, is what keeps
\* its insert from bringing the session back.
THEOREM EndIsFinal == Spec => []EndedStaysEnded
<1> IInv => EndedStaysEnded
  BY DEF IInv
<1> QED
  BY Invariant, PTL

\* What runs at a provider is listed, with the exceptions the property names.
THEOREM RunningIsListed == Spec => []NothingRunsUnlisted
<1> IInv => NothingRunsUnlisted
  BY DEF IInv
<1> QED
  BY Invariant, PTL

=============================================================================
