----------------------------- MODULE RemoteProofs -----------------------------
(***************************************************************************)
(* Proofs about RemoteProcessor, for every set of calls: its type          *)
(* invariant, that no answer is given twice, and that answers slip only by *)
(* the calls that gave up.                                                 *)
(***************************************************************************)
EXTENDS RemoteProcessor, FiniteSetTheorems, SequenceTheorems, TLAPS

USE RemoteAssumption DEF Locations

\* The frame of this call was accepted by the connection.
WasSent(c) == \E i \in DOMAIN sent : sent[i] = c

\* How many answers were taken off the connection.
ReadSoFar == answered - Len(answers)

\* A frame is sent once, and by a call that goes on to wait for an answer.
SentOnce ==
  /\ \A c \in Caller : WasSent(c) => pc[c] \in {"await", "read", "done"}
  /\ \A c \in Caller : pc[c] \in {"await", "read"} => WasSent(c)
  /\ \A i, j \in DOMAIN sent : sent[i] = sent[j] => i = j

\* The answers on their way are for the frames after those that were read.
Window ==
  /\ Len(answers) <= answered
  /\ \A i \in DOMAIN answers : answers[i] = sent[ReadSoFar + i]

\* A call reads once, at its end, and only a call that read has an answer, of a
\* frame whose answer was taken off.
Readers ==
  /\ \A c \in readers : pc[c] = "done" /\ WasSent(c)
  /\ \A c \in Caller : pc[c] # "done" => result[c] = <<>>
  /\ \A c, d \in Caller : result[c] = <<d>> =>
       c \in readers /\ \E i \in 1 .. ReadSoFar : sent[i] = d

\* As long as calls run one at a time, the one that waits was the last to send.
Alone ==
  ~overlapped =>
    /\ \A c, d \in Active : c = d
    /\ \A c \in Caller : pc[c] \in {"await", "read"} => sent[Len(sent)] = c

\* The calls that sent a frame and did not read an answer, one for each answer
\* that was not taken off.
Unread == {sent[i] : i \in DOMAIN sent} \ readers
UnreadCounted ==
  /\ IsFiniteSet(Unread)
  /\ Cardinality(Unread) = Len(sent) - ReadSoFar

SlipInv == SentOnce /\ Window /\ Readers /\ Alone /\ UnreadCounted

-----------------------------------------------------------------------------
(* Sequences. *)

\* Appending leaves the elements there are and adds one.
LEMMA Appended ==
  ASSUME NEW S, NEW q \in Seq(S), NEW x \in S
  PROVE  /\ DOMAIN q = 1 .. Len(q) /\ Len(q) \in Nat
         /\ Len(Append(q, x)) = Len(q) + 1
         /\ DOMAIN Append(q, x) = 1 .. Len(q) + 1
         /\ \A i \in 1 .. Len(q) : Append(q, x)[i] = q[i]
         /\ Append(q, x)[Len(q) + 1] = x
  BY LenProperties, AppendProperties

\* The head is the first element, and the tail the others.
LEMMA Taken ==
  ASSUME NEW S, NEW q \in Seq(S), q # <<>>
  PROVE  /\ DOMAIN q = 1 .. Len(q) /\ Len(q) \in Nat \ {0}
         /\ Head(q) = q[1] /\ Head(q) \in S
         /\ Len(Tail(q)) = Len(q) - 1
         /\ DOMAIN Tail(q) = 1 .. Len(q) - 1
         /\ \A i \in 1 .. Len(q) - 1 : Tail(q)[i] = q[i + 1]
  BY LenProperties, HeadTailProperties, EmptySeq

-----------------------------------------------------------------------------
(* Types. *)

\* Every variable has its type at first.
LEMMA InitTypeOK == Init => TypeOK
<1> SUFFICES ASSUME Init PROVE TypeOK
  OBVIOUS
<1>1. connected \in BOOLEAN /\ alive \in BOOLEAN /\ overlapped \in BOOLEAN
  BY Zenon DEF Init
<1>2. /\ writerLock \in Caller \cup {Nobody} /\ readerLock \in Caller \cup {Nobody}
      /\ pc \in [Caller -> Locations]
      /\ result \in [Caller -> {<<>>, <<Failure>>} \cup {<<c>> : c \in Caller}]
      /\ readers \subseteq Caller
  BY DEF Init
<1>3. sent \in Seq(Caller) /\ answers \in Seq(Caller) /\ answered \in 0 .. Len(sent)
  BY DEF Init
<1> QED
  BY <1>1, <1>2, <1>3 DEF TypeOK

\* Every step keeps the types.
LEMMA NextTypeOK == TypeOK /\ [Next]_vars => TypeOK'
<1> SUFFICES ASSUME TypeOK, [Next]_vars PROVE TypeOK'
  OBVIOUS
<1> USE DEF TypeOK, GoTo, Return, connVars, lockVars, wireVars, historyVars
<1>1. ASSUME NEW c \in Caller, LockWriter(c) PROVE TypeOK'
  BY <1>1 DEF LockWriter
<1>2. ASSUME NEW c \in Caller, LockReader(c) PROVE TypeOK'
  BY <1>2 DEF LockReader
<1>3. ASSUME NEW c \in Caller, Connect(c) PROVE TypeOK'
  BY <1>3 DEF Connect
<1>4. ASSUME NEW c \in Caller, Send(c) PROVE TypeOK'
  <2>1. sent' \in Seq(Caller) /\ Len(sent') >= Len(sent) /\ Len(sent) \in Nat
    <3>1. CASE sent' = Append(sent, c)
      BY <3>1, Appended
    <3>2. CASE UNCHANGED sent
      BY <3>2, LenProperties
    <3> QED
      BY <3>1, <3>2, <1>4 DEF Send
  <2>2. /\ UNCHANGED <<connVars, readerLock, answers, answered, historyVars>>
        /\ writerLock' = Nobody
    BY <1>4 DEF Send
  <2>3. pc' \in [Caller -> Locations]
    BY <1>4 DEF Send
  <2>4. result' \in [Caller -> {<<>>, <<Failure>>} \cup {<<d>> : d \in Caller}]
    BY <1>4 DEF Send
  <2>5. connected' \in BOOLEAN /\ alive' \in BOOLEAN /\ overlapped' \in BOOLEAN
    <3>1. connected' = connected /\ alive' = alive /\ overlapped' = overlapped
      BY <2>2
    <3> QED
      BY <3>1, Zenon
  <2>6. answered' \in 0 .. Len(sent')
    BY <2>1, <2>2
  <2>7. writerLock' \in Caller \cup {Nobody} /\ readerLock' \in Caller \cup {Nobody}
        /\ answers' \in Seq(Caller) /\ readers' \subseteq Caller
    BY <2>2
  <2> QED
    BY <2>1, <2>3, <2>4, <2>5, <2>6, <2>7
<1>5. ASSUME NEW c \in Caller, TakeReader(c) PROVE TypeOK'
  BY <1>5 DEF TakeReader
<1>6. ASSUME NEW c \in Caller, Read(c) PROVE TypeOK'
  <2>1. pc' \in [Caller -> Locations] /\ writerLock' \in Caller \cup {Nobody}
        /\ readerLock' \in Caller \cup {Nobody} /\ readers' \subseteq Caller
    BY <1>6 DEF Read
  <2>2. result' \in [Caller -> {<<>>, <<Failure>>} \cup {<<d>> : d \in Caller}]
    <3>1. Head(answers) \in Caller
      BY <1>6, Taken DEF Read
    <3>2. \E r \in {<<>>, <<Failure>>} \cup {<<d>> : d \in Caller} : result' = [result EXCEPT ![c] = r]
      BY <1>6, <3>1 DEF Read
    <3> QED
      BY <3>2
  <2>3. answers' \in Seq(Caller) /\ sent' \in Seq(Caller) /\ answered' \in 0 .. Len(sent')
    BY <1>6 DEF Read
  <2>4. connected' = connected /\ alive' = alive /\ overlapped' = overlapped
    BY <1>6 DEF Read
  <2>5. connected' \in BOOLEAN /\ alive' \in BOOLEAN /\ overlapped' \in BOOLEAN
    BY <2>4, Zenon
  <2> QED
    BY <2>1, <2>2, <2>3, <2>5
<1>7. ASSUME NEW c \in Caller, NoAnswer(c) PROVE TypeOK'
  BY <1>7 DEF NoAnswer
<1>8. ASSUME NEW c \in Caller, Timeout(c) PROVE TypeOK'
  BY <1>8 DEF Timeout
<1>9. CASE Answer
  BY <1>9 DEF Answer
<1>10. CASE Break
  BY <1>10 DEF Break
<1>11. CASE UNCHANGED vars
  BY <1>11 DEF vars
<1>12. ASSUME NEW c \in Caller, TakeWriter(c) PROVE TypeOK'
  BY <1>12 DEF TakeWriter
<1> QED
  BY <1>1, <1>2, <1>3, <1>4, <1>5, <1>6, <1>7, <1>8, <1>9, <1>10, <1>11, <1>12
     DEF Next, Process, Exchange, Remote, ReadFails, ReadOther, Finished

\* Every variable has its type, always.
THEOREM TypeCorrect == Spec => []TypeOK
<1> QED
  BY InitTypeOK, NextTypeOK, PTL DEF Spec

-----------------------------------------------------------------------------
(* What a step does to the frames and the answers.  Most leave them alone. *)

\* Nothing is sent, answered or read, no call begins to wait for an answer, and
\* what returns returns a failure.
Quiet ==
  /\ UNCHANGED <<wireVars, readers>>
  /\ overlapped => overlapped'
  /\ \A c \in Caller :
       \/ pc'[c] = pc[c] /\ result'[c] = result[c]
       \/ /\ pc[c] # "done" /\ result'[c] \in {result[c], <<Failure>>}
          /\ pc'[c] # "done" => result'[c] = result[c]
          /\ pc[c] \in {"await", "read"} => pc'[c] \in {"read", "done"}
          /\ pc[c] \notin {"await", "read"} => pc'[c] \notin {"await", "read"}

\* The frame of a call is accepted.
Sends(c) ==
  /\ pc[c] = "sending" /\ pc' = [pc EXCEPT ![c] = "await"]
  /\ sent' = Append(sent, c)
  /\ UNCHANGED <<connVars, readerLock, result, answers, answered, historyVars>>

\* A step sends a frame, reads an answer, brings one, or is quiet.
LEMMA StepKinds ==
  ASSUME TypeOK, [Next]_vars
  PROVE  Quiet \/ Answer \/ \E c \in Caller : Sends(c) \/ Read(c)
<1> USE DEF TypeOK, Quiet, GoTo, Return, connVars, lockVars, wireVars, historyVars
<1>1. ASSUME NEW c \in Caller, LockWriter(c) PROVE Quiet
  BY <1>1 DEF LockWriter
<1>2. ASSUME NEW c \in Caller, LockReader(c) PROVE Quiet
  BY <1>2 DEF LockReader
<1>3. ASSUME NEW c \in Caller, Connect(c) PROVE Quiet
  BY <1>3 DEF Connect
<1>4. ASSUME NEW c \in Caller, Send(c) PROVE Quiet \/ Sends(c)
  BY <1>4 DEF Send, Sends
<1>5. ASSUME NEW c \in Caller, TakeReader(c) PROVE Quiet
  BY <1>5 DEF TakeReader
<1>6. ASSUME NEW c \in Caller, NoAnswer(c) PROVE Quiet
  BY <1>6 DEF NoAnswer
<1>7. ASSUME NEW c \in Caller, Timeout(c) PROVE Quiet
  BY <1>7 DEF Timeout
<1>8. CASE Break
  BY <1>8 DEF Break
<1>9. CASE UNCHANGED vars
  BY <1>9 DEF vars
<1>10. ASSUME NEW c \in Caller, TakeWriter(c) PROVE Quiet
  BY <1>10 DEF TakeWriter
<1> QED
  BY <1>1, <1>2, <1>3, <1>4, <1>5, <1>6, <1>7, <1>8, <1>9, <1>10
     DEF Next, Process, Exchange, Remote, ReadFails, ReadOther, Finished

\* The lengths and domains of the two sequences.
LEMMA Lengths ==
  ASSUME TypeOK
  PROVE  /\ Len(sent) \in Nat /\ DOMAIN sent = 1 .. Len(sent)
         /\ Len(answers) \in Nat /\ DOMAIN answers = 1 .. Len(answers)
         /\ answered \in 0 .. Len(sent)
         /\ \A i \in DOMAIN sent : sent[i] \in Caller
  BY LenProperties, ElementOfSeq DEF TypeOK

\* What a frame sent does to the sequence of frames.
LEMMA OneMoreSent ==
  ASSUME TypeOK, NEW c \in Caller, Sends(c)
  PROVE  /\ DOMAIN sent = 1 .. Len(sent) /\ Len(sent) \in Nat
         /\ Len(sent') = Len(sent) + 1 /\ DOMAIN sent' = 1 .. Len(sent) + 1
         /\ \A i \in DOMAIN sent : sent'[i] = sent[i]
         /\ sent'[Len(sent) + 1] = c
  BY Appended DEF TypeOK, Sends

\* What a read does to the answers on their way.
LEMMA OneLessAnswer ==
  ASSUME TypeOK, NEW c \in Caller, Read(c)
  PROVE  /\ answers # <<>> /\ DOMAIN answers = 1 .. Len(answers) /\ Len(answers) \in Nat \ {0}
         /\ Head(answers) = answers[1] /\ Head(answers) \in Caller
         /\ Len(answers') = Len(answers) - 1 /\ DOMAIN answers' = 1 .. Len(answers) - 1
         /\ \A i \in 1 .. Len(answers) - 1 :
              i \in Nat /\ i + 1 \in DOMAIN answers /\ answers'[i] = answers[i + 1]
         /\ 1 \in DOMAIN answers
<1>1. answers \in Seq(Caller) /\ answers # <<>> /\ answers' = Tail(answers)
  BY DEF TypeOK, Read
<1>2. /\ DOMAIN answers = 1 .. Len(answers) /\ Len(answers) \in Nat \ {0}
      /\ Head(answers) = answers[1] /\ Head(answers) \in Caller
      /\ Len(answers') = Len(answers) - 1 /\ DOMAIN answers' = 1 .. Len(answers) - 1
      /\ \A i \in 1 .. Len(answers) - 1 : answers'[i] = answers[i + 1]
  BY <1>1, Taken
<1>3. 1 \in 1 .. Len(answers) /\ \A i \in 1 .. Len(answers) - 1 : i \in Nat /\ i + 1 \in 1 .. Len(answers)
  BY <1>2
<1> QED
  BY <1>1, <1>2, <1>3

-----------------------------------------------------------------------------
(* The parts of the invariant. *)

LEMMA InitSlipInv == Init => SlipInv
<1> SUFFICES ASSUME Init PROVE SlipInv
  OBVIOUS
<1>1. DOMAIN sent = {} /\ DOMAIN answers = {} /\ Len(sent) = 0 /\ Len(answers) = 0
  BY EmptySeq DEF Init
<1>2. SentOnce /\ Window /\ Readers
  BY <1>1 DEF Init, SentOnce, Window, Readers, WasSent, ReadSoFar
<1>3. Alone
  BY DEF Init, Alone, Active
<1>4. UnreadCounted
  <2>1. Unread = {}
    BY <1>1 DEF Unread
  <2> QED
    BY <2>1, <1>1, FS_EmptySet DEF Init, UnreadCounted, ReadSoFar
<1> QED
  BY <1>2, <1>3, <1>4 DEF SlipInv

LEMMA NextSentOnce == TypeOK /\ SentOnce /\ [Next]_vars => SentOnce'
<1> SUFFICES ASSUME TypeOK, SentOnce, [Next]_vars PROVE SentOnce'
  OBVIOUS
<1>1. CASE Quiet
  BY <1>1 DEF Quiet, SentOnce, WasSent, wireVars
<1>2. CASE Answer
  BY <1>2 DEF Answer, SentOnce, WasSent
<1>3. ASSUME NEW c \in Caller, Sends(c) PROVE SentOnce'
  <2>1. ~WasSent(c)
    BY <1>3 DEF Sends, SentOnce
  <2>2. \A d \in Caller : WasSent(d)' <=> WasSent(d) \/ d = c
    BY <1>3, OneMoreSent DEF WasSent
  <2>3. \A d \in Caller : pc'[d] = IF d = c THEN "await" ELSE pc[d]
    BY <1>3 DEF Sends, TypeOK
  <2>4. \A i, j \in DOMAIN sent' : sent'[i] = sent'[j] => i = j
    BY <1>3, <2>1, OneMoreSent DEF WasSent, SentOnce
  <2> QED
    BY <1>3, <2>2, <2>3, <2>4 DEF SentOnce, Sends
<1>4. ASSUME NEW c \in Caller, Read(c) PROVE SentOnce'
  BY <1>4 DEF Read, Return, GoTo, SentOnce, WasSent, TypeOK
<1> QED
  BY <1>1, <1>2, <1>3, <1>4, StepKinds

LEMMA NextWindow == TypeOK /\ Window /\ [Next]_vars => Window'
<1> SUFFICES ASSUME TypeOK, Window, [Next]_vars PROVE Window'
  OBVIOUS
<1> USE Lengths
<1>1. CASE Quiet
  BY <1>1 DEF Quiet, Window, ReadSoFar, wireVars
<1>2. CASE Answer
  <2>1. /\ Len(answers') = Len(answers) + 1 /\ DOMAIN answers' = 1 .. Len(answers) + 1
        /\ \A i \in 1 .. Len(answers) : answers'[i] = answers[i]
        /\ answers'[Len(answers) + 1] = sent[answered + 1]
    <3>1. sent[answered + 1] \in Caller
      BY <1>2 DEF Answer, TypeOK
    <3> QED
      BY <1>2, <3>1, Appended DEF Answer, TypeOK
  <2>2. answered' = answered + 1 /\ sent' = sent /\ ReadSoFar' = ReadSoFar
    BY <1>2, <2>1 DEF Answer, ReadSoFar
  <2>3. ReadSoFar + Len(answers) + 1 = answered + 1
    BY DEF ReadSoFar
  <2>4. ASSUME NEW i \in DOMAIN answers' PROVE answers'[i] = sent[ReadSoFar + i]
    <3>1. CASE i \in 1 .. Len(answers)
      BY <3>1, <2>1 DEF Window
    <3>2. CASE i = Len(answers) + 1
      <4>1. ReadSoFar + i = answered + 1
        BY <3>2 DEF ReadSoFar
      <4> QED
        BY <3>2, <4>1, <2>1
    <3> QED
      BY <3>1, <3>2, <2>1
  <2> QED
    BY <2>1, <2>2, <2>4 DEF Window
<1>3. ASSUME NEW c \in Caller, Sends(c) PROVE Window'
  <2>1. ReadSoFar' = ReadSoFar /\ answers' = answers /\ answered' = answered
    BY <1>3 DEF Sends, ReadSoFar
  <2>2. \A i \in DOMAIN answers : ReadSoFar + i \in DOMAIN sent
    BY DEF Window, ReadSoFar
  <2> QED
    BY <1>3, <2>1, <2>2, OneMoreSent DEF Window
<1>4. ASSUME NEW c \in Caller, Read(c) PROVE Window'
  <2>1. ReadSoFar' = ReadSoFar + 1 /\ sent' = sent /\ answered' = answered
    BY <1>4, OneLessAnswer DEF Read, ReadSoFar
  <2>2. ReadSoFar \in Int /\ Len(answers') <= answered'
    <3>1. Len(answers') = Len(answers) - 1
      BY <1>4, OneLessAnswer
    <3> QED
      BY <2>1, <3>1 DEF Window, ReadSoFar
  <2>3. ASSUME NEW i \in DOMAIN answers' PROVE answers'[i] = sent[ReadSoFar + 1 + i]
    <3>1. i \in Nat /\ i + 1 \in DOMAIN answers /\ answers'[i] = answers[i + 1]
      BY <1>4, OneLessAnswer
    <3>2. answers[i + 1] = sent[ReadSoFar + (i + 1)]
      BY <3>1 DEF Window
    <3>3. ReadSoFar + (i + 1) = ReadSoFar + 1 + i
      BY <3>1, <2>2
    <3> QED
      BY <3>1, <3>2, <3>3
  <2> QED
    BY <2>1, <2>2, <2>3 DEF Window
<1> QED
  BY <1>1, <1>2, <1>3, <1>4, StepKinds

LEMMA NextReaders == TypeOK /\ SentOnce /\ Window /\ Readers /\ [Next]_vars => Readers'
<1> SUFFICES ASSUME TypeOK, SentOnce, Window, Readers, [Next]_vars PROVE Readers'
  OBVIOUS
<1> USE Lengths
<1>1. CASE Quiet
  <2>1. \A c \in readers : pc'[c] = "done" /\ WasSent(c)'
    BY <1>1 DEF Quiet, Readers, WasSent, wireVars, TypeOK
  <2>2. \A c \in Caller : pc'[c] # "done" => result'[c] = <<>>
    BY <1>1 DEF Quiet, Readers
  <2>3. \A c, d \in Caller : result'[c] = <<d>> => result[c] = <<d>>
    BY <1>1, FailureAssumption DEF Quiet
  <2> QED
    BY <1>1, <2>1, <2>2, <2>3 DEF Quiet, Readers, ReadSoFar, wireVars
<1>2. CASE Answer
  <2>1. ReadSoFar' = ReadSoFar
    <3>1. sent[answered + 1] \in Caller
      BY <1>2 DEF Answer, TypeOK
    <3> QED
      BY <1>2, <3>1, Appended DEF Answer, TypeOK, ReadSoFar
  <2> QED
    BY <1>2, <2>1 DEF Answer, Readers, WasSent, historyVars
<1>3. ASSUME NEW c \in Caller, Sends(c) PROVE Readers'
  <2>1. ReadSoFar' = ReadSoFar /\ ReadSoFar \in 0 .. Len(sent)
    BY <1>3 DEF Sends, ReadSoFar, Window
  <2>2. \A d \in Caller : pc'[d] = IF d = c THEN "await" ELSE pc[d]
    BY <1>3 DEF Sends, TypeOK
  <2>3. readers' = readers /\ result' = result /\ pc[c] = "sending"
    BY <1>3 DEF Sends, historyVars
  <2>4. \A d \in readers : pc'[d] = "done" /\ WasSent(d)'
    BY <1>3, <2>2, <2>3, OneMoreSent DEF Readers, WasSent, TypeOK
  <2>5. \A d, e \in Caller : result'[d] = <<e>> =>
          d \in readers' /\ \E i \in 1 .. ReadSoFar' : sent'[i] = e
    BY <1>3, <2>1, <2>3, OneMoreSent DEF Readers
  <2> QED
    BY <2>2, <2>3, <2>4, <2>5 DEF Readers
<1>4. ASSUME NEW c \in Caller, Read(c) PROVE Readers'
  <2>1. ReadSoFar' = ReadSoFar + 1 /\ sent' = sent /\ ReadSoFar \in Nat
    BY <1>4, OneLessAnswer DEF Read, ReadSoFar, Window
  <2>2. Head(answers) = sent[ReadSoFar + 1]
    <3>1. 1 \in DOMAIN answers /\ Head(answers) = answers[1]
      BY <1>4, OneLessAnswer
    <3> QED
      BY <3>1 DEF Window
  <2>3. /\ \A d \in Caller : pc'[d] = IF d = c THEN "done" ELSE pc[d]
        /\ \A d \in Caller : d # c => result'[d] = result[d]
        /\ result'[c] = <<Head(answers)>> \/ result'[c] = <<Failure>>
        /\ readers' = readers \cup {c} /\ WasSent(c)
    BY <1>4 DEF Read, Return, GoTo, TypeOK, SentOnce
  <2>4. \A d \in readers' : pc'[d] = "done" /\ WasSent(d)'
    BY <2>1, <2>3 DEF Readers, WasSent, TypeOK
  <2>5. ASSUME NEW d \in Caller, NEW e \in Caller, result'[d] = <<e>>
        PROVE  d \in readers' /\ \E i \in 1 .. ReadSoFar' : sent'[i] = e
    <3>1. CASE d = c
      BY <3>1, <2>1, <2>2, <2>3, <2>5, FailureAssumption
    <3>2. CASE d # c
      BY <3>2, <2>1, <2>3, <2>5 DEF Readers
    <3> QED
      BY <3>1, <3>2
  <2> QED
    BY <2>3, <2>4, <2>5 DEF Readers
<1> QED
  BY <1>1, <1>2, <1>3, <1>4, StepKinds

LEMMA NextAlone == TypeOK /\ Alone /\ [Next]_vars => Alone'
<1> SUFFICES ASSUME TypeOK, Alone, [Next]_vars, ~overlapped' PROVE Alone'
  BY DEF Alone
<1> USE DEF TypeOK, GoTo, Return, connVars, lockVars, wireVars, historyVars
<1> USE DEF Alone, Active
<1>1. ASSUME NEW c \in Caller, LockWriter(c) PROVE Alone'
  BY <1>1 DEF LockWriter
<1>2. ASSUME NEW c \in Caller, LockReader(c) PROVE Alone'
  BY <1>2 DEF LockReader
<1>3. ASSUME NEW c \in Caller, Connect(c) PROVE Alone'
  BY <1>3 DEF Connect
<1>4. ASSUME NEW c \in Caller, Send(c) PROVE Alone'
  <2>1. CASE Sends(c)
    BY <2>1, OneMoreSent DEF Sends
  <2>2. CASE ~Sends(c)
    BY <2>2, <1>4 DEF Send, Sends
  <2> QED
    BY <2>1, <2>2
<1>5. ASSUME NEW c \in Caller, TakeReader(c) PROVE Alone'
  BY <1>5 DEF TakeReader
<1>6. ASSUME NEW c \in Caller, Read(c) PROVE Alone'
  BY <1>6 DEF Read
<1>7. ASSUME NEW c \in Caller, NoAnswer(c) PROVE Alone'
  BY <1>7 DEF NoAnswer
<1>8. ASSUME NEW c \in Caller, Timeout(c) PROVE Alone'
  BY <1>8 DEF Timeout
<1>9. CASE Answer
  BY <1>9 DEF Answer
<1>10. CASE Break
  BY <1>10 DEF Break
<1>11. CASE UNCHANGED vars
  BY <1>11 DEF vars
<1>12. ASSUME NEW c \in Caller, TakeWriter(c) PROVE Alone'
  BY <1>12 DEF TakeWriter
<1> QED
  BY <1>1, <1>2, <1>3, <1>4, <1>5, <1>6, <1>7, <1>8, <1>9, <1>10, <1>11, <1>12
     DEF Next, Process, Exchange, Remote, ReadFails, ReadOther, Finished

LEMMA NextUnread ==
  TypeOK /\ SentOnce /\ Window /\ Readers /\ UnreadCounted /\ [Next]_vars => UnreadCounted'
<1> SUFFICES ASSUME TypeOK, SentOnce, Window, Readers, UnreadCounted, [Next]_vars
             PROVE  UnreadCounted'
  OBVIOUS
<1> USE Lengths
<1>1. CASE Quiet
  BY <1>1 DEF Quiet, UnreadCounted, Unread, ReadSoFar, wireVars
<1>2. CASE Answer
  <2>1. ReadSoFar' = ReadSoFar
    <3>1. sent[answered + 1] \in Caller
      BY <1>2 DEF Answer, TypeOK
    <3> QED
      BY <1>2, <3>1, Appended DEF Answer, TypeOK, ReadSoFar
  <2>2. Unread' = Unread /\ sent' = sent
    BY <1>2 DEF Answer, Unread, historyVars
  <2> QED
    BY <2>1, <2>2 DEF UnreadCounted
<1>3. ASSUME NEW c \in Caller, Sends(c) PROVE UnreadCounted'
  <2>1. ReadSoFar' = ReadSoFar /\ readers' = readers /\ ReadSoFar \in Int
    BY <1>3 DEF Sends, ReadSoFar, historyVars
  <2>2. c \notin Unread /\ c \notin readers
    BY <1>3 DEF Sends, Unread, SentOnce, Readers, WasSent
  <2>3. Unread' = Unread \cup {c}
    BY <1>3, <2>1, <2>2, OneMoreSent DEF Unread
  <2>4. IsFiniteSet(Unread') /\ Cardinality(Unread') = Cardinality(Unread) + 1
    BY <2>2, <2>3, FS_AddElement DEF UnreadCounted
  <2>5. Len(sent') = Len(sent) + 1
    BY <1>3, OneMoreSent
  <2> QED
    BY <2>1, <2>4, <2>5 DEF UnreadCounted
<1>4. ASSUME NEW c \in Caller, Read(c) PROVE UnreadCounted'
  <2>1. ReadSoFar' = ReadSoFar + 1 /\ sent' = sent /\ ReadSoFar \in Int
    BY <1>4, OneLessAnswer DEF Read, ReadSoFar
  <2>2. readers' = readers \cup {c} /\ c \in Unread
    BY <1>4 DEF Read, Readers, SentOnce, WasSent, Unread
  <2>3. Unread' = Unread \ {c}
    BY <2>1, <2>2 DEF Unread
  <2>4. IsFiniteSet(Unread') /\ Cardinality(Unread') = Cardinality(Unread) - 1
    BY <2>2, <2>3, FS_RemoveElement DEF UnreadCounted
  <2> QED
    BY <2>1, <2>4 DEF UnreadCounted
<1> QED
  BY <1>1, <1>2, <1>3, <1>4, StepKinds

\* The whole invariant is inductive.
LEMMA SlipInvHolds == Spec => [](TypeOK /\ SlipInv)
<1>1. TypeOK /\ SlipInv /\ [Next]_vars => (TypeOK /\ SlipInv)'
  BY NextTypeOK, NextSentOnce, NextWindow, NextReaders, NextAlone, NextUnread DEF SlipInv
<1> QED
  BY <1>1, InitTypeOK, InitSlipInv, PTL DEF Spec

-----------------------------------------------------------------------------
(* No answer is given twice. *)

LEMMA NextNoAnswerTwice ==
  TypeOK /\ SlipInv /\ NoAnswerTwice /\ [Next]_vars => NoAnswerTwice'
<1> SUFFICES ASSUME TypeOK, SlipInv, NoAnswerTwice, [Next]_vars PROVE NoAnswerTwice'
  OBVIOUS
<1> USE Lengths
<1>1. CASE Quiet
  <2>1. \A c \in Caller : result'[c] = result[c] \/ result'[c] = <<Failure>>
    BY <1>1 DEF Quiet
  <2> QED
    BY <2>1 DEF NoAnswerTwice
<1>2. CASE Answer
  BY <1>2 DEF Answer, NoAnswerTwice
<1>3. ASSUME NEW c \in Caller, Sends(c) PROVE NoAnswerTwice'
  BY <1>3 DEF Sends, NoAnswerTwice
<1>4. ASSUME NEW c \in Caller, Read(c) PROVE NoAnswerTwice'
  <2>1. 1 \in DOMAIN answers /\ Head(answers) = answers[1] /\ Head(answers) \in Caller
        /\ Len(answers) \in Nat \ {0}
    BY <1>4, OneLessAnswer
  <2>2. Head(answers) = sent[ReadSoFar + 1] /\ ReadSoFar + 1 \in DOMAIN sent /\ ReadSoFar \in Nat
    BY <2>1 DEF SlipInv, Window, ReadSoFar
  <2>3. \A i \in 1 .. ReadSoFar : sent[i] # Head(answers)
    BY <2>2 DEF SlipInv, SentOnce
  <2>4. \A d \in Caller : result[d] # <<Head(answers)>>
    BY <2>1, <2>3 DEF SlipInv, Readers
  <2>5. /\ \A d \in Caller : d # c => result'[d] = result[d]
        /\ result'[c] = <<Head(answers)>> \/ result'[c] = <<Failure>>
    BY <1>4 DEF Read, Return, GoTo, TypeOK
  <2> QED
    BY <2>4, <2>5 DEF NoAnswerTwice
<1> QED
  BY <1>1, <1>2, <1>3, <1>4, StepKinds

\* No answer is given to two calls, however they interleave (process).
THEOREM NoReplyGivenTwice == Spec => []NoAnswerTwice
<1>1. Init => NoAnswerTwice
  BY DEF Init, NoAnswerTwice
<1> QED
  BY <1>1, SlipInvHolds, NextNoAnswerTwice, PTL DEF Spec

-----------------------------------------------------------------------------
(* Answers slip by the calls that gave up. *)

\* The place of an element of a sequence without repetitions.
LEMMA PlaceIs ==
  ASSUME NEW q, NEW i \in DOMAIN q,
         \A j, k \in DOMAIN q : q[j] = q[k] => j = k
  PROVE  (CHOOSE j \in DOMAIN q : q[j] = q[i]) = i
  OBVIOUS

\* The calls before c that never read.
GaveUp(c) == {b \in Caller : Before(b, c) /\ b \notin readers}

\* What a call was given does not move its frame or the frames before it.
LEMMA SlipKept ==
  ASSUME TypeOK, SlipInv, AnswersSlipByGivingUp,
         NEW c \in Caller, NEW d \in Caller, result[c] = <<d>>, ~overlapped,
         Position(c)' = Position(c), Position(d)' = Position(d), GaveUp(c)' = GaveUp(c)
  PROVE  Position(c)' = Position(d)' + Cardinality(GaveUp(c)')
  BY DEF AnswersSlipByGivingUp, GaveUp

LEMMA NextSlip ==
  TypeOK /\ SlipInv /\ SlipInv' /\ AnswersSlipByGivingUp /\ [Next]_vars => AnswersSlipByGivingUp'
<1> SUFFICES ASSUME TypeOK, SlipInv, SlipInv', AnswersSlipByGivingUp, [Next]_vars,
                    NEW c \in Caller, NEW d \in Caller, result'[c] = <<d>>, ~overlapped'
             PROVE  Position(c)' = Position(d)' + Cardinality(GaveUp(c)')
  BY DEF AnswersSlipByGivingUp, GaveUp
<1> USE Lengths
<1>1. CASE Quiet
  <2>1. result[c] = <<d>> /\ ~overlapped
    BY <1>1, FailureAssumption DEF Quiet
  <2>2. UNCHANGED <<sent, readers>>
    BY <1>1 DEF Quiet, wireVars
  <2> QED
    BY <2>1, <2>2, SlipKept DEF Position, GaveUp, Before
<1>2. CASE Answer
  BY <1>2, SlipKept DEF Answer, Position, GaveUp, Before, historyVars
<1>3. ASSUME NEW e \in Caller, Sends(e)
      PROVE  Position(c)' = Position(d)' + Cardinality(GaveUp(c)')
  <2>1. result[c] = <<d>> /\ ~overlapped /\ readers' = readers
    BY <1>3 DEF Sends, historyVars
  <2>2. PICK i \in DOMAIN sent : sent[i] = c
    BY <2>1 DEF SlipInv, Readers, WasSent
  <2>3. PICK j \in 1 .. ReadSoFar : sent[j] = d
    BY <2>1 DEF SlipInv, Readers
  <2>4. j \in DOMAIN sent
    BY <2>3 DEF SlipInv, Window, ReadSoFar
  <2>5. Position(c) = i /\ Position(d) = j
    BY <2>2, <2>3, <2>4, PlaceIs DEF Position, SlipInv, SentOnce
  <2>6. /\ i \in DOMAIN sent' /\ sent'[i] = c /\ j \in DOMAIN sent' /\ sent'[j] = d
        /\ \A k \in DOMAIN sent : k \in DOMAIN sent' /\ sent'[k] = sent[k]
    BY <1>3, <2>2, <2>3, <2>4, OneMoreSent
  <2>7. Position(c)' = i /\ Position(d)' = j
    BY <2>6, PlaceIs DEF Position, SlipInv, SentOnce
  <2>8. ASSUME NEW b \in Caller PROVE Before(b, c)' <=> Before(b, c)
    <3>1. \A k \in DOMAIN sent' : sent'[k] = c => k = i
      BY <2>6 DEF SlipInv, SentOnce
    <3>2. \A k \in DOMAIN sent : sent[k] = c => k = i
      BY <2>2 DEF SlipInv, SentOnce
    <3>3. Before(b, c)' <=> \E k \in DOMAIN sent' : k < i /\ sent'[k] = b
      BY <3>1, <2>6 DEF Before
    <3>4. Before(b, c) <=> \E k \in DOMAIN sent : k < i /\ sent[k] = b
      BY <3>2, <2>2 DEF Before
    <3>5. \A k \in DOMAIN sent' : k < i => k \in DOMAIN sent
      BY <1>3, <2>2, OneMoreSent
    <3> QED
      BY <3>3, <3>4, <3>5, <2>6
  <2>9. GaveUp(c)' = GaveUp(c)
    BY <2>1, <2>8 DEF GaveUp
  <2> QED
    BY <2>1, <2>5, <2>7, <2>9, SlipKept
<1>4. ASSUME NEW e \in Caller, Read(e)
      PROVE  Position(c)' = Position(d)' + Cardinality(GaveUp(c)')
  <2>1. sent' = sent /\ ~overlapped /\ readers' = readers \cup {e} /\ pc[e] = "read"
    BY <1>4 DEF Read
  <2>2. sent[Len(sent)] = e /\ Len(sent) \in DOMAIN sent
    BY <2>1 DEF SlipInv, Alone, SentOnce, WasSent
  <2>3. CASE c # e
    <3>1. result[c] = <<d>>
      BY <1>4, <2>3 DEF Read, Return, GoTo, TypeOK
    <3>2. ~Before(e, c)
      BY <2>2 DEF Before, SlipInv, SentOnce
    <3>3. GaveUp(c)' = GaveUp(c)
      BY <2>1, <3>2 DEF GaveUp, Before
    <3> QED
      BY <2>1, <3>1, <3>3, SlipKept DEF Position
  <2>4. CASE c = e
    <3>1. d = Head(answers)
      BY <1>4, <2>4, FailureAssumption DEF Read, Return, GoTo, TypeOK
    <3>2. 1 \in DOMAIN answers /\ Head(answers) = answers[1] /\ Len(answers) \in Nat \ {0}
      BY <1>4, OneLessAnswer
    <3>3. d = sent[ReadSoFar + 1] /\ ReadSoFar + 1 \in DOMAIN sent /\ ReadSoFar \in Nat
      BY <3>1, <3>2 DEF SlipInv, Window, ReadSoFar
    <3>4. Position(d)' = ReadSoFar + 1 /\ Position(c)' = Len(sent)
      BY <2>1, <2>2, <2>4, <3>3, PlaceIs DEF Position, SlipInv, SentOnce
    <3>5. c \in Unread
      BY <2>1, <2>2, <2>4 DEF Unread, SlipInv, Readers
    <3>6. \A b \in Caller : Before(b, c) <=> b # c /\ \E i \in DOMAIN sent : sent[i] = b
      BY <2>2, <2>4 DEF Before, SlipInv, SentOnce
    <3>7. GaveUp(c)' = Unread \ {c}
      BY <2>1, <2>4, <3>6 DEF GaveUp, Unread, Before
    <3>8. Cardinality(GaveUp(c)') = Len(sent) - ReadSoFar - 1
      BY <3>3, <3>5, <3>7, FS_RemoveElement DEF SlipInv, UnreadCounted
    <3> QED
      BY <3>3, <3>4, <3>8
  <2> QED
    BY <2>3, <2>4
<1> QED
  BY <1>1, <1>2, <1>3, <1>4, StepKinds

\* As long as calls run one at a time, an answer is off by exactly the number of
\* earlier calls that returned without reading one (process).
THEOREM SlipIsCounted == Spec => []AnswersSlipByGivingUp
<1>1. Init => AnswersSlipByGivingUp
  BY DEF Init, AnswersSlipByGivingUp
<1> QED
  BY <1>1, SlipInvHolds, NextSlip, PTL DEF Spec

=============================================================================
