-------------------------- MODULE VoiceCallProofs --------------------------
(***************************************************************************)
(* Proofs about VoiceCall, for every set of sessions, any number of        *)
(* transcriptions, attempts and faults and any size of the channel: its    *)
(* type invariant, that nothing is said before a start was read, that      *)
(* nothing on the way to the caller doubles or reorders an answer, and     *)
(* that a conversation is made of questions with their answers.            *)
(***************************************************************************)
EXTENDS VoiceCall, SequenceTheorems, FiniteSetTheorems, FunctionTheorems, TLAPS

USE DEF connVars, relayVars, llmVars, ttsVars, historyVars

-----------------------------------------------------------------------------
(* Sequences and how often something is in one.                            *)

Where(q, t) == {i \in DOMAIN q : q[i] = t}
Count(q, t) == Cardinality(Where(q, t))

\* The head of a queue, what follows it, and what a new last element joins.
LEMMA QueueHead ==
  ASSUME NEW S, NEW q \in Seq(S), q # <<>>
  PROVE  /\ 1 \in DOMAIN q /\ Head(q) = q[1] /\ Head(q) \in S /\ Tail(q) \in Seq(S)
         /\ \A i \in DOMAIN Tail(q) : i \in Nat /\ i + 1 \in DOMAIN q /\ Tail(q)[i] = q[i + 1]
         /\ \A i \in DOMAIN q : i \in Nat /\ (i = 1 \/ i - 1 \in DOMAIN Tail(q))
<1>1. /\ DOMAIN q = 1 .. Len(q) /\ Len(q) \in Nat \ {0}
      /\ Tail(q) \in Seq(S) /\ Head(q) \in S /\ Head(q) = q[1]
      /\ DOMAIN Tail(q) = 1 .. Len(q) - 1
      /\ \A i \in 1 .. Len(q) - 1 : Tail(q)[i] = q[i + 1]
  BY LenProperties, EmptySeq, HeadTailProperties
<1> QED
  BY <1>1

LEMMA QueueEnd ==
  ASSUME NEW S, NEW q \in Seq(S), NEW x \in S
  PROVE  /\ Append(q, x) \in Seq(S)
         /\ \A i \in DOMAIN q : i \in DOMAIN Append(q, x) /\ Append(q, x)[i] = q[i]
         /\ \A i \in DOMAIN Append(q, x) :
              \/ i \in DOMAIN q /\ Append(q, x)[i] = q[i]
              \/ i \notin DOMAIN q /\ Append(q, x)[i] = x /\ \A j \in DOMAIN Append(q, x) : j <= i
         /\ \E i \in DOMAIN Append(q, x) : Append(q, x)[i] = x
<1>1. /\ DOMAIN q = 1 .. Len(q) /\ Len(q) \in Nat
      /\ Append(q, x) \in Seq(S)
      /\ DOMAIN Append(q, x) = 1 .. Len(q) + 1
      /\ \A i \in 1 .. Len(q) : Append(q, x)[i] = q[i]
      /\ Append(q, x)[Len(q) + 1] = x
  BY LenProperties, AppendProperties
<1> QED
  BY <1>1

LEMMA CountNat ==
  ASSUME NEW S, NEW q \in Seq(S), NEW t
  PROVE  IsFiniteSet(Where(q, t)) /\ Count(q, t) \in Nat
<1>1. Where(q, t) \in SUBSET (1 .. Len(q)) /\ Len(q) \in Nat
  BY LenProperties DEF Where
<1>2. IsFiniteSet(1 .. Len(q))
  BY <1>1, FS_Interval
<1>3. IsFiniteSet(Where(q, t))
  BY <1>1, <1>2, FS_Subset
<1> QED
  BY <1>3, FS_CardinalityType DEF Count

LEMMA CountEmpty == ASSUME NEW t PROVE Count(<<>>, t) = 0
<1>1. DOMAIN <<>> = {}
  OBVIOUS
<1>2. Where(<<>>, t) = {}
  BY <1>1 DEF Where
<1> QED
  BY <1>2, FS_EmptySet DEF Count

LEMMA CountAppend ==
  ASSUME NEW S, NEW q \in Seq(S), NEW x \in S, NEW t
  PROVE  Count(Append(q, x), t) = Count(q, t) + (IF x = t THEN 1 ELSE 0)
<1>1. /\ DOMAIN q = 1 .. Len(q) /\ Len(q) \in Nat
      /\ DOMAIN Append(q, x) = 1 .. Len(q) + 1
      /\ \A i \in 1 .. Len(q) : Append(q, x)[i] = q[i]
      /\ Append(q, x)[Len(q) + 1] = x
  BY LenProperties, AppendProperties
<1>2. IsFiniteSet(Where(q, t)) /\ Count(q, t) \in Nat
  BY CountNat
<1>3. CASE x = t
  <2>1. Where(Append(q, x), t) = Where(q, t) \cup {Len(q) + 1}
    BY <1>1, <1>3 DEF Where
  <2>2. Len(q) + 1 \notin Where(q, t)
    BY <1>1 DEF Where
  <2> QED
    BY <1>2, <1>3, <2>1, <2>2, FS_AddElement DEF Count
<1>4. CASE x # t
  <2>1. Where(Append(q, x), t) = Where(q, t)
    BY <1>1, <1>4 DEF Where
  <2> QED
    BY <1>2, <1>4, <2>1 DEF Count
<1> QED
  BY <1>3, <1>4

LEMMA CountTail ==
  ASSUME NEW S, NEW q \in Seq(S), q # <<>>, NEW t
  PROVE  Count(q, t) = Count(Tail(q), t) + (IF Head(q) = t THEN 1 ELSE 0)
<1> DEFINE W == Where(Tail(q), t)
           V == Where(q, t) \ {1}
           f == [i \in W |-> i + 1]
<1>1. /\ DOMAIN q = 1 .. Len(q) /\ Len(q) \in Nat \ {0}
      /\ Tail(q) \in Seq(S)
      /\ DOMAIN Tail(q) = 1 .. Len(q) - 1
      /\ \A i \in 1 .. Len(q) - 1 : Tail(q)[i] = q[i + 1]
      /\ Head(q) = q[1]
  BY LenProperties, EmptySeq, HeadTailProperties
<1>2. f \in [W -> V]
  BY <1>1 DEF Where
<1>3. \A i, j \in W : f[i] = f[j] => i = j
  BY <1>1 DEF Where
<1>4. ASSUME NEW v \in V PROVE \E i \in W : f[i] = v
  <2>1. v - 1 \in W /\ f[v - 1] = v
    BY <1>1 DEF Where
  <2> QED
    BY <2>1
<1> HIDE DEF f
<1>5. f \in Bijection(W, V)
  BY <1>2, <1>3, <1>4, Fun_IsBij
<1>6. IsFiniteSet(W) /\ Count(Tail(q), t) \in Nat
  BY <1>1, CountNat
<1>7. Cardinality(V) = Cardinality(W)
  BY <1>5, <1>6, FS_Bijection DEF ExistsBijection
<1>8. IsFiniteSet(Where(q, t)) /\ Count(q, t) \in Nat
  BY CountNat
<1>9. 1 \in Where(q, t) <=> Head(q) = t
  BY <1>1 DEF Where
<1>10. Cardinality(V) = IF Head(q) = t THEN Count(q, t) - 1 ELSE Count(q, t)
  BY <1>8, <1>9, FS_RemoveElement DEF Count
<1> QED
  BY <1>6, <1>7, <1>8, <1>10 DEF Count

-----------------------------------------------------------------------------
(* Type correctness.                                                       *)

\* The attempts at the events of the LLM stream.
Spent == {d \in Text \X (1 .. MaxDeliver) : d[2] <= textTries[d[1]]}

\* No answer without an attempt, so the TTS stream has room for all of them.
Room == Len(answers) + (IF thinking = Idle THEN 0 ELSE 1) <= Cardinality(Spent)

\* What a handler is at is an event of its stream.
InHand ==
  /\ thinking # Idle => thinking[2] \in DOMAIN texts
  /\ speaking # Idle => speaking[2] \in DOMAIN answers

TypeInv == TypeOK /\ Room /\ InHand

LEMMA Bounds == MaxTexts * MaxDeliver \in Nat
  BY CallAssumption

LEMMA SpentBounded ==
  /\ IsFiniteSet(Text \X (1 .. MaxDeliver))
  /\ IsFiniteSet(Spent) /\ Cardinality(Spent) \in Nat
  /\ Cardinality(Spent) <= MaxTexts * MaxDeliver
<1>1. MaxTexts \in Int /\ MaxDeliver \in Int /\ ~(1 > MaxDeliver) /\ MaxTexts \in Nat
  BY CallAssumption
<1>2. /\ IsFiniteSet(Text) /\ Cardinality(Text) = MaxTexts
      /\ IsFiniteSet(1 .. MaxDeliver) /\ Cardinality(1 .. MaxDeliver) = MaxDeliver
  BY <1>1, FS_Interval DEF Text
<1>3. /\ IsFiniteSet(Text \X (1 .. MaxDeliver))
      /\ Cardinality(Text \X (1 .. MaxDeliver)) = MaxTexts * MaxDeliver
  BY <1>2, FS_Product
<1>4. Spent \in SUBSET (Text \X (1 .. MaxDeliver))
  BY DEF Spent
<1>5. IsFiniteSet(Spent) /\ Cardinality(Spent) <= MaxTexts * MaxDeliver
  BY <1>3, <1>4, FS_Subset
<1> QED
  BY <1>3, <1>5, FS_CardinalityType

\* An attempt is a new one.
LEMMA SpentGrows ==
  ASSUME TypeOK, NEW i \in Text, textTries[i] < MaxDeliver,
         textTries' = [textTries EXCEPT ![i] = @ + 1]
  PROVE  Cardinality(Spent') = Cardinality(Spent) + 1
<1> DEFINE d == <<i, textTries[i] + 1>>
<1>1. textTries \in [Text -> 0 .. MaxDeliver] /\ MaxDeliver \in Nat
  BY CallAssumption DEF TypeOK
<1>2. d \in Text \X (1 .. MaxDeliver) /\ d \notin Spent
  BY <1>1 DEF Spent
<1>3. \A e \in Text \X (1 .. MaxDeliver) : e \in Spent' <=> e \in Spent \/ e = d
  BY <1>1 DEF Spent
<1>4. Spent' = Spent \cup {d}
  BY <1>2, <1>3 DEF Spent
<1> QED
  BY <1>2, <1>4, SpentBounded, FS_AddElement

LEMMA InitType == Init => TypeInv
<1> SUFFICES ASSUME Init PROVE TypeInv
  OBVIOUS
<1>1. <<>> \in Seq(Text) /\ <<>> \in Seq(Message) /\ <<>> \in Seq(Event) /\ Len(<<>>) = 0
      /\ <<>> \in Seq({"user", "assistant"} \X Text)
  BY EmptySeq
<1>2. TypeOK
  BY <1>1, Bounds, CallAssumption DEF Init, TypeOK, Idle
<1>3. Room /\ InHand
  BY <1>1, SpentBounded DEF Init, Room, InHand
<1> QED
  BY <1>2, <1>3 DEF TypeInv

\* The type invariant in parts, each of the variables that some steps change.
ConnType ==
  /\ conn \in [Session -> {"none", "open", "closed", "over"}]
  /\ loop \in [Session -> {"select", "start", "media", "end"}]
  /\ started \in [Session -> BOOLEAN] /\ format \in [Session -> BOOLEAN]
  /\ heard \in [Session -> BOOLEAN]
RelayType ==
  /\ sub \in [Session -> {"none", "spawned", "listening"}]
  /\ inbox \in [Session -> Seq(Text)]
  /\ holding \in [Session -> Message \cup {Nothing}]
  /\ sent \in [Session -> Seq(Message)]
ChannelType ==
  /\ channel \in [Session -> Seq(Message)]
  /\ \A s \in Session : Len(channel[s]) <= ChannelCap
TextType == texts \in Seq(Event) /\ Len(texts) <= MaxTexts
ThinkType ==
  /\ textTries \in [Text -> 0 .. MaxDeliver] /\ textNaks \subseteq Text
  /\ thinking \in {Idle} \cup {"generating", "publishing"} \X Text
SayType == conversation \in [Session -> Seq({"user", "assistant"} \X Text)]
AnswerType == answers \in Seq(Text) /\ Len(answers) <= MaxTexts * MaxDeliver
SpeakType ==
  /\ answerTries \in [Answer -> 0 .. MaxDeliver] /\ answerNaks \subseteq Answer
  /\ speaking \in {Idle} \cup {"synthesizing", "publishing"} \X Answer
PastType == faults \in 0 .. MaxFaults /\ failed \subseteq Text /\ missed \subseteq Text

LEMMA TypeParts ==
  TypeOK <=> /\ ConnType /\ RelayType /\ ChannelType /\ TextType /\ ThinkType /\ SayType
             /\ AnswerType /\ SpeakType /\ PastType
  BY DEF TypeOK, ConnType, RelayType, ChannelType, TextType, ThinkType, SayType, AnswerType,
         SpeakType, PastType

LEMMA TypeWhole ==
  /\ ConnType' /\ RelayType' /\ ChannelType' /\ TextType' /\ ThinkType' /\ SayType'
  /\ AnswerType' /\ SpeakType' /\ PastType'
  => TypeOK'
  BY DEF TypeOK, ConnType, RelayType, ChannelType, TextType, ThinkType, SayType, AnswerType,
         SpeakType, PastType

LEMMA TypeStays ==
  /\ UNCHANGED <<conn, loop, started, format, heard>> /\ ConnType => ConnType'
  /\ UNCHANGED <<sub, inbox, holding, sent>> /\ RelayType => RelayType'
  /\ UNCHANGED channel /\ ChannelType => ChannelType'
  /\ UNCHANGED texts /\ TextType => TextType'
  /\ UNCHANGED <<textTries, textNaks, thinking>> /\ ThinkType => ThinkType'
  /\ UNCHANGED conversation /\ SayType => SayType'
  /\ UNCHANGED answers /\ AnswerType => AnswerType'
  /\ UNCHANGED <<answerTries, answerNaks, speaking>> /\ SpeakType => SpeakType'
  /\ UNCHANGED <<faults, failed, missed>> /\ PastType => PastType'
  BY DEF ConnType, RelayType, ChannelType, TextType, ThinkType, SayType, AnswerType, SpeakType,
         PastType

LEMMA NextCallType ==
  ASSUME TypeOK, NEW s \in Session,
         \/ Caller(s) \/ Publication(s) \/ Relay(s) \/ RelayTask(s)
         \/ Transcribe(s) \/ EndConversation(s)
  PROVE  TypeOK'
<1>0. /\ ConnType /\ RelayType /\ ChannelType /\ TextType /\ ThinkType /\ SayType
      /\ AnswerType /\ SpeakType /\ PastType
  BY TypeParts
<1>1. CASE Connect(s)
  <2>1. ConnType' /\ RelayType'
    BY <1>0, <1>1 DEF Connect, ConnType, RelayType
  <2> QED
    BY <1>0, <1>1, <2>1, TypeStays, TypeWhole DEF Connect
<1>2. CASE ReadStart(s) \/ ReadMedia(s) \/ ReadClose(s) \/ Publication(s)
  <2>1. ConnType'
    BY <1>0, <1>2 DEF ReadStart, ReadMedia, ReadClose, Publication, Published, PublishFails,
                      PublishEnd, Await, ConnType
  <2> QED
    BY <1>0, <1>2, <2>1, TypeStays, TypeWhole
    DEF ReadStart, ReadMedia, ReadClose, Publication, Published, PublishFails, PublishEnd
<1>3. CASE End(s)
  <2>1. <<>> \in Seq(Message) /\ Len(<<>>) = 0
    BY EmptySeq
  <2>2. ChannelType'
    BY <1>0, <1>3, <2>1, CallAssumption DEF End, ChannelType
  <2>3. ConnType'
    BY <1>0, <1>3 DEF End, ConnType
  <2> QED
    BY <1>0, <1>3, <2>2, <2>3, TypeStays, TypeWhole DEF End
<1>4. CASE Relay(s)
  <2>1. channel[s] \in Seq(Message) /\ channel[s] # <<>> /\ sent[s] \in Seq(Message)
    BY <1>0, <1>4 DEF Relay, ChannelType, RelayType
  <2>2. /\ Tail(channel[s]) \in Seq(Message) /\ Head(channel[s]) \in Message
        /\ Len(Tail(channel[s])) = Len(channel[s]) - 1 /\ Len(channel[s]) \in Nat
    BY <2>1, HeadTailProperties, LenProperties
  <2>3. Append(sent[s], Head(channel[s])) \in Seq(Message)
    BY <2>1, <2>2, AppendProperties
  <2>4. ChannelType'
    BY <1>0, <1>4, <2>2, CallAssumption DEF Relay, ChannelType
  <2>5. RelayType'
    BY <1>0, <1>4, <2>3 DEF Relay, RelayType
  <2> QED
    BY <1>0, <1>4, <2>4, <2>5, TypeStays, TypeWhole DEF Relay
<1>5. CASE Subscribe(s)
  <2>1. RelayType'
    BY <1>0, <1>5 DEF Subscribe, RelayType
  <2> QED
    BY <1>0, <1>5, <2>1, TypeStays, TypeWhole DEF Subscribe
<1>6. CASE Compose(s)
  <2>1. Tail(inbox[s]) \in Seq(Text) /\ Head(inbox[s]) \in Text /\ started[s] \in BOOLEAN
    BY <1>0, <1>6, HeadTailProperties DEF Compose, RelayType, ConnType
  <2>2. [text |-> Head(inbox[s]), named |-> started[s]] \in Message
    BY <2>1 DEF Message
  <2>3. RelayType'
    BY <1>0, <1>6, <2>1, <2>2 DEF Compose, RelayType
  <2> QED
    BY <1>0, <1>6, <2>3, TypeStays, TypeWhole DEF Compose
<1>7. CASE Forward(s)
  <2>1. holding[s] \in Message /\ channel[s] \in Seq(Message)
    BY <1>0, <1>7 DEF Forward, RelayType, ChannelType
  <2>2. /\ Append(channel[s], holding[s]) \in Seq(Message)
        /\ Len(Append(channel[s], holding[s])) = Len(channel[s]) + 1 /\ Len(channel[s]) \in Nat
    BY <2>1, AppendProperties, LenProperties
  <2>3. ChannelType'
    BY <1>0, <1>7, <2>2, CallAssumption DEF Forward, ChannelType
  <2>4. RelayType'
    BY <1>0, <1>7 DEF Forward, RelayType
  <2> QED
    BY <1>0, <1>7, <2>3, <2>4, TypeStays, TypeWhole DEF Forward
<1>8. CASE Transcribe(s) \/ EndConversation(s)
  <2>1. PICK k \in {"transcription", "end"} :
          /\ Len(texts) < MaxTexts
          /\ texts' = Append(texts, [session |-> s, kind |-> k])
    BY <1>8 DEF Transcribe, EndConversation
  <2>2. [session |-> s, kind |-> k] \in Event /\ texts \in Seq(Event) /\ Len(texts) \in Nat
    BY <1>0, LenProperties DEF Event, TextType
  <2>3. texts' \in Seq(Event) /\ Len(texts') = Len(texts) + 1
    BY <2>1, <2>2, AppendProperties
  <2>4. TextType'
    BY <2>1, <2>2, <2>3, CallAssumption DEF TextType
  <2> QED
    BY <1>0, <1>8, <2>4, TypeStays, TypeWhole DEF Transcribe, EndConversation
<1> QED
  BY <1>1, <1>2, <1>3, <1>4, <1>5, <1>6, <1>7, <1>8 DEF Caller, RelayTask

LEMMA SaidType ==
  ASSUME SayType, NEW s \in Session, NEW r \in {"user", "assistant"}, NEW t \in Text
  PROVE  (Say(s, r, t) => SayType') /\ (Forget(s) => SayType')
<1>1. <<r, t>> \in {"user", "assistant"} \X Text
  OBVIOUS
<1>2. conversation[s] \in Seq({"user", "assistant"} \X Text)
  BY DEF SayType
<1>3. /\ Append(conversation[s], <<r, t>>) \in Seq({"user", "assistant"} \X Text)
      /\ <<>> \in Seq({"user", "assistant"} \X Text)
  BY <1>1, <1>2, AppendProperties, EmptySeq
<1> QED
  BY <1>3 DEF SayType, Say, Forget

LEMMA IndexType ==
  ASSUME TypeOK
  PROVE  /\ DOMAIN texts \subseteq Text /\ DOMAIN answers \subseteq Answer
         /\ \A i \in DOMAIN texts : texts[i] \in Event /\ texts[i].session \in Session
         /\ \A a \in DOMAIN answers : answers[a] \in Text
         /\ thinking # Idle => thinking[2] \in Text
         /\ speaking # Idle => speaking[2] \in Answer
<1>1. texts \in Seq(Event) /\ answers \in Seq(Text)
  BY DEF TypeOK
<1>2. /\ DOMAIN texts = 1 .. Len(texts) /\ Len(texts) \in Nat
      /\ DOMAIN answers = 1 .. Len(answers) /\ Len(answers) \in Nat
  BY <1>1, LenProperties
<1>3. \A i \in DOMAIN texts : texts[i] \in Event
  BY <1>1, <1>2, ElementOfSeq
<1>4. \A a \in DOMAIN answers : answers[a] \in Text
  BY <1>1, <1>2, ElementOfSeq
<1>5. DOMAIN texts \subseteq Text /\ DOMAIN answers \subseteq Answer
  BY <1>2, Bounds, CallAssumption DEF TypeOK, Text, Answer
<1>6. \A i \in DOMAIN texts : texts[i].session \in Session
  BY <1>3 DEF Event
<1>7. /\ thinking # Idle => thinking[2] \in Text
      /\ speaking # Idle => speaking[2] \in Answer
  BY DEF TypeOK
<1> QED
  BY <1>3, <1>4, <1>5, <1>6, <1>7

LEMMA NextLlmType == TypeInv /\ (Llm \/ LlmCrash) => TypeOK'
<1> SUFFICES ASSUME TypeInv, Llm \/ LlmCrash PROVE TypeOK'
  OBVIOUS
<1>0. /\ ConnType /\ RelayType /\ ChannelType /\ TextType /\ ThinkType /\ SayType
      /\ AnswerType /\ SpeakType /\ PastType /\ TypeOK
  BY TypeParts DEF TypeInv
<1>1. ASSUME NEW i \in DOMAIN texts, TakeText(i) PROVE TypeOK'
  <2>1. i \in Text /\ texts[i].session \in Session
    BY <1>0, IndexType
  <2>2. ThinkType'
    BY <1>0, <1>1, <2>1, CallAssumption DEF TakeText, Deliverable, ThinkType
  <2>3. SayType'
    BY <1>0, <1>1, <2>1, SaidType DEF TakeText
  <2>4. PastType'
    BY <1>0, <1>1, CallAssumption DEF TakeText, Deliverable, Fault, PastType
  <2> QED
    BY <1>0, <1>1, <2>2, <2>3, <2>4, TypeStays, TypeWhole DEF TakeText
<1>2. thinking[1] \in {"generating", "publishing"} => thinking # Idle /\ thinking[2] \in Text
  BY <1>0, IndexType DEF Idle
<1>3. CASE Generate
  <2>1. ThinkType'
    BY <1>0, <1>2, <1>3 DEF Generate, ThinkType
  <2>2. SayType'
    BY <1>0, <1>2, <1>3, IndexType, SaidType DEF Generate, TypeInv, InHand
  <2> QED
    BY <1>0, <1>3, <2>1, <2>2, TypeStays, TypeWhole DEF Generate
<1>4. CASE GenerateFails \/ PublishAnswerFails
  <2>1. ThinkType'
    BY <1>0, <1>2, <1>4 DEF GenerateFails, PublishAnswerFails, ThinkType
  <2>2. PastType'
    BY <1>0, <1>2, <1>4, CallAssumption
    DEF GenerateFails, PublishAnswerFails, Fault, PastType
  <2> QED
    BY <1>0, <1>4, <2>1, <2>2, TypeStays, TypeWhole DEF GenerateFails, PublishAnswerFails
<1>5. CASE LlmCrash
  <2>1. <<>> \in Seq({"user", "assistant"} \X Text)
    BY EmptySeq
  <2>2. SayType'
    BY <1>5, <2>1 DEF LlmCrash, SayType
  <2>3. ThinkType'
    BY <1>0, <1>5, IndexType DEF LlmCrash, ThinkType
  <2>4. PastType'
    BY <1>0, <1>5, CallAssumption DEF LlmCrash, Fault, PastType
  <2> QED
    BY <1>0, <1>5, <2>2, <2>3, <2>4, TypeStays, TypeWhole DEF LlmCrash
<1>6. CASE PublishAnswer
  <2>1. answers \in Seq(Text) /\ Len(answers) \in Nat
    BY <1>0, LenProperties DEF AnswerType
  <2>2. Len(answers) + 1 <= MaxTexts * MaxDeliver
    BY <1>2, <1>6, <2>1, SpentBounded, Bounds DEF PublishAnswer, TypeInv, Room
  <2>3. answers' \in Seq(Text) /\ Len(answers') = Len(answers) + 1
    BY <1>2, <1>6, <2>1, AppendProperties DEF PublishAnswer
  <2>4. AnswerType'
    BY <2>2, <2>3 DEF AnswerType
  <2>5. ThinkType'
    BY <1>0, <1>6 DEF PublishAnswer, ThinkType
  <2> QED
    BY <1>0, <1>6, <2>4, <2>5, TypeStays, TypeWhole DEF PublishAnswer
<1> QED
  BY <1>1, <1>3, <1>4, <1>5, <1>6 DEF Llm

LEMMA NextTtsType == TypeInv /\ Tts => TypeOK'
<1> SUFFICES ASSUME TypeInv, Tts PROVE TypeOK'
  OBVIOUS
<1>0. /\ ConnType /\ RelayType /\ ChannelType /\ TextType /\ ThinkType /\ SayType
      /\ AnswerType /\ SpeakType /\ PastType /\ TypeOK
  BY TypeParts DEF TypeInv
<1>1. ASSUME NEW i \in DOMAIN answers, TakeAnswer(i) PROVE TypeOK'
  <2>1. i \in Answer
    BY <1>0, IndexType
  <2>2. SpeakType'
    BY <1>0, <1>1, <2>1, CallAssumption DEF TakeAnswer, Deliverable, SpeakType
  <2>3. PastType'
    BY <1>0, <1>1, CallAssumption DEF TakeAnswer, Deliverable, Fault, PastType
  <2> QED
    BY <1>0, <1>1, <2>2, <2>3, TypeStays, TypeWhole DEF TakeAnswer
<1>2. speaking[1] \in {"synthesizing", "publishing"} => speaking # Idle
  BY DEF Idle
<1>3. speaking # Idle => speaking[2] \in Answer /\ answers[speaking[2]] \in Text
  BY <1>0, IndexType DEF TypeInv, InHand
<1>4. CASE Synthesize
  <2>1. SpeakType'
    BY <1>0, <1>2, <1>3, <1>4 DEF Synthesize, SpeakType
  <2> QED
    BY <1>0, <1>4, <2>1, TypeStays, TypeWhole DEF Synthesize
<1>5. CASE SynthesizeFails \/ PublishAudioFails
  <2>1. SpeakType'
    BY <1>0, <1>2, <1>3, <1>5 DEF SynthesizeFails, PublishAudioFails, SpeakType
  <2>2. PastType'
    BY <1>0, <1>2, <1>3, <1>5, CallAssumption
    DEF SynthesizeFails, PublishAudioFails, Fault, PastType
  <2> QED
    BY <1>0, <1>5, <2>1, <2>2, TypeStays, TypeWhole DEF SynthesizeFails, PublishAudioFails
<1>6. CASE PublishAudio
  <2> DEFINE t == answers[speaking[2]]
             s == texts[t].session
  <2>1. t \in Text /\ speaking' = Idle
    BY <1>2, <1>3, <1>6 DEF PublishAudio
  <2>2. \A x \in Session : Append(inbox[x], t) \in Seq(Text)
    BY <1>0, <2>1, AppendProperties DEF RelayType
  <2>3. /\ inbox' \in {inbox, [inbox EXCEPT ![s] = Append(@, t)]}
        /\ missed' \in {missed, missed \cup {t}}
    BY <1>6 DEF PublishAudio
  <2>4. UNCHANGED <<sub, holding, sent, answerTries, answerNaks, faults, failed>>
    BY <1>6 DEF PublishAudio
  <2> HIDE DEF t, s
  <2>5. RelayType'
    <3>1. inbox \in [Session -> Seq(Text)]
      BY <1>0 DEF RelayType
    <3>2. inbox' \in [Session -> Seq(Text)]
      BY <2>2, <2>3, <3>1
    <3> QED
      BY <1>0, <2>4, <3>2 DEF RelayType
  <2>6. SpeakType' /\ PastType'
    BY <1>0, <2>1, <2>3, <2>4 DEF SpeakType, PastType
  <2> QED
    BY <1>0, <1>6, <2>5, <2>6, TypeStays, TypeWhole DEF PublishAudio
<1> QED
  BY <1>1, <1>4, <1>5, <1>6 DEF Tts

\* What the steps of each task leave alone.
LEMMA CallLeaves ==
  ASSUME NEW s \in Session, Caller(s) \/ Publication(s)
  PROVE  UNCHANGED <<inbox, holding, sent, texts, textTries, textNaks, thinking, conversation,
                     answers, answerTries, answerNaks, speaking, faults, failed, missed>>
  BY DEF Caller, Connect, ReadStart, ReadMedia, ReadClose, End, Publication, Published,
         PublishFails, PublishEnd

LEMMA RelayLeaves ==
  ASSUME NEW s \in Session, Relay(s) \/ RelayTask(s)
  PROVE  UNCHANGED <<conn, loop, started, format, heard, texts, textTries, textNaks, thinking,
                     conversation, answers, answerTries, answerNaks, speaking, faults, failed,
                     missed>>
  BY DEF Relay, RelayTask, Subscribe, Compose, Forward

LEMMA TextLeaves ==
  ASSUME NEW s \in Session, Transcribe(s) \/ EndConversation(s)
  PROVE  UNCHANGED <<conn, loop, started, format, heard, sub, inbox, holding, channel, sent,
                     textTries, textNaks, thinking, conversation, answers, answerTries,
                     answerNaks, speaking, faults, failed, missed>>
  BY DEF Transcribe, EndConversation

LEMMA LlmLeaves ==
  ASSUME Llm \/ LlmCrash
  PROVE  UNCHANGED <<conn, loop, started, format, heard, sub, inbox, holding, channel, sent,
                     texts, answerTries, answerNaks, speaking, missed>>
  BY DEF Llm, TakeText, Generate, GenerateFails, PublishAnswer, PublishAnswerFails, LlmCrash

LEMMA TtsLeaves ==
  ASSUME Tts
  PROVE  UNCHANGED <<conn, loop, started, format, heard, sub, holding, channel, sent, texts,
                     textTries, textNaks, thinking, conversation, answers>>
  BY DEF Tts, TakeAnswer, Synthesize, SynthesizeFails, PublishAudio, PublishAudioFails

\* Streams only grow.
LEMMA StreamsGrow ==
  ASSUME TypeOK, [Next]_vars
  PROVE  /\ \A i \in DOMAIN texts : i \in DOMAIN texts' /\ texts'[i] = texts[i]
         /\ \A a \in DOMAIN answers : a \in DOMAIN answers' /\ answers'[a] = answers[a]
<1>1. texts \in Seq(Event) /\ answers \in Seq(Text)
  BY DEF TypeOK
<1>2. ASSUME NEW s \in Session, Transcribe(s) \/ EndConversation(s)
      PROVE  \A i \in DOMAIN texts : i \in DOMAIN texts' /\ texts'[i] = texts[i]
  <2>1. PICK e \in Event : texts' = Append(texts, e)
    BY <1>2 DEF Transcribe, EndConversation, Event
  <2> QED
    BY <1>1, <2>1, LenProperties, AppendProperties
<1>3. ASSUME PublishAnswer
      PROVE  \A a \in DOMAIN answers : a \in DOMAIN answers' /\ answers'[a] = answers[a]
  <2>1. thinking[2] \in Text
    BY <1>3, IndexType DEF PublishAnswer, Idle
  <2> QED
    BY <1>1, <1>3, <2>1, LenProperties, AppendProperties DEF PublishAnswer
<1>4. (Llm /\ ~PublishAnswer) \/ LlmCrash => UNCHANGED answers
  BY DEF Llm, TakeText, Generate, GenerateFails, PublishAnswerFails, LlmCrash
<1>5. CASE UNCHANGED vars
  BY <1>5 DEF vars
<1> QED
  BY <1>2, <1>3, <1>4, <1>5, CallLeaves, RelayLeaves, TextLeaves, LlmLeaves, TtsLeaves
  DEF Next, Llm

LEMMA NextInHand == TypeInv /\ [Next]_vars => InHand'
<1> SUFFICES ASSUME TypeInv, [Next]_vars PROVE InHand'
  OBVIOUS
<1>1. /\ DOMAIN texts \subseteq DOMAIN texts' /\ DOMAIN answers \subseteq DOMAIN answers'
      /\ InHand
  BY StreamsGrow DEF TypeInv
<1>2. thinking' = thinking \/ thinking' = Idle \/ thinking'[2] \in DOMAIN texts
  <2>1. CASE Llm \/ LlmCrash
    BY <1>1, <2>1 DEF Llm, TakeText, Generate, GenerateFails, PublishAnswer, PublishAnswerFails,
                      LlmCrash, InHand, Idle
  <2>2. CASE UNCHANGED vars
    BY <2>2 DEF vars
  <2> QED
    BY <2>1, <2>2, CallLeaves, RelayLeaves, TextLeaves, TtsLeaves DEF Next
<1>3. speaking' = speaking \/ speaking' = Idle \/ speaking'[2] \in DOMAIN answers
  <2>1. ASSUME NEW i \in DOMAIN answers, TakeAnswer(i)
        PROVE  speaking' = Idle \/ speaking'[2] \in DOMAIN answers
    BY <2>1 DEF TakeAnswer
  <2>2. CASE Synthesize
    BY <1>1, <2>2 DEF Synthesize, InHand, Idle
  <2>3. CASE SynthesizeFails \/ PublishAudio \/ PublishAudioFails \/ UNCHANGED vars
    BY <2>3 DEF SynthesizeFails, PublishAudio, PublishAudioFails, vars
  <2> QED
    BY <2>1, <2>2, <2>3, CallLeaves, RelayLeaves, TextLeaves, LlmLeaves DEF Next, Tts
<1> QED
  BY <1>1, <1>2, <1>3 DEF InHand

LEMMA NextRoom == TypeInv /\ [Next]_vars => Room'
<1> SUFFICES ASSUME TypeInv, [Next]_vars PROVE Room'
  OBVIOUS
<1>0. Room /\ TypeOK /\ Len(answers) \in Nat /\ Cardinality(Spent) \in Nat
  BY SpentBounded, LenProperties DEF TypeInv, TypeOK
<1>1. CASE UNCHANGED <<answers, textTries>> /\ (thinking' = Idle \/ thinking # Idle)
  BY <1>0, <1>1 DEF Room, Spent
<1>2. ASSUME NEW i \in DOMAIN texts, TakeText(i) PROVE Room'
  <2>1. /\ textTries' = [textTries EXCEPT ![i] = @ + 1] /\ textTries[i] < MaxDeliver
        /\ thinking = Idle /\ answers' = answers
    BY <1>2 DEF TakeText, Deliverable
  <2>2. Cardinality(Spent') = Cardinality(Spent) + 1
    BY <1>0, <2>1, IndexType, SpentGrows
  <2> QED
    BY <1>0, <2>1, <2>2 DEF Room
<1>3. CASE PublishAnswer
  <2>1. thinking # Idle /\ thinking[2] \in Text /\ answers \in Seq(Text)
    BY <1>0, <1>3, IndexType DEF PublishAnswer, Idle, TypeOK
  <2>2. Len(answers') = Len(answers) + 1 /\ thinking' = Idle /\ textTries' = textTries
    BY <1>3, <2>1, AppendProperties DEF PublishAnswer
  <2> QED
    BY <1>0, <2>1, <2>2 DEF Room, Spent
<1>4. CASE Generate \/ GenerateFails \/ PublishAnswerFails \/ LlmCrash
  <2>1. UNCHANGED <<answers, textTries>> /\ (thinking' = Idle \/ thinking # Idle)
    BY <1>4 DEF Generate, GenerateFails, PublishAnswerFails, LlmCrash, Idle
  <2> QED
    BY <1>1, <2>1
<1>5. CASE UNCHANGED <<answers, textTries, thinking>>
  BY <1>1, <1>5
<1>6. CASE UNCHANGED vars
  BY <1>5, <1>6 DEF vars
<1> QED
  BY <1>2, <1>3, <1>4, <1>5, <1>6, CallLeaves, RelayLeaves, TextLeaves, TtsLeaves DEF Next, Llm

LEMMA TypeInvariant == Spec => []TypeInv
<1>1. TypeInv /\ [Next]_vars => TypeOK'
  <2>1. TypeInv /\ UNCHANGED vars => TypeOK'
    BY TypeParts, TypeStays, TypeWhole DEF TypeInv, vars
  <2> QED
    BY <2>1, NextCallType, NextLlmType, NextTtsType DEF Next, TypeInv
<1>2. TypeInv /\ [Next]_vars => TypeInv'
  BY <1>1, NextRoom, NextInHand DEF TypeInv
<1> QED
  BY <1>2, InitType, PTL DEF Spec

\* The type invariant holds in every reachable state: among other things, however
\* often transcriptions are delivered again, no more answers are published than the
\* bound on attempts allows.
THEOREM TypeCorrect == Spec => []TypeOK
<1>1. TypeInv => TypeOK
  BY DEF TypeInv
<1> QED
  BY <1>1, TypeInvariant, PTL

-----------------------------------------------------------------------------
(* Nothing is said before a start was read.                                *)

\* Media is published, and heard, of sessions that read a start.
StartedOK == \A s \in Session : loop[s] = "media" \/ heard[s] => started[s]

\* A transcription is of a session that was heard; what the handlers are at, what was
\* published for the TTS service and what a relay task got answers a transcription.
Asked(t) == t \in DOMAIN texts /\ texts[t].kind = "transcription"
HeardOK == \A i \in DOMAIN texts : texts[i].kind = "transcription" => heard[texts[i].session]
AskedOK ==
  /\ thinking # Idle => Asked(thinking[2])
  /\ \A a \in DOMAIN answers : Asked(answers[a])
AudioOK ==
  \A s \in Session : \A i \in DOMAIN inbox[s] :
    Asked(inbox[s][i]) /\ texts[inbox[s][i]].session = s

\* A message on its way, or written, names what a start stored.
NamedOK ==
  \A s \in Session :
    /\ holding[s] # Nothing => holding[s].named
    /\ \A i \in DOMAIN channel[s] : channel[s][i].named
    /\ \A i \in DOMAIN sent[s] : sent[s][i].named

StreamInv == StartedOK /\ HeardOK /\ AskedOK /\ AudioOK /\ NamedOK

LEMMA NextStarted ==
  ASSUME TypeOK, StartedOK, [Next]_vars
  PROVE  StartedOK' /\ \A s \in Session : heard[s] => heard'[s]
<1> USE DEF StartedOK
<1>1. ASSUME NEW s \in Session, Caller(s) \/ Publication(s)
      PROVE  StartedOK' /\ \A x \in Session : heard[x] => heard'[x]
  <2> USE DEF Await, TypeOK
  <2>1. CASE Connect(s) \/ End(s)
    BY <2>1 DEF Connect, End
  <2>2. CASE ReadStart(s)
    BY <2>2 DEF ReadStart
  <2>3. CASE ReadMedia(s) \/ ReadClose(s)
    BY <2>3 DEF ReadMedia, ReadClose
  <2>4. CASE Published(s)
    BY <2>4 DEF Published
  <2>5. CASE PublishFails(s) \/ PublishEnd(s)
    BY <2>5 DEF PublishFails, PublishEnd
  <2> QED
    BY <1>1, <2>1, <2>2, <2>3, <2>4, <2>5 DEF Caller, Publication
<1>2. CASE UNCHANGED <<loop, heard, started>>
  BY <1>2
<1>3. CASE UNCHANGED vars
  BY <1>3 DEF vars
<1> QED
  BY <1>1, <1>2, <1>3, RelayLeaves, TextLeaves, LlmLeaves, TtsLeaves DEF Next

LEMMA AskedStays ==
  ASSUME TypeOK, [Next]_vars, NEW t, Asked(t)
  PROVE  Asked(t)' /\ texts'[t] = texts[t]
  BY StreamsGrow DEF Asked

LEMMA NextHeard ==
  ASSUME TypeOK, StartedOK, HeardOK, [Next]_vars
  PROVE  HeardOK'
<1>1. \A i \in DOMAIN texts : texts[i].session \in Session
  BY IndexType
<1>2. \A i \in DOMAIN texts : texts'[i] = texts[i] /\ heard[texts[i].session] => heard'[texts[i].session]
  BY <1>1, NextStarted
<1>3. CASE texts' = texts
  BY <1>2, <1>3 DEF HeardOK
<1>4. ASSUME NEW s \in Session, Transcribe(s) \/ EndConversation(s) PROVE HeardOK'
  <2>1. PICK e \in Event : /\ texts' = Append(texts, e) /\ heard' = heard
                           /\ e.kind = "transcription" => heard[e.session]
    BY <1>4 DEF Transcribe, EndConversation, Event
  <2>2. /\ DOMAIN texts = 1 .. Len(texts) /\ Len(texts) \in Nat
        /\ DOMAIN texts' = 1 .. Len(texts) + 1
        /\ \A i \in 1 .. Len(texts) : texts'[i] = texts[i]
        /\ texts'[Len(texts) + 1] = e
    BY <2>1, LenProperties, AppendProperties DEF TypeOK
  <2>3. \A i \in DOMAIN texts' : i \in DOMAIN texts \/ i = Len(texts) + 1
    BY <2>2
  <2> QED
    BY <2>1, <2>2, <2>3 DEF HeardOK
<1>5. CASE UNCHANGED vars
  BY <1>3, <1>5 DEF vars
<1> QED
  BY <1>3, <1>4, <1>5, CallLeaves, RelayLeaves, LlmLeaves, TtsLeaves DEF Next

LEMMA NextAsked ==
  ASSUME TypeOK, AskedOK, [Next]_vars
  PROVE  AskedOK'
<1>0. \A t : Asked(t) => Asked(t)'
  BY AskedStays
<1>1. thinking' = thinking \/ thinking' = Idle \/ Asked(thinking'[2])
  <2>1. ASSUME NEW i \in DOMAIN texts, TakeText(i)
        PROVE  thinking' = Idle \/ Asked(thinking'[2])
    <3>1. texts[i].kind \in {"transcription", "end"}
      BY IndexType DEF Event
    <3> QED
      BY <2>1, <3>1 DEF TakeText, Asked
  <2>2. CASE Generate
    BY <2>2 DEF Generate, AskedOK, Idle
  <2>3. CASE GenerateFails \/ PublishAnswer \/ PublishAnswerFails \/ LlmCrash \/ UNCHANGED vars
    BY <2>3 DEF GenerateFails, PublishAnswer, PublishAnswerFails, LlmCrash, vars
  <2> QED
    BY <2>1, <2>2, <2>3, CallLeaves, RelayLeaves, TextLeaves, TtsLeaves DEF Next, Llm
<1>2. CASE answers' = answers
  BY <1>0, <1>1, <1>2 DEF AskedOK
<1>3. CASE PublishAnswer
  <2>1. thinking # Idle /\ thinking[2] \in Text /\ answers \in Seq(Text)
    BY <1>3, IndexType DEF PublishAnswer, Idle, TypeOK
  <2>2. /\ DOMAIN answers = 1 .. Len(answers) /\ Len(answers) \in Nat
        /\ DOMAIN answers' = 1 .. Len(answers) + 1
        /\ \A a \in 1 .. Len(answers) : answers'[a] = answers[a]
        /\ answers'[Len(answers) + 1] = thinking[2]
    BY <1>3, <2>1, LenProperties, AppendProperties DEF PublishAnswer
  <2>3. \A a \in DOMAIN answers' : a \in DOMAIN answers \/ a = Len(answers) + 1
    BY <2>2
  <2>4. \A a \in DOMAIN answers' : Asked(answers'[a])
    BY <2>1, <2>2, <2>3 DEF AskedOK
  <2> QED
    BY <1>0, <1>1, <2>4 DEF AskedOK
<1>4. (Llm /\ ~PublishAnswer) \/ LlmCrash \/ UNCHANGED vars => answers' = answers
  BY DEF Llm, TakeText, Generate, GenerateFails, PublishAnswerFails, LlmCrash, vars
<1> QED
  BY <1>2, <1>3, <1>4, CallLeaves, RelayLeaves, TextLeaves, TtsLeaves DEF Next, Llm

\* Audio enters a subscription at its end.
LEMMA AudioArrives ==
  ASSUME TypeInv, PublishAudio
  PROVE  LET t == answers[speaking[2]]
             s == texts[t].session
         IN  /\ speaking # Idle /\ speaking[2] \in DOMAIN answers /\ t \in Text
             /\ speaking' = Idle
             /\ \/ inbox' = inbox
                \/ sub[s] = "listening" /\ inbox' = [inbox EXCEPT ![s] = Append(@, t)]
             /\ UNCHANGED <<holding, channel, sent, texts, answers, answerTries, textTries>>
  BY IndexType DEF PublishAudio, TypeInv, InHand, Idle

LEMMA NextAudio ==
  ASSUME TypeInv, AskedOK, AudioOK, [Next]_vars
  PROVE  AudioOK'
<1>0. /\ \A t : Asked(t) => Asked(t)' /\ texts'[t] = texts[t]
      /\ inbox \in [Session -> Seq(Text)]
  BY AskedStays DEF TypeInv, TypeOK
<1>1. CASE \A x \in Session : \A i \in DOMAIN inbox'[x] :
              Asked(inbox'[x][i]) /\ texts[inbox'[x][i]].session = x
  BY <1>0, <1>1 DEF AudioOK
<1>2. inbox' = inbox => AudioOK'
  BY <1>1 DEF AudioOK
<1>3. ASSUME NEW s \in Session, Compose(s) PROVE AudioOK'
  <2>1. inbox[s] \in Seq(Text) /\ inbox[s] # <<>> /\ inbox' = [inbox EXCEPT ![s] = Tail(@)]
    BY <1>0, <1>3 DEF Compose
  <2>2. \A i \in DOMAIN Tail(inbox[s]) :
          i + 1 \in DOMAIN inbox[s] /\ Tail(inbox[s])[i] = inbox[s][i + 1]
    BY <2>1, QueueHead
  <2>3. inbox'[s] = Tail(inbox[s]) /\ \A x \in Session \ {s} : inbox'[x] = inbox[x]
    BY <1>0, <2>1
  <2>4. ASSUME NEW x \in Session, NEW i \in DOMAIN inbox'[x]
        PROVE  Asked(inbox'[x][i]) /\ texts[inbox'[x][i]].session = x
    <3>1. CASE x = s
      <4>1. i + 1 \in DOMAIN inbox[s] /\ inbox'[x][i] = inbox[s][i + 1]
        BY <2>2, <2>3, <2>4, <3>1
      <4> QED
        BY <3>1, <4>1 DEF AudioOK
    <3>2. CASE x # s
      BY <2>3, <2>4, <3>2 DEF AudioOK
    <3> QED
      BY <3>1, <3>2
  <2> QED
    BY <1>1, <2>4
<1>4. CASE PublishAudio
  <2>1. PICK t, s :
          /\ t = answers[speaking[2]] /\ s = texts[t].session
          /\ \/ inbox' = inbox
             \/ inbox' = [inbox EXCEPT ![s] = Append(@, t)]
    BY <1>4, AudioArrives
  <2>2. Asked(t) /\ t \in Text
    BY <1>4, <2>1, AudioArrives DEF AskedOK
  <2>3. s \in Session
    BY <2>1, <2>2, IndexType DEF Asked, TypeInv
  <2>4. CASE inbox' = [inbox EXCEPT ![s] = Append(@, t)]
    <3>1. inbox'[s] = Append(inbox[s], t) /\ \A x \in Session \ {s} : inbox'[x] = inbox[x]
      BY <1>0, <2>3, <2>4
    <3>2. inbox[s] \in Seq(Text)
      BY <1>0, <2>3
    <3>3. \A i \in DOMAIN Append(inbox[s], t) :
            \/ i \in DOMAIN inbox[s] /\ Append(inbox[s], t)[i] = inbox[s][i]
            \/ Append(inbox[s], t)[i] = t
      BY <2>2, <3>2, QueueEnd
    <3>4. ASSUME NEW x \in Session, NEW i \in DOMAIN inbox'[x]
          PROVE  Asked(inbox'[x][i]) /\ texts[inbox'[x][i]].session = x
      <4>1. CASE x = s
        <5>1. \/ i \in DOMAIN inbox[s] /\ inbox'[x][i] = inbox[s][i]
              \/ inbox'[x][i] = t
          BY <3>1, <3>3, <3>4, <4>1
        <5>2. \A j \in DOMAIN inbox[s] :
                Asked(inbox[s][j]) /\ texts[inbox[s][j]].session = s
          BY <2>3 DEF AudioOK
        <5>3. Asked(t) /\ texts[t].session = s
          BY <2>1, <2>2
        <5> QED
          BY <4>1, <5>1, <5>2, <5>3
      <4>2. CASE x # s
        BY <3>1, <3>4, <4>2 DEF AudioOK
      <4> QED
        BY <4>1, <4>2
    <3> QED
      BY <1>1, <3>4
  <2> QED
    BY <1>2, <2>1, <2>4
<1>5. ASSUME NEW s \in Session, Relay(s) \/ Subscribe(s) \/ Forward(s) PROVE inbox' = inbox
  BY <1>5 DEF Relay, Subscribe, Forward
<1>6. (Tts /\ ~PublishAudio) \/ UNCHANGED vars => inbox' = inbox
  BY DEF Tts, TakeAnswer, Synthesize, SynthesizeFails, PublishAudioFails, vars
<1> QED
  BY <1>2, <1>3, <1>4, <1>5, <1>6, CallLeaves, TextLeaves, LlmLeaves DEF Next, RelayTask, Tts

LEMMA NextNamed ==
  ASSUME TypeInv, StreamInv, [Next]_vars
  PROVE  NamedOK'
<1> USE DEF NamedOK
<1>0. /\ holding \in [Session -> Message \cup {Nothing}] /\ channel \in [Session -> Seq(Message)]
      /\ sent \in [Session -> Seq(Message)] /\ inbox \in [Session -> Seq(Text)] /\ NamedOK
  BY DEF TypeInv, TypeOK, StreamInv
<1>1. CASE UNCHANGED <<holding, channel, sent>>
  BY <1>0, <1>1
<1>2. ASSUME NEW s \in Session, Relay(s) PROVE NamedOK'
  <2>1. /\ channel[s] \in Seq(Message) /\ channel[s] # <<>> /\ sent[s] \in Seq(Message)
        /\ sent' = [sent EXCEPT ![s] = Append(@, Head(channel[s]))]
        /\ channel' = [channel EXCEPT ![s] = Tail(@)] /\ holding' = holding
    BY <1>0, <1>2 DEF Relay
  <2>2. /\ 1 \in DOMAIN channel[s] /\ Head(channel[s]) = channel[s][1]
        /\ \A i \in DOMAIN Tail(channel[s]) :
             i + 1 \in DOMAIN channel[s] /\ Tail(channel[s])[i] = channel[s][i + 1]
    BY <2>1, QueueHead
  <2>3. \A i \in DOMAIN Append(sent[s], Head(channel[s])) :
          \/ Append(sent[s], Head(channel[s]))[i] = Head(channel[s])
          \/ i \in DOMAIN sent[s] /\ Append(sent[s], Head(channel[s]))[i] = sent[s][i]
    <3>1. Head(channel[s]) \in Message
      BY <2>1, QueueHead
    <3> QED
      BY <2>1, <3>1, QueueEnd
  <2>4. Head(channel[s]).named
    BY <1>0, <2>2
  <2>5. \A x \in Session \ {s} : sent'[x] = sent[x] /\ channel'[x] = channel[x]
    BY <1>0, <2>1
  <2>6. sent'[s] = Append(sent[s], Head(channel[s])) /\ channel'[s] = Tail(channel[s])
    BY <1>0, <2>1
  <2>7. \A i \in DOMAIN channel'[s] : channel'[s][i].named
    BY <1>0, <2>2, <2>6
  <2>8. \A i \in DOMAIN sent'[s] : sent'[s][i].named
    BY <1>0, <2>3, <2>4, <2>6
  <2>9. \A x \in Session : /\ \A i \in DOMAIN channel'[x] : channel'[x][i].named
                           /\ \A i \in DOMAIN sent'[x] : sent'[x][i].named
    BY <1>0, <2>5, <2>7, <2>8
  <2> QED
    BY <1>0, <2>1, <2>9
<1>3. ASSUME NEW s \in Session, Compose(s) PROVE NamedOK'
  <2>1. inbox[s] \in Seq(Text) /\ inbox[s] # <<>>
    BY <1>0, <1>3 DEF Compose
  <2>2. 1 \in DOMAIN inbox[s]
    BY <2>1, QueueHead
  <2>3. Asked(inbox[s][1]) /\ texts[inbox[s][1]].session = s
    BY <2>2 DEF StreamInv, AudioOK
  <2>4. started[s]
    BY <2>3 DEF StreamInv, HeardOK, StartedOK, Asked
  <2>5. /\ holding' = [holding EXCEPT ![s] = [text |-> Head(inbox[s]), named |-> started[s]]]
        /\ UNCHANGED <<channel, sent>>
    BY <1>3 DEF Compose
  <2> QED
    BY <1>0, <2>4, <2>5
<1>4. ASSUME NEW s \in Session, Forward(s) PROVE NamedOK'
  <2>1. /\ holding[s] \in Message /\ channel[s] \in Seq(Message)
        /\ channel' = channel \/ channel' = [channel EXCEPT ![s] = Append(@, holding[s])]
        /\ holding' = [holding EXCEPT ![s] = Nothing] /\ sent' = sent
    BY <1>0, <1>4 DEF Forward
  <2>2. holding[s].named
    BY <1>0, <1>4 DEF Forward
  <2>3. \A i \in DOMAIN Append(channel[s], holding[s]) :
          \/ Append(channel[s], holding[s])[i] = holding[s]
          \/ i \in DOMAIN channel[s] /\ Append(channel[s], holding[s])[i] = channel[s][i]
    BY <2>1, QueueEnd
  <2>4. \A x \in Session : \/ channel'[x] = channel[x]
                           \/ x = s /\ channel'[x] = Append(channel[s], holding[s])
    BY <1>0, <2>1
  <2>5. \A x \in Session : holding'[x] = holding[x] \/ holding'[x] = Nothing
    BY <1>0, <2>1
  <2>6. \A x \in Session : \A i \in DOMAIN channel'[x] : channel'[x][i].named
    BY <1>0, <2>2, <2>3, <2>4
  <2>7. \A x \in Session : holding'[x] # Nothing => holding'[x].named
    BY <1>0, <2>5
  <2> QED
    BY <1>0, <2>1, <2>6, <2>7
<1>5. ASSUME NEW s \in Session, End(s) PROVE NamedOK'
  <2>1. \A x \in Session : channel'[x] = channel[x] \/ channel'[x] = <<>>
    BY <1>0, <1>5 DEF End
  <2>2. UNCHANGED <<holding, sent>> /\ DOMAIN <<>> = {}
    BY <1>5 DEF End
  <2> QED
    BY <1>0, <2>1, <2>2
<1>6. ASSUME NEW s \in Session, Subscribe(s) \/ (Caller(s) /\ ~End(s)) \/ Publication(s)
      PROVE  UNCHANGED <<holding, channel, sent>>
  BY <1>6 DEF Subscribe, Caller, Connect, ReadStart, ReadMedia, ReadClose, Publication,
              Published, PublishFails, PublishEnd
<1>7. UNCHANGED vars => UNCHANGED <<holding, channel, sent>>
  BY DEF vars
<1> QED
  BY <1>1, <1>2, <1>3, <1>4, <1>5, <1>6, <1>7, TextLeaves, LlmLeaves, TtsLeaves
  DEF Next, RelayTask, Caller

LEMMA StreamInvariant == Spec => []StreamInv
<1>1. Init => StreamInv
  <2>1. DOMAIN <<>> = {}
    OBVIOUS
  <2> QED
    BY <2>1 DEF Init, StreamInv, StartedOK, HeardOK, AskedOK, AudioOK, NamedOK
<1>2. TypeInv /\ StreamInv /\ [Next]_vars => StreamInv'
  <2> SUFFICES ASSUME TypeInv, StreamInv, [Next]_vars PROVE StreamInv'
    OBVIOUS
  <2>1. TypeOK /\ StartedOK /\ HeardOK /\ AskedOK /\ AudioOK
    BY DEF TypeInv, StreamInv
  <2>2. StartedOK' /\ HeardOK' /\ AskedOK' /\ AudioOK' /\ NamedOK'
    BY <2>1, NextStarted, NextHeard, NextAsked, NextAudio, NextNamed
  <2> QED
    BY <2>2 DEF StreamInv
<1> QED
  BY <1>1, <1>2, TypeInvariant, PTL DEF Spec

\* Whatever is said names what a start stored, be it "unknown" because the start had no
\* streamSid: the relay task takes the name when it composes a message, long after the
\* media was read, and never composes one for a call whose start is still to come,
\* since no audio comes back of a session that had not read it.
THEOREM NothingIsSaidEarly == Spec => []NothingBeforeStart
<1>1. StreamInv => NothingBeforeStart
  BY DEF StreamInv, NamedOK, NothingBeforeStart
<1> QED
  BY <1>1, StreamInvariant, PTL

-----------------------------------------------------------------------------
(* A conversation is made of questions with their answers.                 *)

Paired(c) == \A i \in DOMAIN c : c[i][1] = "assistant" => i > 1 /\ c[i - 1] = <<"user", c[i][2]>>

\* While the answer to a transcription is being generated, the transcription is the
\* last message of its conversation.
PairInv ==
  thinking[1] = "generating" =>
    LET c == conversation[texts[thinking[2]].session]
    IN  c # <<>> /\ c[Len(c)] = <<"user", thinking[2]>>

TalkInv == PairInv /\ \A s \in Session : Paired(conversation[s])

LEMMA PairedGrows ==
  ASSUME NEW c \in Seq({"user", "assistant"} \X Text), Paired(c), NEW t \in Text
  PROVE  /\ Paired(Append(c, <<"user", t>>))
         /\ Append(c, <<"user", t>>) # <<>>
         /\ Append(c, <<"user", t>>)[Len(Append(c, <<"user", t>>))] = <<"user", t>>
         /\ c # <<>> /\ c[Len(c)] = <<"user", t>> => Paired(Append(c, <<"assistant", t>>))
<1> USE DEF Paired
<1>1. ASSUME NEW r \in {"user", "assistant"}
      PROVE  /\ DOMAIN c = 1 .. Len(c) /\ Len(c) \in Nat /\ (c # <<>> => Len(c) > 0)
             /\ DOMAIN Append(c, <<r, t>>) = 1 .. Len(c) + 1
             /\ Len(Append(c, <<r, t>>)) = Len(c) + 1
             /\ \A i \in 1 .. Len(c) : Append(c, <<r, t>>)[i] = c[i]
             /\ Append(c, <<r, t>>)[Len(c) + 1] = <<r, t>>
  <2>1. <<r, t>> \in {"user", "assistant"} \X Text
    OBVIOUS
  <2> QED
    BY <2>1, LenProperties, EmptySeq, AppendProperties
<1>2. Paired(Append(c, <<"user", t>>))
  BY <1>1
<1>3. /\ Append(c, <<"user", t>>) # <<>>
      /\ Append(c, <<"user", t>>)[Len(Append(c, <<"user", t>>))] = <<"user", t>>
  BY <1>1, EmptySeq
<1>4. ASSUME c # <<>>, c[Len(c)] = <<"user", t>> PROVE Paired(Append(c, <<"assistant", t>>))
  BY <1>1, <1>4
<1> QED
  BY <1>2, <1>3, <1>4

LEMMA TalkInvariant == Spec => []TalkInv
<1>1. Init => TalkInv
  <2>1. DOMAIN <<>> = {}
    OBVIOUS
  <2> QED
    BY <2>1 DEF Init, TalkInv, PairInv, Paired, Idle
<1>2. TypeInv /\ TalkInv /\ [Next]_vars => TalkInv'
  <2> SUFFICES ASSUME TypeInv, TalkInv, [Next]_vars PROVE TalkInv'
    OBVIOUS
  <2>0. /\ TypeOK /\ InHand
        /\ conversation \in [Session -> Seq({"user", "assistant"} \X Text)]
    BY DEF TypeInv, TypeOK
  <2>1. CASE UNCHANGED <<conversation, thinking>>
    <3>1. thinking # Idle => texts'[thinking[2]] = texts[thinking[2]]
      BY <2>0, StreamsGrow DEF InHand
    <3>2. PairInv'
      BY <2>1, <3>1 DEF TalkInv, PairInv, Idle
    <3>3. \A s \in Session : Paired(conversation'[s])
      BY <2>1 DEF TalkInv
    <3> QED
      BY <3>2, <3>3 DEF TalkInv
  <2>2. ASSUME NEW i \in DOMAIN texts, TakeText(i) PROVE TalkInv'
    <3> DEFINE s == texts[i].session
    <3>1. s \in Session /\ i \in Text /\ texts' = texts
      BY <2>0, <2>2, IndexType DEF TakeText
    <3> HIDE DEF s
    <3>2. CASE Forget(s) /\ thinking' = Idle
      <4>1. \A x \in Session : conversation'[x] = conversation[x] \/ conversation'[x] = <<>>
        BY <2>0, <3>1, <3>2 DEF Forget
      <4>2. DOMAIN <<>> = {}
        OBVIOUS
      <4> QED
        BY <3>2, <4>1, <4>2 DEF TalkInv, PairInv, Paired, Idle
    <3>3. CASE Say(s, "user", i) /\ thinking' \in {Idle, <<"generating", i>>}
      <4>1. /\ conversation'[s] = Append(conversation[s], <<"user", i>>)
            /\ \A x \in Session \ {s} : conversation'[x] = conversation[x]
        BY <2>0, <3>1, <3>3 DEF Say
      <4>2. /\ Paired(conversation'[s]) /\ conversation'[s] # <<>>
            /\ conversation'[s][Len(conversation'[s])] = <<"user", i>>
        <5>1. conversation[s] \in Seq({"user", "assistant"} \X Text) /\ Paired(conversation[s])
          BY <2>0, <3>1 DEF TalkInv
        <5> QED
          BY <3>1, <4>1, <5>1, PairedGrows
      <4>3. PairInv'
        BY <3>1, <3>3, <4>2 DEF TalkInv, PairInv, Idle, s
      <4>4. \A x \in Session : Paired(conversation'[x])
        BY <4>1, <4>2 DEF TalkInv
      <4> QED
        BY <4>3, <4>4 DEF TalkInv
    <3>4. thinking = Idle
      BY <2>2 DEF TakeText
    <3> QED
      BY <2>2, <3>2, <3>3, <3>4 DEF TakeText, s
  <2>3. CASE Generate
    <3> DEFINE i == thinking[2]
               s == texts[i].session
    <3>1. /\ s \in Session /\ i \in Text /\ Say(s, "assistant", i)
          /\ thinking' = <<"publishing", i>> /\ thinking[1] = "generating"
      BY <2>0, <2>3, IndexType DEF Generate, InHand, Idle
    <3>2. conversation[s] # <<>> /\ conversation[s][Len(conversation[s])] = <<"user", i>>
      BY <3>1 DEF TalkInv, PairInv
    <3> HIDE DEF i, s
    <3>3. /\ conversation'[s] = Append(conversation[s], <<"assistant", i>>)
          /\ \A x \in Session \ {s} : conversation'[x] = conversation[x]
      BY <2>0, <3>1 DEF Say
    <3>4. Paired(conversation'[s])
      BY <2>0, <3>1, <3>2, <3>3, PairedGrows DEF TalkInv
    <3> QED
      BY <3>1, <3>3, <3>4 DEF TalkInv, PairInv
  <2>4. CASE GenerateFails \/ PublishAnswer \/ PublishAnswerFails
    BY <2>4 DEF GenerateFails, PublishAnswer, PublishAnswerFails, TalkInv, PairInv, Idle
  <2>5. CASE LlmCrash
    <3>1. DOMAIN <<>> = {}
      OBVIOUS
    <3> QED
      BY <2>5, <3>1 DEF LlmCrash, TalkInv, PairInv, Paired, Idle
  <2>6. CASE UNCHANGED vars
    BY <2>1, <2>6 DEF vars
  <2> QED
    BY <2>1, <2>2, <2>3, <2>4, <2>5, <2>6, CallLeaves, RelayLeaves, TextLeaves, TtsLeaves
    DEF Next, Llm
<1> QED
  BY <1>1, <1>2, TypeInvariant, PTL DEF Spec

\* In every conversation an assistant's message stands right after the message of the
\* user it answers: the handler of the LLM service never comes between the two, neither
\* with a redelivered transcription nor with what it forgets.
THEOREM AnswersStandWithQuestions == Spec => []ConversationIsPaired
<1>1. TalkInv => ConversationIsPaired
  BY DEF TalkInv, Paired, ConversationIsPaired
<1> QED
  BY <1>1, TalkInvariant, PTL

-----------------------------------------------------------------------------
(* The way of an answer to the caller: the subscription of the relay task, *)
(* its hand, the channel and the WebSocket, each a queue of texts.         *)

TextsOf(q) == [i \in DOMAIN q |-> q[i].text]
Written(s) == TextsOf(sent[s])
Queued(s) == TextsOf(channel[s])
Held(s) == IF holding[s] = Nothing THEN <<>> ELSE <<holding[s].text>>

LEMMA TextsOfParts ==
  /\ TextsOf(<<>>) = <<>>
  /\ \A q \in Seq(Message) :
       /\ TextsOf(q) \in Seq(Text) /\ DOMAIN TextsOf(q) = DOMAIN q
       /\ \A m \in Message : TextsOf(Append(q, m)) = Append(TextsOf(q), m.text)
       /\ q # <<>> => /\ TextsOf(q) # <<>> /\ Head(TextsOf(q)) = Head(q).text
                      /\ TextsOf(Tail(q)) = Tail(TextsOf(q))
<1>1. TextsOf(<<>>) = <<>>
  BY DEF TextsOf
<1>2. ASSUME NEW q \in Seq(Message)
      PROVE  /\ TextsOf(q) \in Seq(Text) /\ DOMAIN TextsOf(q) = DOMAIN q
             /\ Len(TextsOf(q)) = Len(q) /\ DOMAIN q = 1 .. Len(q) /\ Len(q) \in Nat
             /\ \A i \in 1 .. Len(q) : q[i] \in Message /\ TextsOf(q)[i] = q[i].text
  <2>1. DOMAIN q = 1 .. Len(q) /\ Len(q) \in Nat /\ \A i \in 1 .. Len(q) : q[i] \in Message
    BY LenProperties, ElementOfSeq
  <2>2. \A i \in 1 .. Len(q) : q[i].text \in Text
    BY <2>1 DEF Message
  <2>3. TextsOf(q) = [i \in 1 .. Len(q) |-> q[i].text]
    BY <2>1 DEF TextsOf
  <2>4. TextsOf(q) \in Seq(Text) /\ Len(TextsOf(q)) = Len(q)
    BY <2>1, <2>2, <2>3, IsASeq
  <2> QED
    BY <2>1, <2>3, <2>4
<1>3. ASSUME NEW q \in Seq(Message), NEW m \in Message
      PROVE  TextsOf(Append(q, m)) = Append(TextsOf(q), m.text)
  <2> DEFINE r == Append(q, m)
             p == Append(TextsOf(q), m.text)
  <2>1. /\ r \in Seq(Message) /\ Len(r) = Len(q) + 1 /\ Len(q) \in Nat
        /\ r[Len(q) + 1] = m /\ \A i \in 1 .. Len(q) : r[i] = q[i]
    BY LenProperties, AppendProperties
  <2>2. m.text \in Text
    BY DEF Message
  <2>3. /\ p \in Seq(Text) /\ Len(p) = Len(q) + 1
        /\ p[Len(q) + 1] = m.text /\ \A i \in 1 .. Len(q) : p[i] = TextsOf(q)[i]
    BY <1>2, <2>2, AppendProperties
  <2> HIDE DEF r, p
  <2>4. /\ TextsOf(r) \in Seq(Text) /\ Len(TextsOf(r)) = Len(r)
        /\ \A i \in 1 .. Len(r) : TextsOf(r)[i] = r[i].text
    BY <1>2, <2>1
  <2>5. \A i \in 1 .. Len(q) + 1 : i = Len(q) + 1 \/ i \in 1 .. Len(q)
    BY <2>1
  <2>6. \A i \in 1 .. Len(q) + 1 : TextsOf(r)[i] = p[i]
    BY <1>2, <2>1, <2>3, <2>4, <2>5
  <2>7. TextsOf(r) = p
    BY <2>1, <2>3, <2>4, <2>6, SeqEqual
  <2> QED
    BY <2>7 DEF r, p
<1>4. ASSUME NEW q \in Seq(Message), q # <<>>
      PROVE  /\ TextsOf(q) # <<>> /\ Head(TextsOf(q)) = Head(q).text
             /\ TextsOf(Tail(q)) = Tail(TextsOf(q))
  <2>1. /\ Tail(q) \in Seq(Message) /\ Len(Tail(q)) = Len(q) - 1 /\ Len(q) \in Nat \ {0}
        /\ Head(q) = q[1] /\ \A i \in 1 .. Len(q) - 1 : Tail(q)[i] = q[i + 1]
    BY <1>4, LenProperties, EmptySeq, HeadTailProperties
  <2>2. TextsOf(q) # <<>>
    BY <1>2, <2>1, EmptySeq
  <2>3. /\ Tail(TextsOf(q)) \in Seq(Text) /\ Len(Tail(TextsOf(q))) = Len(q) - 1
        /\ Head(TextsOf(q)) = TextsOf(q)[1]
        /\ \A i \in 1 .. Len(q) - 1 : Tail(TextsOf(q))[i] = TextsOf(q)[i + 1]
    BY <1>2, <2>2, HeadTailProperties
  <2>4. /\ TextsOf(Tail(q)) \in Seq(Text) /\ Len(TextsOf(Tail(q))) = Len(q) - 1
        /\ \A i \in 1 .. Len(q) - 1 : TextsOf(Tail(q))[i] = Tail(q)[i].text
    BY <1>2, <2>1
  <2>5. \A i \in 1 .. Len(q) - 1 : TextsOf(Tail(q))[i] = Tail(TextsOf(q))[i]
    BY <1>2, <2>1, <2>3, <2>4
  <2>6. TextsOf(Tail(q)) = Tail(TextsOf(q))
    BY <2>3, <2>4, <2>5, SeqEqual
  <2> QED
    BY <1>2, <2>1, <2>2, <2>3, <2>6
<1> QED
  BY <1>1, <1>2, <1>3, <1>4

LEMMA WayType ==
  ASSUME TypeOK, NEW s \in Session
  PROVE  /\ Written(s) \in Seq(Text) /\ Queued(s) \in Seq(Text)
         /\ Held(s) \in Seq(Text) /\ inbox[s] \in Seq(Text)
<1>1. /\ sent[s] \in Seq(Message) /\ channel[s] \in Seq(Message) /\ inbox[s] \in Seq(Text)
      /\ holding[s] \in Message \cup {Nothing}
  BY DEF TypeOK
<1>2. holding[s] # Nothing => holding[s].text \in Text
  BY <1>1 DEF Message
<1>3. Held(s) \in Seq(Text)
  BY <1>2, EmptySeq DEF Held
<1> QED
  BY <1>1, <1>3, TextsOfParts DEF Written, Queued

\* The head of q goes to the end of p.
Passes(p, q, pNew, qNew) == q # <<>> /\ pNew = Append(p, Head(q)) /\ qNew = Tail(q)

\* What a step does to the way of a session: nothing, one text goes on, the send of a
\* message fails, the channel is dropped, or an audio arrives.
LEMMA NextMoves ==
  ASSUME TypeInv, [Next]_vars, NEW s \in Session
  PROVE  \/ UNCHANGED <<Written(s), Queued(s), Held(s), inbox[s]>>
         \/ /\ Passes(Written(s), Queued(s), Written(s)', Queued(s)')
            /\ UNCHANGED <<Held(s), inbox[s]>>
         \/ /\ Passes(Queued(s), Held(s), Queued(s)', Held(s)')
            /\ UNCHANGED <<Written(s), inbox[s]>>
         \/ /\ Passes(Held(s), inbox[s], Held(s)', inbox[s]')
            /\ UNCHANGED <<Written(s), Queued(s)>>
         \/ Held(s)' = <<>> /\ UNCHANGED <<Written(s), Queued(s), inbox[s]>>
         \/ Queued(s)' = <<>> /\ UNCHANGED <<Written(s), Held(s), inbox[s]>>
         \/ /\ PublishAudio /\ inbox[s]' = Append(inbox[s], answers[speaking[2]])
            /\ UNCHANGED <<Written(s), Queued(s), Held(s)>>
<1> DEFINE Stay == UNCHANGED <<Written(s), Queued(s), Held(s), inbox[s]>>
<1>0. /\ sent \in [Session -> Seq(Message)] /\ channel \in [Session -> Seq(Message)]
      /\ inbox \in [Session -> Seq(Text)] /\ holding \in [Session -> Message \cup {Nothing}]
  BY DEF TypeInv, TypeOK
<1>1. UNCHANGED <<sent[s], channel[s], holding[s], inbox[s]>> => Stay
  BY DEF Written, Queued, Held
<1>2. UNCHANGED <<sent, channel, holding, inbox>> => Stay
  BY <1>1
<1>3. ASSUME NEW x \in Session, x # s,
             Caller(x) \/ Publication(x) \/ Relay(x) \/ RelayTask(x)
      PROVE  Stay
  <2>1. UNCHANGED <<sent[s], channel[s], holding[s], inbox[s]>>
    BY <1>0, <1>3 DEF Caller, Connect, ReadStart, ReadMedia, ReadClose, End, Publication,
       Published, PublishFails, PublishEnd, Relay, RelayTask, Subscribe, Compose, Forward
  <2> QED
    BY <1>1, <2>1
<1>4. CASE Relay(s)
  <2>1. /\ sent[s] \in Seq(Message) /\ channel[s] \in Seq(Message) /\ channel[s] # <<>>
        /\ sent'[s] = Append(sent[s], Head(channel[s])) /\ channel'[s] = Tail(channel[s])
        /\ UNCHANGED <<holding, inbox>>
    BY <1>0, <1>4 DEF Relay
  <2>2. Head(channel[s]) \in Message
    BY <2>1, QueueHead
  <2>3. Passes(Written(s), Queued(s), Written(s)', Queued(s)')
    BY <2>1, <2>2, TextsOfParts DEF Written, Queued, Passes
  <2> QED
    BY <2>1, <2>3 DEF Held
<1>5. CASE Compose(s)
  <2>1. /\ inbox[s] \in Seq(Text) /\ inbox[s] # <<>> /\ inbox'[s] = Tail(inbox[s])
        /\ holding[s] = Nothing
        /\ holding'[s] = [text |-> Head(inbox[s]), named |-> started[s]]
        /\ UNCHANGED <<sent, channel>> /\ started[s] \in BOOLEAN
    BY <1>0, <1>5 DEF Compose, TypeInv, TypeOK
  <2>2. Head(inbox[s]) \in Text
    BY <2>1, QueueHead
  <2>3. [text |-> Head(inbox[s]), named |-> started[s]] \in Message
    BY <2>1, <2>2 DEF Message
  <2>4. holding'[s] # Nothing /\ holding'[s].text = Head(inbox[s])
    BY <2>1, <2>3, NothingAssumption
  <2>5. Held(s) = <<>> /\ Held(s)' = <<Head(inbox[s])>>
    BY <2>1, <2>4 DEF Held
  <2>6. <<Head(inbox[s])>> = Append(<<>>, Head(inbox[s]))
    OBVIOUS
  <2> QED
    BY <2>1, <2>5, <2>6 DEF Written, Queued, Passes
<1>6. CASE Forward(s)
  <2>1. /\ holding[s] \in Message /\ holding[s] # Nothing /\ channel[s] \in Seq(Message)
        /\ channel'[s] = channel[s] \/ channel'[s] = Append(channel[s], holding[s])
        /\ holding'[s] = Nothing /\ UNCHANGED <<sent, inbox>>
    BY <1>0, <1>6 DEF Forward
  <2>2. /\ Held(s) = <<holding[s].text>> /\ Held(s)' = <<>>
        /\ Queued(s)' = Queued(s) \/ Queued(s)' = Append(Queued(s), holding[s].text)
    BY <2>1, TextsOfParts DEF Held, Queued
  <2>3. /\ Held(s) # <<>> /\ Head(Held(s)) = holding[s].text /\ Tail(Held(s)) = <<>>
    BY <2>2
  <2> QED
    BY <2>1, <2>2, <2>3 DEF Written, Passes
<1>7. CASE End(s)
  <2>1. channel'[s] = <<>> /\ UNCHANGED <<sent, holding, inbox>>
    BY <1>0, <1>7 DEF End
  <2> QED
    BY <2>1, TextsOfParts DEF Written, Queued, Held
<1>8. CASE PublishAudio
  <2>1. PICK t, x :
          /\ t = answers[speaking[2]] /\ x = texts[t].session
          /\ inbox' = inbox \/ inbox' = [inbox EXCEPT ![x] = Append(@, t)]
          /\ UNCHANGED <<holding, channel, sent>>
    BY <1>8, AudioArrives
  <2>2. inbox'[s] = inbox[s] \/ inbox'[s] = Append(inbox[s], answers[speaking[2]])
    BY <1>0, <2>1
  <2> QED
    BY <1>8, <2>1, <2>2 DEF Written, Queued, Held
<1>9. CASE Subscribe(s) \/ (Caller(s) /\ ~End(s)) \/ Publication(s)
  <2>1. UNCHANGED <<sent, channel, holding, inbox>>
    BY <1>9 DEF Subscribe, Caller, Connect, ReadStart, ReadMedia, ReadClose, Publication,
                Published, PublishFails, PublishEnd
  <2> QED
    BY <1>2, <2>1
<1>10. CASE (Tts /\ ~PublishAudio) \/ UNCHANGED vars
  <2>1. UNCHANGED <<sent, channel, holding, inbox>>
    BY <1>10 DEF Tts, TakeAnswer, Synthesize, SynthesizeFails, PublishAudioFails, vars
  <2> QED
    BY <1>2, <2>1
<1>11. CASE \/ \E x \in Session : Transcribe(x) \/ EndConversation(x)
            \/ Llm \/ LlmCrash
  <2>1. UNCHANGED <<sent, channel, holding, inbox>>
    BY <1>11, TextLeaves, LlmLeaves
  <2> QED
    BY <1>2, <2>1
<1> HIDE DEF Stay
<1>12. ASSUME NEW x \in Session, Caller(x) \/ Publication(x) \/ Relay(x) \/ RelayTask(x), ~Stay
       PROVE  x = s
  BY <1>3, <1>12
<1> USE DEF Stay
<1> QED
  BY <1>4, <1>5, <1>6, <1>7, <1>8, <1>9, <1>10, <1>11, <1>12 DEF Next, RelayTask

-----------------------------------------------------------------------------
(* Nothing on the way doubles an answer.                                   *)

Way(s, t) == Count(Written(s), t) + Count(Queued(s), t) + Count(Held(s), t) + Count(inbox[s], t)
BeingSpoken(t) == IF speaking # Idle /\ answers[speaking[2]] = t THEN 1 ELSE 0

\* What is on the way or written, and what is being spoken, was attempted.
EchoInv ==
  \A s \in Session, t \in Text : Way(s, t) + BeingSpoken(t) <= Cardinality(Attempts(t))

LEMMA WayNat ==
  ASSUME TypeOK, NEW s \in Session, NEW t
  PROVE  /\ Count(Written(s), t) \in Nat /\ Count(Queued(s), t) \in Nat
         /\ Count(Held(s), t) \in Nat /\ Count(inbox[s], t) \in Nat
  BY WayType, CountNat

LEMMA CountPasses ==
  ASSUME NEW p \in Seq(Text), NEW q \in Seq(Text), NEW pNew, NEW qNew, Passes(p, q, pNew, qNew),
         NEW t
  PROVE  Count(pNew, t) + Count(qNew, t) = Count(p, t) + Count(q, t)
<1>1. q # <<>> /\ pNew = Append(p, Head(q)) /\ qNew = Tail(q)
  BY DEF Passes
<1>2. Head(q) \in Text /\ Tail(q) \in Seq(Text)
  BY <1>1, QueueHead
<1>3. /\ Count(pNew, t) = Count(p, t) + (IF Head(q) = t THEN 1 ELSE 0)
      /\ Count(q, t) = Count(qNew, t) + (IF Head(q) = t THEN 1 ELSE 0)
  BY <1>1, <1>2, CountAppend, CountTail
<1>4. Count(p, t) \in Nat /\ Count(qNew, t) \in Nat
  BY <1>1, <1>2, CountNat
<1> QED
  BY <1>3, <1>4

\* Attempts are counted, and never taken back.
LEMMA AttemptsFinite ==
  ASSUME TypeOK, NEW t
  PROVE  IsFiniteSet(Attempts(t)) /\ Cardinality(Attempts(t)) \in Nat
<1>1. DOMAIN answers = 1 .. Len(answers) /\ Len(answers) \in Nat /\ MaxDeliver \in Nat
  BY LenProperties, CallAssumption DEF TypeOK
<1>2. IsFiniteSet(DOMAIN answers) /\ IsFiniteSet(1 .. MaxDeliver)
  BY <1>1, FS_Interval
<1>3. IsFiniteSet((DOMAIN answers) \X (1 .. MaxDeliver))
  BY <1>2, FS_Product
<1>4. Attempts(t) \in SUBSET ((DOMAIN answers) \X (1 .. MaxDeliver))
  BY DEF Attempts
<1> QED
  BY <1>3, <1>4, FS_Subset, FS_CardinalityType

LEMMA AttemptsFiniteNext ==
  ASSUME TypeOK', NEW t
  PROVE  IsFiniteSet(Attempts(t)') /\ Cardinality(Attempts(t)') \in Nat
<1>1. DOMAIN answers' = 1 .. Len(answers') /\ Len(answers') \in Nat /\ MaxDeliver \in Nat
  BY LenProperties, CallAssumption DEF TypeOK
<1>2. IsFiniteSet(DOMAIN answers') /\ IsFiniteSet(1 .. MaxDeliver)
  BY <1>1, FS_Interval
<1>3. IsFiniteSet((DOMAIN answers') \X (1 .. MaxDeliver))
  BY <1>2, FS_Product
<1>4. Attempts(t)' \in SUBSET ((DOMAIN answers') \X (1 .. MaxDeliver))
  BY DEF Attempts
<1> QED
  BY <1>3, <1>4, FS_Subset, FS_CardinalityType

LEMMA TriesGrow ==
  ASSUME TypeOK, [Next]_vars
  PROVE  /\ \A t \in Text : textTries[t] <= textTries'[t]
         /\ \A a \in Answer : answerTries[a] <= answerTries'[a]
<1>1. /\ textTries \in [Text -> 0 .. MaxDeliver] /\ answerTries \in [Answer -> 0 .. MaxDeliver]
      /\ MaxDeliver \in Nat
  BY CallAssumption DEF TypeOK
<1>2. CASE UNCHANGED <<textTries, answerTries>>
  BY <1>1, <1>2
<1>3. ASSUME NEW i, TakeText(i)
      PROVE  textTries' = [textTries EXCEPT ![i] = @ + 1] /\ UNCHANGED answerTries
  BY <1>3 DEF TakeText
<1>4. ASSUME NEW i, TakeAnswer(i)
      PROVE  answerTries' = [answerTries EXCEPT ![i] = @ + 1] /\ UNCHANGED textTries
  BY <1>4 DEF TakeAnswer
<1>5. ASSUME NEW i, TakeText(i) \/ TakeAnswer(i)
      PROVE  /\ \A t \in Text : textTries[t] <= textTries'[t]
             /\ \A a \in Answer : answerTries[a] <= answerTries'[a]
  BY <1>1, <1>3, <1>4, <1>5
<1>6. CASE \/ Generate \/ GenerateFails \/ PublishAnswer \/ PublishAnswerFails \/ LlmCrash
           \/ Synthesize \/ SynthesizeFails \/ PublishAudio \/ PublishAudioFails
           \/ UNCHANGED vars
  BY <1>2, <1>6 DEF Generate, GenerateFails, PublishAnswer, PublishAnswerFails, LlmCrash,
     Synthesize, SynthesizeFails, PublishAudio, PublishAudioFails, vars
<1> QED
  BY <1>2, <1>5, <1>6, CallLeaves, RelayLeaves, TextLeaves DEF Next, Llm, Tts

LEMMA AttemptsGrow ==
  ASSUME TypeOK, TypeOK', [Next]_vars, NEW t
  PROVE  /\ Attempts(t) \subseteq Attempts(t)'
         /\ Cardinality(Attempts(t)) <= Cardinality(Attempts(t)')
<1>1. Attempts(t) \subseteq Attempts(t)'
  <2>1. /\ answerTries \in [Answer -> 0 .. MaxDeliver]
        /\ answerTries' \in [Answer -> 0 .. MaxDeliver] /\ MaxDeliver \in Nat
    BY CallAssumption DEF TypeOK
  <2> QED
    BY <2>1, StreamsGrow, TriesGrow, IndexType DEF Attempts
<1> QED
  BY <1>1, AttemptsFiniteNext, FS_Subset

\* What begins to be spoken is a new attempt.
LEMMA SpokenIsAttempted ==
  ASSUME TypeInv, TypeOK', [Next]_vars, NEW t \in Text
  PROVE  Cardinality(Attempts(t)) + BeingSpoken(t)' <= Cardinality(Attempts(t)') + BeingSpoken(t)
<1>0. /\ TypeOK /\ Cardinality(Attempts(t)) \in Nat /\ Cardinality(Attempts(t)') \in Nat
      /\ Cardinality(Attempts(t)) <= Cardinality(Attempts(t)')
  BY AttemptsFinite, AttemptsFiniteNext, AttemptsGrow DEF TypeInv
<1>1. CASE speaking' = Idle
  BY <1>0, <1>1 DEF BeingSpoken
<1>2. CASE speaking # Idle /\ speaking' # Idle /\ speaking'[2] = speaking[2]
  <2>1. answers'[speaking[2]] = answers[speaking[2]]
    BY <1>0, <1>2, StreamsGrow DEF TypeInv, InHand
  <2> QED
    BY <1>0, <1>2, <2>1 DEF BeingSpoken
<1>3. CASE speaking' = speaking
  BY <1>1, <1>2, <1>3
<1>4. ASSUME NEW i \in DOMAIN answers, TakeAnswer(i), speaking' # Idle
      PROVE  Cardinality(Attempts(t)) + BeingSpoken(t)' <= Cardinality(Attempts(t)') + BeingSpoken(t)
  <2> DEFINE d == <<i, answerTries[i] + 1>>
  <2>1. /\ answers' = answers /\ speaking = Idle /\ speaking'[2] = i
        /\ answerTries[i] < MaxDeliver /\ answerTries' = [answerTries EXCEPT ![i] = @ + 1]
    BY <1>4 DEF TakeAnswer, Deliverable
  <2>2. answerTries \in [Answer -> 0 .. MaxDeliver] /\ MaxDeliver \in Nat /\ i \in Answer
    BY <1>0, CallAssumption, IndexType DEF TypeOK
  <2>3. CASE answers[i] # t
    BY <1>0, <2>1, <2>3 DEF BeingSpoken
  <2>4. CASE answers[i] = t
    <3>1. d \notin Attempts(t)
      BY <2>2 DEF Attempts
    <3>2. d \in Attempts(t)'
      BY <2>1, <2>2, <2>4 DEF Attempts
    <3>3. Attempts(t) \cup {d} \in SUBSET (Attempts(t)')
      BY <1>0, <3>2, AttemptsGrow
    <3>4. Cardinality(Attempts(t) \cup {d}) = Cardinality(Attempts(t)) + 1
      BY <1>0, <3>1, AttemptsFinite, FS_AddElement
    <3>5. Cardinality(Attempts(t) \cup {d}) <= Cardinality(Attempts(t)')
      BY <3>3, AttemptsFiniteNext, FS_Subset
    <3> QED
      BY <1>0, <3>4, <3>5 DEF BeingSpoken
  <2> QED
    BY <2>3, <2>4
<1>5. CASE Synthesize
  BY <1>1, <1>2, <1>5 DEF Synthesize, Idle
<1>6. CASE SynthesizeFails \/ PublishAudio \/ PublishAudioFails \/ UNCHANGED vars
  BY <1>1, <1>3, <1>6 DEF SynthesizeFails, PublishAudio, PublishAudioFails, vars
<1> QED
  BY <1>1, <1>3, <1>4, <1>5, <1>6, CallLeaves, RelayLeaves, TextLeaves, LlmLeaves DEF Next, Tts

LEMMA NextWay ==
  ASSUME TypeInv, [Next]_vars, NEW s \in Session, NEW t \in Text
  PROVE  \/ Way(s, t)' \in Nat /\ Way(s, t)' <= Way(s, t)
         \/ /\ PublishAudio
            /\ Way(s, t)' = Way(s, t) + (IF answers[speaking[2]] = t THEN 1 ELSE 0)
<1>0. /\ Written(s) \in Seq(Text) /\ Queued(s) \in Seq(Text)
      /\ Held(s) \in Seq(Text) /\ inbox[s] \in Seq(Text)
  BY WayType DEF TypeInv
<1>11. /\ Count(Written(s), t) \in Nat /\ Count(Queued(s), t) \in Nat
       /\ Count(Held(s), t) \in Nat /\ Count(inbox[s], t) \in Nat
  BY WayNat DEF TypeInv
<1>1. Way(s, t) = Count(Written(s), t) + Count(Queued(s), t) + Count(Held(s), t)
                  + Count(inbox[s], t)
  BY DEF Way
<1>2. Way(s, t)' = Count(Written(s)', t) + Count(Queued(s)', t) + Count(Held(s)', t)
                   + Count(inbox[s]', t)
  BY DEF Way
<1>3. ASSUME NEW p \in Seq(Text), NEW q \in Seq(Text), NEW pNew, NEW qNew,
             Passes(p, q, pNew, qNew)
      PROVE  /\ Count(pNew, t) \in Nat /\ Count(qNew, t) \in Nat
             /\ Count(pNew, t) + Count(qNew, t) = Count(p, t) + Count(q, t)
  <2>1. pNew \in Seq(Text) /\ qNew \in Seq(Text)
    BY <1>3, QueueHead, AppendProperties DEF Passes
  <2> QED
    BY <1>3, <2>1, CountNat, CountPasses
<1>4. CASE UNCHANGED <<Written(s), Queued(s), Held(s), inbox[s]>>
  BY <1>1, <1>2, <1>11, <1>4
<1>5. CASE /\ Passes(Written(s), Queued(s), Written(s)', Queued(s)')
           /\ UNCHANGED <<Held(s), inbox[s]>>
  <2>1. /\ Count(Written(s)', t) \in Nat /\ Count(Queued(s)', t) \in Nat
        /\ Count(Written(s)', t) + Count(Queued(s)', t) = Count(Written(s), t) + Count(Queued(s), t)
    BY <1>0, <1>3, <1>5
  <2>2. Count(Held(s)', t) = Count(Held(s), t) /\ Count(inbox[s]', t) = Count(inbox[s], t)
    BY <1>5
  <2> QED
    BY <1>1, <1>2, <1>11, <2>1, <2>2
<1>6. CASE /\ Passes(Queued(s), Held(s), Queued(s)', Held(s)')
           /\ UNCHANGED <<Written(s), inbox[s]>>
  <2>1. /\ Count(Queued(s)', t) \in Nat /\ Count(Held(s)', t) \in Nat
        /\ Count(Queued(s)', t) + Count(Held(s)', t) = Count(Queued(s), t) + Count(Held(s), t)
    BY <1>0, <1>3, <1>6
  <2>2. Count(Written(s)', t) = Count(Written(s), t) /\ Count(inbox[s]', t) = Count(inbox[s], t)
    BY <1>6
  <2> QED
    BY <1>1, <1>2, <1>11, <2>1, <2>2
<1>7. CASE /\ Passes(Held(s), inbox[s], Held(s)', inbox[s]')
           /\ UNCHANGED <<Written(s), Queued(s)>>
  <2>1. /\ Count(Held(s)', t) \in Nat /\ Count(inbox[s]', t) \in Nat
        /\ Count(Held(s)', t) + Count(inbox[s]', t) = Count(Held(s), t) + Count(inbox[s], t)
    BY <1>0, <1>3, <1>7
  <2>2. /\ Count(Written(s)', t) = Count(Written(s), t)
        /\ Count(Queued(s)', t) = Count(Queued(s), t)
    BY <1>7
  <2> QED
    BY <1>1, <1>2, <1>11, <2>1, <2>2
<1>8. CASE Held(s)' = <<>> /\ UNCHANGED <<Written(s), Queued(s), inbox[s]>>
  BY <1>1, <1>2, <1>11, <1>8, CountEmpty
<1>9. CASE Queued(s)' = <<>> /\ UNCHANGED <<Written(s), Held(s), inbox[s]>>
  BY <1>1, <1>2, <1>11, <1>9, CountEmpty
<1>10. CASE /\ PublishAudio /\ inbox[s]' = Append(inbox[s], answers[speaking[2]])
            /\ UNCHANGED <<Written(s), Queued(s), Held(s)>>
  <2>1. answers[speaking[2]] \in Text
    BY <1>10, AudioArrives
  <2>2. Count(inbox[s]', t) = Count(inbox[s], t) + (IF answers[speaking[2]] = t THEN 1 ELSE 0)
    BY <1>0, <1>10, <2>1, CountAppend
  <2> QED
    BY <1>1, <1>2, <1>10, <1>11, <2>2
<1> QED
  BY <1>4, <1>5, <1>6, <1>7, <1>8, <1>9, <1>10, NextMoves

LEMMA NextEcho ==
  ASSUME TypeInv, TypeOK', EchoInv, [Next]_vars
  PROVE  EchoInv'
<1> SUFFICES ASSUME NEW s \in Session, NEW t \in Text
             PROVE  Way(s, t)' + BeingSpoken(t)' <= Cardinality(Attempts(t)')
  BY DEF EchoInv
<1>1. /\ Cardinality(Attempts(t)) \in Nat /\ Cardinality(Attempts(t)') \in Nat
      /\ BeingSpoken(t) \in {0, 1} /\ BeingSpoken(t)' \in {0, 1} /\ Way(s, t) \in Nat
  BY AttemptsFinite, AttemptsFiniteNext, WayNat DEF BeingSpoken, Way, TypeInv
<1>2. /\ Way(s, t) + BeingSpoken(t) <= Cardinality(Attempts(t))
      /\ Cardinality(Attempts(t)) + BeingSpoken(t)' <= Cardinality(Attempts(t)') + BeingSpoken(t)
      /\ Cardinality(Attempts(t)) <= Cardinality(Attempts(t)')
  BY AttemptsGrow, SpokenIsAttempted DEF EchoInv, TypeInv
<1>3. CASE Way(s, t)' \in Nat /\ Way(s, t)' <= Way(s, t)
  BY <1>1, <1>2, <1>3
<1>4. CASE /\ PublishAudio
           /\ Way(s, t)' = Way(s, t) + (IF answers[speaking[2]] = t THEN 1 ELSE 0)
  <2>1. speaking # Idle /\ speaking' = Idle
    BY <1>4, AudioArrives
  <2>2. Way(s, t)' = Way(s, t) + BeingSpoken(t) /\ BeingSpoken(t)' = 0
    BY <1>4, <2>1 DEF BeingSpoken
  <2> QED
    BY <1>1, <1>2, <2>2
<1> QED
  BY <1>3, <1>4, NextWay

LEMMA EchoInvariant == Spec => [](TypeInv /\ EchoInv)
<1>1. Init => EchoInv
  <2> SUFFICES ASSUME Init, NEW s \in Session, NEW t \in Text
               PROVE  Way(s, t) + BeingSpoken(t) <= Cardinality(Attempts(t))
    BY DEF EchoInv
  <2>1. Way(s, t) = 0 /\ BeingSpoken(t) = 0
    BY CountEmpty, TextsOfParts DEF Init, Way, Written, Queued, Held, BeingSpoken
  <2>2. Cardinality(Attempts(t)) \in Nat
    BY InitType, AttemptsFinite DEF TypeInv
  <2> QED
    BY <2>1, <2>2
<1>2. TypeInv /\ TypeInv' /\ EchoInv /\ [Next]_vars => EchoInv'
  BY NextEcho DEF TypeInv
<1> QED
  BY <1>1, <1>2, TypeInvariant, PTL DEF Spec

\* The caller hears an answer at most as often as the TTS service was asked to speak it,
\* in every session and at any size of the channel: neither the subscription nor the
\* relay task nor the select of the WebSocket handler writes an audio twice.
THEOREM NothingIsDoubled == Spec => []NoEchoWithoutRetry
<1>1. TypeInv /\ EchoInv => NoEchoWithoutRetry
  <2> SUFFICES ASSUME TypeInv, EchoInv, NEW s \in Session, NEW t \in Text
               PROVE  Cardinality(Said(s, t)) <= Cardinality(Attempts(t))
    BY DEF NoEchoWithoutRetry
  <2>1. sent[s] \in Seq(Message)
    BY DEF TypeInv, TypeOK
  <2>2. Said(s, t) = Where(Written(s), t)
    BY <2>1, TextsOfParts DEF Said, Where, Written, TextsOf
  <2>3. /\ Count(Written(s), t) \in Nat /\ Count(Queued(s), t) \in Nat
        /\ Count(Held(s), t) \in Nat /\ Count(inbox[s], t) \in Nat
        /\ BeingSpoken(t) \in {0, 1} /\ Cardinality(Attempts(t)) \in Nat
        /\ Way(s, t) + BeingSpoken(t) <= Cardinality(Attempts(t))
    BY WayNat, AttemptsFinite DEF TypeInv, EchoInv, BeingSpoken
  <2> QED
    BY <2>2, <2>3 DEF Way, Count
<1> QED
  BY <1>1, EchoInvariant, PTL

-----------------------------------------------------------------------------
(* Without repetitions the answers come in order.                          *)

Rising(q) == \A i, j \in DOMAIN q : i < j => q[i] < q[j]
Below(A, B) == \A x \in A, y \in B : x < y
OnWay(a, b, c, d) == Range(a) \cup Range(b) \cup Range(c) \cup Range(d)

\* The queues of a way, the one nearest to the caller first.
Ordered(a, b, c, d) ==
  /\ Rising(a) /\ Rising(b) /\ Rising(c) /\ Rising(d)
  /\ Below(Range(a), Range(b)) /\ Below(Range(a), Range(c)) /\ Below(Range(a), Range(d))
  /\ Below(Range(b), Range(c)) /\ Below(Range(b), Range(d)) /\ Below(Range(c), Range(d))

LEMMA RisingEmpty == Rising(<<>>) /\ Range(<<>>) = {}
<1>1. DOMAIN <<>> = {}
  OBVIOUS
<1> QED
  BY <1>1 DEF Rising, Range

LEMMA RisingEnd ==
  ASSUME NEW q \in Seq(Text), Rising(q), NEW x \in Text, Below(Range(q), {x})
  PROVE  /\ Rising(Append(q, x)) /\ Append(q, x) \in Seq(Text)
         /\ Range(Append(q, x)) = Range(q) \cup {x}
<1>1. /\ DOMAIN q = 1 .. Len(q) /\ Len(q) \in Nat /\ Append(q, x) \in Seq(Text)
      /\ DOMAIN Append(q, x) = 1 .. Len(q) + 1
      /\ \A i \in 1 .. Len(q) : Append(q, x)[i] = q[i]
      /\ Append(q, x)[Len(q) + 1] = x
  BY LenProperties, AppendProperties
<1>2. \A i \in DOMAIN q : q[i] < x
  BY DEF Below, Range
<1>3. \A i \in DOMAIN Append(q, x) : i \in DOMAIN q \/ i = Len(q) + 1
  BY <1>1
<1>4. Rising(Append(q, x))
  BY <1>1, <1>2 DEF Rising
<1>5. Range(Append(q, x)) = Range(q) \cup {x}
  BY <1>1, <1>3 DEF Range
<1> QED
  BY <1>1, <1>4, <1>5

LEMMA RisingHead ==
  ASSUME NEW q \in Seq(Text), Rising(q), q # <<>>
  PROVE  /\ Rising(Tail(q)) /\ Tail(q) \in Seq(Text)
         /\ Head(q) \in Text /\ Head(q) \in Range(q) /\ Range(Tail(q)) \subseteq Range(q)
         /\ Below({Head(q)}, Range(Tail(q)))
<1>1. /\ DOMAIN q = 1 .. Len(q) /\ Len(q) \in Nat \ {0}
      /\ Tail(q) \in Seq(Text) /\ Head(q) \in Text /\ Head(q) = q[1]
      /\ DOMAIN Tail(q) = 1 .. Len(q) - 1
      /\ \A i \in 1 .. Len(q) - 1 : Tail(q)[i] = q[i + 1]
  BY LenProperties, EmptySeq, HeadTailProperties
<1>2. \A i \in DOMAIN Tail(q) : i + 1 \in DOMAIN q /\ 1 < i + 1
  BY <1>1
<1>3. Rising(Tail(q))
  BY <1>1, <1>2 DEF Rising
<1>4. Head(q) \in Range(q) /\ Range(Tail(q)) \subseteq Range(q)
  BY <1>1, <1>2 DEF Range
<1>5. \A i \in DOMAIN Tail(q) : Head(q) < Tail(q)[i]
  BY <1>1, <1>2 DEF Rising
<1>6. Below({Head(q)}, Range(Tail(q)))
  BY <1>5 DEF Below, Range
<1> QED
  BY <1>1, <1>3, <1>4, <1>6

LEMMA RisingPasses ==
  ASSUME NEW p \in Seq(Text), NEW q \in Seq(Text), NEW pNew, NEW qNew, Passes(p, q, pNew, qNew),
         Rising(p), Rising(q), Below(Range(p), Range(q))
  PROVE  /\ Rising(pNew) /\ Rising(qNew) /\ Below(Range(pNew), Range(qNew))
         /\ Range(pNew) \subseteq Range(p) \cup Range(q) /\ Range(qNew) \subseteq Range(q)
<1>1. q # <<>> /\ pNew = Append(p, Head(q)) /\ qNew = Tail(q)
  BY DEF Passes
<1>2. /\ Rising(qNew) /\ Head(q) \in Text /\ Head(q) \in Range(q)
      /\ Range(qNew) \subseteq Range(q) /\ Below({Head(q)}, Range(qNew))
  BY <1>1, RisingHead
<1>3. Below(Range(p), {Head(q)})
  BY <1>2 DEF Below
<1>4. Rising(pNew) /\ Range(pNew) = Range(p) \cup {Head(q)}
  BY <1>1, <1>2, <1>3, RisingEnd
<1> QED
  BY <1>2, <1>4 DEF Below

\* Nothing moves, one text goes on, the send of a message fails, the channel is dropped.
Shifts(a, b, c, d, A, B, C, D) ==
  \/ A = a /\ B = b /\ C = c /\ D = d
  \/ Passes(a, b, A, B) /\ C = c /\ D = d
  \/ Passes(b, c, B, C) /\ A = a /\ D = d
  \/ Passes(c, d, C, D) /\ A = a /\ B = b
  \/ C = <<>> /\ A = a /\ B = b /\ D = d
  \/ B = <<>> /\ A = a /\ C = c /\ D = d

LEMMA OrderedShifts ==
  ASSUME NEW a \in Seq(Text), NEW b \in Seq(Text), NEW c \in Seq(Text), NEW d \in Seq(Text),
         NEW A, NEW B, NEW C, NEW D, Ordered(a, b, c, d), Shifts(a, b, c, d, A, B, C, D)
  PROVE  Ordered(A, B, C, D) /\ OnWay(A, B, C, D) \subseteq OnWay(a, b, c, d)
<1> USE DEF Ordered, OnWay
<1>1. CASE A = a /\ B = b /\ C = c /\ D = d
  BY <1>1
<1>2. CASE Passes(a, b, A, B) /\ C = c /\ D = d
  <2>1. /\ Rising(A) /\ Rising(B) /\ Below(Range(A), Range(B))
        /\ Range(A) \subseteq Range(a) \cup Range(b) /\ Range(B) \subseteq Range(b)
    BY <1>2, RisingPasses
  <2> QED
    BY <1>2, <2>1 DEF Below
<1>3. CASE Passes(b, c, B, C) /\ A = a /\ D = d
  <2>1. /\ Rising(B) /\ Rising(C) /\ Below(Range(B), Range(C))
        /\ Range(B) \subseteq Range(b) \cup Range(c) /\ Range(C) \subseteq Range(c)
    BY <1>3, RisingPasses
  <2> QED
    BY <1>3, <2>1 DEF Below
<1>4. CASE Passes(c, d, C, D) /\ A = a /\ B = b
  <2>1. /\ Rising(C) /\ Rising(D) /\ Below(Range(C), Range(D))
        /\ Range(C) \subseteq Range(c) \cup Range(d) /\ Range(D) \subseteq Range(d)
    BY <1>4, RisingPasses
  <2> QED
    BY <1>4, <2>1 DEF Below
<1>5. CASE C = <<>> /\ A = a /\ B = b /\ D = d
  BY <1>5, RisingEmpty DEF Below
<1>6. CASE B = <<>> /\ A = a /\ C = c /\ D = d
  BY <1>6, RisingEmpty DEF Below
<1> QED
  BY <1>1, <1>2, <1>3, <1>4, <1>5, <1>6 DEF Shifts

LEMMA OrderedArrives ==
  ASSUME NEW a \in Seq(Text), NEW b \in Seq(Text), NEW c \in Seq(Text), NEW d \in Seq(Text),
         Ordered(a, b, c, d), NEW t \in Text, Below(OnWay(a, b, c, d), {t})
  PROVE  /\ Ordered(a, b, c, Append(d, t))
         /\ OnWay(a, b, c, Append(d, t)) \subseteq OnWay(a, b, c, d) \cup {t}
<1> USE DEF Ordered, OnWay
<1>1. Below(Range(d), {t})
  BY DEF Below
<1>2. Rising(Append(d, t)) /\ Range(Append(d, t)) = Range(d) \cup {t}
  BY <1>1, RisingEnd
<1> QED
  BY <1>2 DEF Below

\* First attempts are made in the order of the stream: what was tried is a beginning of it.
InTurn(q, tries) ==
  \A i \in DOMAIN tries : tries[i] > 0 => i \in DOMAIN q /\ \A j \in 1 .. i : tries[j] > 0
TurnInv == InTurn(texts, textTries) /\ InTurn(answers, answerTries)

Once == (\A t \in Text : textTries[t] <= 1) /\ (\A a \in Answer : answerTries[a] <= 1)

\* The LLM handler is at the newest of the texts that were tried, and the TTS stream
\* holds answers to older ones, in their order; so with the TTS handler.
ThinkOrder ==
  /\ thinking # Idle => /\ textTries[thinking[2]] > 0
                        /\ \A j \in Text : textTries[j] > 0 => j <= thinking[2]
                        /\ \A a \in DOMAIN answers : answers[a] < thinking[2]
  /\ Rising(answers)
  /\ \A a \in DOMAIN answers : textTries[answers[a]] > 0
SpeakOrder ==
  speaking # Idle => /\ answerTries[speaking[2]] > 0
                     /\ \A j \in Answer : answerTries[j] > 0 => j <= speaking[2]

\* Audio of an answer that was spoken, before the one the TTS handler is at.
Spoken(x) ==
  \E a \in DOMAIN answers :
    answers[a] = x /\ answerTries[a] > 0 /\ (speaking # Idle => a < speaking[2])
LineOrder ==
  \A s \in Session :
    /\ Ordered(Written(s), Queued(s), Held(s), inbox[s])
    /\ \A x \in OnWay(Written(s), Queued(s), Held(s), inbox[s]) : Spoken(x)

OrderInv == TurnInv /\ (Once => ThinkOrder /\ SpeakOrder /\ LineOrder)

LEMMA OnceBefore == TypeInv /\ TypeOK' /\ [Next]_vars /\ Once' => Once
<1> SUFFICES ASSUME TypeInv, TypeOK', [Next]_vars, Once' PROVE Once
  OBVIOUS
<1>1. /\ \A t \in Text : textTries[t] <= textTries'[t]
      /\ \A a \in Answer : answerTries[a] <= answerTries'[a]
  BY TriesGrow DEF TypeInv
<1>2. /\ textTries \in [Text -> 0 .. MaxDeliver] /\ answerTries \in [Answer -> 0 .. MaxDeliver]
      /\ textTries' \in [Text -> 0 .. MaxDeliver] /\ answerTries' \in [Answer -> 0 .. MaxDeliver]
      /\ MaxDeliver \in Nat
  BY CallAssumption DEF TypeInv, TypeOK
<1> QED
  BY <1>1, <1>2 DEF Once

LEMMA TextsInTurn ==
  ASSUME TypeInv, TurnInv, [Next]_vars
  PROVE  InTurn(texts, textTries)'
<1> USE DEF InTurn
<1>0. /\ textTries \in [Text -> 0 .. MaxDeliver] /\ MaxDeliver \in Nat /\ TypeOK
      /\ InTurn(texts, textTries) /\ DOMAIN texts \subseteq DOMAIN texts'
  BY StreamsGrow, CallAssumption DEF TypeInv, TypeOK, TurnInv
<1>1. CASE textTries' = textTries
  BY <1>0, <1>1
<1>2. ASSUME NEW i \in DOMAIN texts, TakeText(i) PROVE InTurn(texts, textTries)'
  <2>1. /\ textTries' = [textTries EXCEPT ![i] = @ + 1] /\ i \in Text
        /\ textTries[i] = 0 => \A j \in 1 .. i - 1 : textTries[j] > 0
    BY <1>0, <1>2, IndexType DEF TakeText, Deliverable
  <2>2. \A j \in 1 .. i - 1 : j \in Text /\ textTries[j] > 0
    BY <1>0, <2>1, CallAssumption DEF Text
  <2>3. \A j \in Text : textTries'[j] > 0 <=> textTries[j] > 0 \/ j = i
    BY <1>0, <2>1
  <2>4. ASSUME NEW k \in Text, textTries'[k] > 0
        PROVE  k \in DOMAIN texts' /\ \A j \in 1 .. k : textTries'[j] > 0
    <3>1. \A j \in 1 .. k : j \in Text
      BY CallAssumption DEF Text
    <3>2. CASE k = i
      BY <1>0, <1>2, <2>2, <2>3, <3>1, <3>2, CallAssumption DEF Text
    <3>3. CASE k # i
      BY <1>0, <2>3, <2>4, <3>1, <3>3
    <3> QED
      BY <3>2, <3>3
  <2> QED
    BY <1>0, <2>1, <2>4
<1>3. CASE Generate \/ GenerateFails \/ PublishAnswer \/ PublishAnswerFails \/ LlmCrash
  BY <1>1, <1>3 DEF Generate, GenerateFails, PublishAnswer, PublishAnswerFails, LlmCrash
<1>4. CASE UNCHANGED vars
  BY <1>1, <1>4 DEF vars
<1> QED
  BY <1>1, <1>2, <1>3, <1>4, CallLeaves, RelayLeaves, TextLeaves, TtsLeaves DEF Next, Llm

LEMMA AnswersInTurn ==
  ASSUME TypeInv, TurnInv, [Next]_vars
  PROVE  InTurn(answers, answerTries)'
<1> USE DEF InTurn
<1>0. /\ answerTries \in [Answer -> 0 .. MaxDeliver] /\ MaxDeliver \in Nat /\ TypeOK
      /\ InTurn(answers, answerTries) /\ DOMAIN answers \subseteq DOMAIN answers'
  BY StreamsGrow, CallAssumption DEF TypeInv, TypeOK, TurnInv
<1>1. CASE answerTries' = answerTries
  BY <1>0, <1>1
<1>2. ASSUME NEW i \in DOMAIN answers, TakeAnswer(i) PROVE InTurn(answers, answerTries)'
  <2>1. /\ answerTries' = [answerTries EXCEPT ![i] = @ + 1] /\ i \in Answer
        /\ answerTries[i] = 0 => \A j \in 1 .. i - 1 : answerTries[j] > 0
    BY <1>0, <1>2, IndexType DEF TakeAnswer, Deliverable
  <2>2. \A j \in 1 .. i - 1 : j \in Answer /\ answerTries[j] > 0
    BY <1>0, <2>1, Bounds DEF Answer
  <2>3. \A j \in Answer : answerTries'[j] > 0 <=> answerTries[j] > 0 \/ j = i
    BY <1>0, <2>1
  <2>4. ASSUME NEW k \in Answer, answerTries'[k] > 0
        PROVE  k \in DOMAIN answers' /\ \A j \in 1 .. k : answerTries'[j] > 0
    <3>1. \A j \in 1 .. k : j \in Answer
      BY Bounds DEF Answer
    <3>2. CASE k = i
      BY <1>0, <1>2, <2>2, <2>3, <3>1, <3>2, Bounds DEF Answer
    <3>3. CASE k # i
      BY <1>0, <2>3, <2>4, <3>1, <3>3
    <3> QED
      BY <3>2, <3>3
  <2> QED
    BY <1>0, <2>1, <2>4
<1>3. CASE Synthesize \/ SynthesizeFails \/ PublishAudio \/ PublishAudioFails
  BY <1>1, <1>3 DEF Synthesize, SynthesizeFails, PublishAudio, PublishAudioFails
<1>4. CASE UNCHANGED vars
  BY <1>1, <1>4 DEF vars
<1> QED
  BY <1>1, <1>2, <1>3, <1>4, CallLeaves, RelayLeaves, TextLeaves, LlmLeaves DEF Next, Tts

\* The event a handler takes was never tried, and follows all that were.
LEMMA FirstInTurn ==
  ASSUME NEW q, NEW N \in Nat, NEW M \in Nat, NEW tries \in [1 .. N -> 0 .. M], InTurn(q, tries),
         NEW i \in 1 .. N, tries[i] = 0, NEW j \in 1 .. N, tries[j] > 0
  PROVE  j < i
<1>1. j >= i => i \in 1 .. j
  OBVIOUS
<1> QED
  BY <1>1 DEF InTurn

LEMMA NextThink ==
  ASSUME TypeInv, TypeOK', TurnInv, ThinkOrder, Once', [Next]_vars
  PROVE  ThinkOrder'
<1>0. /\ TypeOK /\ MaxTexts \in Nat /\ MaxDeliver \in Nat
      /\ textTries \in [1 .. MaxTexts -> 0 .. MaxDeliver] /\ InTurn(texts, textTries)
      /\ \A a \in DOMAIN answers : answers[a] \in 1 .. MaxTexts
      /\ thinking # Idle => thinking[2] \in 1 .. MaxTexts
  BY CallAssumption, IndexType DEF TypeInv, TypeOK, TurnInv, Text
<1>1. CASE UNCHANGED <<answers, textTries, thinking>>
  BY <1>1 DEF ThinkOrder, Rising
<1>2. CASE UNCHANGED <<answers, textTries>> /\ thinking' = Idle
  BY <1>2 DEF ThinkOrder, Rising
<1>3. ASSUME NEW i \in DOMAIN texts, TakeText(i) PROVE ThinkOrder'
  <2>1. /\ textTries' = [textTries EXCEPT ![i] = @ + 1] /\ i \in 1 .. MaxTexts
        /\ thinking = Idle /\ answers' = answers /\ thinking' \in {Idle, <<"generating", i>>}
    BY <1>0, <1>3, IndexType DEF TakeText, Text
  <2>2. textTries'[i] <= 1
    BY <2>1 DEF Once, Text
  <2>3. textTries[i] = 0
    BY <1>0, <2>1, <2>2
  <2>4. \A j \in 1 .. MaxTexts : textTries[j] > 0 => j < i
    BY <1>0, <2>1, <2>3, FirstInTurn
  <2>5. \A j \in 1 .. MaxTexts : textTries'[j] > 0 <=> textTries[j] > 0 \/ j = i
    BY <1>0, <2>1, <2>3
  <2>6. \A a \in DOMAIN answers : textTries[answers[a]] > 0 /\ answers[a] < i
    BY <1>0, <2>4 DEF ThinkOrder
  <2>7. thinking' # Idle => thinking'[2] = i
    BY <2>1
  <2> QED
    BY <1>0, <2>1, <2>4, <2>5, <2>6, <2>7 DEF ThinkOrder, Rising, Text
<1>4. CASE Generate
  <2>1. /\ thinking # Idle /\ thinking'[2] = thinking[2] /\ UNCHANGED <<answers, textTries>>
    BY <1>4 DEF Generate, Idle
  <2> QED
    BY <2>1 DEF ThinkOrder, Rising
<1>5. CASE PublishAnswer
  <2>1. /\ thinking # Idle /\ answers' = Append(answers, thinking[2]) /\ thinking' = Idle
        /\ textTries' = textTries /\ answers \in Seq(Text) /\ thinking[2] \in Text
    BY <1>0, <1>5 DEF PublishAnswer, Idle, TypeOK, Text
  <2>2. /\ textTries[thinking[2]] > 0 /\ Rising(answers)
        /\ \A a \in DOMAIN answers : answers[a] < thinking[2] /\ textTries[answers[a]] > 0
    BY <2>1 DEF ThinkOrder
  <2>3. Below(Range(answers), {thinking[2]})
    BY <2>2 DEF Below, Range
  <2>4. Rising(Append(answers, thinking[2]))
    BY <2>1, <2>2, <2>3, RisingEnd
  <2>5. \A a \in DOMAIN answers' : \/ a \in DOMAIN answers /\ answers'[a] = answers[a]
                                   \/ answers'[a] = thinking[2]
    BY <2>1, QueueEnd
  <2>6. \A a \in DOMAIN answers' : textTries[answers'[a]] > 0
    BY <2>2, <2>5
  <2> QED
    BY <2>1, <2>4, <2>6 DEF ThinkOrder, Rising
<1>6. CASE GenerateFails \/ PublishAnswerFails \/ LlmCrash
  BY <1>2, <1>6 DEF GenerateFails, PublishAnswerFails, LlmCrash
<1>7. CASE UNCHANGED vars
  BY <1>1, <1>7 DEF vars
<1> QED
  BY <1>1, <1>3, <1>4, <1>5, <1>6, <1>7, CallLeaves, RelayLeaves, TextLeaves, TtsLeaves
  DEF Next, Llm

\* What was spoken stays so, and is older than what the handler takes.
LEMMA NextSpeak ==
  ASSUME TypeInv, TypeOK', TurnInv, SpeakOrder, Once', [Next]_vars
  PROVE  SpeakOrder' /\ \A x : Spoken(x) => Spoken(x)'
<1>0. /\ TypeOK /\ MaxTexts * MaxDeliver \in Nat /\ MaxDeliver \in Nat
      /\ Answer = 1 .. MaxTexts * MaxDeliver
      /\ answerTries \in [Answer -> 0 .. MaxDeliver] /\ InTurn(answers, answerTries)
      /\ DOMAIN answers \subseteq Answer
      /\ \A a \in DOMAIN answers : a \in DOMAIN answers' /\ answers'[a] = answers[a]
      /\ speaking # Idle => speaking[2] \in Answer
  BY CallAssumption, Bounds, IndexType, StreamsGrow DEF TypeInv, TypeOK, TurnInv, Answer
<1> HIDE DEF Answer
<1>1. CASE UNCHANGED answerTries /\ (speaking' = Idle \/ speaking' = speaking)
  <2>1. SpeakOrder'
    BY <1>1 DEF SpeakOrder
  <2>2. ASSUME NEW x, Spoken(x) PROVE Spoken(x)'
    BY <1>0, <1>1, <2>2 DEF Spoken
  <2> QED
    BY <2>1, <2>2
<1>2. CASE Synthesize
  <2>1. speaking # Idle /\ speaking'[2] = speaking[2] /\ answerTries' = answerTries
    BY <1>2 DEF Synthesize, Idle
  <2>2. SpeakOrder'
    BY <2>1 DEF SpeakOrder
  <2>3. ASSUME NEW x, Spoken(x) PROVE Spoken(x)'
    BY <1>0, <2>1, <2>3 DEF Spoken
  <2> QED
    BY <2>2, <2>3
<1>3. ASSUME NEW i \in DOMAIN answers, TakeAnswer(i)
      PROVE  SpeakOrder' /\ \A x : Spoken(x) => Spoken(x)'
  <2>1. /\ answerTries' = [answerTries EXCEPT ![i] = @ + 1] /\ i \in Answer
        /\ speaking = Idle /\ speaking' \in {Idle, <<"synthesizing", i>>}
    BY <1>0, <1>3 DEF TakeAnswer
  <2>2. answerTries'[i] <= 1
    BY <2>1 DEF Once
  <2>3. answerTries[i] = 0
    BY <1>0, <2>1, <2>2
  <2>4. \A j \in Answer : answerTries[j] > 0 => j < i
    BY <1>0, <2>1, <2>3, FirstInTurn
  <2>5. \A j \in Answer : answerTries'[j] > 0 <=> answerTries[j] > 0 \/ j = i
    BY <1>0, <2>1, <2>3
  <2>6. speaking' # Idle => speaking'[2] = i
    BY <2>1
  <2>7. SpeakOrder'
    BY <1>0, <2>1, <2>4, <2>5, <2>6 DEF SpeakOrder
  <2>8. ASSUME NEW x, Spoken(x) PROVE Spoken(x)'
    <3>1. PICK a \in DOMAIN answers : answers[a] = x /\ answerTries[a] > 0
      BY <2>8 DEF Spoken
    <3>2. a < i /\ answerTries'[a] > 0 /\ a \in DOMAIN answers' /\ answers'[a] = x
      BY <1>0, <2>4, <2>5, <3>1
    <3> QED
      BY <2>6, <3>2 DEF Spoken
  <2> QED
    BY <2>7, <2>8
<1>4. CASE SynthesizeFails \/ PublishAudio \/ PublishAudioFails
  BY <1>1, <1>4 DEF SynthesizeFails, PublishAudio, PublishAudioFails
<1>5. CASE UNCHANGED vars
  BY <1>1, <1>5 DEF vars
<1> QED
  BY <1>1, <1>2, <1>3, <1>4, <1>5, CallLeaves, RelayLeaves, TextLeaves, LlmLeaves DEF Next, Tts

LEMMA NextLine ==
  ASSUME TypeInv, TypeOK', TurnInv, ThinkOrder, SpeakOrder, LineOrder, Once', [Next]_vars
  PROVE  LineOrder'
<1> SUFFICES ASSUME NEW s \in Session
             PROVE  /\ Ordered(Written(s)', Queued(s)', Held(s)', inbox[s]')
                    /\ \A x \in OnWay(Written(s)', Queued(s)', Held(s)', inbox[s]') : Spoken(x)'
  BY DEF LineOrder
<1>1. /\ Written(s) \in Seq(Text) /\ Queued(s) \in Seq(Text)
      /\ Held(s) \in Seq(Text) /\ inbox[s] \in Seq(Text)
      /\ Ordered(Written(s), Queued(s), Held(s), inbox[s])
      /\ \A x \in OnWay(Written(s), Queued(s), Held(s), inbox[s]) : Spoken(x)
      /\ \A x : Spoken(x) => Spoken(x)'
  BY WayType, NextSpeak DEF TypeInv, LineOrder
<1>2. CASE Shifts(Written(s), Queued(s), Held(s), inbox[s],
                  Written(s)', Queued(s)', Held(s)', inbox[s]')
  <2>1. /\ Ordered(Written(s)', Queued(s)', Held(s)', inbox[s]')
        /\ OnWay(Written(s)', Queued(s)', Held(s)', inbox[s]')
             \subseteq OnWay(Written(s), Queued(s), Held(s), inbox[s])
    BY <1>1, <1>2, OrderedShifts
  <2> QED
    BY <1>1, <2>1
<1>3. CASE /\ PublishAudio /\ inbox[s]' = Append(inbox[s], answers[speaking[2]])
           /\ UNCHANGED <<Written(s), Queued(s), Held(s)>>
  <2>1. PICK a, t :
          /\ a = speaking[2] /\ t = answers[a] /\ a \in DOMAIN answers /\ t \in Text
          /\ speaking # Idle /\ speaking' = Idle
          /\ UNCHANGED <<answers, answerTries>>
    BY <1>3, AudioArrives
  <2>2. Spoken(t)'
    BY <2>1 DEF Spoken, SpeakOrder
  <2>3. ASSUME NEW x \in OnWay(Written(s), Queued(s), Held(s), inbox[s]) PROVE x < t
    <3>1. PICK b \in DOMAIN answers : answers[b] = x /\ b < a
      BY <1>1, <2>1, <2>3 DEF Spoken
    <3> QED
      BY <2>1, <3>1 DEF ThinkOrder, Rising
  <2>4. Below(OnWay(Written(s), Queued(s), Held(s), inbox[s]), {t})
    BY <2>3 DEF Below
  <2>5. /\ Ordered(Written(s), Queued(s), Held(s), Append(inbox[s], t))
        /\ OnWay(Written(s), Queued(s), Held(s), Append(inbox[s], t))
             \subseteq OnWay(Written(s), Queued(s), Held(s), inbox[s]) \cup {t}
    BY <1>1, <2>1, <2>4, OrderedArrives
  <2>6. \A x \in OnWay(Written(s), Queued(s), Held(s), Append(inbox[s], t)) : Spoken(x)'
    BY <1>1, <2>2, <2>5
  <2>7. inbox[s]' = Append(inbox[s], t)
    BY <1>3, <2>1
  <2> QED
    BY <1>3, <2>5, <2>6, <2>7
<1> QED
  BY <1>2, <1>3, NextMoves DEF Shifts

LEMMA OrderInvariant == Spec => []OrderInv
<1>1. Init => OrderInv
  <2>1. DOMAIN <<>> = {} /\ Idle[1] = "idle"
    BY DEF Idle
  <2>2. Init => TurnInv /\ ThinkOrder /\ SpeakOrder
    BY <2>1 DEF Init, TurnInv, InTurn, ThinkOrder, SpeakOrder, Rising
  <2>3. ASSUME Init, NEW s \in Session
        PROVE  /\ Written(s) = <<>> /\ Queued(s) = <<>> /\ Held(s) = <<>> /\ inbox[s] = <<>>
    BY <2>3, TextsOfParts DEF Init, Written, Queued, Held
  <2>4. Ordered(<<>>, <<>>, <<>>, <<>>) /\ OnWay(<<>>, <<>>, <<>>, <<>>) = {}
    BY RisingEmpty DEF Ordered, OnWay, Below
  <2>5. Init => LineOrder
    BY <2>3, <2>4 DEF LineOrder
  <2> QED
    BY <2>2, <2>5 DEF OrderInv
<1>2. TypeInv /\ TypeInv' /\ OrderInv /\ [Next]_vars => OrderInv'
  <2> SUFFICES ASSUME TypeInv, TypeInv', OrderInv, [Next]_vars PROVE OrderInv'
    OBVIOUS
  <2>1. TypeOK' /\ TurnInv
    BY DEF TypeInv, OrderInv
  <2>2. TurnInv'
    BY <2>1, TextsInTurn, AnswersInTurn DEF TurnInv
  <2>3. ASSUME Once' PROVE ThinkOrder' /\ SpeakOrder' /\ LineOrder'
    <3>1. ThinkOrder /\ SpeakOrder /\ LineOrder
      BY <2>1, <2>3, OnceBefore DEF OrderInv
    <3> QED
      BY <2>1, <2>3, <3>1, NextThink, NextSpeak, NextLine
  <2> QED
    BY <2>2, <2>3 DEF OrderInv
<1> QED
  BY <1>1, <1>2, TypeInvariant, PTL DEF Spec

\* As long as nothing is delivered twice, the caller hears the answers in the order the
\* transcriptions were published, each once: the two handlers take the events of their
\* queues in turn, and the subscription, the hand of the relay task and the channel keep
\* what they hold in order, in a line.
THEOREM AnswersComeInOrder == Spec => []AnswersInOrder
<1>1. TypeInv /\ OrderInv => AnswersInOrder
  <2> SUFFICES ASSUME TypeInv, OrderInv, Once, NEW s \in Session,
                      NEW i \in DOMAIN sent[s], NEW j \in DOMAIN sent[s], i < j
               PROVE  sent[s][i].text < sent[s][j].text
    BY DEF AnswersInOrder, Once
  <2>1. sent[s] \in Seq(Message) /\ Rising(Written(s))
    BY DEF TypeInv, TypeOK, OrderInv, LineOrder, Ordered
  <2>2. /\ DOMAIN Written(s) = DOMAIN sent[s]
        /\ \A k \in DOMAIN sent[s] : Written(s)[k] = sent[s][k].text
    BY DEF Written, TextsOf
  <2> QED
    BY <2>1, <2>2 DEF Rising
<1> QED
  BY <1>1, TypeInvariant, OrderInvariant, PTL

=============================================================================
